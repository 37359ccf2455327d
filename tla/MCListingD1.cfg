SPECIFICATION D1Spec
CONSTANTS
    Transactions = {t1, t2}
    Pagers = {p1}
    MaxLimit = 2
    MaxSeq = 6
INVARIANTS
    NothingSkipped
