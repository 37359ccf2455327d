SPECIFICATION PostgresSpec
CONSTANTS
    Transactions = {t1, t2}
    Pagers = {p1}
    MaxLimit = 2
    MaxSeq = 5
INVARIANTS
    NoRowTwice
    InitialRowsListed
    SkippedWereOpen
