------------------------------- MODULE Listing ------------------------------
(***************************************************************************)
(* list_flags and list_evaluation_receipts: pages of the rows of an        *)
(* organization, in the order of their row_seq, read while rows are added  *)
(* and flags are archived (crates/lenso-feature-flag-core/src/lib.rs and   *)
(* both stores).                                                           *)
(*                                                                         *)
(* The stores differ in when a row takes its row_seq.  D1 numbers it in    *)
(* the batch that makes it visible.  Postgres draws it from a sequence     *)
(* when it is inserted, and it becomes visible when its transaction        *)
(* commits, in any order with others.  Rows that the filters of a listing  *)
(* never match only leave gaps in the numbers.                             *)
(***************************************************************************)
EXTENDS Integers, FiniteSets

CONSTANTS
    Transactions,      \* concurrent transactions of the Postgres store
    Pagers,            \* clients that follow next_cursor
    MaxLimit,          \* 200 in the code
    MaxSeq             \* bound on the numbers drawn

ASSUME LimitAssumption == MaxLimit \in Nat \ {0}

VARIABLES
    next,              \* the next row_seq
    open,              \* what each transaction has inserted and not committed
    rows,              \* the visible rows that match, by row_seq
    pager              \* what each client has listed, and its cursor

vars == <<next, open, rows, pager>>

-----------------------------------------------------------------------------

\* Auxiliary are: how many rows were delivered, the rows there were when the
\* first page was read, and those inserted but not committed when some page
\* was.  A cursor of 0 is none: every row_seq is positive.
PagerState ==
    [status: {"new", "listing", "complete"}, after: Nat,
     listed: SUBSET Nat, delivered: Nat,
     initial: SUBSET Nat, passed: SUBSET Nat]

NewPager ==
    [status |-> "new", after |-> 0, listed |-> {}, delivered |-> 0,
     initial |-> {}, passed |-> {}]

TypeOK ==
    /\ next \in Nat
    /\ open \in [Transactions -> SUBSET Nat]
    /\ rows \subseteq Nat
    /\ pager \in [Pagers -> PagerState]

Init ==
    /\ next = 1
    /\ open = [t \in Transactions |-> {}]
    /\ rows = {}
    /\ pager = [p \in Pagers |-> NewPager]

-----------------------------------------------------------------------------
(* Pages.                                                                  *)

Beyond(after) == {seq \in rows : after < seq}

\* A mistake to detect: the row at the cursor is selected again.
SelectedFrom(after, n) ==
    {page \in SUBSET {seq \in rows : after =< seq} :
        /\ \A seq \in page, other \in Beyond(after) \ page : seq < other
        /\ Cardinality(page) =< n
        /\ page = Beyond(after) \/ Cardinality(page) = n}

\* What SELECT ... WHERE row_seq > after ORDER BY row_seq LIMIT n returns, at one
\* instant.
Selected(after, n) ==
    {page \in SUBSET Beyond(after) :
        /\ \A seq \in page, other \in Beyond(after) \ page : seq < other
        /\ Cardinality(page) =< n
        /\ page = Beyond(after) \/ Cardinality(page) = n}

Uncommitted == UNION {open[t] : t \in Transactions}

Deliver(p, status, after, page) ==
    /\ pager' = [pager EXCEPT ![p] =
         [status    |-> status,
          after     |-> after,
          listed    |-> @.listed \union page,
          delivered |-> @.delivered + Cardinality(page),
          initial   |-> IF @.status = "new" THEN rows ELSE @.initial,
          passed    |-> @.passed \union Uncommitted]]
    /\ UNCHANGED <<next, open, rows>>

IsLast(seq, page) == seq \in page /\ \A other \in page : other =< seq

\* Mistakes to detect: no extra row is fetched, and the cursor is the row that
\* is dropped.
PageWithoutExtra(p, limit) ==
    /\ pager[p].status # "complete"
    /\ \E fetched \in Selected(pager[p].after, limit) :
         \/ /\ Cardinality(fetched) =< limit
            /\ Deliver(p, "complete", pager[p].after, fetched)
         \/ /\ Cardinality(fetched) > limit
            /\ \E extra, last \in fetched :
                 /\ IsLast(extra, fetched)
                 /\ IsLast(last, fetched \ {extra})
                 /\ Deliver(p, "listing", last, fetched \ {extra})

PageBehindExtra(p, limit) ==
    /\ pager[p].status # "complete"
    /\ \E fetched \in Selected(pager[p].after, limit + 1) :
         \/ /\ Cardinality(fetched) =< limit
            /\ Deliver(p, "complete", pager[p].after, fetched)
         \/ /\ Cardinality(fetched) > limit
            /\ \E extra \in fetched :
                 /\ IsLast(extra, fetched)
                 /\ Deliver(p, "listing", extra, fetched \ {extra})

\* One row more than the limit is fetched.  If it is there it is dropped and the
\* last row kept is the cursor; if not, the listing is complete.
Page(p, limit) ==
    /\ pager[p].status # "complete"
    /\ \E fetched \in Selected(pager[p].after, limit + 1) :
         \/ /\ Cardinality(fetched) =< limit
            /\ Deliver(p, "complete", pager[p].after, fetched)
         \/ /\ Cardinality(fetched) > limit
            /\ \E extra, last \in fetched :
                 /\ IsLast(extra, fetched)
                 /\ IsLast(last, fetched \ {extra})
                 /\ Deliver(p, "listing", last, fetched \ {extra})

\* The client lists again from the start.
StartOver(p) ==
    /\ pager[p].status = "complete"
    /\ pager' = [pager EXCEPT ![p] = NewPager]
    /\ UNCHANGED <<next, open, rows>>

-----------------------------------------------------------------------------
(* Rows.                                                                   *)

\* A flag is archived, in a listing without archived flags.
Archive(seq) ==
    /\ rows' = rows \ {seq}
    /\ UNCHANGED <<next, open, pager>>

\* A mistake to detect: the epoch of an old snapshot is used without the guard.
CommitStaleNumbered(first, last) ==
    /\ last =< MaxSeq
    /\ \E stale \in 1 .. first :
         rows' = rows \union stale .. (stale + last - first)
    /\ next' = last + 1
    /\ UNCHANGED <<open, pager>>

\* D1: a batch numbers its rows as it commits, a flag with the epoch, which
\* every command advances, and receipts by AUTOINCREMENT.
CommitNumbered(first, last) ==
    /\ last =< MaxSeq
    /\ rows' = rows \union first .. last
    /\ next' = last + 1
    /\ UNCHANGED <<open, pager>>

\* Postgres: an INSERT of a transaction draws a number, its COMMIT shows the row.
Insert(t) ==
    /\ next =< MaxSeq
    /\ open' = [open EXCEPT ![t] = @ \union {next}]
    /\ next' = next + 1
    /\ UNCHANGED <<rows, pager>>

CommitInserted(t) ==
    /\ rows' = rows \union open[t]
    /\ open' = [open EXCEPT ![t] = {}]
    /\ UNCHANGED <<next, pager>>

RollBack(t) ==
    /\ open' = [open EXCEPT ![t] = {}]
    /\ UNCHANGED <<next, rows, pager>>

Read ==
    \/ \E p \in Pagers, limit \in 1 .. MaxLimit : Page(p, limit)
    \/ \E p \in Pagers : StartOver(p)
    \/ \E seq \in rows : Archive(seq)

D1Next ==
    \/ Read
    \/ \E first \in next .. MaxSeq : \E last \in first .. MaxSeq :
         CommitNumbered(first, last)

PostgresNext ==
    \/ Read
    \/ \E t \in Transactions : Insert(t) \/ CommitInserted(t) \/ RollBack(t)

D1Spec == Init /\ [][D1Next]_vars

PostgresSpec == Init /\ [][PostgresNext]_vars

-----------------------------------------------------------------------------
(* What a client that follows the cursors can rely on.                     *)

\* No row is delivered twice, whatever is added or archived between the pages
\* and whatever limits the client asks for.
NoRowTwice ==
    \A p \in Pagers : pager[p].delivered = Cardinality(pager[p].listed)

\* A complete listing has every row that was there when it began and was not
\* archived since: a cursor never steps over a row that could be seen.
InitialRowsListed ==
    \A p \in Pagers :
        pager[p].status = "complete" =>
            pager[p].initial \intersect rows \subseteq pager[p].listed

\* The rows a client will never see though it was given later ones.
Skipped(p) ==
    {seq \in rows \ pager[p].listed :
        \E other \in pager[p].listed : seq < other}

\* D1: a listing has no holes, so a client that goes on from its last cursor
\* misses no receipt and no flag.
NothingSkipped == \A p \in Pagers : Skipped(p) = {}

\* Postgres has no such order between drawing a number and showing the row; what
\* a listing skips is only what another transaction had inserted and not yet
\* committed when a page was read.
SkippedWereOpen == \A p \in Pagers : Skipped(p) \subseteq pager[p].passed

=============================================================================
