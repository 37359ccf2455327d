---------------------------- MODULE ListingProofs ---------------------------
(***************************************************************************)
(* What a client that follows cursors can rely on, for any number of       *)
(* clients and transactions, any limits and any length of the listing.     *)
(*                                                                         *)
(* One invariant serves both stores.  A row number is drawn once: it is    *)
(* either open in one transaction or visible, or gone.  Below its cursor a *)
(* client has listed every visible row, except those that were open when   *)
(* it read a page; on D1 no row is ever open, so there are no exceptions.  *)
(***************************************************************************)
EXTENDS Listing, FiniteSetTheorems, TLAPS

\* Both stores at once.
AnyNext == D1Next \/ PostgresNext

Drawn == 1 .. (next - 1)

\* Every number is drawn once.
NumbersFresh ==
    /\ next \in Nat \ {0}
    /\ rows \subseteq Drawn
    /\ open \in [Transactions -> SUBSET Nat]
    /\ \A t \in Transactions :
         /\ open[t] \subseteq Drawn
         /\ open[t] \intersect rows = {}
         /\ \A u \in Transactions : t # u => open[t] \intersect open[u] = {}

Reached(s, seq) == seq =< s.after \/ \E other \in s.listed : seq < other

\* What is known of one client.
PagerSound(s) ==
    /\ s \in PagerState
    /\ s.listed \subseteq Drawn
    /\ s.after < next
    /\ s.initial \subseteq Drawn
    /\ \A t \in Transactions : s.initial \intersect open[t] = {}
    /\ s.delivered = Cardinality(s.listed)
    /\ s.status # "complete" => \A seq \in s.listed : seq =< s.after
    /\ s.status = "new" => s.listed = {} /\ s.after = 0
    /\ s.status # "new" =>
         \A seq \in s.initial \intersect rows :
             s.status = "complete" \/ Reached(s, seq) => seq \in s.listed
    /\ \A seq \in (rows \union Uncommitted) \ s.listed :
         Reached(s, seq) => seq \in s.passed

\* The inductive invariant.
ListingInvariant ==
    /\ NumbersFresh
    /\ pager \in [Pagers -> PagerState]
    /\ \A p \in Pagers : PagerSound(pager[p])

\* What D1 adds to it.
NothingOpen ==
    /\ \A t \in Transactions : open[t] = {}
    /\ \A p \in Pagers : pager[p].passed = {}

-----------------------------------------------------------------------------
(* Pages.                                                                  *)

\* What was drawn stays drawn.
LEMMA LaterDrawn ==
    ASSUME NEW m \in Nat \ {0}, NEW n \in Nat \ {0}, m =< n, NEW seq \in 1 .. (m - 1)
    PROVE  seq \in Nat /\ 0 < seq /\ seq < m /\ seq \in 1 .. (n - 1)
OBVIOUS

\* Any set of drawn numbers is finite.
LEMMA DrawnFinite ==
    ASSUME next \in Nat \ {0}, NEW S, S \subseteq Drawn
    PROVE  /\ IsFiniteSet(S)
           /\ Cardinality(S) \in Nat
<1>1. IsFiniteSet(Drawn)
  BY FS_Interval DEF Drawn
<1>2. IsFiniteSet(S)
  BY <1>1, FS_Subset
<1> QED
  BY <1>2, FS_CardinalityType

\* What a page holds: everything beyond the cursor if the listing is complete
\* then, else an initial part of it that ends with the new cursor.
LEMMA PageHolds ==
    ASSUME NumbersFresh, NEW p \in Pagers, pager[p].after \in Nat,
           NEW limit \in 1 .. MaxLimit, Page(p, limit)
    PROVE  \/ Deliver(p, "complete", pager[p].after, Beyond(pager[p].after))
           \/ \E page \in SUBSET Beyond(pager[p].after) : \E last \in page :
                /\ \A seq \in page : seq =< last
                /\ \A seq \in Beyond(pager[p].after) \ page : last < seq
                /\ Deliver(p, "listing", last, page)
<1> DEFINE beyond == Beyond(pager[p].after)
<1>1. limit \in Nat
  BY LimitAssumption
<1>2. PICK fetched \in Selected(pager[p].after, limit + 1) :
         \/ /\ Cardinality(fetched) =< limit
            /\ Deliver(p, "complete", pager[p].after, fetched)
         \/ /\ Cardinality(fetched) > limit
            /\ \E extra, last \in fetched :
                 /\ IsLast(extra, fetched)
                 /\ IsLast(last, fetched \ {extra})
                 /\ Deliver(p, "listing", last, fetched \ {extra})
  BY DEF Page
<1>3. /\ fetched \in SUBSET beyond
      /\ \A seq \in fetched, other \in beyond \ fetched : seq < other
      /\ fetched = beyond \/ Cardinality(fetched) = limit + 1
  BY <1>2 DEF Selected
<1>4. /\ Cardinality(fetched) \in Nat
      /\ \A seq \in beyond : seq \in Nat
  <2>1. beyond \subseteq Drawn /\ next \in Nat \ {0}
    BY DEF NumbersFresh, Beyond
  <2>2. fetched \subseteq Drawn
    BY <1>3, <2>1
  <2>3. Cardinality(fetched) \in Nat
    BY <2>1, <2>2, DrawnFinite
  <2> QED
    BY <2>1, <2>3 DEF Drawn
<1>5. CASE Cardinality(fetched) =< limit
  BY <1>1, <1>2, <1>3, <1>4, <1>5
<1>6. CASE Cardinality(fetched) > limit
  <2>1. PICK extra \in fetched, last \in fetched :
          /\ IsLast(extra, fetched)
          /\ IsLast(last, fetched \ {extra})
          /\ Deliver(p, "listing", last, fetched \ {extra})
    <3>1. ~(Cardinality(fetched) =< limit)
      BY <1>1, <1>4, <1>6
    <3> QED
      BY <1>2, <3>1
  <2> DEFINE page == fetched \ {extra}
  <2>2. page \in SUBSET beyond /\ last \in page /\ \A seq \in page : seq =< last
    BY <1>3, <2>1 DEF IsLast
  <2>3. ASSUME NEW seq \in beyond \ page PROVE last < seq
    <3>1. CASE seq = extra
      BY <1>3, <1>4, <2>1, <2>2, <3>1 DEF IsLast
    <3>2. CASE seq \notin fetched
      BY <1>3, <2>2, <3>2
    <3> QED
      BY <3>1, <3>2
  <2> QED
    BY <2>1, <2>2, <2>3
<1> QED
  BY <1>1, <1>4, <1>5, <1>6

\* What is open was drawn.
LEMMA UncommittedDrawn ==
    ASSUME NumbersFresh
    PROVE  /\ Uncommitted \subseteq Drawn
           /\ \A seq : seq \in Uncommitted <=>
                         \E t \in Transactions : seq \in open[t]
<1>1. \A seq : seq \in Uncommitted <=> \E t \in Transactions : seq \in open[t]
  BY Zenon DEF Uncommitted
<1> QED
  BY <1>1 DEF NumbersFresh

\* Delivering such a page keeps what is known of a client.
LEMMA DeliveryKeeps ==
    ASSUME NumbersFresh, NEW s, PagerSound(s), s.status # "complete",
           NEW page \in SUBSET Beyond(s.after), NEW last, NEW status,
           \/ status = "complete" /\ page = Beyond(s.after) /\ last = s.after
           \/ /\ status = "listing"
              /\ last \in page
              /\ \A seq \in page : seq =< last
              /\ \A seq \in Beyond(s.after) \ page : last < seq
    PROVE  PagerSound([status    |-> status,
                       after     |-> last,
                       listed    |-> s.listed \union page,
                       delivered |-> s.delivered + Cardinality(page),
                       initial   |-> IF s.status = "new" THEN rows ELSE s.initial,
                       passed    |-> s.passed \union Uncommitted])
<1> DEFINE new == [status    |-> status,
                   after     |-> last,
                   listed    |-> s.listed \union page,
                   delivered |-> s.delivered + Cardinality(page),
                   initial   |-> IF s.status = "new" THEN rows ELSE s.initial,
                   passed    |-> s.passed \union Uncommitted]
<1> SUFFICES PagerSound(new)
  OBVIOUS
<1>1. /\ s.after \in Nat /\ s.listed \subseteq Drawn /\ s.passed \subseteq Nat
      /\ s.initial \subseteq Drawn /\ s.delivered = Cardinality(s.listed)
      /\ s.after < next /\ next \in Nat \ {0}
      /\ \A seq \in s.listed : seq =< s.after
  BY DEF PagerSound, PagerState, NumbersFresh
<1>2. /\ page \subseteq rows /\ rows \subseteq Drawn
      /\ \A seq \in page : s.after < seq
      /\ \A seq \in Drawn : seq \in Nat /\ 0 < seq /\ seq < next
  <2>1. page \subseteq rows /\ rows \subseteq Drawn /\ \A seq \in page : s.after < seq
    BY DEF Beyond, NumbersFresh
  <2>2. \A seq \in Drawn : seq \in Nat /\ 0 < seq /\ seq < next
    BY <1>1 DEF Drawn
  <2> QED
    BY <2>1, <2>2
<1>3. last \in Nat /\ last < next /\ s.after =< last
  <2>1. CASE last = s.after
    BY <1>1, <2>1
  <2>2. CASE last \in page
    <3>1. last \in Drawn /\ s.after < last
      BY <1>2, <2>2
    <3> QED
      BY <1>1, <1>2, <3>1
  <2> QED
    BY <2>1, <2>2
<1>4. /\ Cardinality(s.listed \union page) = s.delivered + Cardinality(page)
      /\ s.delivered + Cardinality(page) \in Nat
  <2>1. /\ IsFiniteSet(s.listed) /\ Cardinality(s.listed) \in Nat
        /\ IsFiniteSet(page) /\ Cardinality(page) \in Nat
    <3>1. page \subseteq Drawn
      BY <1>2
    <3> QED
      BY <1>1, <3>1, DrawnFinite
  <2>2. s.listed \intersect page = {}
    <3> SUFFICES ASSUME NEW seq \in s.listed, seq \in page PROVE FALSE
      OBVIOUS
    <3> QED
      BY <1>1, <1>2
  <2>3. Cardinality({}) = 0
    BY FS_EmptySet
  <2>4. Cardinality(s.listed \union page) =
          Cardinality(s.listed) + Cardinality(page) - Cardinality({})
    BY <2>1, <2>2, FS_Union
  <2> QED
    BY <1>1, <2>1, <2>3, <2>4
<1>5. /\ new.status = status /\ new.after = last
      /\ new.listed = s.listed \union page
      /\ new.delivered = s.delivered + Cardinality(page)
      /\ new.initial = IF s.status = "new" THEN rows ELSE s.initial
      /\ new.passed = s.passed \union Uncommitted
      /\ status \in {"listing", "complete"}
  OBVIOUS
<1>6. new \in PagerState
  <2>1. new.listed \subseteq Nat /\ new.initial \subseteq Nat
    BY <1>1, <1>2, <1>5
  <2>2. new.passed \subseteq Nat
    BY <1>1, <1>2, <1>5, UncommittedDrawn
  <2> QED
    BY <1>3, <1>4, <1>5, <2>1, <2>2 DEF PagerState
<1> HIDE DEF new
<1>7. /\ new.listed \subseteq Drawn
      /\ new.initial \subseteq Drawn
      /\ \A t \in Transactions : new.initial \intersect open[t] = {}
  BY <1>1, <1>2, <1>5 DEF PagerSound, NumbersFresh
<1>8. ASSUME new.status # "complete", NEW seq \in new.listed
      PROVE  seq =< new.after
  <2>1. CASE seq \in page
    BY <1>5, <1>8, <2>1
  <2>2. CASE seq \in s.listed
    <3>1. seq \in Nat /\ seq =< s.after
      BY <1>1, <1>2, <2>2
    <3> QED
      BY <1>1, <1>3, <1>5, <3>1
  <2> QED
    BY <1>5, <1>8, <2>1, <2>2
<1>9. ASSUME NEW seq \in rows \ new.listed
      PROVE  /\ seq =< s.after \/ status # "complete"
             /\ Reached(new, seq) => Reached(s, seq)
  <2>1. seq \in Nat
    BY <1>2
  <2>2. CASE seq =< s.after
    BY <2>2 DEF Reached
  <2>3. CASE s.after < seq
    <3>1. seq \in Beyond(s.after) \ page
      BY <1>5, <1>9, <2>3 DEF Beyond
    <3>2. status # "complete" /\ last < seq
      BY <3>1
    <3>3. ASSUME NEW other \in new.listed PROVE ~(seq < other)
      <4>1. other =< last /\ other \in Nat
        <5>1. new.listed \subseteq Drawn
          BY <1>7
        <5> QED
          BY <1>2, <1>5, <1>8, <3>2, <5>1
      <4> QED
        BY <1>3, <2>1, <3>2, <4>1
    <3>4. ~(seq =< new.after)
      BY <1>3, <1>5, <2>1, <3>2
    <3> QED
      BY <3>2, <3>3, <3>4 DEF Reached
  <2> QED
    BY <1>1, <2>1, <2>2, <2>3
<1>10. ASSUME NEW seq \in new.initial \intersect rows,
              new.status = "complete" \/ Reached(new, seq)
       PROVE  seq \in new.listed
  <2> SUFFICES ASSUME seq \notin new.listed PROVE FALSE
    OBVIOUS
  <2>1. Reached(s, seq)
    BY <1>5, <1>9, <1>10 DEF Reached
  <2>2. CASE s.status = "new"
    <3>1. s.listed = {} /\ s.after = 0
      BY <2>2 DEF PagerSound
    <3>2. seq \in Nat /\ 0 < seq
      BY <1>2
    <3> QED
      BY <2>1, <3>1, <3>2 DEF Reached
  <2>3. CASE s.status # "new"
    BY <1>5, <2>1, <2>3 DEF PagerSound
  <2> QED
    BY <2>2, <2>3
<1>11. ASSUME NEW seq \in (rows \union Uncommitted) \ new.listed,
              Reached(new, seq)
       PROVE  seq \in new.passed
  BY <1>5, <1>9, <1>11 DEF PagerSound
<1> QED
  BY <1>3, <1>4, <1>5, <1>6, <1>7, <1>8, <1>10, <1>11 DEF PagerSound

-----------------------------------------------------------------------------
(* The invariant is inductive.                                             *)

LEMMA InvariantInitially == Init => ListingInvariant
<1> SUFFICES ASSUME Init PROVE ListingInvariant
  OBVIOUS
<1>1. NumbersFresh
  BY DEF Init, NumbersFresh, Drawn
<1>2. \A seq : seq \notin Uncommitted
  BY <1>1, UncommittedDrawn DEF Init
<1>3. Cardinality({}) = 0
  BY FS_EmptySet
<1>4. ASSUME NEW p \in Pagers PROVE PagerSound(pager[p])
  BY <1>2, <1>3 DEF Init, NewPager, PagerSound, PagerState
<1>5. pager \in [Pagers -> PagerState]
  BY DEF Init, NewPager, PagerState
<1> QED
  BY <1>1, <1>4, <1>5 DEF ListingInvariant

\* A step that only adds fresh numbers, removes rows or shows what was open, and
\* leaves the clients alone, keeps what is known of them.
LEMMA RowsKeepPagers ==
    ASSUME ListingInvariant, NumbersFresh', UNCHANGED pager,
           next =< next',
           \A seq \in rows' \union Uncommitted' :
               \/ seq \in rows \union Uncommitted
               \/ seq \in Nat /\ next =< seq,
           \A t \in Transactions : \A seq \in open'[t] :
               seq \in open[t] \/ next =< seq,
           \A seq \in rows' :
               seq \in rows \/ seq \in Uncommitted \/ next =< seq
    PROVE  ListingInvariant'
<1>1. ASSUME NEW p \in Pagers PROVE PagerSound(pager[p])'
  <2> DEFINE s == pager[p]
  <2>1. PagerSound(s) /\ s' = s /\ next \in Nat \ {0} /\ next' \in Nat \ {0}
    BY DEF ListingInvariant, NumbersFresh
  <2>2. /\ s \in PagerState /\ s.after \in Nat
        /\ s.after < next'
        /\ \A seq \in Drawn : seq \in Nat /\ seq < next /\ seq \in Drawn'
    <3>1. s \in PagerState /\ s.after \in Nat /\ s.after < next
      BY <2>1 DEF PagerSound, PagerState
    <3>2. s.after < next'
      BY <2>1, <3>1
    <3>3. \A seq \in Drawn : seq \in Nat /\ seq < next /\ seq \in Drawn'
      BY <2>1, LaterDrawn DEF Drawn
    <3> QED
      BY <3>1, <3>2, <3>3
  <2>3. /\ s.listed \subseteq Drawn'
        /\ s.initial \subseteq Drawn'
    BY <2>1, <2>2 DEF PagerSound
  <2>4. ASSUME NEW t \in Transactions, NEW seq \in s.initial PROVE seq \notin open'[t]
    <3>1. seq \in Drawn /\ seq \notin open[t]
      BY <2>1 DEF PagerSound
    <3> QED
      BY <2>1, <2>2, <3>1
  <2>5. ASSUME NEW seq \in s.initial \intersect rows' PROVE seq \in rows
    <3>1. seq \in Drawn /\ seq \notin Uncommitted
      BY <2>1, UncommittedDrawn DEF PagerSound, ListingInvariant
    <3> QED
      BY <2>1, <2>2, <3>1
  <2>6. ASSUME NEW seq, seq \in Nat, next =< seq PROVE ~Reached(s, seq)
    <3>1. ~(seq =< s.after)
      BY <2>1, <2>2, <2>6 DEF PagerSound
    <3>2. ASSUME NEW other \in s.listed PROVE ~(seq < other)
      <4>1. other \in Nat /\ other < next
        BY <2>1, <2>2 DEF PagerSound
      <4> QED
        BY <2>1, <2>6, <4>1
    <3> QED
      BY <3>1, <3>2 DEF Reached
  <2>7. ASSUME NEW seq \in (rows' \union Uncommitted') \ s.listed, Reached(s, seq)
        PROVE  seq \in s.passed
    <3>1. seq \in rows \union Uncommitted
      BY <2>6, <2>7
    <3> QED
      BY <2>1, <2>7, <3>1 DEF PagerSound
  <2> HIDE DEF s
  <2>8. PagerSound(s)'
    BY <2>1, <2>2, <2>3, <2>4, <2>5, <2>7 DEF PagerSound, Reached
  <2> QED
    BY <2>8 DEF s
<1> QED
  BY <1>1 DEF ListingInvariant

LEMMA PageKeeps ==
    ASSUME ListingInvariant, NEW p \in Pagers, NEW limit \in 1 .. MaxLimit,
           Page(p, limit)
    PROVE  ListingInvariant'
<1> DEFINE s == pager[p]
<1>1. PagerSound(s) /\ NumbersFresh /\ s.after \in Nat /\ s.status # "complete"
  BY DEF ListingInvariant, PagerSound, PagerState, Page
<1>2. PICK page \in SUBSET Beyond(s.after),
           last \in Beyond(s.after) \union {s.after},
           status \in {"complete", "listing"} :
        /\ Deliver(p, status, last, page)
        /\ \/ status = "complete" /\ page = Beyond(s.after) /\ last = s.after
           \/ /\ status = "listing"
              /\ last \in page
              /\ \A seq \in page : seq =< last
              /\ \A seq \in Beyond(s.after) \ page : last < seq
  BY <1>1, PageHolds
<1> DEFINE new == [status    |-> status,
                   after     |-> last,
                   listed    |-> s.listed \union page,
                   delivered |-> s.delivered + Cardinality(page),
                   initial   |-> IF s.status = "new" THEN rows ELSE s.initial,
                   passed    |-> s.passed \union Uncommitted]
<1>3. PagerSound(new)
  BY <1>1, <1>2, DeliveryKeeps
<1>4. pager' = [pager EXCEPT ![p] = new] /\ UNCHANGED <<next, open, rows>>
  BY <1>2 DEF Deliver
<1> HIDE DEF new, s
<1>5. ASSUME NEW q \in Pagers PROVE pager'[q] = new \/ pager'[q] = pager[q]
  BY <1>4 DEF ListingInvariant
<1>6. ASSUME NEW q \in Pagers PROVE PagerSound(pager'[q])
  BY <1>3, <1>5 DEF ListingInvariant
<1>7. ASSUME NEW q \in Pagers PROVE PagerSound(pager[q])'
  BY <1>4, <1>6 DEF PagerSound, Reached, Drawn, Uncommitted
<1>8. NumbersFresh'
  BY <1>1, <1>4 DEF NumbersFresh, Drawn
<1>9. pager' \in [Pagers -> PagerState]
  BY <1>3, <1>4 DEF ListingInvariant, PagerSound
<1> QED
  BY <1>7, <1>8, <1>9 DEF ListingInvariant

\* A client that starts over knows nothing.
LEMMA StartOverKeeps ==
    ASSUME ListingInvariant, NEW p \in Pagers, StartOver(p)
    PROVE  ListingInvariant'
<1>1. NumbersFresh /\ next \in Nat \ {0}
  BY DEF ListingInvariant, NumbersFresh
<1>2. \A seq \in rows \union Uncommitted : ~Reached(NewPager, seq)
  <2>1. \A seq \in rows \union Uncommitted : seq \in Nat /\ 0 < seq
    <3>1. \A seq \in rows \union Uncommitted : seq \in Drawn
      BY <1>1, UncommittedDrawn DEF NumbersFresh
    <3>2. \A seq \in Drawn : seq \in Nat /\ 0 < seq
      BY <1>1 DEF Drawn
    <3> QED
      BY <3>1, <3>2
  <2> QED
    BY <2>1 DEF Reached, NewPager
<1>3. PagerSound(NewPager)
  <2>1. Cardinality({}) = 0
    BY FS_EmptySet
  <2> QED
    BY <1>1, <1>2, <2>1 DEF PagerSound, NewPager, PagerState
<1>4. pager' = [pager EXCEPT ![p] = NewPager] /\ UNCHANGED <<next, open, rows>>
  BY DEF StartOver
<1>5. ASSUME NEW q \in Pagers PROVE PagerSound(pager'[q])
  BY <1>3, <1>4 DEF ListingInvariant
<1>6. ASSUME NEW q \in Pagers PROVE PagerSound(pager[q])'
  BY <1>4, <1>5 DEF PagerSound, Reached, Drawn, Uncommitted
<1>7. NumbersFresh'
  BY <1>1, <1>4 DEF NumbersFresh, Drawn
<1>8. pager' \in [Pagers -> PagerState]
  BY <1>3, <1>4 DEF ListingInvariant, PagerSound
<1> QED
  BY <1>6, <1>7, <1>8 DEF ListingInvariant

LEMMA ArchiveKeeps ==
    ASSUME ListingInvariant, NEW seq \in rows, Archive(seq)
    PROVE  ListingInvariant'
<1>1. NumbersFresh /\ next \in Nat
  BY DEF ListingInvariant, NumbersFresh
<1>2. rows' = rows \ {seq} /\ UNCHANGED <<next, open, pager>>
  BY DEF Archive
<1>3. NumbersFresh'
  BY <1>1, <1>2 DEF NumbersFresh, Drawn
<1>4. Uncommitted' = Uncommitted
  BY <1>2 DEF Uncommitted
<1> QED
  BY <1>1, <1>2, <1>3, <1>4, RowsKeepPagers

LEMMA CommitNumberedKeeps ==
    ASSUME ListingInvariant, NEW first \in next .. MaxSeq,
           NEW last \in first .. MaxSeq, CommitNumbered(first, last)
    PROVE  ListingInvariant'
<1>1. NumbersFresh /\ next \in Nat \ {0}
  BY DEF ListingInvariant, NumbersFresh
<1>2. /\ rows' = rows \union first .. last
      /\ next' = last + 1
      /\ UNCHANGED <<open, pager>>
  BY DEF CommitNumbered
<1>3. /\ first \in Int /\ last \in Int /\ next =< first /\ first =< last
      /\ \A seq \in first .. last : seq \in Nat /\ next =< seq
  BY <1>1
<1>4. /\ Drawn \subseteq Drawn'
      /\ first .. last \subseteq Drawn'
      /\ Drawn \intersect first .. last = {}
      /\ next' \in Nat \ {0} /\ next =< next'
  BY <1>1, <1>2, <1>3 DEF Drawn
<1>5. NumbersFresh'
  BY <1>1, <1>2, <1>4 DEF NumbersFresh
<1>6. Uncommitted' = Uncommitted
  BY <1>2 DEF Uncommitted
<1> QED
  BY <1>2, <1>3, <1>4, <1>5, <1>6, RowsKeepPagers

LEMMA InsertKeeps ==
    ASSUME ListingInvariant, NEW t \in Transactions, Insert(t)
    PROVE  ListingInvariant'
<1>1. NumbersFresh /\ next \in Nat \ {0}
  BY DEF ListingInvariant, NumbersFresh
<1>2. /\ open' = [open EXCEPT ![t] = @ \union {next}]
      /\ next' = next + 1
      /\ UNCHANGED <<rows, pager>>
  BY DEF Insert
<1>3. /\ Drawn \subseteq Drawn' /\ next \in Drawn' /\ next \notin Drawn
      /\ next' \in Nat \ {0} /\ next =< next'
  BY <1>1, <1>2 DEF Drawn
<1>4. \A u \in Transactions :
        open'[u] = IF u = t THEN open[u] \union {next} ELSE open[u]
  BY <1>1, <1>2 DEF NumbersFresh
<1>5. NumbersFresh'
  <2>1. \A u \in Transactions : open'[u] \subseteq Drawn'
    BY <1>1, <1>3, <1>4 DEF NumbersFresh
  <2>2. rows' \subseteq Drawn'
    BY <1>1, <1>2, <1>3 DEF NumbersFresh
  <2>3. \A u \in Transactions : open'[u] \intersect rows' = {}
    BY <1>1, <1>2, <1>3, <1>4 DEF NumbersFresh
  <2>4. \A u, v \in Transactions : u # v => open'[u] \intersect open'[v] = {}
    <3>1. \A u \in Transactions : next \notin open[u]
      BY <1>1, <1>3 DEF NumbersFresh
    <3>2. \A u, v \in Transactions : u # v => open[u] \intersect open[v] = {}
      BY <1>1 DEF NumbersFresh
    <3> QED
      BY <1>4, <3>1, <3>2
  <2>5. open' \in [Transactions -> SUBSET Nat]
    BY <1>1, <1>2 DEF NumbersFresh
  <2> QED
    BY <1>3, <2>1, <2>2, <2>3, <2>4, <2>5 DEF NumbersFresh
<1>6. \A seq : seq \in Uncommitted' => seq \in Uncommitted \/ seq = next
  <2>1. \A seq : seq \in Uncommitted' <=> \E u \in Transactions : seq \in open'[u]
    BY Zenon DEF Uncommitted
  <2> QED
    BY <1>1, <1>4, <2>1, UncommittedDrawn
<1> QED
  BY <1>1, <1>2, <1>3, <1>4, <1>5, <1>6, RowsKeepPagers

LEMMA TransactionEndKeeps ==
    ASSUME ListingInvariant, NEW t \in Transactions,
           CommitInserted(t) \/ RollBack(t)
    PROVE  ListingInvariant'
<1>1. NumbersFresh /\ next \in Nat \ {0}
  BY DEF ListingInvariant, NumbersFresh
<1>2. /\ open' = [open EXCEPT ![t] = {}]
      /\ rows' = rows \union open[t] \/ rows' = rows
      /\ UNCHANGED <<next, pager>>
  BY DEF CommitInserted, RollBack
<1>3. \A u \in Transactions : open'[u] = IF u = t THEN {} ELSE open[u]
  BY <1>1, <1>2 DEF NumbersFresh
<1>4. NumbersFresh'
  BY <1>1, <1>2, <1>3 DEF NumbersFresh, Drawn
<1>5. \A seq : seq \in rows' \union Uncommitted' => seq \in rows \union Uncommitted
  <2>1. \A seq : seq \in Uncommitted' <=> \E u \in Transactions : seq \in open'[u]
    BY Zenon DEF Uncommitted
  <2> QED
    BY <1>1, <1>2, <1>3, <2>1, UncommittedDrawn
<1> QED
  BY <1>1, <1>2, <1>3, <1>4, <1>5, RowsKeepPagers

LEMMA InvariantKept == ListingInvariant /\ [AnyNext]_vars => ListingInvariant'
<1> SUFFICES ASSUME ListingInvariant, [AnyNext]_vars
             PROVE  ListingInvariant'
  OBVIOUS
<1>1. CASE Read
  BY <1>1, PageKeeps, StartOverKeeps, ArchiveKeeps DEF Read
<1>2. CASE \E first \in next .. MaxSeq : \E last \in first .. MaxSeq :
             CommitNumbered(first, last)
  BY <1>2, CommitNumberedKeeps
<1>3. CASE \E t \in Transactions : Insert(t) \/ CommitInserted(t) \/ RollBack(t)
  BY <1>3, InsertKeeps, TransactionEndKeeps
<1>4. CASE UNCHANGED vars
  BY <1>4 DEF vars, ListingInvariant, NumbersFresh, PagerSound, Reached, Drawn,
              Uncommitted
<1> QED
  BY <1>1, <1>2, <1>3, <1>4 DEF AnyNext, D1Next, PostgresNext

\* On D1 no row is ever open.
LEMMA NothingOpenKept ==
    ASSUME NothingOpen, DOMAIN open = Transactions, DOMAIN pager = Pagers,
           [D1Next]_vars
    PROVE  NothingOpen'
<1>1. Uncommitted = {}
  BY Zenon DEF Uncommitted, NothingOpen
<1>2. CASE \E p \in Pagers, limit \in 1 .. MaxLimit : Page(p, limit)
  <2>1. PICK p \in Pagers : \E limit \in 1 .. MaxLimit : Page(p, limit)
    BY <1>2
  <2>2. PICK status, after, page : Deliver(p, status, after, page)
    BY <2>1 DEF Page
  <2> QED
    BY <1>1, <2>1, <2>2 DEF Deliver, NothingOpen
<1>3. CASE \E p \in Pagers : StartOver(p)
  BY <1>3 DEF StartOver, NewPager, NothingOpen
<1>4. CASE UNCHANGED <<open, pager>>
  BY <1>4 DEF NothingOpen
<1> QED
  BY <1>2, <1>3, <1>4 DEF D1Next, Read, Archive, CommitNumbered, vars

-----------------------------------------------------------------------------
(* What the invariant is for.                                              *)

LEMMA InvariantMeans ==
    ListingInvariant => TypeOK /\ NoRowTwice /\ InitialRowsListed /\ SkippedWereOpen
<1> SUFFICES ASSUME ListingInvariant
             PROVE  TypeOK /\ NoRowTwice /\ InitialRowsListed /\ SkippedWereOpen
  OBVIOUS
<1>1. \A seq \in Drawn : seq \in Nat
  BY DEF ListingInvariant, NumbersFresh, Drawn
<1>2. NoRowTwice /\ InitialRowsListed /\ SkippedWereOpen
  BY DEF ListingInvariant, PagerSound, PagerState, NoRowTwice, InitialRowsListed,
         SkippedWereOpen, Skipped, Reached
<1> QED
  BY <1>1, <1>2 DEF ListingInvariant, NumbersFresh, TypeOK

-----------------------------------------------------------------------------
(* The theorems.                                                           *)

LEMMA PostgresInvariant == PostgresSpec => []ListingInvariant
<1>1. ListingInvariant /\ [PostgresNext]_vars => ListingInvariant'
  BY InvariantKept DEF AnyNext
<1> QED
  BY InvariantInitially, <1>1, PTL DEF PostgresSpec

LEMMA D1Invariant == D1Spec => [](ListingInvariant /\ NothingOpen)
<1>1. Init => NothingOpen
  BY DEF Init, NothingOpen, NewPager
<1>2. ListingInvariant /\ [D1Next]_vars => ListingInvariant'
  BY InvariantKept DEF AnyNext
<1>3. ListingInvariant /\ NothingOpen /\ [D1Next]_vars => NothingOpen'
  BY NothingOpenKept DEF ListingInvariant, NumbersFresh
<1> QED
  BY InvariantInitially, <1>1, <1>2, <1>3, PTL DEF D1Spec

\* The state of the listings stays what TypeOK says, on either store.
THEOREM ListingTyped == (PostgresSpec => []TypeOK) /\ (D1Spec => []TypeOK)
BY PostgresInvariant, D1Invariant, InvariantMeans, PTL

\* On either store no client gets a row of list_flags or list_evaluation_receipts
\* twice, whatever is added or archived between its pages.
THEOREM RowsOnce == (PostgresSpec => []NoRowTwice) /\ (D1Spec => []NoRowTwice)
BY PostgresInvariant, D1Invariant, InvariantMeans, PTL

\* On either store a listing that ends has every row that was visible when it
\* began and still is: the extra row that tells whether there is a next page is
\* never lost between two pages.
THEOREM ListingComplete ==
    (PostgresSpec => []InitialRowsListed) /\ (D1Spec => []InitialRowsListed)
BY PostgresInvariant, D1Invariant, InvariantMeans, PTL

\* On Postgres, where BIGSERIAL numbers are drawn before the commit, a listing
\* skips only rows that were uncommitted when it read a page.
THEOREM PostgresSkips == PostgresSpec => []SkippedWereOpen
BY PostgresInvariant, InvariantMeans, PTL

\* On D1, where a batch numbers its rows as it commits, a listing skips nothing.
THEOREM D1SkipsNothing == D1Spec => []NothingSkipped
<1>1. SkippedWereOpen /\ NothingOpen => NothingSkipped
  BY DEF SkippedWereOpen, NothingOpen, NothingSkipped
<1> QED
  BY D1Invariant, InvariantMeans, <1>1, PTL

=============================================================================
