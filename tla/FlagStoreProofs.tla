--------------------------- MODULE FlagStoreProofs ---------------------------
(***************************************************************************)
(* Theorems about the contract of a Feature Flag store: in every state the *)
(* tables are sound, every reply is justified by them, and a step only     *)
(* ever adds evidence.  The inductive invariant is Served: the tables are  *)
(* Sound, the requests and replies are typed, and a reply points at a row. *)
(***************************************************************************)
EXTENDS FlagStore, DatabaseTheorems

Served ==
    /\ TypeOK
    /\ Sound(database)
    /\ RepliesRecorded
    /\ ConflictsJustified

-----------------------------------------------------------------------------
(* The tables.                                                             *)

\* A step leaves the tables alone or commits one admitted command.
LEMMA TablesStep ==
    ASSUME Served, [Next]_vars
    PROVE  \/ database' = database
           \/ \E request \in Requests :
                /\ Admissible(database, request)
                /\ database' = Committed(database, request)
                /\ call' = call
<1>1. Awaited \union abandoned \subseteq Requests
  BY DEF Served, TypeOK, Awaited, Waiting, CallState, Idle
<1>2. ASSUME NEW request \in Requests, Execute(request)
      PROVE  /\ Admissible(database, request)
             /\ database' = Committed(database, request)
             /\ call' = call
  BY <1>1, <1>2 DEF Execute, Served, Admissible, Committed
<1>3. QED
  BY <1>2
  DEF Next, vars, Call, Reply, Conflict, Postpone, Refuse, Abandon, Fail, Forget

LEMMA TablesSound ==
    ASSUME Served, [Next]_vars
    PROVE  /\ Sound(database')
           /\ database.commands \subseteq database'.commands
<1>1. CASE database' = database
  BY <1>1 DEF Served
<1>2. ASSUME NEW request \in Requests,
             Admissible(database, request),
             database' = Committed(database, request)
      PROVE  /\ Sound(database')
             /\ database.commands \subseteq database'.commands
  BY <1>2, CommitSound, CommitEffects DEF Effects, RowEffects
<1>3. QED
  BY <1>1, <1>2, TablesStep

-----------------------------------------------------------------------------
(* The invariant.                                                          *)

LEMMA CallsTyped ==
    ASSUME Served, [Next]_vars
    PROVE  call' \in [Clients -> CallState] /\ abandoned' \subseteq Requests
<1>1. /\ call \in [Clients -> CallState]
      /\ abandoned \subseteq Requests
      /\ database \in Database
  BY DEF Served, TypeOK
<1>2. \A client \in Clients : Waiting(client) =>
        call[client].request \in Requests
  BY <1>1 DEF Waiting, CallState, Idle
<1>3. ASSUME NEW client \in Clients, NEW request \in Requests,
             Call(client, request)
      PROVE  call' \in [Clients -> CallState] /\ abandoned' \subseteq Requests
  <2>1. Pending(request) \in CallState
    BY DEF Pending, CallState
  <2>2. QED
    BY <1>1, <1>3, <2>1 DEF Call
<1>4. ASSUME NEW client \in Clients, Reply(client)
      PROVE  call' \in [Clients -> CallState] /\ abandoned' \subseteq Requests
  <2>1. PICK row \in database.commands :
          /\ row.request = call[client].request
          /\ call' = [call EXCEPT ![client] =
                        Done(call[client].request, row.response)]
    BY <1>4 DEF Reply
  <2>2. row.response \in Response
    BY <1>1 DEF Database, CommandRow
  <2>3. Done(call[client].request, row.response) \in CallState
    BY <1>2, <1>4, <2>2 DEF Done, CallState, Reply
  <2>4. QED
    BY <1>1, <1>4, <2>1, <2>3 DEF Reply
<1>5. ASSUME NEW client \in Clients, Conflict(client)
      PROVE  call' \in [Clients -> CallState] /\ abandoned' \subseteq Requests
  <2>1. RefusedCall(call[client].request, "IdempotencyConflict") \in CallState
    BY <1>2, <1>5 DEF RefusedCall, CallState, Conflict, Failures
  <2>2. QED
    BY <1>1, <1>5, <2>1 DEF Conflict
<1>6. ASSUME NEW client \in Clients, Refuse(client)
      PROVE  call' \in [Clients -> CallState] /\ abandoned' \subseteq Requests
  <2> DEFINE failure == Plan(database, call[client].request).status
  <2>1. call[client].request \in Requests
    BY <1>2, <1>6 DEF Refuse
  <2>2. failure \in Failures
    BY <1>6, <2>1, PlanStatus DEF Refuse, PlanFailures, Failures
  <2>3. call' = [call EXCEPT ![client] =
                   RefusedCall(call[client].request, failure)]
    BY <1>6 DEF Refuse
  <2> HIDE DEF failure
  <2>4. RefusedCall(call[client].request, failure) \in CallState
    BY <2>1, <2>2 DEF RefusedCall, CallState
  <2>5. QED
    BY <1>1, <1>6, <2>3, <2>4 DEF Refuse
<1>7. ASSUME NEW client \in Clients, Abandon(client)
      PROVE  call' \in [Clients -> CallState] /\ abandoned' \subseteq Requests
  BY <1>1, <1>2, <1>7 DEF Abandon
<1>8. ASSUME NEW client \in Clients, Fail(client)
      PROVE  call' \in [Clients -> CallState] /\ abandoned' \subseteq Requests
  <2>1. Failed(call[client].request) \in CallState
    BY <1>2, <1>8 DEF Failed, CallState, Fail
  <2>2. QED
    BY <1>1, <1>8, <2>1 DEF Fail
<1>9. ASSUME NEW request \in Requests, Execute(request)
      PROVE  call' \in [Clients -> CallState] /\ abandoned' \subseteq Requests
  BY <1>1, <1>9 DEF Execute
<1>10. CASE Forget
  BY <1>1, <1>10 DEF Forget
<1>11. CASE UNCHANGED vars
  BY <1>1, <1>11 DEF vars
<1>12. ASSUME NEW client \in Clients, Postpone(client)
       PROVE  call' \in [Clients -> CallState] /\ abandoned' \subseteq Requests
  <2>1. RefusedCall(call[client].request, "OperationInProgress") \in CallState
    BY <1>2, <1>12 DEF RefusedCall, CallState, Postpone, Failures
  <2>2. QED
    BY <1>1, <1>12, <2>1 DEF Postpone
<1>13. QED
  BY <1>3, <1>4, <1>5, <1>6, <1>7, <1>8, <1>9, <1>10, <1>11, <1>12 DEF Next

\* A step changes no reply, or gives one that the tables justify.
LEMMA ReplySteps ==
    ASSUME Served, [Next]_vars, NEW c \in Clients
    PROVE  call'[c] = call[c] \/ Justified(call'[c], database)
<1>1. DOMAIN call = Clients
  BY DEF Served, TypeOK
<1>2. ASSUME NEW client \in Clients, NEW request \in Requests,
             Call(client, request)
      PROVE  call'[c] = call[c] \/ Justified(call'[c], database)
  BY <1>1, <1>2 DEF Call, Pending, Justified
<1>3. ASSUME NEW client \in Clients, Reply(client)
      PROVE  call'[c] = call[c] \/ Justified(call'[c], database)
  <2>1. PICK row \in database.commands :
          /\ row.request = call[client].request
          /\ call' = [call EXCEPT ![client] =
                        Done(call[client].request, row.response)]
    BY <1>3 DEF Reply
  <2>2. Justified(Done(call[client].request, row.response), database)
    BY <2>1 DEF Done, Justified
  <2>3. QED
    BY <1>1, <2>1, <2>2
<1>4. ASSUME NEW client \in Clients, Conflict(client)
      PROVE  call'[c] = call[c] \/ Justified(call'[c], database)
  <2>1. PICK row \in CommandRows(database, call[client].request) :
          /\ row.request # call[client].request
          /\ call' = [call EXCEPT ![client] =
                RefusedCall(call[client].request, "IdempotencyConflict")]
    BY <1>4 DEF Conflict
  <2>2. Justified(RefusedCall(call[client].request, "IdempotencyConflict"),
                  database)
    BY <2>1 DEF RefusedCall, Justified
  <2>3. QED
    BY <1>1, <2>1, <2>2
<1>5. ASSUME NEW client \in Clients, Refuse(client)
      PROVE  call'[c] = call[c] \/ Justified(call'[c], database)
  <2> DEFINE failure == Plan(database, call[client].request).status
  <2>1. call[client].request \in Requests
    BY <1>5 DEF Refuse, Waiting, Served, TypeOK, CallState, Idle
  <2>2. failure # "IdempotencyConflict"
    BY <2>1, PlanStatus DEF PlanFailures
  <2>3. call' = [call EXCEPT ![client] =
                   RefusedCall(call[client].request, failure)]
    BY <1>5 DEF Refuse
  <2> HIDE DEF failure
  <2>4. Justified(RefusedCall(call[client].request, failure), database)
    BY <2>2 DEF RefusedCall, Justified
  <2>5. QED
    BY <1>1, <2>3, <2>4
<1>6. ASSUME NEW client \in Clients, Abandon(client) \/ Fail(client)
      PROVE  call'[c] = call[c] \/ Justified(call'[c], database)
  BY <1>1, <1>6 DEF Abandon, Fail, Failed, Justified
<1>7. CASE Forget \/ UNCHANGED vars
  BY <1>7 DEF Forget, vars
<1>8. ASSUME NEW request \in Requests, Execute(request)
      PROVE  call'[c] = call[c] \/ Justified(call'[c], database)
  BY <1>8 DEF Execute
<1>9. ASSUME NEW client \in Clients, Postpone(client)
      PROVE  call'[c] = call[c] \/ Justified(call'[c], database)
  BY <1>1, <1>9 DEF Postpone, RefusedCall, Justified
<1>10. QED
  BY <1>2, <1>3, <1>4, <1>5, <1>6, <1>7, <1>8, <1>9 DEF Next

LEMMA RepliesKept ==
    ASSUME Served, [Next]_vars
    PROVE  RepliesRecorded' /\ ConflictsJustified'
<1>1. \A c \in Clients : Justified(call[c], database)
  BY DEF Served, RepliesRecorded, ConflictsJustified, Justified
<1>2. database.commands \subseteq database'.commands
  BY TablesSound
<1>3. ASSUME NEW c \in Clients PROVE Justified(call'[c], database')
  <2>1. Justified(call'[c], database)
    BY <1>1, ReplySteps
  <2>2. QED
    BY <1>2, <2>1 DEF Justified, CommandRows
<1>4. QED
  BY <1>3 DEF RepliesRecorded, ConflictsJustified, Justified

\* In every state of the contract the tables are sound and every reply points
\* at the row that justifies it.
THEOREM ServedInvariant == Spec => []Served
<1>1. Init => Served
  <2>1. SUFFICES ASSUME Init PROVE Served
    OBVIOUS
  <2>2. Sound(database)
    BY <2>1, StoredAssumption DEF Init
  <2>3. TypeOK
    BY <2>1, <2>2 DEF Init, TypeOK, Sound, CallState
  <2>4. RepliesRecorded /\ ConflictsJustified
    BY <2>1 DEF Init, Idle, RepliesRecorded, ConflictsJustified
  <2>5. QED
    BY <2>2, <2>3, <2>4 DEF Served
<1>2. Served /\ [Next]_vars => Served'
  <2>1. SUFFICES ASSUME Served, [Next]_vars PROVE Served'
    OBVIOUS
  <2>2. Sound(database') /\ database' \in Database
    BY <2>1, TablesSound DEF Sound
  <2>3. QED
    BY <2>1, <2>2, CallsTyped, RepliesKept DEF Served, TypeOK
<1>3. QED
  BY <1>1, <1>2, PTL DEF Spec

-----------------------------------------------------------------------------
(* What the contract promises, one property at a time.                     *)

\* The tables, the abandoned requests and the calls keep their types.
THEOREM StoreTyped == Spec => []TypeOK
<1>1. Served => TypeOK
  BY DEF Served
<1>2. QED
  BY <1>1, ServedInvariant, PTL

\* Whoever publishes, archives and updates concurrently, every ruleset of the
\* history is valid for the type of its flag.
THEOREM StoreRulesetsValid == Spec => []RulesetsValid
<1>1. Served => RulesetsValid
  BY DEF Served, Sound, Consistent, RulesetsValid
<1>2. QED
  BY <1>1, ServedInvariant, PTL

\* The history of a flag in an environment is numbered without gap or fork.
THEOREM StoreHistoryNumbered == Spec => []HistoryNumbered
<1>1. Served => HistoryNumbered
  BY DEF Served, Sound, Consistent, HistoryNumbered
<1>2. QED
  BY <1>1, ServedInvariant, PTL

\* No update is lost: a revision is the number of commands that advanced it.
THEOREM StoreNoLostUpdates == Spec => []NoLostUpdates
<1>1. Served => NoLostUpdates
  BY DEF Served, Sound, Consistent, NoLostUpdates
<1>2. QED
  BY <1>1, ServedInvariant, PTL

\* A command key is recorded for one request and one response only.
THEOREM StoreKeysUsedOnce == Spec => []KeysUsedOnce
<1>1. Served => KeysUsedOnce
  BY DEF Served, Sound, Consistent, KeysUsedOnce
<1>2. QED
  BY <1>1, ServedInvariant, PTL

\* The receipts are exactly the evaluations of the recorded responses.
THEOREM StoreReceipts == Spec => []ReceiptsComplete
<1>1. Served => ReceiptsComplete
  BY DEF Served, Sound, Consistent, ReceiptsComplete
<1>2. QED
  BY <1>1, ServedInvariant, PTL

\* Whatever is published or archived later, the history still explains every
\* recorded evaluation: the ruleset it names chooses the variant it served.
THEOREM StoreReceiptsExplained == Spec => []ReceiptsExplained
<1>1. Served => ReceiptsExplained
  BY DEF Served, Sound, Consistent, ReceiptsExplained
<1>2. QED
  BY <1>1, ServedInvariant, PTL

\* A success reply is the response recorded for exactly that request, and an
\* idempotency conflict points at another request recorded under the key.
THEOREM StoreReplies == Spec => []RepliesJustified
<1>1. Served => RepliesJustified
  BY DEF Served, RepliesJustified
<1>2. QED
  BY <1>1, ServedInvariant, PTL

-----------------------------------------------------------------------------
(* What a step may never do.                                               *)

\* Commands, ruleset revisions and receipts are only added, and the revision of
\* a flag never goes back.
THEOREM StoreEvidenceGrows == Spec => EvidenceGrows
<1>1. ASSUME Served, [Next]_vars
      PROVE  [/\ database.commands \subseteq database'.commands
              /\ database.rulesets \subseteq database'.rulesets
              /\ database.receipts \subseteq database'.receipts
              /\ \A flag \in FlagKeys :
                   database.flags[flag].revision =< database'.flags[flag].revision
             ]_database
  BY <1>1, TablesStep, CommitKeepsEvidence DEF EvidenceKept
<1>2. QED
  BY <1>1, ServedInvariant, PTL DEF Spec, EvidenceGrows

\* Archiving is final: no later step changes the row of an archived flag,
\* records an evaluation of it or publishes a ruleset for it.
THEOREM StoreArchivedIsFinal == Spec => ArchivedIsFinal
<1>1. ASSUME Served, [Next]_vars
      PROVE  [\A flag \in FlagKeys :
                database.flags[flag].archived =>
                  /\ database'.flags[flag] = database.flags[flag]
                  /\ \A receipt \in database'.receipts \ database.receipts :
                       receipt.flag # flag
                  /\ \A row \in database'.rulesets \ database.rulesets :
                       row.flag # flag
             ]_database
  BY <1>1, TablesStep, CommitKeepsArchived DEF ArchivedKept
<1>2. QED
  BY <1>1, ServedInvariant, PTL DEF Spec, ArchivedIsFinal

\* An evaluation is recorded only against the ruleset that is the latest at the
\* instant its command commits.
THEOREM StoreEvaluationsCurrent == Spec => EvaluationsCurrent
<1>1. ASSUME Served, [Next]_vars
      PROVE  [\A receipt \in database'.receipts \ database.receipts :
                \A row \in Published(database, receipt.flag,
                                     receipt.environment) :
                    row.revision =< receipt.ruleset_revision
             ]_database
  BY <1>1, TablesStep, CommitEvaluatesLatest DEF EvaluatedLatest
<1>2. QED
  BY <1>1, ServedInvariant, PTL DEF Spec, EvaluationsCurrent

=============================================================================
