------------------------------ MODULE D1Proofs ------------------------------
(***************************************************************************)
(* The D1 store implements the contract of FlagStore, for any number of    *)
(* clients, requests, keys and batches in flight.                          *)
(*                                                                         *)
(* The argument is the comment of fn snapshot, "the epoch fences every     *)
(* Feature Flag-owned change between this snapshot and the write batch":   *)
(* a batch in flight that carries the current epoch is what its command    *)
(* would plan now (FencedBatchesFresh), so the step that applies it is the *)
(* atomic step of the contract, and every other batch is dead.             *)
(*                                                                         *)
(* Around the store, the plugin's lifecycle: whatever binding a call has,  *)
(* it took it while the plugin was active.                                 *)
(***************************************************************************)
EXTENDS D1Retries, D1Lifecycle, DatabaseTheorems

\* What ties a client's step to its call and to its batch.
Linked ==
    /\ epoch \in Nat
    /\ DOMAIN step = Clients
    /\ DOMAIN call = Clients
    /\ DOMAIN batch = Clients
    /\ \A client \in Clients :
         /\ call[client].status = "pending" <=> step[client] # "idle"
         /\ step[client] # "idle" => call[client].request \in Requests
         /\ step[client] \in {"submitted", "applied"} =>
              batch[client].request = call[client].request
    /\ \A b \in InFlight :
         /\ b.request \in Requests
         /\ b.epoch \in Nat
         /\ b.plan.status = "Planned"

\* The inductive invariant of the refinement.
Fenced == Linked /\ FencedBatchesFresh /\ AppliedRecorded

-----------------------------------------------------------------------------
(* The batches in flight.                                                  *)

\* A batch is in flight if it is stray or a client waits on it.
LEMMA InFlightCases ==
    /\ \A b \in stray : b \in InFlight
    /\ \A client \in Clients :
         step[client] = "submitted" => batch[client] \in InFlight
    /\ \A b \in InFlight :
         \/ b \in stray
         \/ \E client \in Clients :
              step[client] = "submitted" /\ b = batch[client]
BY DEF InFlight

\* A step that submits nothing and leaves the tables alone keeps every batch
\* as fresh as it was; one that applies a batch outdates all of them.
LEMMA FreshnessKept ==
    ASSUME Linked, FencedBatchesFresh,
           InFlight' \subseteq InFlight,
           UNCHANGED tables \/ epoch' = epoch + 1
    PROVE  /\ FencedBatchesFresh'
           /\ epoch' \in Nat
           /\ \A b \in InFlight' : b \in InFlight
<1>1. CASE UNCHANGED tables
  BY <1>1 DEF FencedBatchesFresh, tables, Linked
<1>2. CASE epoch' = epoch + 1
  <2>1. \A b \in InFlight' : b.epoch \in Nat /\ b.epoch =< epoch /\ epoch \in Nat
    BY DEF Linked, FencedBatchesFresh
  <2>2. \A b \in InFlight' : b.epoch =< epoch' /\ b.epoch # epoch'
    BY <1>2, <2>1
  <2>3. QED
    BY <1>2, <2>2 DEF FencedBatchesFresh, Linked
<1>3. QED
  BY <1>1, <1>2

\* Applying a batch records its command and the planned response.
LEMMA AppliedRecords ==
    ASSUME NEW b, Applied(b)
    PROVE  /\ database.commands \subseteq database'.commands
           /\ [request |-> b.request, response |-> b.plan.response]
                \in database'.commands
           /\ epoch' = epoch + 1
BY DEF Applied, Commit

-----------------------------------------------------------------------------
(* The steps preserve the invariant.                                       *)

\* A call that returns.
LEMMA ResponseKept ==
    ASSUME Fenced, NEW client \in Clients, NEW reply,
           reply.status # "pending",
           Respond(client, reply), UNCHANGED <<tables, stray>>
    PROVE  Fenced'
<1>1. /\ step' = [step EXCEPT ![client] = "idle"]
      /\ call' = [call EXCEPT ![client] = reply]
      /\ batch' = [batch EXCEPT ![client] = NoBatch]
  BY DEF Respond
<1>2. /\ DOMAIN step = Clients
      /\ DOMAIN call = Clients
      /\ DOMAIN batch = Clients
  BY DEF Fenced, Linked
<1>3. \A c \in Clients :
        /\ c = client => step'[c] = "idle" /\ call'[c] = reply
        /\ c # client => /\ step'[c] = step[c]
                         /\ call'[c] = call[c]
                         /\ batch'[c] = batch[c]
  BY <1>1, <1>2
<1>4. InFlight' \subseteq InFlight
  BY <1>3 DEF InFlight
<1>5. FencedBatchesFresh' /\ \A b \in InFlight' : b \in InFlight
  BY <1>4, FreshnessKept DEF Fenced
<1>6. Linked'
  BY <1>1, <1>2, <1>3, <1>5 DEF Fenced, Linked, tables
<1>7. AppliedRecorded'
  BY <1>3 DEF Fenced, AppliedRecorded, tables
<1>8. QED
  BY <1>5, <1>6, <1>7 DEF Fenced

\* fn replay, when the command row exists.
LEMMA ReplayKept ==
    ASSUME Fenced, NEW client \in Clients,
           Replay(client), UNCHANGED <<tables, stray>>
    PROVE  Fenced'
<1>1. PICK row \in CommandRows(database, call[client].request) :
        Respond(client, IF row.request = call[client].request
                        THEN Done(call[client].request, row.response)
                        ELSE RefusedCall(call[client].request,
                                         "IdempotencyConflict"))
  BY DEF Replay
<1>2. /\ Done(call[client].request, row.response).status # "pending"
      /\ RefusedCall(call[client].request, "IdempotencyConflict").status
           # "pending"
  BY DEF Done, RefusedCall
<1>3. QED
  BY <1>1, <1>2, ResponseKept

\* A write batch whose submission failed, left behind or gone.
LEMMA ReconcilingKept ==
    ASSUME Fenced, NEW client \in Clients,
           step[client] \in {"submitted", "applied"},
           Reconciling(client), UNCHANGED tables,
           \/ UNCHANGED stray
           \/ /\ step[client] = "submitted"
              /\ stray' = stray \union {batch[client]}
    PROVE  Fenced'
<1>1. /\ step' = [step EXCEPT ![client] = "reconcile"]
      /\ batch' = [batch EXCEPT ![client] = NoBatch]
      /\ call' = call
  BY DEF Reconciling
<1>2. /\ DOMAIN step = Clients
      /\ DOMAIN call = Clients
      /\ DOMAIN batch = Clients
  BY DEF Fenced, Linked
<1>3. \A c \in Clients :
        /\ c = client => step'[c] = "reconcile"
        /\ c # client => step'[c] = step[c] /\ batch'[c] = batch[c]
  BY <1>1, <1>2
<1>4. InFlight' \subseteq InFlight
  BY <1>3, InFlightCases DEF InFlight
<1>5. FencedBatchesFresh' /\ \A b \in InFlight' : b \in InFlight
  BY <1>4, FreshnessKept DEF Fenced
<1>6. Linked'
  BY <1>1, <1>2, <1>3, <1>5 DEF Fenced, Linked, tables
<1>7. AppliedRecorded'
  BY <1>1, <1>3 DEF Fenced, AppliedRecorded, tables
<1>8. QED
  BY <1>5, <1>6, <1>7 DEF Fenced

\* The snapshot of a command that the store admits: its batch is fresh.
LEMMA SubmissionKept ==
    ASSUME Fenced, NEW client \in Clients,
           step[client] = "snapshot",
           ~Recorded(database, call[client].request),
           Plan(database, call[client].request).status = "Planned",
           batch' = [batch EXCEPT ![client] =
                       [request |-> call[client].request, epoch |-> epoch,
                        plan |-> Plan(database, call[client].request)]],
           step' = [step EXCEPT ![client] = "submitted"],
           UNCHANGED <<tables, call, stray>>
    PROVE  Fenced'
<1> DEFINE new == [request |-> call[client].request, epoch |-> epoch,
                   plan |-> Plan(database, call[client].request)]
<1>1. /\ DOMAIN step = Clients
      /\ DOMAIN call = Clients
      /\ DOMAIN batch = Clients
  BY DEF Fenced, Linked
<1>2. \A c \in Clients :
        /\ c = client => step'[c] = "submitted" /\ batch'[c] = new
        /\ c # client => step'[c] = step[c] /\ batch'[c] = batch[c]
  BY <1>1
<1>3. /\ database' = database
      /\ epoch' = epoch
      /\ call' = call
      /\ stray' = stray
      /\ epoch \in Nat
  BY DEF tables, Fenced, Linked
<1>4. \A b \in InFlight' : b \in InFlight \/ b = new
  BY <1>2, <1>3 DEF InFlight
<1>5. /\ new.request \in Requests
      /\ new.request = call[client].request
      /\ new.epoch = epoch
      /\ new.plan = Plan(database, new.request)
      /\ new.plan.status = "Planned"
      /\ ~Recorded(database, new.request)
  BY DEF Fenced, Linked
<1> HIDE DEF new
<1>6. FencedBatchesFresh'
  BY <1>3, <1>4, <1>5 DEF Fenced, FencedBatchesFresh
<1>7. \A b \in InFlight' :
        b.request \in Requests /\ b.epoch \in Nat /\ b.plan.status = "Planned"
  BY <1>3, <1>4, <1>5 DEF Fenced, Linked
<1>8. Linked'
  <2>1. \A c \in Clients :
          /\ call'[c].status = "pending" <=> step'[c] # "idle"
          /\ step'[c] # "idle" => call'[c].request \in Requests
          /\ step'[c] \in {"submitted", "applied"} =>
               batch'[c].request = call'[c].request
    BY <1>2, <1>3, <1>5 DEF Fenced, Linked
  <2>2. DOMAIN step' = Clients /\ DOMAIN batch' = Clients
    BY <1>1
  <2>3. QED
    BY <1>1, <1>3, <1>7, <2>1, <2>2 DEF Linked
<1>9. AppliedRecorded'
  BY <1>2, <1>3 DEF Fenced, AppliedRecorded
<1>10. QED
  BY <1>6, <1>8, <1>9 DEF Fenced

\* A batch in flight applies, awaited by a client or stray.
LEMMA ApplicationKept ==
    ASSUME Fenced, NEW b \in InFlight, Applied(b),
           InFlight' \subseteq InFlight,
           UNCHANGED <<call, batch>>,
           \/ UNCHANGED step
           \/ \E client \in Clients :
                /\ step[client] = "submitted"
                /\ batch[client] = b
                /\ step' = [step EXCEPT ![client] = "applied"]
    PROVE  Fenced'
<1>1. /\ database.commands \subseteq database'.commands
      /\ [request |-> b.request, response |-> b.plan.response]
           \in database'.commands
      /\ epoch' = epoch + 1
  BY AppliedRecords
<1>2. /\ FencedBatchesFresh'
      /\ epoch' \in Nat
      /\ \A x \in InFlight' : x \in InFlight
  BY <1>1, FreshnessKept DEF Fenced
<1>3. DOMAIN step = Clients
  BY DEF Fenced, Linked
<1>4. /\ DOMAIN step' = Clients
      /\ \A c \in Clients :
           \/ step'[c] = step[c]
           \/ step[c] = "submitted" /\ step'[c] = "applied" /\ batch[c] = b
  BY <1>3
<1>5. Linked'
  BY <1>2, <1>4 DEF Fenced, Linked
<1>6. AppliedRecorded'
  BY <1>1, <1>4 DEF Fenced, AppliedRecorded, Linked
<1>7. QED
  BY <1>2, <1>5, <1>6 DEF Fenced

LEMMA InitFenced == Init => Fenced
<1> SUFFICES ASSUME Init PROVE Fenced
  OBVIOUS
<1>1. epoch \in Nat
  BY StoredAssumption, FS_CardinalityType DEF Init, Sound
<1>2. InFlight = {}
  BY DEF Init, InFlight
<1>3. Linked
  BY <1>1, <1>2 DEF Init, Linked, Idle
<1>4. FencedBatchesFresh /\ AppliedRecorded
  BY <1>2 DEF Init, FencedBatchesFresh, AppliedRecorded
<1>5. QED
  BY <1>3, <1>4 DEF Fenced

LEMMA CallKept ==
    ASSUME Fenced, NEW client \in Clients, NEW request \in Requests,
           Call(client, request)
    PROVE  Fenced'
<1>1. /\ DOMAIN step = Clients
      /\ DOMAIN call = Clients
  BY DEF Fenced, Linked
<1>2. \A c \in Clients :
        /\ c = client => step'[c] = "snapshot" /\ call'[c] = Pending(request)
        /\ c # client => step'[c] = step[c] /\ call'[c] = call[c]
  BY <1>1 DEF Call
<1>3. UNCHANGED <<tables, batch, stray>>
  BY DEF Call
<1>4. InFlight' \subseteq InFlight
  BY <1>2, <1>3 DEF InFlight
<1>5. FencedBatchesFresh' /\ \A b \in InFlight' : b \in InFlight
  BY <1>3, <1>4, FreshnessKept DEF Fenced
<1>6. Linked'
  BY <1>1, <1>2, <1>3, <1>5 DEF Fenced, Linked, tables, Call, Pending
<1>7. AppliedRecorded'
  BY <1>2, <1>3 DEF Fenced, AppliedRecorded, tables
<1>8. QED
  BY <1>5, <1>6, <1>7 DEF Fenced

LEMMA ProceedKept ==
    ASSUME Fenced, NEW client \in Clients, Proceed(client)
    PROVE  Fenced'
<1> DEFINE request == call[client].request
<1> USE DEF Done, RefusedCall, Failed
<1>1. ASSUME Snapshot(client) PROVE Fenced'
  <2>1. CASE Replay(client)
    BY <1>1, <2>1, ReplayKept DEF Snapshot
  <2>2. CASE /\ Plan(database, request).status # "Planned"
             /\ Respond(client,
                  RefusedCall(request, Plan(database, request).status))
    BY <1>1, <2>2, ResponseKept DEF Snapshot
  <2>3. CASE /\ ~Recorded(database, request)
             /\ Plan(database, request).status = "Planned"
             /\ batch' = [batch EXCEPT ![client] =
                            [request |-> request, epoch |-> epoch,
                             plan |-> Plan(database, request)]]
             /\ step' = [step EXCEPT ![client] = "submitted"]
             /\ UNCHANGED call
    BY <1>1, <2>3, SubmissionKept DEF Snapshot
  <2>4. QED
    BY <1>1, <2>1, <2>2, <2>3 DEF Snapshot
<1>2. ASSUME SnapshotFails(client) PROVE Fenced'
  BY <1>2, ResponseKept DEF SnapshotFails
<1>3. ASSUME BatchApplies(client) PROVE Fenced'
  <2>1. batch[client] \in InFlight
    BY <1>3, InFlightCases DEF BatchApplies
  <2>2. /\ Applied(batch[client])
        /\ step[client] = "submitted"
        /\ step' = [step EXCEPT ![client] = "applied"]
        /\ UNCHANGED <<call, batch, stray>>
    BY <1>3 DEF BatchApplies
  <2>3. DOMAIN step = Clients
    BY DEF Fenced, Linked
  <2>4. InFlight' \subseteq InFlight
    BY <2>2, <2>3 DEF InFlight
  <2>5. QED
    BY <2>1, <2>2, <2>4, ApplicationKept
<1>4. ASSUME BatchRejected(client) PROVE Fenced'
  <2>1. /\ step[client] \in {"submitted", "applied"}
        /\ Reconciling(client)
        /\ UNCHANGED tables
        /\ UNCHANGED stray
    BY <1>4 DEF BatchRejected
  <2>2. QED
    BY <2>1, ReconcilingKept
<1>5. ASSUME BatchLost(client) PROVE Fenced'
  <2>1. /\ step[client] = "submitted"
        /\ Reconciling(client)
        /\ UNCHANGED tables
        /\ UNCHANGED stray \/ stray' = stray \union {batch[client]}
    BY <1>5 DEF BatchLost
  <2>2. QED
    BY <2>1, ReconcilingKept
<1>6. ASSUME Acknowledge(client) PROVE Fenced'
  BY <1>6, ResponseKept DEF Acknowledge
<1>7. ASSUME AcknowledgeLost(client) PROVE Fenced'
  <2>1. /\ step[client] \in {"submitted", "applied"}
        /\ Reconciling(client)
        /\ UNCHANGED tables
        /\ UNCHANGED stray
    BY <1>7 DEF AcknowledgeLost
  <2>2. QED
    BY <2>1, ReconcilingKept
<1>8. ASSUME Reconcile(client) PROVE Fenced'
  BY <1>8, ReplayKept, ResponseKept DEF Reconcile
<1>9. ASSUME ReconcileFails(client) PROVE Fenced'
  BY <1>9, ResponseKept DEF ReconcileFails
<1>10. QED
  BY <1>1, <1>2, <1>3, <1>4, <1>5, <1>6, <1>7, <1>8, <1>9 DEF Proceed

\* A stray batch arrives or is dropped.
LEMMA StrayKept ==
    ASSUME Fenced, NEW b \in stray, StrayArrives(b) \/ StrayDropped(b)
    PROVE  Fenced'
<1>1. UNCHANGED <<step, call, batch>> /\ stray' \subseteq stray
  BY DEF StrayArrives, StrayDropped
<1>2. InFlight' \subseteq InFlight
  BY <1>1 DEF InFlight
<1>3. CASE Applied(b)
  BY <1>1, <1>2, <1>3, InFlightCases, ApplicationKept
<1>4. CASE UNCHANGED tables
  <2>1. FencedBatchesFresh' /\ \A x \in InFlight' : x \in InFlight
    BY <1>2, <1>4, FreshnessKept DEF Fenced
  <2>2. Linked' /\ AppliedRecorded'
    BY <1>1, <1>4, <2>1 DEF Fenced, Linked, AppliedRecorded, tables
  <2>3. QED
    BY <2>1, <2>2 DEF Fenced
<1>5. QED
  BY <1>3, <1>4 DEF StrayArrives, StrayDropped

LEMMA StutterKept == Fenced /\ UNCHANGED vars => Fenced'
BY DEF vars, Fenced, Linked, FencedBatchesFresh, AppliedRecorded, InFlight

LEMMA FencedKept == Fenced /\ [Next]_vars => Fenced'
BY CallKept, ProceedKept, StrayKept, StutterKept DEF Next

\* The invariant of the refinement holds in every state of the store.
THEOREM FencedInvariant == Spec => []Fenced
BY InitFenced, FencedKept, PTL DEF Spec

\* A write batch the epoch guard would admit is exactly what its command plans
\* on the current tables: no batch applies on a snapshot that has gone stale.
THEOREM FencedBatches == Spec => []FencedBatchesFresh
<1>1. Fenced => FencedBatchesFresh
  BY DEF Fenced
<1>2. QED
  BY <1>1, FencedInvariant, PTL

\* The response a client is about to acknowledge is recorded with its command.
THEOREM AppliedResponses == Spec => []AppliedRecorded
<1>1. Fenced => AppliedRecorded
  BY DEF Fenced
<1>2. QED
  BY <1>1, FencedInvariant, PTL

-----------------------------------------------------------------------------
(* The refinement.                                                         *)

\* The contract plans and commits by the same operators.
LEMMA SameValidity ==
    ASSUME NEW type, NEW definition
    PROVE  Contract!ValidateRuleset(type, definition)
             = ValidateRuleset(type, definition)
BY DEF ValidateRuleset, NamesVariants, VariantKeysOf, ValuesTyped,
       ValidValue, RulesSound, RolloutSound, RolloutTotal, Wrapped, Upper,
       ToSet, Contract!ToSet,
       Contract!ValidateRuleset, Contract!NamesVariants,
       Contract!VariantKeysOf, Contract!ValuesTyped, Contract!ValidValue,
       Contract!RulesSound, Contract!RolloutSound, Contract!RolloutTotal,
       Contract!Wrapped, Contract!Upper

LEMMA SameChoice ==
    ASSUME NEW context, NEW bucket, NEW definition
    PROVE  Contract!ChooseVariant(context, bucket, definition)
             = ChooseVariant(context, bucket, definition)
BY DEF ChooseVariant, MatchingRules, RuleMatches, RolloutStops, Serve,
       NoChoice, ToSet, SelectInSeq, Min, RolloutTotal, Wrapped, Upper,
       Contract!ChooseVariant, Contract!MatchingRules,
       Contract!RuleMatches, Contract!RolloutStops, Contract!Serve,
       Contract!NoChoice, Contract!ToSet, Contract!SelectInSeq,
       Contract!Min, Contract!RolloutTotal, Contract!Wrapped,
       Contract!Upper

LEMMA SameLatest ==
    ASSUME NEW db, NEW flag, NEW environment
    PROVE  /\ Contract!Published(db, flag, environment)
                = Published(db, flag, environment)
           /\ Contract!Latest(db, flag, environment)
                = Latest(db, flag, environment)
           /\ Contract!NextRulesetRevision(db, flag, environment)
                = NextRulesetRevision(db, flag, environment)
BY DEF Published, Latest, NextRulesetRevision, Contract!Published,
       Contract!Latest, Contract!NextRulesetRevision

LEMMA SameEvaluation ==
    ASSUME NEW db, NEW request, NEW flag
    PROVE  /\ Contract!EvaluationVerdict(db, request, flag)
                = EvaluationVerdict(db, request, flag)
           /\ Contract!Evaluation(db, request, flag)
                = Evaluation(db, request, flag)
<1>1. Contract!Choice(db, request, flag) = Choice(db, request, flag)
  BY SameChoice, SameLatest DEF Choice, Contract!Choice
<1>2. QED
  BY <1>1, SameValidity, SameLatest
  DEF EvaluationVerdict, Evaluation, Contract!EvaluationVerdict,
      Contract!Evaluation

LEMMA SameWords ==
    ASSUME NEW failure, NEW response, NEW flags, NEW environments,
           NEW rulesets, NEW receipts, NEW row, NEW key, NEW expected
    PROVE  /\ Contract!Refused(failure) = Refused(failure)
           /\ Contract!Planned(response, flags, environments, rulesets, receipts)
                = Planned(response, flags, environments, rulesets, receipts)
           /\ Contract!NoRows = NoRows
           /\ Contract!Row(key, row) = Row(key, row)
           /\ Contract!Bumped(row) = Bumped(row)
           /\ Contract!FlagVerdict(row, expected) = FlagVerdict(row, expected)
BY DEF Refused, Planned, NoRows, Row, Bumped, FlagVerdict,
       Contract!Refused, Contract!Planned, Contract!NoRows, Contract!Row,
       Contract!Bumped, Contract!FlagVerdict

LEMMA SamePlan ==
    ASSUME NEW db, NEW request
    PROVE  Contract!Plan(db, request) = Plan(db, request)
<1>1. Contract!PlanCreateFlag(db, request) = PlanCreateFlag(db, request)
  BY SameWords DEF PlanCreateFlag, Contract!PlanCreateFlag
<1>2. Contract!PlanChangeFlag(db, request) = PlanChangeFlag(db, request)
  BY SameWords DEF PlanChangeFlag, Contract!PlanChangeFlag
<1>3. Contract!PlanPutEnvironment(db, request) = PlanPutEnvironment(db, request)
  BY SameWords DEF PlanPutEnvironment, Contract!PlanPutEnvironment
<1>4. Contract!PlanPublishRuleset(db, request) = PlanPublishRuleset(db, request)
  BY SameWords, SameValidity, SameLatest
  DEF PlanPublishRuleset, Contract!PlanPublishRuleset
<1>5. Contract!PlanEvaluate(db, request) = PlanEvaluate(db, request)
  <2> DEFINE flags       == request.flags
             failing     == {i \in DOMAIN flags :
                               EvaluationVerdict(db, request, flags[i]) # "Chosen"}
             evaluations == [i \in DOMAIN flags |->
                               Evaluation(db, request, flags[i])]
  <2>1. failing = {i \in DOMAIN flags :
                     Contract!EvaluationVerdict(db, request, flags[i]) # "Chosen"}
    BY SameEvaluation
  <2>2. evaluations = [i \in DOMAIN flags |->
                         Contract!Evaluation(db, request, flags[i])]
    BY SameEvaluation
  <2>3. Contract!Min(failing) = Min(failing)
    BY DEF Min, Contract!Min
  <2>4. Contract!ReceiptsOf(request, evaluations)
          = ReceiptsOf(request, evaluations)
    BY DEF ReceiptsOf, ReceiptOf, EvaluationIdOf, Contract!ReceiptsOf,
           Contract!ReceiptOf, Contract!EvaluationIdOf
  <2>5. Contract!EvaluationVerdict(db, request, flags[Min(failing)])
          = EvaluationVerdict(db, request, flags[Min(failing)])
    BY SameEvaluation
  <2>6. PlanEvaluate(db, request) =
          IF failing # {}
          THEN Refused(EvaluationVerdict(db, request, flags[Min(failing)]))
          ELSE Planned([evaluations |-> evaluations], NoRows, NoRows, {},
                       ReceiptsOf(request, evaluations))
    BY DEF PlanEvaluate
  <2>7. Contract!PlanEvaluate(db, request) =
          IF failing # {}
          THEN Contract!Refused(Contract!EvaluationVerdict(
                 db, request, flags[Contract!Min(failing)]))
          ELSE Contract!Planned(
                 [evaluations |-> evaluations], Contract!NoRows,
                 Contract!NoRows, {}, Contract!ReceiptsOf(request, evaluations))
    <3> HIDE DEF failing, evaluations
    <3>1. QED
      BY <2>1, <2>2 DEF Contract!PlanEvaluate
  <2> HIDE DEF failing, evaluations
  <2>8. QED
    BY <2>3, <2>4, <2>5, <2>6, <2>7, SameWords
<1>6. QED
  BY <1>1, <1>2, <1>3, <1>4, <1>5 DEF Plan, Contract!Plan

LEMMA SameTables ==
    ASSUME NEW db, NEW request, NEW plan
    PROVE  /\ Contract!Commit(db, request, plan) = Commit(db, request, plan)
           /\ Contract!Recorded(db, request) <=> Recorded(db, request)
           /\ Contract!CommandRows(db, request) = CommandRows(db, request)
BY DEF Commit, Written, Recorded, CommandRows, CommandId,
       Contract!Commit, Contract!Written,
       Contract!Recorded, Contract!CommandRows, Contract!CommandId

LEMMA SameReplies ==
    ASSUME NEW request, NEW response, NEW failure
    PROVE  /\ Contract!Idle = Idle
           /\ Contract!Pending(request) = Pending(request)
           /\ Contract!Failed(request) = Failed(request)
           /\ Contract!Done(request, response) = Done(request, response)
           /\ Contract!RefusedCall(request, failure)
                = RefusedCall(request, failure)
BY DEF Idle, Pending, Failed, Done, RefusedCall, Contract!Idle,
       Contract!Pending, Contract!Failed, Contract!Done, Contract!RefusedCall

\* What the contract sees of a step: calls returning and abandoned requests.
LEMMA SameWaiting ==
    ASSUME Fenced, NEW client \in Clients
    PROVE  /\ Contract!Waiting(client) <=> step[client] # "idle"
           /\ step[client] # "idle" =>
                call[client].request \in Contract!Awaited
BY DEF Fenced, Linked, Contract!Waiting, Contract!Awaited

LEMMA AbandonedFacts ==
    ASSUME Fenced
    PROVE  /\ \A b \in stray : b.epoch = epoch => b.request \in Abandoned
           /\ \A request \in Abandoned :
                /\ Plan(database, request).status = "Planned"
                /\ ~Recorded(database, request)
<1>1. \A b \in stray : b \in InFlight
  BY InFlightCases
<1>2. QED
  BY <1>1 DEF Fenced, Linked, FencedBatchesFresh, Abandoned

\* The step of the guard: the command takes effect as the contract plans it,
\* and no batch that is still in flight can take effect afterwards.
LEMMA ApplicationImplements ==
    ASSUME Fenced, NEW b \in InFlight, Admits(b), Applied(b),
           b.request \in Contract!Awaited \union Abandoned,
           stray' \subseteq stray, UNCHANGED call
    PROVE  Contract!Next
<1> DEFINE request == b.request
<1>1. /\ b.plan = Plan(database, request)
      /\ ~Recorded(database, request)
      /\ request \in Requests
      /\ b.plan.status = "Planned"
  BY DEF Admits, Fenced, Linked, FencedBatchesFresh
<1>2. database' = Commit(database, request, Plan(database, request))
  BY <1>1 DEF Applied
<1>3. Abandoned' = {}
  <2>1. \A s \in stray' : s.epoch \in Nat /\ s.epoch =< epoch /\ epoch \in Nat
    BY InFlightCases DEF Fenced, Linked, FencedBatchesFresh
  <2>2. epoch' = epoch + 1
    BY AppliedRecords
  <2>3. \A s \in stray' : s.epoch # epoch'
    BY <2>1, <2>2
  <2>4. QED
    BY <2>3 DEF Abandoned
<1>4. Contract!Execute(request)
  BY <1>1, <1>2, <1>3, SamePlan, SameTables DEF Contract!Execute
<1>5. QED
  BY <1>1, <1>4 DEF Contract!Next

\* A reply that the contract gives, when the abandoned requests stay.
LEMMA ReplayImplements ==
    ASSUME Fenced, NEW client \in Clients, step[client] # "idle",
           Replay(client), UNCHANGED <<tables, stray>>
    PROVE  Contract!Next
<1> DEFINE request == call[client].request
<1>1. PICK row \in CommandRows(database, request) :
        call' = [call EXCEPT ![client] =
                   IF row.request = request THEN Done(request, row.response)
                   ELSE RefusedCall(request, "IdempotencyConflict")]
  BY DEF Replay, Respond
<1>2. row \in database.commands
  BY DEF CommandRows
<1>3. Contract!Waiting(client) /\ UNCHANGED <<database, Abandoned>>
  BY SameWaiting DEF tables, Abandoned
<1>4. CASE row.request = request
  <2>1. call' = [call EXCEPT ![client] = Done(request, row.response)]
    BY <1>1, <1>4
  <2>2. Contract!Reply(client)
    BY <1>2, <1>3, <1>4, <2>1, SameReplies DEF Contract!Reply
  <2>3. QED
    BY <2>2 DEF Contract!Next
<1>5. CASE row.request # request
  <2>1. call' = [call EXCEPT ![client] =
                   RefusedCall(request, "IdempotencyConflict")]
    BY <1>1, <1>5
  <2>2. row \in Contract!CommandRows(database, request)
    BY SameTables
  <2>3. Contract!Conflict(client)
    BY <1>3, <1>5, <2>1, <2>2, SameReplies DEF Contract!Conflict
  <2>4. QED
    BY <2>3 DEF Contract!Next
<1>6. QED
  BY <1>4, <1>5

LEMMA FailureImplements ==
    ASSUME Fenced, NEW client \in Clients, step[client] # "idle",
           Respond(client, Failed(call[client].request)),
           UNCHANGED <<tables, stray>>
    PROVE  Contract!Next
<1>1. Contract!Waiting(client) /\ UNCHANGED <<database, Abandoned>>
  BY SameWaiting DEF tables, Abandoned
<1>2. Contract!Fail(client)
  BY <1>1, SameReplies DEF Contract!Fail, Respond
<1>3. QED
  BY <1>2 DEF Contract!Next

LEMMA SnapshotImplements ==
    ASSUME Fenced, NEW client \in Clients, Snapshot(client)
    PROVE  Contract!Next \/ UNCHANGED Contract!vars
<1> DEFINE request == call[client].request
<1>1. step[client] = "snapshot" /\ UNCHANGED <<tables, stray>>
  BY DEF Snapshot
<1>2. Contract!Waiting(client) /\ UNCHANGED <<database, Abandoned>>
  BY <1>1, SameWaiting DEF tables, Abandoned
<1>3. CASE Replay(client)
  BY <1>1, <1>3, ReplayImplements
<1>4. CASE /\ ~Recorded(database, request)
           /\ Plan(database, request).status # "Planned"
           /\ Respond(client,
                RefusedCall(request, Plan(database, request).status))
  <2>1. request \notin Abandoned
    BY <1>4, AbandonedFacts
  <2>2. Abandoned' = Abandoned \ {request}
    BY <1>2, <2>1
  <2>3. Contract!Refuse(client)
    BY <1>2, <1>4, <2>2, SamePlan, SameTables, SameReplies
    DEF Contract!Refuse, Respond
  <2>4. QED
    BY <2>3 DEF Contract!Next
<1>5. CASE UNCHANGED call
  BY <1>2, <1>5 DEF Contract!vars
<1>6. QED
  BY <1>3, <1>4, <1>5 DEF Snapshot

LEMMA BatchLostImplements ==
    ASSUME Fenced, NEW client \in Clients, BatchLost(client)
    PROVE  Contract!Next \/ UNCHANGED Contract!vars
<1>1. /\ step[client] = "submitted"
      /\ UNCHANGED <<tables, call>>
      /\ stray' = stray \/ stray' = stray \union {batch[client]}
  BY DEF BatchLost, Reconciling
<1>2. /\ Contract!Waiting(client)
      /\ batch[client].request = call[client].request
      /\ database' = database /\ epoch' = epoch
  BY <1>1, SameWaiting DEF Fenced, Linked, tables
<1>3. CASE Abandoned' = Abandoned
  BY <1>1, <1>2, <1>3 DEF Contract!vars
<1>4. CASE Abandoned' = Abandoned \union {call[client].request}
  <2>1. Contract!Abandon(client)
    BY <1>1, <1>2, <1>4 DEF Contract!Abandon
  <2>2. QED
    BY <2>1 DEF Contract!Next
<1>5. \/ Abandoned' = Abandoned
      \/ Abandoned' = Abandoned \union {call[client].request}
  <2>1. CASE stray' = stray
    BY <1>2, <2>1 DEF Abandoned
  <2>2. CASE stray' = stray \union {batch[client]} /\ batch[client].epoch = epoch
    BY <1>2, <2>2 DEF Abandoned
  <2>3. CASE stray' = stray \union {batch[client]} /\ batch[client].epoch # epoch
    BY <1>2, <2>3 DEF Abandoned
  <2>4. QED
    BY <1>1, <2>1, <2>2, <2>3
<1>6. QED
  BY <1>3, <1>4, <1>5

LEMMA ProceedImplements ==
    ASSUME Fenced, NEW client \in Clients, Proceed(client)
    PROVE  Contract!Next \/ UNCHANGED Contract!vars
<1>1. ASSUME Snapshot(client) PROVE Contract!Next \/ UNCHANGED Contract!vars
  BY <1>1, SnapshotImplements
<1>2. ASSUME SnapshotFails(client) PROVE Contract!Next
  BY <1>2, FailureImplements DEF SnapshotFails
<1>3. ASSUME BatchApplies(client) PROVE Contract!Next
  <2>1. /\ step[client] = "submitted"
        /\ Admits(batch[client]) /\ Applied(batch[client])
        /\ UNCHANGED <<call, stray>>
    BY <1>3 DEF BatchApplies
  <2>2. /\ batch[client] \in InFlight
        /\ batch[client].request \in Contract!Awaited
    BY <2>1, InFlightCases, SameWaiting DEF Fenced, Linked
  <2>3. QED
    BY <2>1, <2>2, ApplicationImplements
<1>4. ASSUME BatchRejected(client) \/ AcknowledgeLost(client)
      PROVE  UNCHANGED Contract!vars
  BY <1>4 DEF BatchRejected, AcknowledgeLost, Reconciling, tables, Abandoned,
              Contract!vars
<1>5. ASSUME BatchLost(client) PROVE Contract!Next \/ UNCHANGED Contract!vars
  BY <1>5, BatchLostImplements
<1>6. ASSUME Acknowledge(client) PROVE Contract!Next
  <2>1. [request |-> call[client].request,
         response |-> batch[client].plan.response] \in database.commands
    BY <1>6 DEF Acknowledge, Fenced, AppliedRecorded
  <2>2. Contract!Waiting(client) /\ UNCHANGED <<database, Abandoned>>
    BY <1>6, SameWaiting DEF Acknowledge, tables, Abandoned
  <2>3. call' = [call EXCEPT ![client] =
                   Done(call[client].request, batch[client].plan.response)]
    BY <1>6 DEF Acknowledge, Respond
  <2>4. Contract!Reply(client)
    BY <2>1, <2>2, <2>3, SameReplies DEF Contract!Reply
  <2>5. QED
    BY <2>4 DEF Contract!Next
<1>7. ASSUME Reconcile(client) PROVE Contract!Next
  BY <1>7, ReplayImplements, FailureImplements DEF Reconcile
<1>8. ASSUME ReconcileFails(client) PROVE Contract!Next
  BY <1>8, FailureImplements DEF ReconcileFails
<1>9. QED
  BY <1>1, <1>2, <1>3, <1>4, <1>5, <1>6, <1>7, <1>8 DEF Proceed

LEMMA StrayImplements ==
    ASSUME Fenced, NEW b \in stray, StrayArrives(b) \/ StrayDropped(b)
    PROVE  Contract!Next \/ UNCHANGED Contract!vars
<1>1. stray' \subseteq stray /\ UNCHANGED call
  BY DEF StrayArrives, StrayDropped
<1>2. CASE Admits(b) /\ Applied(b)
  <2>1. b \in InFlight /\ b.request \in Abandoned
    BY <1>2, InFlightCases, AbandonedFacts DEF Admits
  <2>2. QED
    BY <1>1, <1>2, <2>1, ApplicationImplements
<1>3. CASE UNCHANGED tables
  <2>1. Abandoned' \subseteq Abandoned
    BY <1>1, <1>3 DEF Abandoned, tables
  <2>2. Abandoned' = Abandoned \/ Contract!Forget
    BY <1>1, <1>3, <2>1 DEF Contract!Forget, tables
  <2>3. QED
    BY <1>1, <1>3, <2>2 DEF Contract!Next, Contract!vars, tables
<1>4. QED
  BY <1>2, <1>3 DEF StrayArrives, StrayDropped

\* Every step is one of the contract, or nothing to it.
LEMMA StepImplements ==
    Fenced /\ [Next]_vars => Contract!Next \/ UNCHANGED Contract!vars
<1> SUFFICES ASSUME Fenced, [Next]_vars
             PROVE  Contract!Next \/ UNCHANGED Contract!vars
  OBVIOUS
<1>1. ASSUME NEW client \in Clients, NEW request \in Requests,
             Call(client, request)
      PROVE  Contract!Next
  <2>1. ~Contract!Waiting(client)
    BY <1>1, SameWaiting DEF Call
  <2>2. /\ call' = [call EXCEPT ![client] = Pending(request)]
        /\ UNCHANGED <<database, Abandoned>>
    BY <1>1 DEF Call, tables, Abandoned
  <2>3. Contract!Call(client, request)
    BY <2>1, <2>2, SameReplies DEF Contract!Call
  <2>4. QED
    BY <2>3 DEF Contract!Next
<1>2. CASE UNCHANGED vars
  BY <1>2 DEF vars, Contract!vars, Abandoned
<1>3. QED
  BY <1>1, <1>2, ProceedImplements, StrayImplements DEF Next

\* The D1 store implements the contract: every command takes effect at most
\* once, atomically, as planned on the tables it commits to; every reply is the
\* recorded response, a refusal that stays true, or an honest failure.
THEOREM D1Implements == Spec => ImplementsContract
<1>1. Init => Contract!Init
  BY DEF Init, Contract!Init, Abandoned, Idle, Contract!Idle
<1>2. Fenced /\ [Next]_vars => [Contract!Next]_Contract!vars
  BY StepImplements
<1>3. QED
  BY <1>1, <1>2, FencedInvariant, PTL
  DEF Spec, ImplementsContract, Contract!Spec

-----------------------------------------------------------------------------
(* The tables of the store.                                                *)

\* What ties the epoch and the row sequence to the tables.
Sequenced ==
    /\ Sound(database)
    /\ epoch = Cardinality(database.commands) + 1
    /\ rowSeq \in [FlagKeys -> Nat]
    /\ \A flag \in FlagKeys :
         /\ rowSeq[flag] < epoch
         /\ rowSeq[flag] = 0 <=> database.flags[flag].revision = 0

\* A step leaves the tables alone or applies one fenced batch.
LEMMA StoreStep ==
    ASSUME Fenced, Sound(database), [Next]_vars
    PROVE  \/ UNCHANGED tables
           \/ \E b \in InFlight :
                /\ Admits(b)
                /\ Applied(b)
                /\ Admissible(database, b.request)
                /\ database' = Committed(database, b.request)
<1>1. ASSUME NEW b \in InFlight, Admits(b), Applied(b)
      PROVE  /\ Admissible(database, b.request)
             /\ database' = Committed(database, b.request)
  <2>1. b.epoch = epoch
    BY <1>1 DEF Admits
  <2>2. /\ b.plan = Plan(database, b.request)
        /\ ~Recorded(database, b.request)
        /\ b.request \in Requests
        /\ b.plan.status = "Planned"
    BY <2>1 DEF Fenced, FencedBatchesFresh, Linked
  <2>3. QED
    BY <1>1, <2>2 DEF Applied, Admissible, Committed
<1>2. ASSUME NEW client \in Clients, NEW request \in Requests,
             Call(client, request)
      PROVE  UNCHANGED tables
  BY <1>2 DEF Call
<1>3. ASSUME NEW client \in Clients, Proceed(client), ~BatchApplies(client)
      PROVE  UNCHANGED tables
  BY <1>3
  DEF Proceed, Snapshot, SnapshotFails, BatchRejected, BatchLost, Acknowledge,
      AcknowledgeLost, Reconcile, ReconcileFails
<1>4. ASSUME NEW client \in Clients, BatchApplies(client)
      PROVE  \E b \in InFlight : Admits(b) /\ Applied(b)
  BY <1>4, InFlightCases DEF BatchApplies
<1>5. ASSUME NEW b \in stray, StrayArrives(b) \/ StrayDropped(b)
      PROVE  UNCHANGED tables \/ \E s \in InFlight : Admits(s) /\ Applied(s)
  BY <1>5, InFlightCases DEF StrayArrives, StrayDropped
<1>6. CASE UNCHANGED vars
  BY <1>6 DEF vars, tables
<1>7. QED
  BY <1>1, <1>2, <1>3, <1>4, <1>5, <1>6 DEF Next

\* The revisions an admitted create_flag finds and leaves.
LEMMA CreatedRevisions ==
    ASSUME NEW db, NEW request, Admissible(db, request), NEW flag \in FlagKeys
    PROVE  LET after == Committed(db, request) IN
           IF request.operation = "create_flag" /\ request.flag = flag
           THEN /\ db.flags[flag].revision = 0
                /\ after.flags[flag].revision # 0
           ELSE after.flags[flag].revision = 0 <=> db.flags[flag].revision = 0
<1> DEFINE after == Committed(db, request)
<1>1. /\ db.flags[flag].revision \in Nat
      /\ after.flags[flag].revision
           = db.flags[flag].revision + FlagStep(request, flag)
  BY CommitEffects
  DEF Effects, FlagEffects, Admissible, Sound, Database, FlagRecord
<1> HIDE DEF after
<1>2. CASE request \in CreateFlag
  <2>1. db.flags[request.flag].revision = 0
    BY <1>2, CreateFlagWrites
  <2>2. request.operation = "create_flag"
    BY <1>2 DEF CreateFlag
  <2>3. QED
    BY <1>1, <2>1, <2>2 DEF FlagStep, FlagOperations, after
<1>3. CASE request \in ChangeFlag
  <2>1. db.flags[request.flag].revision # 0
    BY <1>3, ChangeFlagWrites
  <2>2. request.operation \in {"update_flag", "archive_flag"}
    BY <1>3 DEF ChangeFlag
  <2>3. QED
    BY <1>1, <2>1, <2>2 DEF FlagStep, FlagOperations, after
<1>4. CASE request \in PublishRuleset
  <2>1. db.flags[request.flag].revision # 0
    BY <1>4, PublishRulesetWrites
  <2>2. request.operation = "publish_ruleset"
    BY <1>4 DEF PublishRuleset
  <2>3. QED
    BY <1>1, <2>1, <2>2 DEF FlagStep, FlagOperations, after
<1>5. CASE request \in PutEnvironment \union Evaluate
  <2>1. request.operation \in {"put_environment", "evaluate", "evaluate_batch"}
    BY <1>5 DEF PutEnvironment, Evaluate
  <2>2. QED
    BY <1>1, <2>1 DEF FlagStep, FlagOperations, after
<1>6. QED
  BY <1>2, <1>3, <1>4, <1>5, RequestFields DEF Admissible

LEMMA SequencedKept ==
    ASSUME Fenced, Sequenced, [Next]_vars
    PROVE  Sequenced'
<1>1. CASE UNCHANGED tables
  BY <1>1 DEF tables, Sequenced
<1>2. ASSUME NEW b \in InFlight, Admits(b), Applied(b),
             Admissible(database, b.request),
             database' = Committed(database, b.request)
      PROVE  Sequenced'
  <2> DEFINE request == b.request
             new     == NewCommand(database, request)
  <2>1. Sound(database')
    BY <1>2, CommitSound
  <2>2. /\ database'.commands = database.commands \union {new}
        /\ new \notin database.commands
    BY <1>2, CommitEffects, NewCommandNew DEF Effects, RowEffects
  <2>3. IsFiniteSet(database.commands) /\ Cardinality(database.commands) \in Nat
    BY FS_CardinalityType DEF Sequenced, Sound
  <2> HIDE DEF new
  <2>4. Cardinality(database.commands \union {new})
          = Cardinality(database.commands) + 1
    BY <2>2, <2>3, FS_AddElement
  <2>5. /\ epoch' = epoch + 1
        /\ epoch \in Nat \ {0}
        /\ b.epoch = epoch
        /\ rowSeq' = IF request.operation = "create_flag"
                     THEN [rowSeq EXCEPT ![request.flag] = epoch]
                     ELSE rowSeq
    BY <1>2, <2>3 DEF Applied, Admits, Sequenced
  <2>6. epoch' = Cardinality(database'.commands) + 1
    BY <2>2, <2>4, <2>5 DEF Sequenced
  <2>7. rowSeq' \in [FlagKeys -> Nat]
    BY <2>5 DEF Sequenced
  <2>8. ASSUME NEW flag \in FlagKeys
        PROVE  /\ rowSeq'[flag] < epoch'
               /\ rowSeq'[flag] = 0 <=> database'.flags[flag].revision = 0
    <3>1. /\ rowSeq[flag] \in Nat
          /\ rowSeq[flag] < epoch
          /\ rowSeq[flag] = 0 <=> database.flags[flag].revision = 0
      BY DEF Sequenced
    <3>2. rowSeq'[flag] =
            IF request.operation = "create_flag" /\ request.flag = flag
            THEN epoch ELSE rowSeq[flag]
      BY <2>5 DEF Sequenced
    <3>3. IF request.operation = "create_flag" /\ request.flag = flag
          THEN database'.flags[flag].revision # 0
          ELSE database'.flags[flag].revision = 0
                 <=> database.flags[flag].revision = 0
      BY <1>2, CreatedRevisions
    <3>4. QED
      BY <2>5, <3>1, <3>2, <3>3
  <2>9. QED
    BY <2>1, <2>6, <2>7, <2>8 DEF Sequenced
<1>3. QED
  BY <1>1, <1>2, StoreStep DEF Sequenced

LEMMA InitSequenced == Init => Sequenced
<1>1. SUFFICES ASSUME Init PROVE Sequenced
  OBVIOUS
<1>2. Sound(database)
  BY <1>1, StoredAssumption DEF Init
<1>3. Cardinality(database.commands) \in Nat
  BY <1>2, FS_CardinalityType DEF Sound
<1>4. QED
  BY <1>1, <1>2, <1>3 DEF Init, Sequenced

\* Whatever the binding does to its batches, the tables of the D1 store satisfy
\* every constraint and every invariant the contract promises of them.
THEOREM D1TablesSound == Spec => []Sequenced
BY InitSequenced, SequencedKept, FencedInvariant, PTL DEF Spec

\* Every write batch moves the epoch once and records one command.
THEOREM D1Epochs == Spec => []EpochCountsCommands
<1>1. Sequenced => EpochCountsCommands
  BY DEF Sequenced, EpochCountsCommands
<1>2. QED
  BY <1>1, D1TablesSound, PTL

\* A new flag is listed after every flag created before it.
THEOREM D1FlagsListLast == Spec => CreatedFlagsListLast
<1>1. ASSUME Fenced, Sequenced, [Next]_vars
      PROVE  [\A flag \in FlagKeys :
                rowSeq'[flag] # rowSeq[flag] =>
                  /\ rowSeq[flag] = 0
                  /\ \A other \in FlagKeys : rowSeq[other] < rowSeq'[flag]
             ]_rowSeq
  <2>1. CASE UNCHANGED tables
    BY <2>1 DEF tables
  <2>2. ASSUME NEW b \in InFlight, Admits(b), Applied(b),
               Admissible(database, b.request),
               NEW flag \in FlagKeys, rowSeq'[flag] # rowSeq[flag]
        PROVE  /\ rowSeq[flag] = 0
               /\ \A other \in FlagKeys : rowSeq[other] < rowSeq'[flag]
    <3>1. /\ b.request.operation = "create_flag"
          /\ b.request.flag = flag
          /\ rowSeq'[flag] = epoch
      BY <2>2 DEF Applied, Admits, Sequenced
    <3>2. database.flags[flag].revision = 0
      BY <2>2, <3>1, CreatedRevisions
    <3>3. QED
      BY <1>1, <3>1, <3>2 DEF Sequenced
  <2>3. QED
    BY <1>1, <2>1, <2>2, StoreStep DEF Sequenced
<1>2. QED
  BY <1>1, FencedInvariant, D1TablesSound, PTL DEF Spec, CreatedFlagsListLast

\* Behind the epoch guard no constraint decides: a batch the guard admits
\* satisfies the primary keys, the unique keys and the foreign keys, and the
\* UNIQUE row_seq of a new flag never collides.
THEOREM D1GuardSuffices == Spec => []GuardSuffices
<1>1. Fenced /\ Sequenced => GuardSuffices
  <2>1. SUFFICES ASSUME Fenced, Sequenced, NEW b \in InFlight, b.epoch = epoch
                 PROVE  Admits(b)
    BY DEF GuardSuffices
  <2>2. /\ b.plan = Plan(database, b.request)
        /\ Admissible(database, b.request)
    BY <2>1
    DEF Fenced, FencedBatchesFresh, Linked, Sequenced, Admissible
  <2>3. Fits(database, b.request, b.plan)
    BY <2>2, PlansFit
  <2>4. \A flag \in FlagKeys : rowSeq[flag] # b.epoch
    BY <2>1 DEF Sequenced
  <2>5. QED
    BY <2>1, <2>3, <2>4 DEF Admits
<1>2. QED
  BY <1>1, FencedInvariant, D1TablesSound, PTL

-----------------------------------------------------------------------------
(* What the contract promises, of the D1 store.                            *)

\* A definite reply is the contract's, so what it says is recorded.
LEMMA ReplySteps ==
    ASSUME Fenced, [Next]_vars, NEW c \in Clients
    PROVE  call'[c] = call[c] \/ Justified(call'[c], database)
<1>1. /\ DOMAIN call = Clients
      /\ \A client \in Clients :
           Contract!Waiting(client) => call[client].request \in Requests
  BY SameWaiting DEF Fenced, Linked
<1>2. ASSUME NEW client \in Clients, NEW request \in Requests,
             Contract!Call(client, request)
      PROVE  call'[c] = call[c] \/ Justified(call'[c], database)
  BY <1>1, <1>2 DEF Contract!Call, Contract!Pending, Justified
<1>3. ASSUME NEW client \in Clients, Contract!Reply(client)
      PROVE  call'[c] = call[c] \/ Justified(call'[c], database)
  <2>1. PICK row \in database.commands :
          /\ row.request = call[client].request
          /\ call' = [call EXCEPT ![client] =
                        Done(call[client].request, row.response)]
    BY <1>3, SameReplies DEF Contract!Reply
  <2>2. Justified(Done(call[client].request, row.response), database)
    BY <2>1 DEF Done, Justified
  <2>3. QED
    BY <1>1, <2>1, <2>2
<1>4. ASSUME NEW client \in Clients, Contract!Conflict(client)
      PROVE  call'[c] = call[c] \/ Justified(call'[c], database)
  <2>1. PICK row \in CommandRows(database, call[client].request) :
          /\ row.request # call[client].request
          /\ call' = [call EXCEPT ![client] =
                RefusedCall(call[client].request, "IdempotencyConflict")]
    BY <1>4, SameReplies, SameTables DEF Contract!Conflict
  <2>2. Justified(RefusedCall(call[client].request, "IdempotencyConflict"),
                  database)
    BY <2>1 DEF RefusedCall, Justified
  <2>3. QED
    BY <1>1, <2>1, <2>2
<1>5. ASSUME NEW client \in Clients, Contract!Refuse(client)
      PROVE  call'[c] = call[c] \/ Justified(call'[c], database)
  <2> DEFINE failure == Plan(database, call[client].request).status
  <2>1. call[client].request \in Requests
    BY <1>1, <1>5 DEF Contract!Refuse
  <2>2. failure # "IdempotencyConflict"
    BY <2>1, PlanStatus DEF PlanFailures
  <2>3. call' = [call EXCEPT ![client] =
                   RefusedCall(call[client].request, failure)]
    BY <1>5, <2>1, SamePlan, SameReplies DEF Contract!Refuse
  <2> HIDE DEF failure
  <2>4. Justified(RefusedCall(call[client].request, failure), database)
    BY <2>2 DEF RefusedCall, Justified
  <2>5. QED
    BY <1>1, <2>3, <2>4
<1>6. ASSUME NEW client \in Clients,
             Contract!Abandon(client) \/ Contract!Fail(client)
      PROVE  call'[c] = call[c] \/ Justified(call'[c], database)
  BY <1>1, <1>6 DEF Contract!Abandon, Contract!Fail, Contract!Failed, Justified
<1>7. ASSUME NEW client \in Clients, Contract!Postpone(client)
      PROVE  call'[c] = call[c] \/ Justified(call'[c], database)
  BY <1>1, <1>7 DEF Contract!Postpone, Contract!RefusedCall, Justified
<1>8. ASSUME \/ Contract!Forget
             \/ UNCHANGED Contract!vars
             \/ \E request \in Requests : Contract!Execute(request)
      PROVE  call'[c] = call[c]
  BY <1>8 DEF Contract!Forget, Contract!vars, Contract!Execute
<1>9. QED
  BY StepImplements, <1>2, <1>3, <1>4, <1>5, <1>6, <1>7, <1>8
  DEF Contract!Next

\* What the tables keep, read as the contract reads it.
LEMMA SameRows ==
    ASSUME NEW db, NEW flag, NEW environment
    PROVE  Contract!Published(db, flag, environment)
             = Published(db, flag, environment)
BY DEF Published, Contract!Published

\* On D1 no client is told of a success, or of a conflict, that is not recorded,
\* although the answers are computed from snapshots or come from batches whose
\* outcome had to be read back.
THEOREM D1RepliesJustified == Spec => []Contract!RepliesJustified
<1> DEFINE Replies == \A c \in Clients : Justified(call[c], database)
<1>1. Init => Replies
  BY DEF Init, Idle, Justified
<1>2. Fenced /\ Sequenced /\ Replies /\ [Next]_vars => Replies'
  <2> SUFFICES ASSUME Fenced, Sequenced, Replies, [Next]_vars,
                      NEW c \in Clients
               PROVE  Justified(call'[c], database')
    OBVIOUS
  <2>1. Justified(call'[c], database)
    BY ReplySteps
  <2>2. database.commands \subseteq database'.commands
    BY StoreStep, CommitKeepsEvidence DEF EvidenceKept, tables, Sequenced
  <2>3. QED
    BY <2>1, <2>2, JustifiedKept
<1>3. Replies => Contract!RepliesJustified
  BY SameTables
  DEF Justified, Contract!RepliesJustified, Contract!RepliesRecorded,
      Contract!ConflictsJustified
<1> HIDE DEF Replies
<1>4. QED
  BY <1>1, <1>2, <1>3, FencedInvariant, D1TablesSound, PTL DEF Spec

\* On D1 no batch, however late it arrives, rewrites audit evidence.
THEOREM D1EvidenceGrows == Spec => Contract!EvidenceGrows
<1>1. ASSUME Fenced, Sequenced, [Next]_vars
      PROVE  [/\ database.commands \subseteq database'.commands
              /\ database.rulesets \subseteq database'.rulesets
              /\ database.receipts \subseteq database'.receipts
              /\ \A flag \in FlagKeys :
                   database.flags[flag].revision =< database'.flags[flag].revision
             ]_database
  BY <1>1, StoreStep, CommitKeepsEvidence DEF EvidenceKept, tables, Sequenced
<1>2. QED
  BY <1>1, FencedInvariant, D1TablesSound, PTL DEF Spec, Contract!EvidenceGrows

\* On D1 archiving is final, although a command that saw the flag active may
\* submit its batch after the archival.
THEOREM D1ArchivedIsFinal == Spec => Contract!ArchivedIsFinal
<1>1. ASSUME Fenced, Sequenced, [Next]_vars
      PROVE  [\A flag \in FlagKeys :
                database.flags[flag].archived =>
                  /\ database'.flags[flag] = database.flags[flag]
                  /\ \A receipt \in database'.receipts \ database.receipts :
                       receipt.flag # flag
                  /\ \A row \in database'.rulesets \ database.rulesets :
                       row.flag # flag
             ]_database
  BY <1>1, StoreStep, CommitKeepsArchived DEF ArchivedKept, tables, Sequenced
<1>2. QED
  BY <1>1, FencedInvariant, D1TablesSound, PTL DEF Spec, Contract!ArchivedIsFinal

\* On D1 an evaluation is recorded against the latest ruleset, although it was
\* planned on a snapshot.
THEOREM D1EvaluationsCurrent == Spec => Contract!EvaluationsCurrent
<1>1. ASSUME Fenced, Sequenced, [Next]_vars
      PROVE  [\A receipt \in database'.receipts \ database.receipts :
                \A row \in Contract!Published(database, receipt.flag,
                                              receipt.environment) :
                    row.revision =< receipt.ruleset_revision
             ]_database
  BY <1>1, StoreStep, SameRows, CommitEvaluatesLatest
  DEF EvaluatedLatest, tables, Sequenced
<1>2. QED
  BY <1>1, FencedInvariant, D1TablesSound, PTL
  DEF Spec, Contract!EvaluationsCurrent

-----------------------------------------------------------------------------
(* Types.                                                                  *)

\* The plan of an admitted command has rows of the tables and a response.
LEMMA PlanTyped ==
    ASSUME NEW db, NEW request, Admissible(db, request)
    PROVE  PlanOK(Plan(db, request))
<1> DEFINE plan  == Plan(db, request)
           after == Committed(db, request)
<1>1. /\ db.flags \in [FlagKeys -> FlagRecord]
      /\ db.environments \in [EnvironmentKeys -> EnvironmentRecord]
      /\ request \in Requests
      /\ plan.status = "Planned"
  BY DEF Admissible, Sound, Database
<1>2. after \in Database
  BY CommitSound DEF Sound
<1>3. plan.response \in Response
  BY CommitEffects DEF Effects, ResponseEffects
<1>4. DOMAIN plan.flags \subseteq FlagKeys
      /\ DOMAIN plan.environments \subseteq EnvironmentKeys
  <2>1. CASE request \in CreateFlag
    <3>1. plan = PlanCreateFlag(db, request) /\ request.flag \in FlagKeys
      BY <2>1 DEF CreateFlag, Plan
    <3>2. QED
      BY <1>1, <3>1 DEF PlanCreateFlag, Refused, Planned, Row, NoRows
  <2>2. CASE request \in ChangeFlag
    <3>1. plan = PlanChangeFlag(db, request) /\ request.flag \in FlagKeys
      BY <2>2 DEF ChangeFlag, Plan
    <3>2. QED
      BY <1>1, <3>1
      DEF PlanChangeFlag, FlagVerdict, Refused, Planned, Row, NoRows
  <2>3. CASE request \in PutEnvironment
    <3>1. /\ plan = PlanPutEnvironment(db, request)
          /\ request.environment \in EnvironmentKeys
      BY <2>3 DEF PutEnvironment, Plan
    <3>2. QED
      BY <1>1, <3>1 DEF PlanPutEnvironment, Refused, Planned, Row, NoRows
  <2>4. CASE request \in PublishRuleset
    <3>1. /\ plan = PlanPublishRuleset(db, request)
          /\ request.flag \in FlagKeys
          /\ request.environment \in EnvironmentKeys
      BY <2>4 DEF PublishRuleset, Plan
    <3>2. QED
      BY <1>1, <3>1
      DEF PlanPublishRuleset, FlagVerdict, ValidateRuleset, Refused, Planned,
          Row, NoRows
  <2>5. CASE request \in Evaluate
    <3>1. plan = PlanEvaluate(db, request)
      BY <2>5 DEF Evaluate, Plan
    <3>2. QED
      BY <1>1, <3>1, VerdictNeverPlanned
      DEF PlanEvaluate, Refused, Planned, NoRows
  <2>6. QED
    BY <1>1, <2>1, <2>2, <2>3, <2>4, <2>5, RequestFields
<1>5. /\ after.flags = Written(db.flags, plan.flags)
      /\ after.environments = Written(db.environments, plan.environments)
      /\ plan.rulesets \subseteq after.rulesets
      /\ plan.receipts \subseteq after.receipts
  BY DEF Committed, Commit
<1> HIDE DEF plan, after
<1>6. \A flag \in DOMAIN plan.flags : plan.flags[flag] \in FlagRecord
  BY <1>1, <1>2, <1>4, <1>5 DEF Database, Written
<1>7. \A environment \in DOMAIN plan.environments :
        plan.environments[environment] \in EnvironmentRecord
  BY <1>1, <1>2, <1>4, <1>5 DEF Database, Written
<1>8. plan.rulesets \subseteq RulesetRow /\ plan.receipts \subseteq ReceiptRow
  BY <1>2, <1>5 DEF Database
<1>9. QED
  BY <1>1, <1>3, <1>4, <1>6, <1>7, <1>8 DEF PlanOK, plan

\* The part of the type invariant that is about the calls.
CallsTyped ==
    /\ step \in [Clients -> {"idle", "snapshot", "submitted", "applied",
                             "reconcile"}]
    /\ call \in [Clients -> CallState]
    /\ \A client \in Clients :
         IF step[client] \in {"submitted", "applied"}
         THEN BatchOK(batch[client])
         ELSE batch[client] = NoBatch
    /\ \A b \in stray : BatchOK(b)

LEMMA RespondTyped ==
    ASSUME CallsTyped, Fenced, NEW client \in Clients, NEW reply \in CallState,
           Respond(client, reply), UNCHANGED stray
    PROVE  CallsTyped'
<1>1. /\ call' = [call EXCEPT ![client] = reply]
      /\ step' = [step EXCEPT ![client] = "idle"]
      /\ batch' = [batch EXCEPT ![client] = NoBatch]
  BY DEF Respond
<1>2. DOMAIN batch = Clients
  BY DEF Fenced, Linked
<1>3. /\ step'[client] = "idle"
      /\ batch'[client] = NoBatch
      /\ \A c \in Clients : c # client =>
           step'[c] = step[c] /\ batch'[c] = batch[c]
  BY <1>1, <1>2 DEF CallsTyped
<1>4. /\ step' \in [Clients -> {"idle", "snapshot", "submitted", "applied",
                                "reconcile"}]
      /\ call' \in [Clients -> CallState]
  BY <1>1 DEF CallsTyped
<1>5. QED
  BY <1>3, <1>4 DEF CallsTyped

LEMMA ReplayTyped ==
    ASSUME CallsTyped, Fenced, Sequenced, NEW client \in Clients,
           call[client].request \in Requests, Replay(client), UNCHANGED stray
    PROVE  CallsTyped'
<1> DEFINE request == call[client].request
<1>1. PICK row \in CommandRows(database, request) :
        Respond(client, IF row.request = request
                        THEN Done(request, row.response)
                        ELSE RefusedCall(request, "IdempotencyConflict"))
  BY DEF Replay
<1>2. row.response \in Response
  BY DEF CommandRows, Sequenced, Sound, Database, CommandRow
<1>3. /\ Done(request, row.response) \in CallState
      /\ RefusedCall(request, "IdempotencyConflict") \in CallState
  BY <1>2 DEF Done, RefusedCall, CallState, Failures
<1>4. QED
  BY <1>1, <1>3, RespondTyped

LEMMA FailureTyped ==
    ASSUME CallsTyped, Fenced, NEW client \in Clients,
           call[client].request \in Requests,
           Respond(client, Failed(call[client].request)), UNCHANGED stray
    PROVE  CallsTyped'
<1>1. Failed(call[client].request) \in CallState
  BY DEF Failed, CallState
<1>2. QED
  BY <1>1, RespondTyped

LEMMA ReconcilingTyped ==
    ASSUME CallsTyped, Fenced, NEW client \in Clients, Reconciling(client),
           \A b \in stray' : b \in stray \/ BatchOK(b)
    PROVE  CallsTyped'
<1>1. /\ step' = [step EXCEPT ![client] = "reconcile"]
      /\ batch' = [batch EXCEPT ![client] = NoBatch]
      /\ call' = call
  BY DEF Reconciling
<1>2. DOMAIN batch = Clients
  BY DEF Fenced, Linked
<1>3. /\ step'[client] = "reconcile"
      /\ batch'[client] = NoBatch
      /\ \A c \in Clients : c # client =>
           step'[c] = step[c] /\ batch'[c] = batch[c]
  BY <1>1, <1>2 DEF CallsTyped
<1>4. step' \in [Clients -> {"idle", "snapshot", "submitted", "applied",
                             "reconcile"}]
  BY <1>1 DEF CallsTyped
<1>5. QED
  BY <1>1, <1>3, <1>4 DEF CallsTyped

LEMMA SnapshotTyped ==
    ASSUME CallsTyped, Fenced, Sequenced, NEW client \in Clients,
           call[client].request \in Requests, Snapshot(client)
    PROVE  CallsTyped'
<1> DEFINE request == call[client].request
           plan    == Plan(database, request)
           new     == [request |-> request, epoch |-> epoch, plan |-> plan]
<1>1. stray' = stray
  BY DEF Snapshot
<1>2. CASE Replay(client)
  BY <1>1, <1>2, ReplayTyped
<1>3. CASE /\ plan.status # "Planned"
           /\ Respond(client, RefusedCall(request, plan.status))
  <2>1. plan.status \in Failures
    BY <1>3, PlanStatus DEF PlanFailures, Failures
  <2>2. RefusedCall(request, plan.status) \in CallState
    BY <2>1 DEF RefusedCall, CallState
  <2>3. QED
    BY <1>1, <1>3, <2>2, RespondTyped
<1>4. CASE /\ ~Recorded(database, request)
           /\ plan.status = "Planned"
           /\ batch' = [batch EXCEPT ![client] = new]
           /\ step' = [step EXCEPT ![client] = "submitted"]
           /\ UNCHANGED call
  <2>1. Admissible(database, request)
    BY <1>4 DEF Admissible, Sequenced
  <2>2. BatchOK(new)
    <3>1. PlanOK(plan) /\ epoch \in Nat
      BY <2>1, PlanTyped DEF Fenced, Linked
    <3>2. QED
      BY <3>1 DEF BatchOK
  <2>3. DOMAIN batch = Clients
    BY DEF Fenced, Linked
  <2> HIDE DEF new
  <2>4. /\ step'[client] = "submitted"
        /\ batch'[client] = new
        /\ \A c \in Clients : c # client =>
             step'[c] = step[c] /\ batch'[c] = batch[c]
    BY <1>4, <2>3 DEF CallsTyped
  <2>5. step' \in [Clients -> {"idle", "snapshot", "submitted", "applied",
                               "reconcile"}]
    BY <1>4 DEF CallsTyped
  <2>6. QED
    BY <1>1, <1>4, <2>2, <2>4, <2>5 DEF CallsTyped
<1>5. QED
  BY <1>2, <1>3, <1>4 DEF Snapshot

LEMMA ProceedTyped ==
    ASSUME CallsTyped, Fenced, Sequenced, NEW client \in Clients, Proceed(client)
    PROVE  CallsTyped'
<1>1. step[client] # "idle"
  BY DEF Proceed, Snapshot, SnapshotFails, BatchApplies, BatchRejected,
         BatchLost, Acknowledge, AcknowledgeLost, Reconcile, ReconcileFails
<1>2. call[client].request \in Requests
  BY <1>1 DEF Fenced, Linked
<1>3. CASE Snapshot(client)
  BY <1>2, <1>3, SnapshotTyped
<1>4. CASE SnapshotFails(client) \/ ReconcileFails(client)
  BY <1>2, <1>4, FailureTyped DEF SnapshotFails, ReconcileFails
<1>5. CASE BatchApplies(client)
  BY <1>5 DEF BatchApplies, CallsTyped
<1>6. CASE BatchRejected(client) \/ AcknowledgeLost(client)
  BY <1>6, ReconcilingTyped DEF BatchRejected, AcknowledgeLost
<1>7. CASE BatchLost(client)
  <2>1. BatchOK(batch[client])
    BY <1>7 DEF BatchLost, CallsTyped
  <2>2. \A b \in stray' : b \in stray \/ BatchOK(b)
    BY <1>7, <2>1 DEF BatchLost
  <2>3. QED
    BY <1>7, <2>2, ReconcilingTyped DEF BatchLost
<1>8. CASE Acknowledge(client)
  <2>1. batch[client].plan.response \in Response
    BY <1>8 DEF Acknowledge, CallsTyped, BatchOK, PlanOK
  <2>2. Done(call[client].request, batch[client].plan.response) \in CallState
    BY <1>2, <2>1 DEF Done, CallState
  <2>3. QED
    BY <1>8, <2>2, RespondTyped DEF Acknowledge
<1>9. CASE Reconcile(client)
  BY <1>2, <1>9, ReplayTyped, FailureTyped DEF Reconcile
<1>10. QED
  BY <1>3, <1>4, <1>5, <1>6, <1>7, <1>8, <1>9 DEF Proceed

LEMMA TypesKept ==
    ASSUME CallsTyped, Fenced, Sequenced, [Next]_vars
    PROVE  CallsTyped'
<1>1. ASSUME NEW client \in Clients, NEW request \in Requests,
             Call(client, request)
      PROVE  CallsTyped'
  <2>1. Pending(request) \in CallState
    BY DEF Pending, CallState
  <2>2. QED
    BY <1>1, <2>1 DEF Call, CallsTyped
<1>2. ASSUME NEW client \in Clients, Proceed(client)
      PROVE  CallsTyped'
  BY <1>2, ProceedTyped
<1>3. ASSUME NEW b \in stray, StrayArrives(b) \/ StrayDropped(b)
      PROVE  CallsTyped'
  BY <1>3 DEF StrayArrives, StrayDropped, CallsTyped
<1>4. CASE UNCHANGED vars
  BY <1>4 DEF vars, CallsTyped
<1>5. QED
  BY <1>1, <1>2, <1>3, <1>4 DEF Next

LEMMA InitTyped == Init => CallsTyped
BY DEF Init, CallsTyped, CallState, Idle

\* The type invariant.
THEOREM D1Typed == Spec => []TypeOK
<1>1. CallsTyped /\ Fenced /\ Sequenced => TypeOK
  BY DEF CallsTyped, Fenced, Linked, Sequenced, Sound, TypeOK
<1>2. QED
  BY <1>1, InitTyped, TypesKept, FencedInvariant, D1TablesSound, PTL DEF Spec

-----------------------------------------------------------------------------
(* Clients that retry.                                                     *)

\* What holds in every state of the store.
Kept == CallsTyped /\ Fenced /\ Sequenced

\* A client that repeats its failed request calls like any other.
LEMMA RetriesCall ==
    ASSUME Kept, [RetryNext]_retryVars
    PROVE  [Next]_vars
<1>1. ASSUME NEW client \in Clients, Retry(client)
      PROVE  \E request \in Requests : Call(client, request)
  <2>1. call[client] \in CallState /\ call[client].status = "failed"
    BY <1>1 DEF Kept, CallsTyped, Retry
  <2>2. call[client].request \in Requests
    BY <2>1 DEF CallState, Idle
  <2>3. QED
    BY <1>1, <2>2 DEF Retry
<1>2. ASSUME NEW client \in Clients, Work(client) \/ Fault(client)
      PROVE  Proceed(client)
  BY <1>2 DEF Work, Fault, Proceed
<1>3. ASSUME NEW client \in Clients, Ask(client)
      PROVE  \E request \in Requests : Call(client, request)
  BY <1>3 DEF Ask
<1>4. CASE UNCHANGED retryVars
  BY <1>4 DEF retryVars
<1>5. QED
  BY <1>1, <1>2, <1>3, <1>4 DEF RetryNext, Next

LEMMA KeptByRetries == RetrySpec => []Kept
<1>1. RetryInit => Kept
  BY InitFenced, InitSequenced, InitTyped DEF RetryInit, Kept
<1>2. Kept /\ [RetryNext]_retryVars => Kept'
  BY RetriesCall, FencedKept, SequencedKept, TypesKept DEF Kept
<1>3. RetrySpec => RetryInit /\ [][RetryNext]_retryVars
  BY PTL DEF RetrySpec
<1>4. QED
  BY <1>1, <1>2, <1>3, PTL

\* Clients that retry are clients of the store: the contract, and all that is
\* proved of the store, holds of them too.
THEOREM RetriesAreCalls == RetrySpec => Spec
<1>1. RetrySpec => Init /\ [][RetryNext]_retryVars
  BY PTL DEF RetrySpec, RetryInit
<1>2. QED
  BY <1>1, KeptByRetries, RetriesCall, PTL DEF Spec

\* A reply read off the command rows, on sound tables that hold the command.
LEMMA ReplayAnswers ==
    ASSUME Kept, NEW client \in Clients, Replay(client),
           Replayed(database, call[client].request)
    PROVE  /\ call'[client].status = "done"
           /\ [request  |-> call[client].request,
               response |-> call'[client].response] \in database.commands
           /\ \A c \in Clients : c # client => call'[c] = call[c]
<1> DEFINE request == call[client].request
<1>1. PICK row \in CommandRows(database, request) :
        Respond(client, IF row.request = request
                        THEN Done(request, row.response)
                        ELSE RefusedCall(request, "IdempotencyConflict"))
  BY DEF Replay
<1>2. PICK same \in database.commands : same.request = request
  BY DEF Replayed
<1>3. row = same
  BY <1>1, <1>2 DEF Kept, Sequenced, Sound, Consistent, CommandsUnique, CommandRows
<1>4. /\ call' = [call EXCEPT ![client] = Done(request, same.response)]
      /\ DOMAIN call = Clients
  BY <1>1, <1>2, <1>3 DEF Respond, Kept, Fenced, Linked
<1>5. same = [request |-> request, response |-> same.response]
  <2>1. same \in CommandRow
    BY <1>2 DEF Kept, Sequenced, Sound, Database
  <2>2. QED
    BY <1>2, <2>1 DEF CommandRow
<1>6. QED
  BY <1>2, <1>4, <1>5 DEF Done

\* A step of one call: nobody else's changes, and an answer to a command that
\* is recorded is the recorded response.
LEMMA ProceedAnswers ==
    ASSUME Kept, NEW client \in Clients, Proceed(client), NEW c \in Clients,
           call[c].status = "pending", Replayed(database, call[c].request),
           call'[c].status \in {"done", "refused"}
    PROVE  /\ call'[c].status = "done"
           /\ [request  |-> call[c].request,
               response |-> call'[c].response] \in database.commands
<1>1. DOMAIN call = Clients
  BY DEF Kept, Fenced, Linked
<1>2. call' # call
  OBVIOUS
<1>3. Recorded(database, call[c].request)
  BY DEF Replayed, Recorded, CommandRows
<1>4. ASSUME NEW reply, Respond(client, reply), c # client PROVE FALSE
  BY <1>1, <1>4 DEF Respond
<1>5. CASE Replay(client)
  <2>1. c = client
    BY <1>4, <1>5 DEF Replay
  <2>2. QED
    BY <1>5, <2>1, ReplayAnswers
<1>6. CASE \E reply : reply.status = "failed" /\ Respond(client, reply)
  <2>1. PICK reply : reply.status = "failed" /\ Respond(client, reply)
    BY <1>6
  <2>2. call'[c] = reply
    BY <1>1, <1>4, <2>1 DEF Respond
  <2>3. QED
    BY <2>1, <2>2
<1>7. CASE Acknowledge(client)
  <2>1. Respond(client, Done(call[client].request, batch[client].plan.response))
    BY <1>7 DEF Acknowledge
  <2>2. c = client
    BY <1>4, <2>1
  <2>3. call'[c] = Done(call[c].request, batch[c].plan.response)
    BY <1>1, <2>1, <2>2 DEF Respond
  <2>4. [request |-> call[c].request, response |-> batch[c].plan.response]
          \in database.commands
    BY <1>7, <2>2 DEF Acknowledge, Kept, Fenced, AppliedRecorded
  <2>5. QED
    BY <2>3, <2>4 DEF Done
<1>8. CASE Snapshot(client)
  <2>1. c = client
    BY <1>1, <1>2, <1>4, <1>8 DEF Snapshot, Replay
  <2>2. QED
    BY <1>3, <1>5, <1>8, <1>2, <2>1 DEF Snapshot
<1>9. CASE Reconcile(client)
  <2>1. Replay(client) \/ Respond(client, Failed(call[client].request))
    BY <1>9 DEF Reconcile
  <2>2. Failed(call[client].request).status = "failed"
    BY DEF Failed
  <2>3. QED
    BY <1>5, <1>6, <2>1, <2>2
<1>10. CASE SnapshotFails(client) \/ ReconcileFails(client)
  <2>1. Failed(call[client].request).status = "failed"
    BY DEF Failed
  <2>2. QED
    BY <1>6, <1>10, <2>1 DEF SnapshotFails, ReconcileFails
<1>11. CASE \/ BatchApplies(client) \/ BatchRejected(client)
            \/ BatchLost(client) \/ AcknowledgeLost(client)
  BY <1>2, <1>11
  DEF BatchApplies, BatchRejected, BatchLost, AcknowledgeLost, Reconciling
<1>12. QED
  BY <1>7, <1>8, <1>9, <1>10, <1>11 DEF Proceed

\* Once a command is recorded, retries cannot change what its caller is told: it
\* is never refused, and every later answer is the recorded response.
THEOREM RetriesAnswered == RetrySpec => RecordedAnswersStand
<1>1. ASSUME Kept, [RetryNext]_retryVars
      PROVE
        [\A client \in Clients :
           (/\ call[client].status = "pending"
            /\ Replayed(database, call[client].request)
            /\ call'[client].status \in {"done", "refused"}) =>
              /\ call'[client].status = "done"
              /\ [request  |-> call[client].request,
                  response |-> call'[client].response] \in database.commands
        ]_retryVars
  <2> SUFFICES ASSUME NEW c \in Clients, call[c].status = "pending",
                      Replayed(database, call[c].request),
                      call'[c].status \in {"done", "refused"}, Next
               PROVE  /\ call'[c].status = "done"
                      /\ [request  |-> call[c].request,
                          response |-> call'[c].response] \in database.commands
    <3>1. [Next]_vars
      BY <1>1, RetriesCall
    <3>2. call' # call => ~UNCHANGED vars
      BY DEF vars
    <3>3. QED
      BY <3>1, <3>2
  <2>1. ASSUME NEW client \in Clients, NEW request \in Requests,
               Call(client, request)
        PROVE  FALSE
    BY <1>1, <2>1 DEF Call, Pending, Kept, Fenced, Linked
  <2>2. ASSUME NEW b \in stray, StrayArrives(b) \/ StrayDropped(b)
        PROVE  FALSE
    BY <2>2 DEF StrayArrives, StrayDropped
  <2>3. QED
    BY <1>1, <2>1, <2>2, ProceedAnswers DEF Next
<1>2. RetrySpec => [][RetryNext]_retryVars
  BY PTL DEF RetrySpec
<1>3. QED
  BY <1>1, <1>2, KeptByRetries, PTL DEF RecordedAnswersStand

-----------------------------------------------------------------------------
(* The life of the plugin around its store (D1Lifecycle).                  *)

\* A binding is had only by calls that began while the plugin was active.
Bindings ==
    /\ PluginTypeOK
    /\ prepared => phase = "active" /\ migrated
    /\ \A c \in Calls :
         /\ InBatch(c) => serving[c].bound
         /\ serving[c].bound => began[c] = "active" /\ migrated

\* A step of a D1 call.
LEMMA D1CallKeeps ==
    ASSUME Bindings, NEW c \in Calls, Start(c) \/ Progress(c)
    PROVE  Bindings'
<1> DEFINE State == [step: {"idle", "authorizing", "snapshot", "write", "reconcile"},
                     bound: BOOLEAN]
<1>1. /\ UNCHANGED <<phase, prepared, migrated>>
      /\ serving \in [Calls -> State] /\ serving[c] \in State /\ prepared \in BOOLEAN
      /\ began \in [Calls -> {"none", "inactive", "verifying", "active"}]
      /\ phase \in {"none", "inactive", "verifying", "active"}
  BY DEF Bindings, PluginTypeOK, Start, Progress, Authorize, SnapshotBatch,
         WriteBatch, ReconcileBatch, Return, GoTo
<1>2. CASE Start(c)
  <2>1. /\ serving' = [serving EXCEPT ![c] = [step |-> "authorizing", bound |-> prepared]]
        /\ began' = [began EXCEPT ![c] = phase]
    BY <1>2 DEF Start
  <2>2. [step |-> "authorizing", bound |-> prepared] \in State
    BY <1>1
  <2>3. ASSUME NEW d \in Calls
        PROVE  /\ InBatch(d)' => serving'[d].bound
               /\ serving'[d].bound => began'[d] = "active" /\ migrated'
    BY <1>1, <2>1 DEF Bindings, InBatch
  <2> QED
    BY <1>1, <2>1, <2>2, <2>3 DEF Bindings, PluginTypeOK
<1>3. CASE Progress(c)
  <2>1. /\ began' = began
        /\ \/ serving' = [serving EXCEPT ![c] = NotServing]
           \/ \E next \in {"snapshot", "write", "reconcile"} :
                serving[c].bound /\ serving' = [serving EXCEPT ![c].step = next]
    BY <1>3 DEF Bindings, InBatch, Progress, Authorize, SnapshotBatch,
                WriteBatch, ReconcileBatch, Return, GoTo
  <2>2. serving' \in [Calls -> State]
    <3>1. CASE serving' = [serving EXCEPT ![c] = NotServing]
      <4>1. NotServing \in State
        BY DEF NotServing
      <4> QED
        BY <1>1, <3>1, <4>1
    <3>2. ASSUME NEW next \in {"snapshot", "write", "reconcile"},
                 serving' = [serving EXCEPT ![c].step = next]
          PROVE  serving' \in [Calls -> State]
      <4>1. [serving[c] EXCEPT !.step = next] \in State
        BY <1>1
      <4> QED
        BY <1>1, <3>2, <4>1
    <3> QED
      BY <2>1, <3>1, <3>2
  <2>3. ASSUME NEW d \in Calls
        PROVE  /\ InBatch(d)' => serving'[d].bound
               /\ serving'[d].bound => serving[d].bound
    BY <1>1, <2>1 DEF Bindings, InBatch, NotServing
  <2> QED
    BY <1>1, <2>1, <2>2, <2>3 DEF Bindings, PluginTypeOK
<1> QED
  BY <1>2, <1>3

\* On D1 no batch is in flight but of a call that began while the plugin was
\* active, over a verified schema: prepared is set after the await that verifies it.
THEOREM D1BatchesOfActivePlugin == PluginSpec => []BatchesOfActivePlugin
<1>1. PluginInit => Bindings
  <2> SUFFICES ASSUME PluginInit PROVE Bindings
    OBVIOUS
  <2>1. \A c \in Calls : serving[c].step = "idle" /\ serving[c].bound = FALSE
    BY DEF PluginInit, NotServing
  <2>2. PluginTypeOK
    BY DEF PluginInit, NotServing, PluginTypeOK
  <2> QED
    BY <2>1, <2>2 DEF PluginInit, Bindings, InBatch
<1>2. Bindings /\ [PluginNext]_pluginVars => Bindings'
  <2> SUFFICES ASSUME Bindings, [PluginNext]_pluginVars PROVE Bindings'
    OBVIOUS
  <2>1. CASE UNCHANGED pluginVars
    BY <2>1 DEF pluginVars, Bindings, PluginTypeOK, InBatch
  <2>2. CASE \/ \E name \in Names : Instantiate(name)
             \/ Activate \/ Verified \/ Unverified \/ Deactivate
             \/ Migrate
    <3>1. /\ UNCHANGED <<serving, began>>
          /\ migrated => migrated'
          /\ \/ prepared' = prepared /\ (phase' = phase \/ phase # "active")
             \/ prepared' = FALSE
             \/ prepared' = TRUE /\ phase' = "active" /\ migrated'
      BY <2>2 DEF Instantiate, Activate, Verified, Unverified,
                  Deactivate, Migrate
    <3>2. PluginTypeOK'
      BY <2>2 DEF Instantiate, Activate, Verified, Unverified,
                  Deactivate, Migrate, Bindings, PluginTypeOK
    <3>3. \A c \in Calls : InBatch(c)' = InBatch(c)
      BY <3>1 DEF InBatch
    <3> QED
      BY <3>1, <3>2, <3>3 DEF Bindings, PluginTypeOK
  <2> QED
    BY <2>1, <2>2, D1CallKeeps DEF PluginNext
<1>3. Bindings => BatchesOfActivePlugin
  BY DEF Bindings, BatchesOfActivePlugin
<1> QED
  BY <1>1, <1>2, <1>3, PTL DEF PluginSpec

=============================================================================
