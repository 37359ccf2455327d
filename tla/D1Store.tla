------------------------------- MODULE D1Store ------------------------------
(***************************************************************************)
(* The D1 store (crates/lenso-feature-flag-d1-plugin/src/storage.rs).  A   *)
(* command reads one snapshot batch, plans against it, and submits one     *)
(* write batch that an epoch guard fences: the batch applies only if no    *)
(* Feature Flag write applied since the snapshot.  Between the two batches *)
(* and after them other clients run, and the binding may fail in ways that *)
(* leave the outcome unknown; a failed submission is reconciled by reading *)
(* the command row, and never resubmitted.                                 *)
(*                                                                         *)
(* A D1 batch is one atomic transaction.  The binding is external to the   *)
(* repository: a batch whose submission reports an error may have been     *)
(* applied, may still be applied later, or may never be.                   *)
(***************************************************************************)
EXTENDS StoreCalls

CONSTANT MaxStray      \* bound on the batches in flight that nobody awaits

VARIABLES
    database,
    epoch,             \* feature_epoch.revision
    rowSeq,            \* feature_flags.row_seq of each flag, 0 for none
    step,              \* where each client's call stands
    call,              \* what each client asked, and the reply it got
    batch,             \* the write batch each client has submitted
    stray              \* batches in flight that no client awaits any more

tables == <<database, epoch, rowSeq>>
vars   == <<database, epoch, rowSeq, step, call, batch, stray>>

ASSUME StrayAssumption == MaxStray \in Nat

-----------------------------------------------------------------------------

PlanOK(plan) ==
    /\ plan.status = "Planned"
    /\ plan.response \in Response
    /\ DOMAIN plan.flags \subseteq FlagKeys
    /\ \A flag \in DOMAIN plan.flags : plan.flags[flag] \in FlagRecord
    /\ DOMAIN plan.environments \subseteq EnvironmentKeys
    /\ \A environment \in DOMAIN plan.environments :
         plan.environments[environment] \in EnvironmentRecord
    /\ plan.rulesets \subseteq RulesetRow
    /\ plan.receipts \subseteq ReceiptRow

BatchOK(b) ==
    /\ b.request \in Requests
    /\ b.epoch \in Nat
    /\ PlanOK(b.plan)

NoBatch == [epoch |-> 0]

TypeOK ==
    /\ database \in Database
    /\ epoch \in Nat
    /\ rowSeq \in [FlagKeys -> Nat]
    /\ step \in [Clients -> {"idle", "snapshot", "submitted", "applied",
                             "reconcile"}]
    /\ call \in [Clients -> CallState]
    /\ \A client \in Clients :
         IF step[client] \in {"submitted", "applied"}
         THEN BatchOK(batch[client]) /\ batch[client].request = call[client].request
         ELSE batch[client] = NoBatch
    /\ \A client \in Clients :
         call[client].status = "pending" <=> step[client] # "idle"
    /\ \A b \in stray : BatchOK(b)

\* Flags an earlier generation created took their row_seq from its epochs.
Init ==
    /\ database \in Stored
    /\ epoch = Cardinality(database.commands) + 1
    /\ rowSeq \in [FlagKeys -> 0 .. Cardinality(database.commands)]
    /\ \A one, two \in FlagKeys :
         /\ rowSeq[one] = 0 <=> database.flags[one].revision = 0
         /\ rowSeq[one] # 0 /\ one # two => rowSeq[one] # rowSeq[two]
    /\ step = [client \in Clients |-> "idle"]
    /\ call = [client \in Clients |-> Idle]
    /\ batch = [client \in Clients |-> NoBatch]
    /\ stray = {}

-----------------------------------------------------------------------------

\* The call returns.
Respond(client, reply) ==
    /\ call' = [call EXCEPT ![client] = reply]
    /\ step' = [step EXCEPT ![client] = "idle"]
    /\ batch' = [batch EXCEPT ![client] = NoBatch]

\* fn replay, when the command row exists.
Replay(client) ==
    LET request == call[client].request IN
    \E row \in CommandRows(database, request) :
        Respond(client, IF row.request = request
                        THEN Done(request, row.response)
                        ELSE RefusedCall(request, "IdempotencyConflict"))

\* The write batch is over for its client, which has to find out how it ended.
Reconciling(client) ==
    /\ step' = [step EXCEPT ![client] = "reconcile"]
    /\ batch' = [batch EXCEPT ![client] = NoBatch]
    /\ UNCHANGED call

\* A mistake to detect: the batch carries no epoch guard.
AdmitsUnfenced(b) == Fits(database, b.request, b.plan)

\* The guard row and the constraints of every statement of the batch.
Admits(b) ==
    /\ b.epoch = epoch
    /\ Fits(database, b.request, b.plan)
    /\ b.request.operation = "create_flag" =>
         \A flag \in FlagKeys : rowSeq[flag] # b.epoch

\* Mistakes to detect: a batch that advances the epoch for flags only, and one
\* that moves every flag it writes.
AppliedCountingFlags(b) ==
    /\ database' = Commit(database, b.request, b.plan)
    /\ epoch' = IF DOMAIN b.plan.flags = {} THEN epoch ELSE epoch + 1
    /\ rowSeq' = IF b.request.operation = "create_flag"
                 THEN [rowSeq EXCEPT ![b.request.flag] = b.epoch]
                 ELSE rowSeq

AppliedMovingFlags(b) ==
    /\ database' = Commit(database, b.request, b.plan)
    /\ epoch' = epoch + 1
    /\ rowSeq' = [flag \in FlagKeys |->
                    IF flag \in DOMAIN b.plan.flags THEN b.epoch
                    ELSE rowSeq[flag]]

Applied(b) ==
    /\ database' = Commit(database, b.request, b.plan)
    /\ epoch' = epoch + 1
    /\ rowSeq' = IF b.request.operation = "create_flag"
                 THEN [rowSeq EXCEPT ![b.request.flag] = b.epoch]
                 ELSE rowSeq

-----------------------------------------------------------------------------

Call(client, request) ==
    /\ step[client] = "idle"
    /\ call' = [call EXCEPT ![client] = Pending(request)]
    /\ step' = [step EXCEPT ![client] = "snapshot"]
    /\ UNCHANGED <<tables, batch, stray>>

\* Mistakes to detect: a refused plan is submitted, and a command is refused
\* before its recorded row is read.
SnapshotSubmitsAnyPlan(client) ==
    LET request == call[client].request
        plan    == Plan(database, request) IN
    /\ step[client] = "snapshot"
    /\ \/ Replay(client)
       \/ /\ ~Recorded(database, request)
          /\ batch' = [batch EXCEPT ![client] =
                         [request |-> request, epoch |-> epoch, plan |-> plan]]
          /\ step' = [step EXCEPT ![client] = "submitted"]
          /\ UNCHANGED call
    /\ UNCHANGED <<tables, stray>>

SnapshotRefusesFirst(client) ==
    LET request == call[client].request
        plan    == Plan(database, request) IN
    /\ step[client] = "snapshot"
    /\ \/ /\ plan.status # "Planned"
          /\ Respond(client, RefusedCall(request, plan.status))
       \/ plan.status = "Planned" /\ Replay(client)
       \/ /\ plan.status = "Planned"
          /\ ~Recorded(database, request)
          /\ batch' = [batch EXCEPT ![client] =
                         [request |-> request, epoch |-> epoch, plan |-> plan]]
          /\ step' = [step EXCEPT ![client] = "submitted"]
          /\ UNCHANGED call
    /\ UNCHANGED <<tables, stray>>

\* One atomic batch of reads; then replay, refuse, or submit the write batch.
Snapshot(client) ==
    LET request == call[client].request
        plan    == Plan(database, request) IN
    /\ step[client] = "snapshot"
    /\ \/ Replay(client)
       \/ /\ ~Recorded(database, request)
          /\ plan.status # "Planned"
          /\ Respond(client, RefusedCall(request, plan.status))
       \/ /\ ~Recorded(database, request)
          /\ plan.status = "Planned"
          /\ batch' = [batch EXCEPT ![client] =
                         [request |-> request, epoch |-> epoch, plan |-> plan]]
          /\ step' = [step EXCEPT ![client] = "submitted"]
          /\ UNCHANGED call
    /\ UNCHANGED <<tables, stray>>

SnapshotFails(client) ==
    /\ step[client] = "snapshot"
    /\ Respond(client, Failed(call[client].request))
    /\ UNCHANGED <<tables, stray>>

BatchApplies(client) ==
    /\ step[client] = "submitted"
    /\ Admits(batch[client])
    /\ Applied(batch[client])
    /\ step' = [step EXCEPT ![client] = "applied"]
    /\ UNCHANGED <<call, batch, stray>>

\* A constraint fails and rolls back every statement.
BatchRejected(client) ==
    /\ step[client] = "submitted"
    /\ ~Admits(batch[client])
    /\ Reconciling(client)
    /\ UNCHANGED <<tables, stray>>

\* The submission reports an error before the batch applies; the batch is gone
\* or still on its way.
BatchLost(client) ==
    /\ step[client] = "submitted"
    /\ \/ UNCHANGED stray
       \/ /\ Cardinality(stray) < MaxStray
          /\ stray' = stray \union {batch[client]}
    /\ Reconciling(client)
    /\ UNCHANGED tables

Acknowledge(client) ==
    /\ step[client] = "applied"
    /\ Respond(client, Done(call[client].request, batch[client].plan.response))
    /\ UNCHANGED <<tables, stray>>

\* The batch applied, but its submission reports an error.
AcknowledgeLost(client) ==
    /\ step[client] = "applied"
    /\ Reconciling(client)
    /\ UNCHANGED <<tables, stray>>

\* A mistake to detect: a client whose batch left no row keeps waiting for it.
ReconcileWaits(client) ==
    /\ step[client] = "reconcile"
    /\ Replay(client)
    /\ UNCHANGED <<tables, stray>>

Reconcile(client) ==
    LET request == call[client].request IN
    /\ step[client] = "reconcile"
    /\ \/ Replay(client)
       \/ ~Recorded(database, request) /\ Respond(client, Failed(request))
    /\ UNCHANGED <<tables, stray>>

ReconcileFails(client) ==
    /\ step[client] = "reconcile"
    /\ Respond(client, Failed(call[client].request))
    /\ UNCHANGED <<tables, stray>>

StrayArrives(b) ==
    /\ IF Admits(b) THEN Applied(b) ELSE UNCHANGED tables
    /\ stray' = stray \ {b}
    /\ UNCHANGED <<step, call, batch>>

StrayDropped(b) ==
    /\ stray' = stray \ {b}
    /\ UNCHANGED <<tables, step, call, batch>>

-----------------------------------------------------------------------------

\* The steps of a call under way.
Proceed(client) ==
    \/ Snapshot(client)
    \/ SnapshotFails(client)
    \/ BatchApplies(client)
    \/ BatchRejected(client)
    \/ BatchLost(client)
    \/ Acknowledge(client)
    \/ AcknowledgeLost(client)
    \/ Reconcile(client)
    \/ ReconcileFails(client)

Next ==
    \/ \E client \in Clients, request \in Requests : Call(client, request)
    \/ \E client \in Clients : Proceed(client)
    \/ \E b \in stray : StrayArrives(b) \/ StrayDropped(b)

Spec == Init /\ [][Next]_vars

-----------------------------------------------------------------------------
(* What the store implements and what it relies on.                        *)

\* The requests that nobody awaits and whose batches the guard still admits.
Abandoned == {b.request : b \in {s \in stray : s.epoch = epoch}}

Contract == INSTANCE FlagStore WITH abandoned <- Abandoned

\* The epoch fences the write batch: commands take effect at most once, on the
\* tables they were planned against, and a refused one never does.
ImplementsContract == Contract!Spec

InFlight ==
    stray \union {batch[client] : client \in {c \in Clients :
                                                step[c] = "submitted"}}

\* A batch that carries today's epoch is exactly what its command would plan
\* now, and its command is not recorded.
FencedBatchesFresh ==
    \A b \in InFlight :
        /\ b.epoch =< epoch
        /\ b.epoch = epoch =>
             /\ b.plan = Plan(database, b.request)
             /\ ~Recorded(database, b.request)

\* The response kept for the acknowledgement is the one the tables recorded.
AppliedRecorded ==
    \A client \in Clients :
        step[client] = "applied" =>
            [request  |-> call[client].request,
             response |-> batch[client].plan.response] \in database.commands

\* The constraints behind the epoch guard never decide: a batch the guard
\* admits satisfies them all, so no command fails for good on one.
GuardSuffices == \A b \in InFlight : b.epoch = epoch => Admits(b)

\* Every write batch moved the epoch once and recorded one command.
EpochCountsCommands == epoch = Cardinality(database.commands) + 1

\* A flag is listed after every flag created before it, so a client that pages
\* with the cursor of the last flag it saw misses no later flag.
CreatedFlagsListLast ==
    [][\A flag \in FlagKeys :
         rowSeq'[flag] # rowSeq[flag] =>
           /\ rowSeq[flag] = 0
           /\ \A other \in FlagKeys : rowSeq[other] < rowSeq'[flag]
      ]_rowSeq

=============================================================================
