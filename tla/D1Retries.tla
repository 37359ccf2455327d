----------------------------- MODULE D1Retries ------------------------------
(***************************************************************************)
(* Clients that follow the advice of the D1 store's failure message, "a    *)
(* submitted write may have committed; retry only with the same            *)
(* idempotency key": each asks for one command and repeats the same        *)
(* request until it gets a response or a refusal.  The binding fails a     *)
(* bounded number of times; an epoch that moved is no fault of the binding *)
(* and may reject a write batch any number of times.                       *)
(***************************************************************************)
EXTENDS D1Store

CONSTANT MaxFaults     \* bound on the failures of the binding

VARIABLE faults        \* failures of the binding so far

retryVars == <<vars, faults>>

ASSUME FaultsAssumption == MaxFaults \in Nat

RetryInit == Init /\ faults = 0

Answered(client) == call[client].status \in {"done", "refused"}

Ask(client) ==
    /\ call[client] = Idle
    /\ \E request \in Requests : Call(client, request)
    /\ UNCHANGED faults

Retry(client) ==
    /\ call[client].status = "failed"
    /\ Call(client, call[client].request)
    /\ UNCHANGED faults

\* The steps of a call in which the binding works.
Work(client) ==
    /\ \/ Snapshot(client)
       \/ BatchApplies(client)
       \/ BatchRejected(client)
       \/ Acknowledge(client)
       \/ Reconcile(client)
    /\ UNCHANGED faults

Fault(client) ==
    /\ faults < MaxFaults
    /\ faults' = faults + 1
    /\ \/ SnapshotFails(client)
       \/ BatchLost(client)
       \/ AcknowledgeLost(client)
       \/ ReconcileFails(client)

RetryNext ==
    \/ \E client \in Clients :
         Ask(client) \/ Retry(client) \/ Work(client) \/ Fault(client)
    \/ \E b \in stray : (StrayArrives(b) \/ StrayDropped(b)) /\ UNCHANGED faults

\* A batch of the binding completes, and a client that failed tries again.
RetrySpec ==
    /\ RetryInit
    /\ [][RetryNext]_retryVars
    /\ \A client \in Clients :
         /\ WF_retryVars(Work(client))
         /\ WF_retryVars(Retry(client))

-----------------------------------------------------------------------------

\* Optimistic writers do not starve each other: every client that asks and
\* keeps retrying gets a definite answer, because a batch is only ever rejected
\* by a command that took effect.
RetriesConverge ==
    \A client \in Clients :
        call[client].status = "pending" ~> Answered(client)

\* Once a command is recorded, retries cannot change what its caller is told:
\* it is never refused, and every later answer is the recorded response.
RecordedAnswersStand ==
    [][\A client \in Clients :
         (/\ call[client].status = "pending"
          /\ Replayed(database, call[client].request)
          /\ call'[client].status \in {"done", "refused"}) =>
            /\ call'[client].status = "done"
            /\ [request  |-> call[client].request,
                response |-> call'[client].response] \in database.commands
      ]_retryVars

=============================================================================
