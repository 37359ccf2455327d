-------------------------- MODULE PostgresLifecycle -------------------------
(***************************************************************************)
(* Activation and deactivation of the Postgres plugin                      *)
(* (crates/lenso-feature-flag-postgres-plugin/src/lib.rs) with calls in    *)
(* flight.  A call takes a handle of the prepared pool when it starts and  *)
(* keeps it through the awaits of its authorization; deactivation takes    *)
(* the plugin's handle and closes the pool, which waits for the            *)
(* connections in use.                                                     *)
(*                                                                         *)
(* Pools are external (sqlx): a closed pool refuses to lend a connection,  *)
(* and closing it returns when every connection has come back.             *)
(***************************************************************************)
EXTENDS Integers, FiniteSets

CONSTANTS
    Calls,             \* concurrent calls
    MaxConnections,    \* connections of one pool
    MaxGenerations     \* bound on the activations

ASSUME ConnectionsAssumption == MaxConnections \in Nat \ {0}

ASSUME GenerationsAssumption == MaxGenerations \in Nat

VARIABLES
    phase,             \* what the host has asked of the plugin
    prepared,          \* the generation of the prepared pool, 0 if there is none
    generation,        \* how many pools have been opened
    closed,            \* the generations whose pools refuse connections
    call               \* the progress of each call, and the pool it holds

vars == <<phase, prepared, generation, closed, call>>

Idle == [step |-> "idle", pool |-> 0]

TypeOK ==
    /\ phase \in {"inactive", "resolving", "preparing", "active", "closing"}
    /\ prepared \in 0 .. generation
    /\ generation \in 0 .. MaxGenerations
    /\ closed \subseteq 1 .. generation
    /\ call \in [Calls -> [step: {"idle", "authorizing", "acquiring", "running"},
                           pool: 0 .. generation]]

Init ==
    /\ phase = "inactive"
    /\ prepared = 0
    /\ generation = 0
    /\ closed = {}
    /\ call = [c \in Calls |-> Idle]

\* The calls that hold a connection of a pool.
InUse(pool) == {c \in Calls : call[c].step = "running" /\ call[c].pool = pool}

-----------------------------------------------------------------------------
(* Lifecycle.                                                              *)

Activate ==
    /\ phase = "inactive"
    /\ generation < MaxGenerations
    /\ phase' = "resolving"
    /\ UNCHANGED <<prepared, generation, closed, call>>

\* fn resolve_secret.
ResolveSecret ==
    /\ phase = "resolving"
    /\ phase' = "preparing"
    /\ UNCHANGED <<prepared, generation, closed, call>>

\* The ledger is verified and a fresh pool is opened.
Prepare ==
    /\ phase = "preparing"
    /\ phase' = "active"
    /\ generation' = generation + 1
    /\ prepared' = generation + 1
    /\ UNCHANGED <<closed, call>>

\* The secret is rejected or late, or the database is not what it should be.
ActivationFails ==
    /\ phase \in {"resolving", "preparing"}
    /\ phase' = "inactive"
    /\ UNCHANGED <<prepared, generation, closed, call>>

\* A mistake to detect: the plugin's handle is dropped, the pool is not closed.
DeactivateByDropping ==
    /\ phase = "active"
    /\ phase' = "inactive"
    /\ prepared' = 0
    /\ UNCHANGED <<generation, closed, call>>

\* deactivate: the handle is taken and the pool begins to close.
Deactivate ==
    /\ phase = "active"
    /\ phase' = "closing"
    /\ prepared' = 0
    /\ closed' = closed \union {prepared}
    /\ UNCHANGED <<generation, call>>

\* pool().close() returns.
Closed ==
    /\ phase = "closing"
    /\ InUse(generation) = {}
    /\ phase' = "inactive"
    /\ UNCHANGED <<prepared, generation, closed, call>>

-----------------------------------------------------------------------------
(* Calls.                                                                  *)

Step(c, step) ==
    /\ call' = [call EXCEPT ![c].step = step]
    /\ UNCHANGED <<phase, prepared, generation, closed>>

Return(c) ==
    /\ call' = [call EXCEPT ![c] = Idle]
    /\ UNCHANGED <<phase, prepared, generation, closed>>

\* fn service: the call gets a handle of its own.
Start(c) ==
    /\ call[c].step = "idle"
    /\ call' = [call EXCEPT ![c] = [step |-> "authorizing", pool |-> prepared]]
    /\ UNCHANGED <<phase, prepared, generation, closed>>

\* The caller is authorized or not, and a request rejected; fn prepared fails a
\* call that has no pool.
Authorize(c) ==
    /\ call[c].step = "authorizing"
    /\ Return(c) \/ (call[c].pool # 0 /\ Step(c, "acquiring"))

\* begin: a connection, if the pool has one to lend.
Acquire(c) ==
    /\ call[c].step = "acquiring"
    /\ call[c].pool \notin closed
    /\ Cardinality(InUse(call[c].pool)) < MaxConnections
    /\ Step(c, "running")

\* A closed pool refuses; waiting for a connection may also take too long.
AcquireFails(c) ==
    /\ call[c].step = "acquiring"
    /\ Return(c)

\* A mistake to detect: the transaction reads through the pool, and waits for a
\* second connection while it keeps the first.
FinishWithAnother(c) ==
    /\ call[c].step = "running"
    /\ Cardinality(InUse(call[c].pool)) < MaxConnections
    /\ Return(c)

\* The transaction commits or is rolled back, on the one connection it has.
Finish(c) ==
    /\ call[c].step = "running"
    /\ Return(c)

Progress(c) == Authorize(c) \/ Acquire(c) \/ Finish(c)

Next ==
    \/ Activate \/ ResolveSecret \/ Prepare \/ ActivationFails
    \/ Deactivate \/ Closed
    \/ \E c \in Calls : Start(c) \/ Progress(c) \/ AcquireFails(c)

\* Statements return, a pool refuses a waiting call once it is closed and lends
\* what it has otherwise, and close() returns when it can.
Fairness ==
    /\ WF_vars(Closed)
    /\ \A c \in Calls :
         /\ WF_vars(Authorize(c))
         /\ SF_vars(Acquire(c))
         /\ WF_vars(Finish(c))
         /\ WF_vars(AcquireFails(c) /\ call[c].pool \in closed)

Spec == Init /\ [][Next]_vars /\ Fairness

-----------------------------------------------------------------------------

\* "Deactivation closes the generation": when deactivate has returned no call
\* runs a statement of that generation, however many were in flight, and a call
\* that is still on its way never gets a connection of it.
GenerationClosed ==
    \A c \in Calls :
        call[c].step = "running" =>
            /\ phase \in {"active", "closing"}
            /\ call[c].pool = generation

\* Deactivation returns, whoever keeps calling.
DeactivationReturns == phase = "closing" ~> phase = "inactive"

\* Every call returns, even when there are more calls than connections and no
\* wait for a connection is cut short: no call waits for two connections.
CallsReturn == \A c \in Calls : call[c].step # "idle" ~> call[c].step = "idle"

=============================================================================
