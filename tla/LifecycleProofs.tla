--------------------------- MODULE LifecycleProofs --------------------------
(***************************************************************************)
(* Theorems about the lifecycle of the Postgres plugin, for any number of  *)
(* calls: the pools that were opened are all closed but the prepared one,  *)
(* and a call that runs has the latest pool.  (The lifecycle of the D1     *)
(* plugin is in D1Proofs.)                                                 *)
(***************************************************************************)
EXTENDS PostgresLifecycle, TLAPS

\* The pools that are not closed.
Lent == (1 .. generation) \ closed

LifecycleInvariant ==
    /\ TypeOK
    /\ phase \in {"resolving", "preparing"} => generation < MaxGenerations
    /\ phase = "active" => Lent = {generation} /\ prepared = generation
    /\ phase # "active" => Lent = {} /\ prepared = 0
    /\ \A c \in Calls : call[c].step = "acquiring" => call[c].pool # 0
    /\ GenerationClosed

CallState == [step: {"idle", "authorizing", "acquiring", "running"},
              pool: 0 .. generation]

\* A step of a call leaves the plugin alone.
LEMMA CallKeeps ==
    ASSUME LifecycleInvariant, NEW c \in Calls, Start(c) \/ Progress(c) \/ AcquireFails(c)
    PROVE  LifecycleInvariant'
<1>1. UNCHANGED <<phase, prepared, generation, closed>>
  BY DEF Start, Progress, AcquireFails, Authorize, Acquire, Finish, Step, Return
<1>2. /\ call \in [Calls -> CallState] /\ generation \in Nat /\ prepared \in 0 .. generation
      /\ call[c] \in CallState
  BY GenerationsAssumption DEF LifecycleInvariant, TypeOK, CallState
<1>3. PICK new \in CallState :
        /\ call' = [call EXCEPT ![c] = new]
        /\ new.step = "acquiring" => new.pool # 0
        /\ new.step = "running" => new.pool = generation /\ phase \in {"active", "closing"}
  <2>1. Idle \in CallState /\ Idle.step = "idle"
    BY <1>2 DEF Idle, CallState
  <2>2. CASE call' = [call EXCEPT ![c] = Idle]
    BY <2>1, <2>2
  <2>3. CASE Start(c)
    <3> DEFINE new == [step |-> "authorizing", pool |-> prepared]
    <3>1. new \in CallState /\ new.step = "authorizing"
      BY <1>2 DEF CallState
    <3> QED
      BY <2>3, <3>1 DEF Start
  <2>4. CASE call[c].pool # 0 /\ Step(c, "acquiring")
    <3> DEFINE new == [call[c] EXCEPT !.step = "acquiring"]
    <3>1. new \in CallState /\ new.step = "acquiring" /\ new.pool # 0
      BY <1>2, <2>4 DEF CallState
    <3>2. call' = [call EXCEPT ![c] = new]
      BY <2>4 DEF Step
    <3> QED
      BY <3>1, <3>2
  <2>5. CASE Acquire(c)
    <3> DEFINE new == [call[c] EXCEPT !.step = "running"]
    <3>1. call[c].pool \in Lent
      BY <1>2, <2>5 DEF Acquire, Lent, LifecycleInvariant, CallState
    <3>2. call[c].pool = generation /\ phase = "active"
      BY <3>1 DEF LifecycleInvariant
    <3>3. new \in CallState /\ new.step = "running" /\ new.pool = call[c].pool
      BY <1>2 DEF CallState
    <3>4. call' = [call EXCEPT ![c] = new]
      BY <2>5 DEF Acquire, Step
    <3> QED
      BY <3>2, <3>3, <3>4
  <2> QED
    BY <2>2, <2>3, <2>4, <2>5 DEF Progress, AcquireFails, Authorize, Finish, Return
<1>4. call' \in [Calls -> CallState]
  BY <1>2, <1>3
<1>5. ASSUME NEW d \in Calls
      PROVE  /\ call'[d].step = "acquiring" => call'[d].pool # 0
             /\ call'[d].step = "running" =>
                  call'[d].pool = generation /\ phase \in {"active", "closing"}
  BY <1>2, <1>3 DEF LifecycleInvariant, GenerationClosed
<1> QED
  BY <1>1, <1>4, <1>5
  DEF LifecycleInvariant, TypeOK, CallState, Lent, GenerationClosed

\* A step of the host leaves the calls alone.
LEMMA HostKeeps ==
    ASSUME LifecycleInvariant,
           \/ Activate \/ ResolveSecret \/ Prepare \/ ActivationFails
           \/ Deactivate \/ Closed
    PROVE  LifecycleInvariant'
<1>1. /\ call' = call
      /\ call \in [Calls -> CallState]
      /\ generation \in Nat /\ closed \subseteq 1 .. generation
      /\ MaxGenerations \in Nat /\ generation =< MaxGenerations
  BY GenerationsAssumption
  DEF LifecycleInvariant, TypeOK, CallState, Activate, ResolveSecret, Prepare,
      ActivationFails, Deactivate, Closed
<1>2. CASE Activate \/ ResolveSecret \/ ActivationFails
  BY <1>1, <1>2
  DEF Activate, ResolveSecret, ActivationFails, LifecycleInvariant, TypeOK, Lent,
      GenerationClosed
<1>3. CASE Prepare
  <2>1. /\ phase = "preparing" /\ phase' = "active" /\ closed' = closed
        /\ generation' = generation + 1 /\ prepared' = generation + 1
    BY <1>3 DEF Prepare
  <2>2. generation < MaxGenerations /\ 1 .. generation = closed
    BY <1>1, <2>1 DEF LifecycleInvariant, Lent
  <2>3. Lent' = {generation'}
    BY <1>1, <2>1, <2>2 DEF Lent
  <2>4. /\ generation' \in 0 .. MaxGenerations /\ prepared' \in 0 .. generation'
        /\ closed' \subseteq 1 .. generation'
        /\ 0 .. generation \subseteq 0 .. generation'
    BY <1>1, <2>1, <2>2
  <2>5. call' \in [Calls -> CallState']
    BY <1>1, <2>4 DEF CallState
  <2>6. \A c \in Calls : call[c].step # "running"
    BY <2>1 DEF LifecycleInvariant, GenerationClosed
  <2> QED
    BY <1>1, <2>1, <2>3, <2>4, <2>5, <2>6
    DEF LifecycleInvariant, TypeOK, CallState, GenerationClosed
<1>4. CASE Deactivate
  <2>1. /\ phase = "active" /\ phase' = "closing" /\ generation' = generation
        /\ prepared' = 0 /\ closed' = closed \union {generation}
        /\ Lent = {generation}
    BY <1>4 DEF Deactivate, LifecycleInvariant
  <2>2. Lent' = {} /\ closed' \subseteq 1 .. generation'
    BY <1>1, <2>1 DEF Lent
  <2> QED
    BY <1>1, <2>1, <2>2 DEF LifecycleInvariant, TypeOK, GenerationClosed
<1>5. CASE Closed
  <2>1. /\ phase = "closing" /\ phase' = "inactive"
        /\ UNCHANGED <<prepared, generation, closed, call>>
        /\ \A c \in Calls : ~(call[c].step = "running" /\ call[c].pool = generation)
    BY <1>5 DEF Closed, InUse
  <2> QED
    BY <1>1, <2>1 DEF LifecycleInvariant, TypeOK, Lent, GenerationClosed
<1> QED
  BY <1>2, <1>3, <1>4, <1>5

LEMMA LifecycleInvariantHolds == Spec => []LifecycleInvariant
<1>1. Init => LifecycleInvariant
  BY GenerationsAssumption
  DEF Init, Idle, LifecycleInvariant, TypeOK, Lent, GenerationClosed
<1>2. LifecycleInvariant /\ [Next]_vars => LifecycleInvariant'
  <2> SUFFICES ASSUME LifecycleInvariant, [Next]_vars PROVE LifecycleInvariant'
    OBVIOUS
  <2>1. CASE UNCHANGED vars
    BY <2>1 DEF vars, LifecycleInvariant, TypeOK, Lent, GenerationClosed
  <2> QED
    BY <2>1, CallKeeps, HostKeeps DEF Next
<1> QED
  BY <1>1, <1>2, PTL DEF Spec

\* The state of the plugin and of its calls stays what TypeOK says.
THEOREM LifecycleTyped == Spec => []TypeOK
BY LifecycleInvariantHolds, PTL DEF LifecycleInvariant

\* After deactivate has returned no call runs a statement on the pool it closed.
THEOREM LifecycleGenerationClosed == Spec => []GenerationClosed
BY LifecycleInvariantHolds, PTL DEF LifecycleInvariant

=============================================================================
