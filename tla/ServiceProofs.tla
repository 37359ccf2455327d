--------------------------- MODULE ServiceProofs ----------------------------
(***************************************************************************)
(* Theorems about the service in front of a store, for any callers,        *)
(* actors, organizations and calls, and any number of clients.  The        *)
(* inductive invariant follows a call through its two awaited checks: what *)
(* has been asked for so far held at some instant of this call, whatever   *)
(* was given or taken away in between.  The last part is about the agent   *)
(* tools, which are clients of the service.                                *)
(***************************************************************************)
EXTENDS AgentTools, DatabaseTheorems, TLAPS

\* The phases of a call between its authentication and its answer.
Authenticated == {"membership", "permission", "authorized", "submitted"}

\* What is known of a call from how far it has come.
Vetted(client) ==
    LET s == session[client]
        a == session[client].arrival
    IN  /\ s.phase \in Authenticated => Authenticate(a) = "Authentic"
        /\ s.phase \in {"permission", "authorized", "submitted"} =>
             Active(a) \in held[client]
        /\ s.phase \in {"authorized", "submitted"} => Permitted(a) \in held[client]
        /\ s.phase = "submitted" => IsCommand(a) /\ Validate(a) = "Valid"
        /\ s.phase \in {"membership", "permission"} =>
             facts \intersect {Active(a), Permitted(a)} \subseteq held[client]
        /\ (/\ s.phase = "answered"
            /\ s.answer \notin {"Unauthenticated", "Forbidden", "Runtime"}) =>
             Entitles(a, held[client])

\* Whoever has turned out to be entitled made its request an entitled one.
Credited(client) ==
    LET a == session[client].arrival IN
    (/\ session[client].phase \in Authenticated
     /\ IsCommand(a)
     /\ Validate(a) = "Valid"
     /\ Entitles(a, held[client])) => Admitted(a) \in entitled

\* What the store waits for is what the call was authorized to ask.
Asked(client) ==
    Store!Waiting(client) =>
        /\ session[client].phase = "submitted"
        /\ call[client].request = Admitted(session[client].arrival)

SessionsTyped ==
    /\ session \in [Clients -> SessionState]
    /\ facts \subseteq Facts
    /\ held \in [Clients -> SUBSET Facts]
    /\ entitled \subseteq Request

\* The inductive invariant.
ServiceInvariant ==
    /\ SessionsTyped
    /\ DOMAIN call = Clients
    /\ \A client \in Clients : Vetted(client) /\ Credited(client) /\ Asked(client)
    /\ abandoned \subseteq entitled
    /\ CommandsEntitled

-----------------------------------------------------------------------------
(* Authorization.                                                          *)

\* The verdict of fn authorize and the two facts are what entitles a call.
LEMMA AuthenticatedEntitles ==
    ASSUME NEW a, NEW facts_held
    PROVE  Entitles(a, facts_held) <=>
             /\ Authenticate(a) = "Authentic"
             /\ Active(a) \in facts_held
             /\ Permitted(a) \in facts_held
BY DEF Entitles, Authenticate, Authentic

\* Record keeps what was entitled and credits who is entitled now.
LEMMA RecordCredits ==
    ASSUME NEW held_now, Record(held_now),
           entitled \subseteq Request, session' \in [Clients -> SessionState]
    PROVE  /\ held' = held_now
           /\ entitled \subseteq entitled'
           /\ entitled' \subseteq Request
           /\ \A client \in Clients : Credited(client)'
<1>1. held' = held_now /\ entitled \subseteq entitled'
  BY DEF Record
<1>2. ASSUME NEW client \in Clients PROVE Credited(client)'
  <2> SUFFICES ASSUME session'[client].phase \in Authenticated,
                      IsCommand(session'[client].arrival),
                      Validate(session'[client].arrival) = "Valid",
                      Entitles(session'[client].arrival, held_now[client])
               PROVE  Admitted(session'[client].arrival) \in entitled'
    BY <1>1 DEF Credited, Entitles, Active, Permitted, IsCommand, Validate,
                WellFormed, BatchValid, ChangeValid, PublicationValid,
                DefinitionBounded, Admitted
  <2> QED
    BY DEF Record, Authenticated
<1>3. entitled' \subseteq Request
  <2> SUFFICES ASSUME NEW client \in Clients,
                      session'[client].phase \notin {"idle", "answered"},
                      IsCommand(session'[client].arrival),
                      Validate(session'[client].arrival) = "Valid",
                      Entitles(session'[client].arrival, held_now[client])
               PROVE  Admitted(session'[client].arrival) \in Request
    BY DEF Record
  <2>1. session'[client].arrival \in Arrivals
    BY DEF SessionState
  <2>2. Authenticate(session'[client].arrival) = "Authentic"
    BY AuthenticatedEntitles
  <2> QED
    BY <2>1, <2>2, ArrivalsAssumption, RequestsAssumption
<1> QED
  BY <1>1, <1>2, <1>3

-----------------------------------------------------------------------------
(* The invariant is inductive.                                             *)

LEMMA InvariantInitially == Init => ServiceInvariant
<1> SUFFICES ASSUME Init PROVE ServiceInvariant
  OBVIOUS
<1>1. SessionsTyped
  <2>1. entitled \subseteq Request
    BY StoredAssumption DEF Init, Store!Init, Sound, Database, CommandRow
  <2> QED
    BY <2>1 DEF Init, SessionsTyped, SessionState
<1>2. DOMAIN call = Clients
  BY DEF Init, Store!Init
<1>3. ASSUME NEW client \in Clients
      PROVE  Vetted(client) /\ Credited(client) /\ Asked(client)
  <2>1. session[client].phase = "idle" /\ call[client].status = "idle"
    BY DEF Init, Store!Init, Store!Idle
  <2> QED
    BY <2>1 DEF Vetted, Credited, Asked, Authenticated, Store!Waiting
<1>4. abandoned \subseteq entitled /\ CommandsEntitled
  BY DEF Init, Store!Init, CommandsEntitled
<1> QED
  BY <1>1, <1>2, <1>3, <1>4 DEF ServiceInvariant

\* A call that arrives has its facts to itself.
LEMMA ArriveKeeps ==
    ASSUME ServiceInvariant, NEW client \in Clients, NEW a \in Arrivals,
           Arrive(client, a)
    PROVE  ServiceInvariant'
<1> DEFINE new == IF Authenticate(a) = "Authentic"
                  THEN [phase |-> "membership", arrival |-> a]
                  ELSE [phase |-> "answered", arrival |-> a,
                        answer |-> Authenticate(a)]
           now == [held EXCEPT ![client] = facts \intersect {Active(a), Permitted(a)}]
<1>1. /\ session' = [session EXCEPT ![client] = new]
      /\ Record(now)
      /\ UNCHANGED <<database, abandoned, call, facts>>
      /\ ~InProgress(client)
  BY DEF Arrive
<1>2. /\ new.arrival = a /\ new.phase \in {"membership", "answered"}
      /\ new.phase = "membership" => Authenticate(a) = "Authentic"
      /\ new.phase = "answered" => new.answer \in {"Unauthenticated", "Forbidden"}
      /\ new \in SessionState
  <2>1. Authenticate(a) \in {"Authentic", "Unauthenticated", "Forbidden"}
    BY DEF Authenticate
  <2>2. CASE Authenticate(a) = "Authentic"
    BY <2>2 DEF SessionState
  <2>3. CASE Authenticate(a) # "Authentic"
    <3>1. Authenticate(a) \in Answers
      BY <2>1, <2>3 DEF Answers
    <3> QED
      BY <2>1, <2>3, <3>1 DEF SessionState
  <2> QED
    BY <2>2, <2>3
<1> HIDE DEF new
<1>3. /\ session' \in [Clients -> SessionState]
      /\ now \in [Clients -> SUBSET Facts]
      /\ session'[client] = new
      /\ now[client] = facts \intersect {Active(a), Permitted(a)}
      /\ \A other \in Clients \ {client} :
           session'[other] = session[other] /\ now[other] = held[other]
  BY <1>1, <1>2 DEF ServiceInvariant, SessionsTyped
<1> HIDE DEF now
<1>4. /\ held' = now
      /\ entitled \subseteq entitled'
      /\ entitled' \subseteq Request
      /\ \A other \in Clients : Credited(other)'
  BY <1>1, <1>3, RecordCredits DEF ServiceInvariant, SessionsTyped
<1>5. ASSUME NEW other \in Clients PROVE Vetted(other)'
  <2>1. CASE other = client
    <3>1. session'[other] = new /\ held'[other] = facts \intersect {Active(a), Permitted(a)}
      BY <1>3, <1>4, <2>1
    <3> QED
      BY <1>1, <1>2, <3>1 DEF Vetted, Authenticated, Authenticate, Authentic, Active, Permitted
  <2>2. CASE other # client
    <3>1. session'[other] = session[other] /\ held'[other] = held[other]
          /\ facts' = facts
      BY <1>1, <1>3, <1>4, <2>2
    <3>2. Vetted(other)
      BY DEF ServiceInvariant
    <3> QED
      BY <3>1, <3>2 DEF Vetted
  <2> QED
    BY <2>1, <2>2
<1>6. ASSUME NEW other \in Clients PROVE Asked(other)'
  <2>1. CASE other = client
    <3>1. ~Store!Waiting(client)
      BY <1>1 DEF InProgress, Answered, Store!Waiting, ServiceInvariant, Asked
    <3> QED
      BY <1>1, <2>1, <3>1 DEF Asked, Store!Waiting
  <2>2. CASE other # client
    BY <1>1, <1>3, <2>2 DEF ServiceInvariant, Asked, Store!Waiting
  <2> QED
    BY <2>1, <2>2
<1> QED
  BY <1>1, <1>3, <1>4, <1>5, <1>6
  DEF ServiceInvariant, SessionsTyped, CommandsEntitled

\* A step that moves one session on and changes no tables and no facts.
LEMMA SessionMoves ==
    ASSUME ServiceInvariant, NEW client \in Clients, NEW new \in SessionState,
           session[client].phase \in {"membership", "permission", "authorized"},
           new.phase # "idle", new.arrival = session[client].arrival,
           session' = [session EXCEPT ![client] = new],
           UNCHANGED <<database, abandoned, call, facts, held, entitled>>,
           Vetted(client)', new.phase # "submitted"
    PROVE  ServiceInvariant'
<1>1. /\ session' \in [Clients -> SessionState]
      /\ session'[client] = new
      /\ \A other \in Clients \ {client} : session'[other] = session[other]
  BY DEF ServiceInvariant, SessionsTyped
<1>2. ASSUME NEW other \in Clients
      PROVE  Vetted(other)' /\ Credited(other)' /\ Asked(other)'
  <2>1. Vetted(other) /\ Credited(other) /\ Asked(other)
    BY DEF ServiceInvariant
  <2>2. CASE other = client
    <3>1. Credited(client)'
      BY <1>1, <2>1, <2>2 DEF Credited, Authenticated
    <3>2. Asked(client)'
      BY <1>1, <2>1, <2>2 DEF Asked, Store!Waiting
    <3> QED
      BY <2>2, <3>1, <3>2
  <2>3. CASE other # client
    <3>1. session'[other] = session[other]
      BY <1>1, <2>3
    <3> QED
      BY <2>1, <3>1 DEF Vetted, Credited, Asked, Store!Waiting
  <2> QED
    BY <2>2, <2>3
<1> QED
  BY <1>1, <1>2 DEF ServiceInvariant, SessionsTyped, CommandsEntitled

LEMMA CheckMembershipKeeps ==
    ASSUME ServiceInvariant, NEW client \in Clients, CheckMembership(client)
    PROVE  ServiceInvariant'
<1> DEFINE s == session[client]
<1>1. s \in SessionState /\ s.phase = "membership" /\ Vetted(client)
  BY DEF ServiceInvariant, SessionsTyped, CheckMembership
<1>2. CASE Active(s.arrival) \in facts
  <2> DEFINE new == [s EXCEPT !.phase = "permission"]
  <2>1. /\ session' = [session EXCEPT ![client] = new]
        /\ UNCHANGED <<database, abandoned, call, facts, held, entitled>>
    BY <1>2 DEF CheckMembership, Proceed
  <2>2. new \in SessionState /\ new.phase = "permission" /\ new.arrival = s.arrival
    BY <1>1 DEF SessionState
  <2> HIDE DEF new
  <2>3. session'[client] = new
    BY <2>1 DEF ServiceInvariant, SessionsTyped
  <2>4. Vetted(client)'
    BY <1>1, <1>2, <2>1, <2>2, <2>3
    DEF Vetted, Authenticated, Authenticate, Authentic, Active, Permitted
  <2> QED
    BY <1>1, <2>1, <2>2, <2>4, SessionMoves
<1>3. CASE Active(s.arrival) \notin facts
  <2> DEFINE new == [phase |-> "answered", arrival |-> s.arrival,
                     answer |-> "Forbidden"]
  <2>1. /\ session' = [session EXCEPT ![client] = new]
        /\ UNCHANGED <<database, abandoned, call, facts, held, entitled>>
    BY <1>3 DEF CheckMembership, Respond
  <2>2. new \in SessionState
    BY <1>1 DEF SessionState, Answers
  <2>3. session'[client] = new
    BY <2>1 DEF ServiceInvariant, SessionsTyped
  <2>4. Vetted(client)'
    BY <2>3 DEF Vetted, Authenticated
  <2> QED
    BY <1>1, <2>1, <2>2, <2>4, SessionMoves
<1> QED
  BY <1>2, <1>3

\* The permission held, and the membership was recorded before.
LEMMA CheckPermissionKeeps ==
    ASSUME ServiceInvariant, NEW client \in Clients, CheckPermission(client)
    PROVE  ServiceInvariant'
<1> DEFINE s == session[client]
<1>1. s \in SessionState /\ s.phase = "permission" /\ Vetted(client)
  BY DEF ServiceInvariant, SessionsTyped, CheckPermission
<1>2. CASE Permitted(s.arrival) \in facts
  <2> DEFINE new == [s EXCEPT !.phase = "authorized"]
  <2>1. /\ session' = [session EXCEPT ![client] = new]
        /\ UNCHANGED <<database, abandoned, call, facts, held, entitled>>
    BY <1>2 DEF CheckPermission, Proceed
  <2>2. new \in SessionState /\ new.phase = "authorized" /\ new.arrival = s.arrival
    BY <1>1 DEF SessionState
  <2> HIDE DEF new
  <2>3. session'[client] = new
    BY <2>1 DEF ServiceInvariant, SessionsTyped
  <2>4. Vetted(client)'
    BY <1>1, <1>2, <2>1, <2>2, <2>3
    DEF Vetted, Authenticated, Authenticate, Authentic, Active, Permitted
  <2> QED
    BY <1>1, <2>1, <2>2, <2>4, SessionMoves
<1>3. CASE Permitted(s.arrival) \notin facts
  <2> DEFINE new == [phase |-> "answered", arrival |-> s.arrival,
                     answer |-> "Forbidden"]
  <2>1. /\ session' = [session EXCEPT ![client] = new]
        /\ UNCHANGED <<database, abandoned, call, facts, held, entitled>>
    BY <1>3 DEF CheckPermission, Respond
  <2>2. new \in SessionState
    BY <1>1 DEF SessionState, Answers
  <2>3. session'[client] = new
    BY <2>1 DEF ServiceInvariant, SessionsTyped
  <2>4. Vetted(client)'
    BY <2>3 DEF Vetted, Authenticated
  <2> QED
    BY <1>1, <2>1, <2>2, <2>4, SessionMoves
<1> QED
  BY <1>2, <1>3

\* An answer that tells something is given to who is entitled.
LEMMA RespondKeeps ==
    ASSUME ServiceInvariant, NEW client \in Clients,
           session[client].phase \in {"membership", "permission", "authorized"},
           NEW answer \in Answers, Respond(client, answer),
           session[client].phase # "authorized" => answer = "Runtime"
    PROVE  ServiceInvariant'
<1> DEFINE s == session[client]
           new == [phase |-> "answered", arrival |-> s.arrival, answer |-> answer]
<1>1. s \in SessionState /\ Vetted(client)
  BY DEF ServiceInvariant, SessionsTyped
<1>2. /\ session' = [session EXCEPT ![client] = new]
      /\ UNCHANGED <<database, abandoned, call, facts, held, entitled>>
  BY DEF Respond
<1>3. new \in SessionState
  BY <1>1 DEF SessionState
<1>4. session'[client] = new
  BY <1>2 DEF ServiceInvariant, SessionsTyped
<1>5. s.phase = "authorized" => Entitles(s.arrival, held[client])
  BY <1>1, AuthenticatedEntitles DEF Vetted, Authenticated
<1>6. Vetted(client)'
  BY <1>2, <1>4, <1>5
  DEF Vetted, Authenticated, Entitles, Active, Permitted
<1> QED
  BY <1>1, <1>2, <1>3, <1>6, SessionMoves

LEMMA PortFailsKeeps ==
    ASSUME ServiceInvariant, NEW client \in Clients, PortFails(client)
    PROVE  ServiceInvariant'
BY RespondKeeps DEF PortFails, Answers

LEMMA RejectKeeps ==
    ASSUME ServiceInvariant, NEW client \in Clients, Reject(client)
    PROVE  ServiceInvariant'
<1>1. Validate(session[client].arrival) \in {"InvalidRequest", "InvalidRuleset"}
  BY DEF Reject, Validate
<1>2. Validate(session[client].arrival) \in Answers
  BY <1>1 DEF Answers
<1> QED
  BY <1>2, RespondKeeps DEF Reject

LEMMA ReadFlagKeeps ==
    ASSUME ServiceInvariant, NEW client \in Clients, ReadFlag(client)
    PROVE  ServiceInvariant'
<1>1. \E answer \in Answers : Respond(client, answer)
  BY DEF ReadFlag, AdminError, Answers
<1> QED
  BY <1>1, RespondKeeps DEF ReadFlag

\* Only the request of an authorized call is submitted.
LEMMA SubmitKeeps ==
    ASSUME ServiceInvariant, NEW client \in Clients, Submit(client)
    PROVE  ServiceInvariant'
<1> DEFINE s == session[client]
           new == [s EXCEPT !.phase = "submitted"]
<1>1. /\ s \in SessionState /\ s.phase = "authorized"
      /\ Vetted(client) /\ Credited(client)
      /\ IsCommand(s.arrival) /\ Validate(s.arrival) = "Valid"
  BY DEF ServiceInvariant, SessionsTyped, Submit
<1>2. /\ session' = [session EXCEPT ![client] = new]
      /\ call' = [call EXCEPT ![client] = Store!Pending(Admitted(s.arrival))]
      /\ UNCHANGED <<database, abandoned, facts, held, entitled>>
  BY DEF Submit, Store!Call
<1>3. new \in SessionState /\ new.phase = "submitted" /\ new.arrival = s.arrival
  BY <1>1 DEF SessionState
<1> HIDE DEF new
<1>4. /\ session' \in [Clients -> SessionState]
      /\ session'[client] = new
      /\ DOMAIN call' = Clients
      /\ call'[client].request = Admitted(s.arrival)
      /\ \A other \in Clients \ {client} :
           session'[other] = session[other] /\ call'[other] = call[other]
  BY <1>2, <1>3 DEF ServiceInvariant, SessionsTyped, Store!Pending
<1>5. ASSUME NEW other \in Clients
      PROVE  Vetted(other)' /\ Credited(other)' /\ Asked(other)'
  <2>1. Vetted(other) /\ Credited(other) /\ Asked(other)
    BY DEF ServiceInvariant
  <2>2. CASE other = client
    <3>1. Vetted(client)'
      BY <1>1, <1>2, <1>3, <1>4
      DEF Vetted, Authenticated, Authenticate, Authentic, Active, Permitted,
          IsCommand, Validate
    <3>2. Credited(client)'
      BY <1>1, <1>2, <1>3, <1>4 DEF Credited, Authenticated
    <3>3. Asked(client)'
      BY <1>3, <1>4 DEF Asked
    <3> QED
      BY <2>2, <3>1, <3>2, <3>3
  <2>3. CASE other # client
    <3>1. session'[other] = session[other] /\ call'[other] = call[other]
      BY <1>4, <2>3
    <3> QED
      BY <1>2, <2>1, <3>1 DEF Vetted, Credited, Asked, Store!Waiting
  <2> QED
    BY <2>2, <2>3
<1> QED
  BY <1>2, <1>4, <1>5 DEF ServiceInvariant, SessionsTyped, CommandsEntitled

\* The store only works on what it was asked, or was asked and has abandoned.
LEMMA StoreWorksKeeps ==
    ASSUME ServiceInvariant, StoreWorks
    PROVE  ServiceInvariant'
<1>1. UNCHANGED <<session, facts, held, entitled>>
  BY DEF StoreWorks
<1>2. ASSUME NEW client \in Clients, Store!Waiting(client)
      PROVE  call[client].request \in entitled
  <2>1. /\ session[client].phase = "submitted"
        /\ call[client].request = Admitted(session[client].arrival)
    BY <1>2 DEF ServiceInvariant, Asked
  <2>2. Entitles(session[client].arrival, held[client])
    BY <2>1, AuthenticatedEntitles DEF ServiceInvariant, Vetted, Authenticated
  <2> QED
    BY <2>1, <2>2 DEF ServiceInvariant, Vetted, Credited, Authenticated
<1>3. /\ abandoned' \subseteq entitled
      /\ \A row \in database'.commands : row.request \in entitled
      /\ DOMAIN call' = Clients
      /\ \A client \in Clients :
           call'[client] = call[client] \/ call'[client].status # "pending"
  <2>1. ASSUME NEW client \in Clients,
               \/ Store!Reply(client)
               \/ Store!Conflict(client)
               \/ Store!Postpone(client)
               \/ Store!Refuse(client)
               \/ Store!Fail(client)
        PROVE  <1>3!:
    <3>1. /\ database' = database
          /\ abandoned' \subseteq abandoned
      BY <2>1 DEF Store!Reply, Store!Conflict, Store!Postpone, Store!Refuse,
                  Store!Fail
    <3>2. /\ DOMAIN call' = Clients
          /\ call'[client].status # "pending"
          /\ \A other \in Clients \ {client} : call'[other] = call[other]
      <4>1. CASE Store!Reply(client)
        BY <4>1 DEF Store!Reply, Store!Done, ServiceInvariant
      <4>2. CASE Store!Conflict(client)
        BY <4>2 DEF Store!Conflict, Store!RefusedCall, ServiceInvariant
      <4>3. CASE Store!Postpone(client)
        BY <4>3 DEF Store!Postpone, Store!RefusedCall, ServiceInvariant
      <4>4. CASE Store!Refuse(client)
        BY <4>4 DEF Store!Refuse, Store!RefusedCall, ServiceInvariant
      <4>5. CASE Store!Fail(client)
        BY <4>5 DEF Store!Fail, Store!Failed, ServiceInvariant
      <4> QED
        BY <2>1, <4>1, <4>2, <4>3, <4>4, <4>5
    <3> QED
      BY <3>1, <3>2 DEF ServiceInvariant, CommandsEntitled
  <2>2. ASSUME NEW client \in Clients, Store!Abandon(client)
        PROVE  <1>3!:
    BY <1>2, <2>2 DEF Store!Abandon, ServiceInvariant, CommandsEntitled
  <2>3. ASSUME NEW request \in Requests, Store!Execute(request)
        PROVE  <1>3!:
    <3>1. request \in entitled
      BY <1>2, <2>3 DEF Store!Execute, Store!Awaited, ServiceInvariant
    <3>2. PICK response : database'.commands =
            database.commands \union {[request |-> request, response |-> response]}
      BY <2>3 DEF Store!Execute, Store!Commit
    <3> QED
      BY <2>3, <3>1, <3>2 DEF Store!Execute, ServiceInvariant, CommandsEntitled
  <2>4. CASE Store!Forget
    BY <2>4 DEF Store!Forget, ServiceInvariant, CommandsEntitled
  <2> QED
    BY <2>1, <2>2, <2>3, <2>4 DEF StoreWorks
<1>4. ASSUME NEW client \in Clients
      PROVE  Vetted(client)' /\ Credited(client)' /\ Asked(client)'
  BY <1>1, <1>3 DEF ServiceInvariant, Vetted, Credited, Asked, Store!Waiting
<1> QED
  BY <1>1, <1>3, <1>4 DEF ServiceInvariant, SessionsTyped, CommandsEntitled

\* A fact that is gained is recorded for every call it matters to, before that
\* call can ask for it.
LEMMA GainKeeps ==
    ASSUME ServiceInvariant, NEW fact \in Facts, Gain(fact)
    PROVE  ServiceInvariant'
<1> DEFINE gains(client) == /\ InProgress(client)
                            /\ fact \in {Active(session[client].arrival),
                                         Permitted(session[client].arrival)}
           now == [client \in Clients |->
                     IF gains(client) THEN held[client] \union {fact} ELSE held[client]]
<1>1. /\ facts' = facts \union {fact}
      /\ UNCHANGED <<database, abandoned, call, session>>
      /\ Record(now)
  BY DEF Gain
<1>2. /\ session' \in [Clients -> SessionState]
      /\ now \in [Clients -> SUBSET Facts]
      /\ \A client \in Clients :
           /\ held[client] \subseteq now[client]
           /\ gains(client) => fact \in now[client]
  BY <1>1 DEF ServiceInvariant, SessionsTyped
<1> HIDE DEF now
<1>3. /\ held' = now
      /\ entitled \subseteq entitled'
      /\ entitled' \subseteq Request
      /\ \A client \in Clients : Credited(client)'
  BY <1>1, <1>2, RecordCredits DEF ServiceInvariant, SessionsTyped
<1>4. ASSUME NEW client \in Clients PROVE Vetted(client)' /\ Asked(client)'
  <2> DEFINE s == session[client]
  <2>1. Vetted(client) /\ Asked(client) /\ s' = s
    BY <1>1 DEF ServiceInvariant
  <2>2. held[client] \subseteq held'[client]
    BY <1>2, <1>3
  <2>3. ASSUME s.phase \in {"membership", "permission"}
        PROVE  facts' \intersect {Active(s.arrival), Permitted(s.arrival)}
                 \subseteq held'[client]
    <3>1. InProgress(client)
      BY <2>3 DEF InProgress, Answered
    <3>2. facts \intersect {Active(s.arrival), Permitted(s.arrival)}
            \subseteq held[client]
      BY <2>1, <2>3 DEF Vetted
    <3> QED
      BY <1>1, <1>2, <1>3, <2>2, <3>1, <3>2
  <2>4. Entitles(s.arrival, held[client]) => Entitles(s.arrival, held'[client])
    BY <2>2 DEF Entitles
  <2>5. Vetted(client)'
    BY <2>1, <2>2, <2>3, <2>4
    DEF Vetted, Authenticated, Authenticate, Authentic, Active, Permitted,
        Entitles, IsCommand, Validate
  <2>6. Asked(client)'
    BY <1>1, <2>1 DEF Asked, Store!Waiting
  <2> QED
    BY <2>5, <2>6
<1>5. facts' \subseteq Facts
  BY <1>1 DEF ServiceInvariant, SessionsTyped
<1> QED
  BY <1>1, <1>2, <1>3, <1>4, <1>5
  DEF ServiceInvariant, SessionsTyped, CommandsEntitled

LEMMA LoseKeeps ==
    ASSUME ServiceInvariant, NEW fact \in Facts, Lose(fact)
    PROVE  ServiceInvariant'
<1>1. /\ facts' = facts \ {fact}
      /\ UNCHANGED <<database, abandoned, call, session, held, entitled>>
  BY DEF Lose
<1>2. ASSUME NEW client \in Clients
      PROVE  Vetted(client)' /\ Credited(client)' /\ Asked(client)'
  BY <1>1 DEF ServiceInvariant, Vetted, Credited, Asked, Store!Waiting
<1> QED
  BY <1>1, <1>2 DEF ServiceInvariant, SessionsTyped, CommandsEntitled

LEMMA InvariantKept == ServiceInvariant /\ [Next]_vars => ServiceInvariant'
<1> SUFFICES ASSUME ServiceInvariant, [Next]_vars PROVE ServiceInvariant'
  OBVIOUS
<1>1. ASSUME NEW client \in Clients,
             \/ \E a \in Arrivals : Arrive(client, a)
             \/ CheckMembership(client)
             \/ CheckPermission(client)
             \/ PortFails(client)
             \/ Reject(client)
             \/ Submit(client)
             \/ ReadFlag(client)
      PROVE  ServiceInvariant'
  BY <1>1, ArriveKeeps, CheckMembershipKeeps, CheckPermissionKeeps, PortFailsKeeps,
     RejectKeeps, SubmitKeeps, ReadFlagKeeps
<1>2. CASE UNCHANGED vars
  <2>1. ASSUME NEW client \in Clients
        PROVE  Vetted(client)' /\ Credited(client)' /\ Asked(client)'
    BY <1>2 DEF vars, ServiceInvariant, Vetted, Credited, Asked, Store!Waiting
  <2> QED
    BY <1>2, <2>1 DEF vars, ServiceInvariant, SessionsTyped, CommandsEntitled
<1> QED
  BY <1>1, <1>2, StoreWorksKeeps, GainKeeps, LoseKeeps DEF Next

LEMMA InvariantHolds == Spec => []ServiceInvariant
BY InvariantInitially, InvariantKept, PTL DEF Spec

-----------------------------------------------------------------------------
(* The theorems.                                                           *)

\* No command is recorded but of an actor who was a member and permitted during
\* one of the calls that made it: fn authorize comes before every fn command, and
\* nothing that a revoked membership left behind in the store belongs to another.
THEOREM ServiceCommandsEntitled == Spec => []CommandsEntitled
BY InvariantHolds, PTL DEF ServiceInvariant

\* Who is not entitled is told nothing: validation and the store come after both
\* checks of fn authorize.
THEOREM ServiceAnswersEntitled == Spec => []AnswersEntitled
<1>1. ServiceInvariant => AnswersEntitled
  <2> SUFFICES ASSUME ServiceInvariant, NEW client \in Clients, Answered(client),
                      Answer(client) \notin {"Unauthenticated", "Forbidden", "Runtime"}
               PROVE  Entitles(session[client].arrival, held[client])
    BY DEF AnswersEntitled
  <2>1. CASE session[client].phase = "answered"
    BY <2>1 DEF ServiceInvariant, Vetted, Answer
  <2>2. CASE session[client].phase = "submitted"
    BY <2>2, AuthenticatedEntitles DEF ServiceInvariant, Vetted, Authenticated
  <2> QED
    BY <2>1, <2>2 DEF Answered
<1> QED
  BY InvariantHolds, <1>1, PTL

\* A step of the service is one of its store, or nothing to it.
LEMMA StepImplements ==
    ASSUME ServiceInvariant, [Next]_vars
    PROVE  Store!Next \/ UNCHANGED Store!vars
<1>1. ASSUME NEW client \in Clients, Submit(client) PROVE Store!Next
  <2> DEFINE a == session[client].arrival
  <2>1. /\ session[client].phase = "authorized"
        /\ Validate(a) = "Valid" /\ IsCommand(a)
        /\ Store!Call(client, Admitted(a))
    BY <1>1 DEF Submit
  <2>2. a \in Arrivals /\ Authenticate(a) = "Authentic"
    BY <2>1 DEF ServiceInvariant, SessionsTyped, SessionState, Vetted, Authenticated
  <2>3. Admitted(a) \in Requests
    BY <2>1, <2>2, ArrivalsAssumption
  <2> QED
    BY <2>1, <2>3 DEF Store!Next
<1>2. StoreWorks => Store!Next
  BY DEF StoreWorks, Store!Next
<1> QED
  BY <1>1, <1>2
  DEF Next, vars, Store!vars, Arrive, CheckMembership, CheckPermission, PortFails, Reject,
      ReadFlag, Proceed, Respond, Gain, Lose

\* The service in front of a store behaves as a store asked only for requests
\* that are authorized and well formed.
THEOREM ServiceImplementsStore == Spec => ImplementsStore
<1>1. Init => Store!Init
  BY DEF Init
<1>2. ServiceInvariant /\ [Next]_vars => [Store!Next]_(Store!vars)
  BY StepImplements
<1> QED
  BY InvariantHolds, <1>1, <1>2, PTL DEF Spec, ImplementsStore, Store!Spec

-----------------------------------------------------------------------------
(* The store of the service plans and replies by the same operators.       *)

LEMMA SameValidity ==
    ASSUME NEW type, NEW definition
    PROVE  Store!ValidateRuleset(type, definition)
             = ValidateRuleset(type, definition)
BY DEF ValidateRuleset, NamesVariants, VariantKeysOf, ValuesTyped,
       ValidValue, RulesSound, RolloutSound, RolloutTotal, Wrapped, Upper,
       ToSet, Store!ToSet,
       Store!ValidateRuleset, Store!NamesVariants,
       Store!VariantKeysOf, Store!ValuesTyped, Store!ValidValue,
       Store!RulesSound, Store!RolloutSound, Store!RolloutTotal,
       Store!Wrapped, Store!Upper

LEMMA SameChoice ==
    ASSUME NEW context, NEW bucket, NEW definition
    PROVE  Store!ChooseVariant(context, bucket, definition)
             = ChooseVariant(context, bucket, definition)
BY DEF ChooseVariant, MatchingRules, RuleMatches, RolloutStops, Serve,
       NoChoice, ToSet, SelectInSeq, Min, RolloutTotal, Wrapped, Upper,
       Store!ChooseVariant, Store!MatchingRules,
       Store!RuleMatches, Store!RolloutStops, Store!Serve,
       Store!NoChoice, Store!ToSet, Store!SelectInSeq,
       Store!Min, Store!RolloutTotal, Store!Wrapped,
       Store!Upper

LEMMA SameLatest ==
    ASSUME NEW db, NEW flag, NEW environment
    PROVE  /\ Store!Published(db, flag, environment)
                = Published(db, flag, environment)
           /\ Store!Latest(db, flag, environment)
                = Latest(db, flag, environment)
           /\ Store!NextRulesetRevision(db, flag, environment)
                = NextRulesetRevision(db, flag, environment)
BY DEF Published, Latest, NextRulesetRevision, Store!Published,
       Store!Latest, Store!NextRulesetRevision

LEMMA SameEvaluation ==
    ASSUME NEW db, NEW request, NEW flag
    PROVE  /\ Store!EvaluationVerdict(db, request, flag)
                = EvaluationVerdict(db, request, flag)
           /\ Store!Evaluation(db, request, flag)
                = Evaluation(db, request, flag)
<1>1. Store!Choice(db, request, flag) = Choice(db, request, flag)
  BY SameChoice, SameLatest DEF Choice, Store!Choice
<1>2. QED
  BY <1>1, SameValidity, SameLatest
  DEF EvaluationVerdict, Evaluation, Store!EvaluationVerdict,
      Store!Evaluation

LEMMA SameWords ==
    ASSUME NEW failure, NEW response, NEW flags, NEW environments,
           NEW rulesets, NEW receipts, NEW row, NEW key, NEW expected
    PROVE  /\ Store!Refused(failure) = Refused(failure)
           /\ Store!Planned(response, flags, environments, rulesets, receipts)
                = Planned(response, flags, environments, rulesets, receipts)
           /\ Store!NoRows = NoRows
           /\ Store!Row(key, row) = Row(key, row)
           /\ Store!Bumped(row) = Bumped(row)
           /\ Store!FlagVerdict(row, expected) = FlagVerdict(row, expected)
BY DEF Refused, Planned, NoRows, Row, Bumped, FlagVerdict,
       Store!Refused, Store!Planned, Store!NoRows, Store!Row,
       Store!Bumped, Store!FlagVerdict

LEMMA SamePlan ==
    ASSUME NEW db, NEW request
    PROVE  Store!Plan(db, request) = Plan(db, request)
<1>1. Store!PlanCreateFlag(db, request) = PlanCreateFlag(db, request)
  BY SameWords DEF PlanCreateFlag, Store!PlanCreateFlag
<1>2. Store!PlanChangeFlag(db, request) = PlanChangeFlag(db, request)
  BY SameWords DEF PlanChangeFlag, Store!PlanChangeFlag
<1>3. Store!PlanPutEnvironment(db, request) = PlanPutEnvironment(db, request)
  BY SameWords DEF PlanPutEnvironment, Store!PlanPutEnvironment
<1>4. Store!PlanPublishRuleset(db, request) = PlanPublishRuleset(db, request)
  BY SameWords, SameValidity, SameLatest
  DEF PlanPublishRuleset, Store!PlanPublishRuleset
<1>5. Store!PlanEvaluate(db, request) = PlanEvaluate(db, request)
  <2> DEFINE flags       == request.flags
             failing     == {i \in DOMAIN flags :
                               EvaluationVerdict(db, request, flags[i]) # "Chosen"}
             evaluations == [i \in DOMAIN flags |->
                               Evaluation(db, request, flags[i])]
  <2>1. failing = {i \in DOMAIN flags :
                     Store!EvaluationVerdict(db, request, flags[i]) # "Chosen"}
    BY SameEvaluation
  <2>2. evaluations = [i \in DOMAIN flags |->
                         Store!Evaluation(db, request, flags[i])]
    BY SameEvaluation
  <2>3. Store!Min(failing) = Min(failing)
    BY DEF Min, Store!Min
  <2>4. Store!ReceiptsOf(request, evaluations)
          = ReceiptsOf(request, evaluations)
    BY DEF ReceiptsOf, ReceiptOf, EvaluationIdOf, Store!ReceiptsOf,
           Store!ReceiptOf, Store!EvaluationIdOf
  <2>5. Store!EvaluationVerdict(db, request, flags[Min(failing)])
          = EvaluationVerdict(db, request, flags[Min(failing)])
    BY SameEvaluation
  <2>6. PlanEvaluate(db, request) =
          IF failing # {}
          THEN Refused(EvaluationVerdict(db, request, flags[Min(failing)]))
          ELSE Planned([evaluations |-> evaluations], NoRows, NoRows, {},
                       ReceiptsOf(request, evaluations))
    BY DEF PlanEvaluate
  <2>7. Store!PlanEvaluate(db, request) =
          IF failing # {}
          THEN Store!Refused(Store!EvaluationVerdict(
                 db, request, flags[Store!Min(failing)]))
          ELSE Store!Planned(
                 [evaluations |-> evaluations], Store!NoRows,
                 Store!NoRows, {}, Store!ReceiptsOf(request, evaluations))
    <3> HIDE DEF failing, evaluations
    <3>1. QED
      BY <2>1, <2>2 DEF Store!PlanEvaluate
  <2> HIDE DEF failing, evaluations
  <2>8. QED
    BY <2>3, <2>4, <2>5, <2>6, <2>7, SameWords
<1>6. QED
  BY <1>1, <1>2, <1>3, <1>4, <1>5 DEF Plan, Store!Plan

LEMMA SameTables ==
    ASSUME NEW db, NEW request, NEW plan
    PROVE  /\ Store!Commit(db, request, plan) = Commit(db, request, plan)
           /\ Store!Recorded(db, request) <=> Recorded(db, request)
           /\ Store!CommandRows(db, request) = CommandRows(db, request)
BY DEF Commit, Written, Recorded, CommandRows, CommandId,
       Store!Commit, Store!Written,
       Store!Recorded, Store!CommandRows, Store!CommandId

LEMMA SameReplies ==
    ASSUME NEW request, NEW response, NEW failure
    PROVE  /\ Store!Idle = Idle
           /\ Store!Pending(request) = Pending(request)
           /\ Store!Failed(request) = Failed(request)
           /\ Store!Done(request, response) = Done(request, response)
           /\ Store!RefusedCall(request, failure)
                = RefusedCall(request, failure)
BY DEF Idle, Pending, Failed, Done, RefusedCall, Store!Idle,
       Store!Pending, Store!Failed, Store!Done, Store!RefusedCall

-----------------------------------------------------------------------------
(* Failures.  Each operation has a name for every failure its plan can     *)
(* have on sound tables, so "InvalidRequest" only ever blames the request. *)

\* A published ruleset is valid, so an evaluation that finds one succeeds.
LEMMA SoundVerdicts ==
    ASSUME NEW db, Sound(db), NEW request \in Evaluate, NEW flag \in FlagKeys
    PROVE  EvaluationVerdict(db, request, flag) \in
             {"Chosen", "FlagNotFound", "Archived", "EnvironmentNotFound",
              "NoPublishedRuleset"}
<1> DEFINE environment == request.environment
           latest      == Latest(db, flag, environment)
           type        == db.flags[flag].value_type
<1>1. CASE Published(db, flag, environment) = {}
  BY <1>1 DEF EvaluationVerdict
<1>2. CASE Published(db, flag, environment) # {}
  <2>1. environment \in EnvironmentKeys
    BY DEF Evaluate
  <2>2. /\ latest \in Published(db, flag, environment)
        /\ latest \in db.rulesets
        /\ latest.definition \in RulesetDefinition
    BY <1>2, <2>1, LatestRow DEF RulesetRow
  <2>3. latest.flag = flag
    BY <2>2 DEF Published
  <2>4. Valid(type, latest.definition)
    BY <2>2, <2>3 DEF Sound, Consistent, PublishedValid
  <2>5. Choice(db, request, flag).status = "Chosen"
    BY <2>2, <2>4, ValidatedRulesetServes DEF Choice
  <2>6. QED
    BY <2>4, <2>5 DEF EvaluationVerdict, Valid
<1>3. QED
  BY <1>1, <1>2

LEMMA EvaluationsNamed ==
    ASSUME NEW db, Sound(db), NEW request \in Evaluate
    PROVE  PlanEvaluate(db, request).status \in
             {"Planned", "FlagNotFound", "Archived", "EnvironmentNotFound",
              "NoPublishedRuleset"}
<1> DEFINE verdict(i)  == EvaluationVerdict(db, request, request.flags[i])
           failing     == {i \in DOMAIN request.flags : verdict(i) # "Chosen"}
           evaluations == [i \in DOMAIN request.flags |->
                             Evaluation(db, request, request.flags[i])]
<1>1. PlanEvaluate(db, request) =
        IF failing # {} THEN Refused(verdict(Min(failing)))
        ELSE Planned([evaluations |-> evaluations], NoRows, NoRows, {},
                     ReceiptsOf(request, evaluations))
  BY DEF PlanEvaluate
<1>2. CASE failing = {}
  BY <1>1, <1>2 DEF Planned
<1>3. CASE failing # {}
  <2>1. request.flags \in Seq(FlagKeys)
    BY DEF Evaluate
  <2>2. failing \in SUBSET Nat /\ failing \subseteq DOMAIN request.flags
    BY <2>1
  <2>3. Min(failing) \in failing
    BY <1>3, <2>2, MinOfNaturals
  <2>4. /\ \A i \in DOMAIN request.flags : request.flags[i] \in FlagKeys
        /\ \A i \in failing : i \in DOMAIN request.flags /\ verdict(i) # "Chosen"
    BY <2>1
  <2>5. /\ verdict(Min(failing)) # "Chosen"
        /\ verdict(Min(failing)) \in
             {"Chosen", "FlagNotFound", "Archived", "EnvironmentNotFound",
              "NoPublishedRuleset"}
    <3> HIDE DEF failing
    <3>1. request.flags[Min(failing)] \in FlagKeys
      BY <2>3, <2>4
    <3>2. QED
      BY <2>3, <2>4, <3>1, SoundVerdicts
  <2>6. QED
    BY <1>1, <1>3, <2>5 DEF Refused
<1>4. QED
  BY <1>2, <1>3

AdminFailures ==
    {"NotFound", "Archived", "RevisionConflict", "AlreadyExists",
     "TypeMismatch", "InvalidRuleset"}

LEMMA AdminPlansNamed ==
    ASSUME NEW db, NEW request \in Requests, request \notin Evaluate
    PROVE  /\ Plan(db, request).status \in AdminFailures \union {"Planned"}
           /\ request.operation \notin EvaluationOperations
<1>1. PlanCreateFlag(db, request).status \in AdminFailures \union {"Planned"}
  BY DEF PlanCreateFlag, Refused, Planned, AdminFailures
<1>2. PlanChangeFlag(db, request).status \in AdminFailures \union {"Planned"}
  BY DEF PlanChangeFlag, FlagVerdict, Refused, Planned, AdminFailures
<1>3. PlanPutEnvironment(db, request).status \in AdminFailures \union {"Planned"}
  BY DEF PlanPutEnvironment, Refused, Planned, AdminFailures
<1>4. PlanPublishRuleset(db, request).status \in AdminFailures \union {"Planned"}
  BY DEF PlanPublishRuleset, FlagVerdict, ValidateRuleset, Refused, Planned,
         AdminFailures
<1>5. request.operation \in
        {"create_flag", "update_flag", "archive_flag", "put_environment",
         "publish_ruleset"}
  BY RequestFields DEF CreateFlag, ChangeFlag, PutEnvironment, PublishRuleset
<1>6. QED
  BY <1>1, <1>2, <1>3, <1>4, <1>5 DEF Plan, EvaluationOperations

LEMMA RefusalsNamed ==
    ASSUME NEW db, Sound(db), NEW request \in Requests,
           Plan(db, request).status # "Planned"
    PROVE  ErrorOf(request.operation, Plan(db, request).status)
             # "InvalidRequest"
<1>1. CASE request \in Evaluate
  <2>1. request.operation \in EvaluationOperations
    BY <1>1 DEF Evaluate, EvaluationOperations
  <2>2. Plan(db, request) = PlanEvaluate(db, request)
    BY <2>1 DEF Plan, EvaluationOperations
  <2>3. QED
    BY <1>1, <2>1, <2>2, EvaluationsNamed DEF ErrorOf, EvaluationError
<1>2. CASE request \notin Evaluate
  BY <1>2, AdminPlansNamed DEF ErrorOf, AdminError, AdminFailures
<1>3. QED
  BY <1>1, <1>2

\* What a call was told, or will be by the reply the store gave it.
Told(client) ==
    LET s == session[client]
        c == call[client]
    IN  /\ s.phase = "answered" /\ s.answer = "InvalidRequest" =>
             Validate(s.arrival) = "InvalidRequest"
        /\ s.phase = "submitted" => c.request = Admitted(s.arrival)
        /\ c.status = "refused" =>
             ErrorOf(c.request.operation, c.failure) # "InvalidRequest"

AnswersNamed == Sound(database) /\ \A client \in Clients : Told(client)

\* A command that waits is one the store accepts.
LEMMA AskedOfStore ==
    ASSUME ServiceInvariant, NEW client \in Clients,
           session[client].phase \in {"authorized", "submitted"},
           IsCommand(session[client].arrival),
           Validate(session[client].arrival) = "Valid"
    PROVE  Admitted(session[client].arrival) \in Requests
<1>1. /\ session[client].arrival \in Arrivals
      /\ Authenticate(session[client].arrival) = "Authentic"
  BY DEF ServiceInvariant, SessionsTyped, SessionState, Vetted, Authenticated
<1>2. QED
  BY <1>1, ArrivalsAssumption

\* The service submits the operation that was called.
LEMMA OperationAdmitted ==
    ASSUME NEW a, Admitted(a) \in Requests
    PROVE  Admitted(a).operation = a.body.operation
<1>1. "operation" \in DOMAIN Admitted(a)
  BY RequestFields
  DEF CreateFlag, ChangeFlag, PutEnvironment, PublishRuleset, Evaluate
<1>2. QED
  BY <1>1 DEF Admitted

LEMMA NamedInitially == Init => AnswersNamed
<1> SUFFICES ASSUME Init PROVE AnswersNamed
  OBVIOUS
<1>1. Sound(database)
  BY StoredAssumption DEF Init, Store!Init
<1>2. ASSUME NEW client \in Clients PROVE Told(client)
  <2>1. session[client].phase = "idle" /\ call[client].status = "idle"
    BY DEF Init, Store!Init, Store!Idle
  <2>2. QED
    BY <2>1 DEF Told
<1>3. QED
  BY <1>1, <1>2 DEF AnswersNamed

\* A step that moves a session on without the store.
LEMMA SessionTold ==
    ASSUME ServiceInvariant, AnswersNamed, NEW client \in Clients, NEW new,
           session' = [session EXCEPT ![client] = new],
           UNCHANGED <<database, call>>,
           new.phase # "submitted",
           new.phase = "answered" /\ new.answer = "InvalidRequest" =>
             Validate(new.arrival) = "InvalidRequest"
    PROVE  AnswersNamed'
<1>1. ASSUME NEW other \in Clients PROVE Told(other)'
  <2>1. Told(other) /\ call' = call
    BY DEF AnswersNamed
  <2>2. CASE other = client
    <3>1. session'[other] = new
      BY <2>2 DEF ServiceInvariant, SessionsTyped
    <3>2. QED
      BY <2>1, <3>1 DEF Told
  <2>3. CASE other # client
    <3>1. session'[other] = session[other]
      BY <2>3 DEF ServiceInvariant, SessionsTyped
    <3>2. QED
      BY <2>1, <3>1 DEF Told
  <2>4. QED
    BY <2>2, <2>3
<1>2. QED
  BY <1>1 DEF AnswersNamed

LEMMA RespondTold ==
    ASSUME ServiceInvariant, AnswersNamed, NEW client \in Clients, NEW answer,
           Respond(client, answer),
           answer = "InvalidRequest" =>
             Validate(session[client].arrival) = "InvalidRequest"
    PROVE  AnswersNamed'
<1> DEFINE new == [phase |-> "answered", arrival |-> session[client].arrival,
                   answer |-> answer]
<1>1. /\ session' = [session EXCEPT ![client] = new]
      /\ UNCHANGED <<database, call>>
  BY DEF Respond, ServiceInvariant, SessionsTyped
<1>2. /\ new.phase = "answered" /\ new.answer = answer
      /\ new.arrival = session[client].arrival
  OBVIOUS
<1> HIDE DEF new
<1>3. QED
  BY <1>1, <1>2, SessionTold

LEMMA ProceedTold ==
    ASSUME ServiceInvariant, AnswersNamed, NEW client \in Clients,
           NEW phase \in {"permission", "authorized"},
           session[client].phase \in {"membership", "permission"},
           Proceed(client, phase)
    PROVE  AnswersNamed'
<1> DEFINE new == [session[client] EXCEPT !.phase = phase]
<1>1. /\ session' = [session EXCEPT ![client] = new]
      /\ UNCHANGED <<database, call>>
  BY DEF Proceed
<1>2. new.phase = phase
  BY DEF ServiceInvariant, SessionsTyped, SessionState
<1> HIDE DEF new
<1>3. QED
  BY <1>1, <1>2, SessionTold

LEMMA ArriveTold ==
    ASSUME ServiceInvariant, AnswersNamed, NEW client \in Clients,
           NEW a \in Arrivals, Arrive(client, a)
    PROVE  AnswersNamed'
<1> DEFINE new == IF Authenticate(a) = "Authentic"
                  THEN [phase |-> "membership", arrival |-> a]
                  ELSE [phase |-> "answered", arrival |-> a,
                        answer |-> Authenticate(a)]
<1>1. /\ session' = [session EXCEPT ![client] = new]
      /\ UNCHANGED <<database, call>>
  BY DEF Arrive
<1>2. /\ new.phase # "submitted"
      /\ new.phase = "answered" => new.answer # "InvalidRequest"
  BY DEF Authenticate
<1> HIDE DEF new
<1>3. QED
  BY <1>1, <1>2, SessionTold

LEMMA SubmitTold ==
    ASSUME ServiceInvariant, AnswersNamed, NEW client \in Clients, Submit(client)
    PROVE  AnswersNamed'
<1> DEFINE s == session[client]
           new == [s EXCEPT !.phase = "submitted"]
           asked == Store!Pending(Admitted(s.arrival))
<1>1. /\ session' = [session EXCEPT ![client] = new]
      /\ call' = [call EXCEPT ![client] = asked]
      /\ UNCHANGED database
      /\ s.phase = "authorized"
  BY DEF Submit, Store!Call
<1>2. new.phase = "submitted" /\ new.arrival = s.arrival
  BY <1>1 DEF ServiceInvariant, SessionsTyped, SessionState
<1>3. asked.status = "pending" /\ asked.request = Admitted(s.arrival)
  BY DEF Store!Pending
<1> HIDE DEF new, asked
<1>4. ASSUME NEW other \in Clients PROVE Told(other)'
  <2>1. Told(other)
    BY DEF AnswersNamed
  <2>2. CASE other = client
    <3>1. session'[other] = new /\ call'[other] = asked
      BY <1>1, <2>2 DEF ServiceInvariant, SessionsTyped
    <3>2. QED
      BY <1>2, <1>3, <3>1 DEF Told, Admitted
  <2>3. CASE other # client
    <3>1. session'[other] = session[other] /\ call'[other] = call[other]
      BY <1>1, <2>3 DEF ServiceInvariant, SessionsTyped
    <3>2. QED
      BY <2>1, <3>1 DEF Told
  <2>4. QED
    BY <2>2, <2>3
<1>5. QED
  BY <1>1, <1>4 DEF AnswersNamed

\* The store gives a call a reply, and leaves its tables alone.
LEMMA ReplyTold ==
    ASSUME ServiceInvariant, AnswersNamed, NEW client \in Clients, NEW reply,
           call' = [call EXCEPT ![client] = reply],
           UNCHANGED <<database, session>>,
           reply.request = call[client].request,
           reply.status = "refused" =>
             ErrorOf(reply.request.operation, reply.failure) # "InvalidRequest"
    PROVE  AnswersNamed'
<1>1. ASSUME NEW other \in Clients PROVE Told(other)'
  <2>1. Told(other) /\ session' = session
    BY DEF AnswersNamed
  <2>2. CASE other = client
    <3>1. call'[other] = reply
      BY <2>2 DEF ServiceInvariant
    <3>2. QED
      BY <2>1, <2>2, <3>1 DEF Told
  <2>3. CASE other # client
    <3>1. call'[other] = call[other]
      BY <2>3 DEF ServiceInvariant
    <3>2. QED
      BY <2>1, <3>1 DEF Told
  <2>4. QED
    BY <2>2, <2>3
<1>2. QED
  BY <1>1 DEF AnswersNamed

LEMMA RefusalTold ==
    ASSUME ServiceInvariant, AnswersNamed, NEW client \in Clients, NEW failure,
           call' = [call EXCEPT ![client] =
                      Store!RefusedCall(call[client].request, failure)],
           UNCHANGED <<database, session>>,
           ErrorOf(call[client].request.operation, failure) # "InvalidRequest"
    PROVE  AnswersNamed'
<1> DEFINE reply == Store!RefusedCall(call[client].request, failure)
<1>1. reply.request = call[client].request /\ reply.failure = failure
  BY DEF Store!RefusedCall
<1> HIDE DEF reply
<1>2. call' = [call EXCEPT ![client] = reply]
  BY DEF reply
<1>3. QED
  BY <1>1, <1>2, ReplyTold

LEMMA StoreWorksTold ==
    ASSUME ServiceInvariant, AnswersNamed, StoreWorks
    PROVE  AnswersNamed'
<1>1. ASSUME NEW client \in Clients, Store!Reply(client)
      PROVE  AnswersNamed'
  <2>1. PICK response :
          call' = [call EXCEPT ![client] =
                     Store!Done(call[client].request, response)]
    BY <1>1 DEF Store!Reply, ServiceInvariant
  <2> DEFINE reply == Store!Done(call[client].request, response)
  <2>2. reply.request = call[client].request /\ reply.status = "done"
    BY DEF Store!Done
  <2> HIDE DEF reply
  <2>3. call' = [call EXCEPT ![client] = reply]
    BY <2>1 DEF reply
  <2>4. UNCHANGED <<database, session>>
    BY <1>1 DEF Store!Reply, StoreWorks
  <2>5. QED
    BY <2>2, <2>3, <2>4, ReplyTold
<1>2. ASSUME NEW client \in Clients, Store!Conflict(client)
      PROVE  AnswersNamed'
  <2>1. /\ call' = [call EXCEPT ![client] =
                      Store!RefusedCall(call[client].request,
                                        "IdempotencyConflict")]
        /\ UNCHANGED <<database, session>>
    BY <1>2 DEF Store!Conflict, StoreWorks, ServiceInvariant
  <2>2. ErrorOf(call[client].request.operation, "IdempotencyConflict")
          # "InvalidRequest"
    BY DEF ErrorOf, EvaluationError, AdminError
  <2>3. QED
    BY <2>1, <2>2, RefusalTold
<1>3. ASSUME NEW client \in Clients, Store!Postpone(client)
      PROVE  AnswersNamed'
  <2>1. /\ call' = [call EXCEPT ![client] =
                      Store!RefusedCall(call[client].request,
                                        "OperationInProgress")]
        /\ UNCHANGED <<database, session>>
    BY <1>3 DEF Store!Postpone, StoreWorks, ServiceInvariant
  <2>2. ErrorOf(call[client].request.operation, "OperationInProgress")
          # "InvalidRequest"
    BY DEF ErrorOf, EvaluationError, AdminError
  <2>3. QED
    BY <2>1, <2>2, RefusalTold
<1>4. ASSUME NEW client \in Clients, Store!Refuse(client)
      PROVE  AnswersNamed'
  <2> DEFINE request == call[client].request
             failure == Plan(database, request).status
  <2>1. Store!Plan(database, request) = Plan(database, request)
    BY SamePlan
  <2>2. /\ Store!Waiting(client)
        /\ failure # "Planned"
        /\ call' = [call EXCEPT ![client] = Store!RefusedCall(request, failure)]
        /\ UNCHANGED <<database, session>>
    BY <1>4, <2>1 DEF Store!Refuse, StoreWorks, ServiceInvariant
  <2>3. request \in Requests
    <3>1. /\ session[client].phase = "submitted"
          /\ request = Admitted(session[client].arrival)
          /\ IsCommand(session[client].arrival)
          /\ Validate(session[client].arrival) = "Valid"
      BY <2>2 DEF ServiceInvariant, Asked, Vetted
    <3>2. QED
      BY <3>1, AskedOfStore
  <2>4. ErrorOf(request.operation, failure) # "InvalidRequest"
    BY <2>2, <2>3, RefusalsNamed DEF AnswersNamed
  <2>5. QED
    BY <2>2, <2>4, RefusalTold
<1>5. ASSUME NEW client \in Clients, Store!Fail(client)
      PROVE  AnswersNamed'
  <2> DEFINE reply == Store!Failed(call[client].request)
  <2>1. reply.request = call[client].request /\ reply.status = "failed"
    BY DEF Store!Failed
  <2>2. /\ call' = [call EXCEPT ![client] = reply]
        /\ UNCHANGED <<database, session>>
    BY <1>5 DEF Store!Fail, StoreWorks, ServiceInvariant
  <2> HIDE DEF reply
  <2>3. QED
    BY <2>1, <2>2, ReplyTold
<1>6. ASSUME NEW request \in Requests, Store!Execute(request)
      PROVE  AnswersNamed'
  <2>1. /\ Store!Plan(database, request) = Plan(database, request)
        /\ Store!Recorded(database, request) <=> Recorded(database, request)
        /\ Store!Commit(database, request, Plan(database, request))
             = Committed(database, request)
    BY SamePlan, SameTables DEF Committed
  <2>2. Admissible(database, request)
    BY <1>6, <2>1 DEF Store!Execute, Admissible, AnswersNamed
  <2>3. database' = Committed(database, request) /\ UNCHANGED <<call, session>>
    BY <1>6, <2>1 DEF Store!Execute, StoreWorks
  <2>4. Sound(database)'
    BY <2>2, <2>3, CommitSound
  <2>5. QED
    BY <2>3, <2>4 DEF AnswersNamed, Told
<1>7. ASSUME NEW client \in Clients, Store!Abandon(client)
      PROVE  AnswersNamed'
  BY <1>7 DEF Store!Abandon, StoreWorks, AnswersNamed, Told
<1>8. CASE Store!Forget
  BY <1>8 DEF Store!Forget, StoreWorks, AnswersNamed, Told
<1>9. QED
  BY <1>1, <1>2, <1>3, <1>4, <1>5, <1>6, <1>7, <1>8 DEF StoreWorks

LEMMA NamedKept ==
    ServiceInvariant /\ AnswersNamed /\ [Next]_vars => AnswersNamed'
<1> SUFFICES ASSUME ServiceInvariant, AnswersNamed, [Next]_vars
             PROVE  AnswersNamed'
  OBVIOUS
<1>1. ASSUME NEW client \in Clients, NEW a \in Arrivals, Arrive(client, a)
      PROVE  AnswersNamed'
  BY <1>1, ArriveTold
<1>2. ASSUME NEW client \in Clients,
             CheckMembership(client) \/ CheckPermission(client)
      PROVE  AnswersNamed'
  BY <1>2, ProceedTold, RespondTold DEF CheckMembership, CheckPermission
<1>3. ASSUME NEW client \in Clients, PortFails(client) \/ Reject(client)
      PROVE  AnswersNamed'
  BY <1>3, RespondTold DEF PortFails, Reject
<1>4. ASSUME NEW client \in Clients, Submit(client) PROVE AnswersNamed'
  BY <1>4, SubmitTold
<1>5. ASSUME NEW client \in Clients, ReadFlag(client) PROVE AnswersNamed'
  <2>1. \E answer \in {"Runtime", "NotFound", "Ok"} : Respond(client, answer)
    BY <1>5 DEF ReadFlag, AdminError
  <2>2. QED
    BY <2>1, RespondTold
<1>6. CASE StoreWorks
  BY <1>6, StoreWorksTold
<1>7. ASSUME UNCHANGED <<database, call, session>> PROVE AnswersNamed'
  BY <1>7 DEF AnswersNamed, Told
<1>8. QED
  BY <1>1, <1>2, <1>3, <1>4, <1>5, <1>6, <1>7 DEF Next, Gain, Lose, vars

\* "InvalidRequest" only ever blames the request: every failure a plan can have
\* for an operation has a name in that operation's errors, since the rulesets
\* that evaluations read are valid.
THEOREM ServiceInvalidRequests == Spec => []InvalidRequestsInvalid
<1>1. ServiceInvariant /\ AnswersNamed => InvalidRequestsInvalid
  <2> SUFFICES ASSUME ServiceInvariant, AnswersNamed, NEW client \in Clients,
                      Answered(client), Answer(client) = "InvalidRequest"
               PROVE  Validate(session[client].arrival) = "InvalidRequest"
    BY DEF InvalidRequestsInvalid
  <2> DEFINE a == session[client].arrival
  <2>1. Told(client)
    BY DEF AnswersNamed
  <2>2. CASE session[client].phase = "answered"
    BY <2>1, <2>2 DEF Told, Answer
  <2>3. CASE session[client].phase = "submitted"
    <3>1. Admitted(a) \in Requests
      BY <2>3, AskedOfStore DEF ServiceInvariant, Vetted
    <3>2. call[client].request.operation = a.body.operation
      BY <2>1, <2>3, <3>1, OperationAdmitted DEF Told
    <3>3. call[client].status = "refused"
      BY <2>3 DEF Answer
    <3>4. Answer(client) = ErrorOf(a.body.operation, call[client].failure)
      BY <2>3, <3>3 DEF Answer
    <3>5. QED
      BY <2>1, <3>2, <3>3, <3>4 DEF Told
  <2>4. QED
    BY <2>2, <2>3 DEF Answered
<1>2. QED
  BY <1>1, InvariantHolds, NamedInitially, NamedKept, PTL DEF Spec

\* Behind the service the tables keep every invariant of the contract, whoever
\* calls: handlers that validate in different ways let no request through that
\* would harm them.
THEOREM ServiceTablesSound == Spec => []Sound(database)
<1>1. AnswersNamed => Sound(database)
  BY DEF AnswersNamed
<1>2. QED
  BY <1>1, InvariantHolds, NamedInitially, NamedKept, PTL DEF Spec

-----------------------------------------------------------------------------
(* Types.                                                                  *)

LEMMA SameTypes == Store!Database = Database /\ Store!CallState = CallState
<1>1. Store!RulesetDefinition = RulesetDefinition /\ Store!Context = Context
      /\ Store!VariantRecord = VariantRecord
  BY DEF RulesetDefinition, VariantRecord, ValueRecord, TargetingRuleRecord,
         RolloutRecord, Operators, Integer64, Context, Store!Operators,
         Store!Integer64, Store!RulesetDefinition,
         Store!VariantRecord, Store!ValueRecord, Store!TargetingRuleRecord,
         Store!RolloutRecord, Store!Context
<1>2. Store!Request = Request
  BY <1>1 DEF Request, CreateFlag, ChangeFlag, PutEnvironment, PublishRuleset,
         Evaluate, Revisions, Store!Request, Store!CreateFlag,
         Store!ChangeFlag, Store!PutEnvironment, Store!PublishRuleset,
         Store!Evaluate, Store!Revisions
<1>3. Store!Response = Response
  BY <1>1 DEF Response, FlagRecord, EnvironmentRecord, PublishRecord,
         EvaluationRecord, Revisions, Store!Response, Store!FlagRecord,
         Store!EnvironmentRecord, Store!PublishRecord,
         Store!EvaluationRecord, Store!Revisions
<1>4. Store!Database = Database
  BY <1>1, <1>2, <1>3
  DEF Database, FlagRecord, EnvironmentRecord, RulesetRow, CommandRow,
      ReceiptRow, EvaluationId, Revisions, Store!Database,
      Store!FlagRecord, Store!EnvironmentRecord, Store!RulesetRow,
      Store!CommandRow, Store!ReceiptRow, Store!EvaluationId,
      Store!Revisions
<1>5. Store!CallState = CallState
  BY <1>3 DEF CallState, Idle, Failures, Store!CallState, Store!Idle,
              Store!Failures
<1>6. QED
  BY <1>4, <1>5

\* What the store is asked, and what it has replied.
Exchanges ==
    /\ abandoned \subseteq Requests
    /\ call \in [Clients -> CallState]
    /\ \A client \in Clients :
         Store!Waiting(client) => call[client].request \in Requests

\* A reply to a call that waits is one of CallState.
LEMMA ReplyTyped ==
    ASSUME ServiceInvariant, AnswersNamed, Exchanges, NEW client \in Clients,
           \/ Store!Reply(client)
           \/ Store!Conflict(client)
           \/ Store!Postpone(client)
           \/ Store!Refuse(client)
           \/ Store!Fail(client)
    PROVE  Exchanges'
<1> DEFINE request == call[client].request
<1>1. request \in Requests /\ abandoned' \subseteq abandoned
  BY DEF Exchanges, Store!Reply, Store!Conflict, Store!Postpone,
         Store!Refuse, Store!Fail
<1>2. \E reply \in CallState :
        reply.status # "pending" /\ call' = [call EXCEPT ![client] = reply]
  <2>1. CASE Store!Reply(client)
    <3>1. PICK row \in database.commands :
            call' = [call EXCEPT ![client] = Done(request, row.response)]
      BY <2>1, SameReplies DEF Store!Reply, ServiceInvariant
    <3>2. row.response \in Response
      BY DEF AnswersNamed, Sound, Database, CommandRow
    <3>3. /\ Done(request, row.response) \in CallState
          /\ Done(request, row.response).status # "pending"
      BY <1>1, <3>2 DEF Done, CallState
    <3>4. QED
      BY <3>1, <3>3
  <2>2. ASSUME NEW failure \in Failures,
               call' = [call EXCEPT ![client] =
                          Store!RefusedCall(request, failure)]
        PROVE  <1>2!:
    <3>1. call' = [call EXCEPT ![client] = RefusedCall(request, failure)]
      BY <2>2, SameReplies
    <3>2. /\ RefusedCall(request, failure) \in CallState
          /\ RefusedCall(request, failure).status # "pending"
      BY <1>1 DEF RefusedCall, CallState
    <3>3. QED
      BY <3>1, <3>2
  <2>3. CASE Store!Conflict(client)
    BY <2>2, <2>3 DEF Store!Conflict, Failures, ServiceInvariant
  <2>4. CASE Store!Postpone(client)
    BY <2>2, <2>4 DEF Store!Postpone, Failures, ServiceInvariant
  <2>5. CASE Store!Refuse(client)
    <3>1. Plan(database, request).status \in Failures \union {"Planned"}
      BY <1>1, PlanStatus DEF PlanFailures, Failures
    <3>2. QED
      BY <2>2, <2>5, <3>1, SamePlan DEF Store!Refuse, ServiceInvariant
  <2>6. CASE Store!Fail(client)
    <3>1. call' = [call EXCEPT ![client] = Failed(request)]
      BY <2>6, SameReplies DEF Store!Fail, ServiceInvariant
    <3>2. Failed(request) \in CallState /\ Failed(request).status # "pending"
      BY <1>1 DEF Failed, CallState
    <3>3. QED
      BY <3>1, <3>2
  <2>7. QED
    BY <2>1, <2>3, <2>4, <2>5, <2>6
<1>3. QED
  BY <1>1, <1>2 DEF Exchanges, Store!Waiting

LEMMA ExchangesKept ==
    ServiceInvariant /\ AnswersNamed /\ Exchanges /\ [Next]_vars => Exchanges'
<1> SUFFICES ASSUME ServiceInvariant, AnswersNamed, Exchanges, [Next]_vars
             PROVE  Exchanges'
  OBVIOUS
<1>1. ASSUME NEW client \in Clients, Submit(client) PROVE Exchanges'
  <2> DEFINE request == Admitted(session[client].arrival)
  <2>1. /\ call' = [call EXCEPT ![client] = Pending(request)]
        /\ UNCHANGED abandoned
    BY <1>1, SameReplies DEF Submit, Store!Call
  <2>2. request \in Requests
    BY <1>1, AskedOfStore DEF Submit
  <2> HIDE DEF request
  <2>3. Pending(request) \in CallState /\ Pending(request).request = request
    BY <2>2 DEF Pending, CallState
  <2>4. QED
    BY <2>1, <2>2, <2>3 DEF Exchanges, Store!Waiting
<1>2. CASE StoreWorks
  <2>1. ASSUME NEW client \in Clients, Store!Abandon(client) PROVE Exchanges'
    BY <2>1 DEF Store!Abandon, Exchanges, Store!Waiting
  <2>2. ASSUME NEW request \in Requests, Store!Execute(request)
        PROVE  Exchanges'
    BY <2>2 DEF Store!Execute, Exchanges, Store!Waiting
  <2>3. CASE Store!Forget
    BY <2>3 DEF Store!Forget, Exchanges, Store!Waiting
  <2>4. QED
    BY <1>2, <2>1, <2>2, <2>3, ReplyTyped DEF StoreWorks
<1>3. ASSUME UNCHANGED <<abandoned, call>> PROVE Exchanges'
  BY <1>3 DEF Exchanges, Store!Waiting
<1>4. QED
  BY <1>1, <1>2, <1>3
  DEF Next, vars, Arrive, CheckMembership, CheckPermission, PortFails, Reject,
      ReadFlag, Proceed, Respond, Gain, Lose

LEMMA ExchangesInitially == Init => Exchanges
BY SameReplies DEF Init, Store!Init, Exchanges, CallState, Store!Waiting, Idle

\* The type invariant.
THEOREM ServiceTyped == Spec => []TypeOK
<1>1. Init => Exchanges
  BY ExchangesInitially
<1>2. ServiceInvariant /\ AnswersNamed /\ Exchanges => TypeOK
  BY SameTypes
  DEF ServiceInvariant, SessionsTyped, AnswersNamed, Sound, Exchanges, TypeOK,
      Store!TypeOK
<1>3. QED
  BY <1>1, <1>2, InvariantHolds, NamedInitially, NamedKept, ExchangesKept, PTL
  DEF Spec

-----------------------------------------------------------------------------
(* What the contract promises, of the store behind the service.            *)

\* All that the proofs about the service keep.
Behaved == ServiceInvariant /\ AnswersNamed /\ Exchanges

LEMMA BehavedHolds == Spec => []Behaved
BY InvariantHolds, NamedInitially, NamedKept, ExchangesInitially, ExchangesKept,
   PTL DEF Spec, Behaved

\* A definite reply is the contract's, so what it says is recorded.
LEMMA ReplySteps ==
    ASSUME Behaved, [Next]_vars, NEW c \in Clients
    PROVE  call'[c] = call[c] \/ Justified(call'[c], database)
<1>1. /\ DOMAIN call = Clients
      /\ \A client \in Clients :
           Store!Waiting(client) => call[client].request \in Requests
  BY DEF Behaved, ServiceInvariant, Exchanges
<1>2. ASSUME NEW client \in Clients, NEW request \in Requests,
             Store!Call(client, request)
      PROVE  call'[c] = call[c] \/ Justified(call'[c], database)
  BY <1>1, <1>2 DEF Store!Call, Store!Pending, Justified
<1>3. ASSUME NEW client \in Clients, Store!Reply(client)
      PROVE  call'[c] = call[c] \/ Justified(call'[c], database)
  <2>1. PICK row \in database.commands :
          /\ row.request = call[client].request
          /\ call' = [call EXCEPT ![client] =
                        Done(call[client].request, row.response)]
    BY <1>3, SameReplies DEF Store!Reply
  <2>2. Justified(Done(call[client].request, row.response), database)
    BY <2>1 DEF Done, Justified
  <2>3. QED
    BY <1>1, <2>1, <2>2
<1>4. ASSUME NEW client \in Clients, Store!Conflict(client)
      PROVE  call'[c] = call[c] \/ Justified(call'[c], database)
  <2>1. PICK row \in CommandRows(database, call[client].request) :
          /\ row.request # call[client].request
          /\ call' = [call EXCEPT ![client] =
                RefusedCall(call[client].request, "IdempotencyConflict")]
    BY <1>4, SameReplies, SameTables DEF Store!Conflict
  <2>2. Justified(RefusedCall(call[client].request, "IdempotencyConflict"),
                  database)
    BY <2>1 DEF RefusedCall, Justified
  <2>3. QED
    BY <1>1, <2>1, <2>2
<1>5. ASSUME NEW client \in Clients, Store!Refuse(client)
      PROVE  call'[c] = call[c] \/ Justified(call'[c], database)
  <2> DEFINE failure == Plan(database, call[client].request).status
  <2>1. call[client].request \in Requests
    BY <1>1, <1>5 DEF Store!Refuse
  <2>2. failure # "IdempotencyConflict"
    BY <2>1, PlanStatus DEF PlanFailures
  <2>3. call' = [call EXCEPT ![client] =
                   RefusedCall(call[client].request, failure)]
    BY <1>5, <2>1, SamePlan, SameReplies DEF Store!Refuse
  <2> HIDE DEF failure
  <2>4. Justified(RefusedCall(call[client].request, failure), database)
    BY <2>2 DEF RefusedCall, Justified
  <2>5. QED
    BY <1>1, <2>3, <2>4
<1>6. ASSUME NEW client \in Clients,
             Store!Abandon(client) \/ Store!Fail(client)
      PROVE  call'[c] = call[c] \/ Justified(call'[c], database)
  BY <1>1, <1>6 DEF Store!Abandon, Store!Fail, Store!Failed, Justified
<1>7. ASSUME NEW client \in Clients, Store!Postpone(client)
      PROVE  call'[c] = call[c] \/ Justified(call'[c], database)
  BY <1>1, <1>7 DEF Store!Postpone, Store!RefusedCall, Justified
<1>8. ASSUME \/ Store!Forget
             \/ UNCHANGED Store!vars
             \/ \E request \in Requests : Store!Execute(request)
      PROVE  call'[c] = call[c]
  BY <1>8 DEF Store!Forget, Store!vars, Store!Execute
<1>9. QED
  BY StepImplements, <1>2, <1>3, <1>4, <1>5, <1>6, <1>7, <1>8
  DEF Behaved, Store!Next

\* A step leaves the committed tables alone or commits one admitted command.
LEMMA TablesStep ==
    ASSUME Behaved, [Next]_vars
    PROVE  \/ database' = database
           \/ \E request \in Requests :
                /\ Admissible(database, request)
                /\ database' = Committed(database, request)
<1>1. ASSUME NEW request \in Requests, Store!Execute(request)
      PROVE  /\ Admissible(database, request)
             /\ database' = Committed(database, request)
  BY <1>1, SamePlan, SameTables
  DEF Store!Execute, Admissible, Committed, Behaved, AnswersNamed
<1>2. QED
  BY <1>1, StepImplements
  DEF Behaved, Store!Next, Store!vars, Store!Call, Store!Reply,
      Store!Conflict, Store!Postpone, Store!Refuse, Store!Abandon,
      Store!Fail, Store!Forget

\* What the tables keep, read as the contract reads it.
LEMMA SameRows ==
    ASSUME NEW db, NEW flag, NEW environment
    PROVE  Store!Published(db, flag, environment)
             = Published(db, flag, environment)
BY DEF Published, Store!Published

\* What the store tells the service is recorded, whatever requests the handlers
\* let through.
THEOREM ServiceRepliesJustified == Spec => []Store!RepliesJustified
<1> DEFINE Replies == \A c \in Clients : Justified(call[c], database)
<1>1. Init => Replies
  BY SameReplies DEF Init, Store!Init, Idle, Justified
<1>2. Behaved /\ Replies /\ [Next]_vars => Replies'
  <2> SUFFICES ASSUME Behaved, Replies, [Next]_vars,
                      NEW c \in Clients
               PROVE  Justified(call'[c], database')
    OBVIOUS
  <2>1. Justified(call'[c], database)
    BY ReplySteps
  <2>2. database.commands \subseteq database'.commands
    BY TablesStep, CommitKeepsEvidence DEF EvidenceKept
  <2>3. QED
    BY <2>1, <2>2, JustifiedKept
<1>3. Replies => Store!RepliesJustified
  BY SameTables
  DEF Justified, Store!RepliesJustified, Store!RepliesRecorded,
      Store!ConflictsJustified
<1> HIDE DEF Replies
<1>4. QED
  BY <1>1, <1>2, <1>3, BehavedHolds, PTL DEF Spec

\* No call of the service, and nothing that a failed one left behind, rewrites
\* audit evidence.
THEOREM ServiceEvidenceGrows == Spec => Store!EvidenceGrows
<1>1. ASSUME Behaved, [Next]_vars
      PROVE  [/\ database.commands \subseteq database'.commands
              /\ database.rulesets \subseteq database'.rulesets
              /\ database.receipts \subseteq database'.receipts
              /\ \A flag \in FlagKeys :
                   database.flags[flag].revision =< database'.flags[flag].revision
             ]_database
  BY <1>1, TablesStep, CommitKeepsEvidence DEF EvidenceKept
<1>2. QED
  BY <1>1, BehavedHolds, PTL DEF Spec, Store!EvidenceGrows

\* No authorized call changes an archived flag, evaluates it or publishes a ruleset for it.
THEOREM ServiceArchivedIsFinal == Spec => Store!ArchivedIsFinal
<1>1. ASSUME Behaved, [Next]_vars
      PROVE  [\A flag \in FlagKeys :
                database.flags[flag].archived =>
                  /\ database'.flags[flag] = database.flags[flag]
                  /\ \A receipt \in database'.receipts \ database.receipts :
                       receipt.flag # flag
                  /\ \A row \in database'.rulesets \ database.rulesets :
                       row.flag # flag
             ]_database
  BY <1>1, TablesStep, CommitKeepsArchived DEF ArchivedKept
<1>2. QED
  BY <1>1, BehavedHolds, PTL DEF Spec, Store!ArchivedIsFinal

\* What the service evaluates is recorded against the latest ruleset.
THEOREM ServiceEvaluationsCurrent == Spec => Store!EvaluationsCurrent
<1>1. ASSUME Behaved, [Next]_vars
      PROVE  [\A receipt \in database'.receipts \ database.receipts :
                \A row \in Store!Published(database, receipt.flag,
                                              receipt.environment) :
                    row.revision =< receipt.ruleset_revision
             ]_database
  BY <1>1, TablesStep, SameRows, CommitEvaluatesLatest DEF EvaluatedLatest
<1>2. QED
  BY <1>1, BehavedHolds, PTL
  DEF Spec, Store!EvaluationsCurrent

\* An answer the service gives without its store is "Ok" only for a read.
OkRead(client) ==
    session[client].phase = "answered" /\ session[client].answer = "Ok" =>
        ~IsCommand(session[client].arrival)

LEMMA OkReadKept ==
    ASSUME ServiceInvariant, [Next]_vars, NEW c \in Clients, OkRead(c)
    PROVE  OkRead(c)'
<1>1. DOMAIN session = Clients
  BY DEF ServiceInvariant, SessionsTyped
<1>2. ASSUME NEW client \in Clients, NEW answer, Respond(client, answer),
             answer = "Ok" => ~IsCommand(session[client].arrival)
      PROVE  OkRead(c)'
  <2> DEFINE new == [phase |-> "answered", arrival |-> session[client].arrival,
                     answer |-> answer]
  <2>1. session' = [session EXCEPT ![client] = new]
    BY <1>2 DEF Respond
  <2>2. new.arrival = session[client].arrival /\ new.answer = answer
    OBVIOUS
  <2> HIDE DEF new
  <2>3. QED
    BY <1>1, <1>2, <2>1, <2>2 DEF OkRead, IsCommand
<1>3. ASSUME NEW client \in Clients, NEW phase, phase # "answered",
             session' = [session EXCEPT ![client].phase = phase]
      PROVE  OkRead(c)'
  <2>1. session[client] \in SessionState
    BY DEF ServiceInvariant, SessionsTyped
  <2>2. [session[client] EXCEPT !.phase = phase].phase = phase
    BY <2>1 DEF SessionState
  <2>3. QED
    BY <1>1, <1>3, <2>2 DEF OkRead, IsCommand
<1>4. ASSUME NEW client \in Clients, NEW a \in Arrivals, Arrive(client, a)
      PROVE  OkRead(c)'
  <2> DEFINE new == IF Authenticate(a) = "Authentic"
                    THEN [phase |-> "membership", arrival |-> a]
                    ELSE [phase |-> "answered", arrival |-> a,
                          answer |-> Authenticate(a)]
  <2>1. session' = [session EXCEPT ![client] = new]
    BY <1>4 DEF Arrive
  <2>2. new.phase = "answered" => new.answer # "Ok"
    BY DEF Authenticate
  <2> HIDE DEF new
  <2>3. QED
    BY <1>1, <2>1, <2>2 DEF OkRead, IsCommand
<1>5. ASSUME NEW client \in Clients,
             CheckMembership(client) \/ CheckPermission(client)
      PROVE  OkRead(c)'
  <2>1. \/ Respond(client, "Forbidden")
        \/ \E phase \in {"permission", "authorized"} : Proceed(client, phase)
    BY <1>5 DEF CheckMembership, CheckPermission
  <2>2. QED
    BY <1>2, <1>3, <2>1 DEF Proceed
<1>6. ASSUME NEW client \in Clients,
             PortFails(client) \/ Reject(client) \/ ReadFlag(client)
      PROVE  OkRead(c)'
  <2>1. \A a : Validate(a) # "Ok"
    BY DEF Validate
  <2>2. QED
    BY <1>2, <1>6, <2>1 DEF PortFails, Reject, ReadFlag
<1>7. ASSUME NEW client \in Clients, Submit(client) PROVE OkRead(c)'
  BY <1>3, <1>7 DEF Submit
<1>8. CASE UNCHANGED session
  BY <1>8 DEF OkRead, IsCommand
<1>9. QED
  BY <1>4, <1>5, <1>6, <1>7, <1>8 DEF Next, vars, StoreWorks, Gain, Lose

\* A caller told that its command succeeded finds it recorded, with its own
\* identity and body: not that of another call under the same key.
OkRecorded ==
    \A client \in Clients :
        (/\ Answered(client)
         /\ IsCommand(session[client].arrival)
         /\ Answer(client) = "Ok") =>
            \E row \in database.commands :
                /\ row.request = Admitted(session[client].arrival)
                /\ row.response = call[client].response

\* "Ok" is told of recorded commands only: no failure is renamed to it, and what
\* the store replies is the response recorded for the request that was submitted.
THEOREM ServiceOkRecorded == Spec => []OkRecorded
<1> DEFINE Reads == \A c \in Clients : OkRead(c)
<1>1. Init => Reads
  BY DEF Init, OkRead
<1>2. Behaved /\ Reads /\ [Next]_vars => Reads'
  BY OkReadKept DEF Behaved
<1>3. Behaved /\ Reads /\ Store!RepliesJustified => OkRecorded
  <2> SUFFICES ASSUME Behaved, Reads, Store!RepliesJustified,
                      NEW client \in Clients, Answered(client),
                      IsCommand(session[client].arrival), Answer(client) = "Ok"
               PROVE  \E row \in database.commands :
                        /\ row.request = Admitted(session[client].arrival)
                        /\ row.response = call[client].response
    BY DEF OkRecorded
  <2>1. session[client].phase = "submitted" /\ call[client].status # "pending"
    BY DEF Answered, Answer, OkRead
  <2>2. \A operation, failure : ErrorOf(operation, failure) # "Ok"
    BY DEF ErrorOf, EvaluationError, AdminError
  <2>3. call[client].status = "done"
    BY <2>1, <2>2 DEF Answer
  <2>4. call[client].request = Admitted(session[client].arrival)
    BY <2>1 DEF Behaved, AnswersNamed, Told
  <2>5. QED
    BY <2>3, <2>4 DEF Store!RepliesJustified, Store!RepliesRecorded
<1> HIDE DEF Reads
<1>4. QED
  BY <1>1, <1>2, <1>3, BehavedHolds, ServiceRepliesJustified, PTL DEF Spec

-----------------------------------------------------------------------------
(* The tools of an agent.  A mutation runs alone, so nobody else waits for *)
(* the command that is refused, and a refusal by the plan of a command     *)
(* fences off what earlier attempts left behind.                           *)

\* The tools in progress: a mutation is the only one, and no agent has dropped
\* the command that one is about to ask.
Turns ==
    /\ \A one, two \in Clients :
         one # two /\ InProgress(one) /\ InProgress(two) => ~RunsAlone(one)
    /\ \A client \in Clients :
         InProgress(client) =>
           session[client].arrival.body.operation \in ReadTools \union MutationTools
    /\ \A client \in Clients :
         (/\ InProgress(client)
          /\ IsCommand(session[client].arrival)
          /\ Admitted(session[client].arrival) \in Requests) =>
           Admitted(session[client].arrival) \notin dropped

CommandsRecordable == \A row \in database.commands : row.request \in Recordable

Outstanding == Store!Awaited \union abandoned

ToolsInvariant ==
    /\ ServiceInvariant
    /\ AnswersNamed
    /\ Exchanges
    /\ CommandsRecordable
    /\ Turns
    /\ RefusedForGood

LEMMA ToolsStep == [ToolsNext]_toolVars => [Next]_vars
<1> SUFFICES ASSUME [ToolsNext]_toolVars PROVE [Next]_vars
  OBVIOUS
<1>1. ASSUME NEW client \in Clients, NEW tool_call \in ToolCalls,
             Execute(client, tool_call)
      PROVE  Next
  BY <1>1, ToolCallsAssumption DEF Execute, Next
<1>2. ServiceWorks => Next
  BY DEF ServiceWorks, Next
<1>3. QED
  BY <1>1, <1>2 DEF ToolsNext, toolVars

\* An agent's tools can do nothing to the service that its other callers cannot:
\* what is proved of the service holds of its use through tools.
THEOREM ToolsAreCallers == ToolsSpec => Spec
<1>1. ToolsInit => Init
  BY DEF ToolsInit
<1>2. QED
  BY <1>1, ToolsStep, PTL DEF ToolsSpec, Spec

LEMMA OutstandingRequests ==
    ASSUME Exchanges
    PROVE  Outstanding \subseteq Requests
BY DEF Exchanges, Outstanding, Store!Awaited

LEMMA CommandRunsAlone ==
    ASSUME Turns, NEW client \in Clients, InProgress(client),
           Admitted(session[client].arrival) \in Requests
    PROVE  RunsAlone(client)
<1> DEFINE a == session[client].arrival
<1>1. a.body.operation \in ReadTools \union MutationTools
  BY DEF Turns
<1>2. a.body.operation = Admitted(a).operation
  BY OperationAdmitted
<1>3. Admitted(a).operation \notin ReadTools
  BY RequestFields
  DEF CreateFlag, ChangeFlag, PutEnvironment, PublishRuleset, Evaluate, ReadTools
<1>4. QED
  BY <1>1, <1>2, <1>3 DEF RunsAlone, ExecutionClass

\* Who waits for the store is in progress.
LEMMA WaitingProgress ==
    ASSUME ServiceInvariant, NEW client \in Clients, Store!Waiting(client)
    PROVE  /\ InProgress(client)
           /\ session[client].phase = "submitted"
           /\ call[client].request = Admitted(session[client].arrival)
           /\ IsCommand(session[client].arrival)
           /\ Admitted(session[client].arrival) \in Requests
<1>1. /\ session[client].phase = "submitted"
      /\ call[client].request = Admitted(session[client].arrival)
      /\ IsCommand(session[client].arrival)
      /\ Validate(session[client].arrival) = "Valid"
  BY DEF ServiceInvariant, Asked, Vetted
<1>2. QED
  BY <1>1, AskedOfStore DEF InProgress, Answered, Store!Waiting

-----------------------------------------------------------------------------
(* A step of the service.                                                  *)

\* A step of one client: the session or the call of every other is as it was.
OnlyMoves(client) ==
    \A other \in Clients \ {client} :
        session'[other] = session[other] /\ call'[other] = call[other]

\* The command an agent drops when its call is answered.
Drops(client) ==
    /\ InProgress(client)
    /\ IsCommand(session[client].arrival)
    /\ Answered(client)'
    /\ ToolAnswer(client)' \in Definite

\* Only the call that moves can be dropped.
LEMMA OneDrops ==
    ASSUME ServiceWorks, NEW client \in Clients, OnlyMoves(client)
    PROVE  /\ ~Drops(client) => dropped' = dropped
           /\ dropped' \subseteq
                dropped \union {Admitted(session[client].arrival)}
<1>1. ASSUME NEW other \in Clients \ {client} PROVE ~Drops(other)
  BY DEF OnlyMoves, Drops, InProgress, Answered
<1>2. dropped' = dropped \union
        {Admitted(session[c].arrival) : c \in {d \in Clients : Drops(d)}}
  BY DEF ServiceWorks, Drops
<1>3. QED
  BY <1>1, <1>2

\* A step of the store that leaves every call alone drops nothing.
LEMMA NoneDrops ==
    ASSUME ServiceWorks, UNCHANGED <<session, call>>
    PROVE  dropped' = dropped
<1>1. \A client \in Clients : ~Drops(client)
  BY DEF Drops, InProgress, Answered
<1>2. dropped' = dropped \union
        {Admitted(session[c].arrival) : c \in {d \in Clients : Drops(d)}}
  BY DEF ServiceWorks, Drops
<1>3. QED
  BY <1>1, <1>2

\* What is in progress after a step of the service was so before it, and whoever
\* is dropped is in progress no longer.
ProgressKept ==
    /\ \A client \in Clients :
         InProgress(client)' =>
           InProgress(client) /\ session'[client].arrival = session[client].arrival
    /\ \A request \in dropped' \ dropped :
         \E client \in Clients :
           /\ InProgress(client)
           /\ ~InProgress(client)'
           /\ request = Admitted(session[client].arrival)

LEMMA TurnsKept ==
    ASSUME Turns, ProgressKept
    PROVE  Turns'
<1>1. ASSUME NEW one \in Clients, NEW two \in Clients, one # two,
             InProgress(one)', InProgress(two)'
      PROVE  ~RunsAlone(one)'
  BY <1>1 DEF Turns, ProgressKept, RunsAlone
<1>2. ASSUME NEW client \in Clients, InProgress(client)'
      PROVE  session'[client].arrival.body.operation
               \in ReadTools \union MutationTools
  BY <1>2 DEF Turns, ProgressKept
<1>3. ASSUME NEW client \in Clients, InProgress(client)',
             IsCommand(session'[client].arrival),
             Admitted(session'[client].arrival) \in Requests,
             Admitted(session'[client].arrival) \in dropped'
      PROVE  FALSE
  <2> DEFINE request == Admitted(session[client].arrival)
  <2>1. /\ InProgress(client)
        /\ session'[client].arrival = session[client].arrival
    BY <1>3 DEF ProgressKept
  <2>2. request \notin dropped
    BY <1>3, <2>1 DEF Turns
  <2>3. PICK other \in Clients :
          /\ InProgress(other) /\ ~InProgress(other)'
          /\ request = Admitted(session[other].arrival)
    BY <1>3, <2>1, <2>2 DEF ProgressKept
  <2>4. other # client
    BY <1>3, <2>3
  <2>5. RunsAlone(client)
    BY <1>3, <2>1, CommandRunsAlone
  <2>6. QED
    BY <2>1, <2>3, <2>4, <2>5 DEF Turns
<1>4. QED
  BY <1>1, <1>2, <1>3 DEF Turns

\* Before and after the moves of a session.
LEMMA SessionProgress ==
    ASSUME ServiceInvariant, ServiceWorks, NEW client \in Clients,
           session[client].phase \in {"membership", "permission", "authorized"},
           NEW new \in SessionState, new.arrival = session[client].arrival,
           session' = [session EXCEPT ![client] = new],
           \A other \in Clients \ {client} : call'[other] = call[other]
    PROVE  ProgressKept /\ OnlyMoves(client)
<1>1. OnlyMoves(client) /\ session'[client] = new
  BY DEF OnlyMoves, ServiceInvariant, SessionsTyped
<1>2. InProgress(client)
  BY DEF InProgress, Answered
<1>3. ASSUME NEW other \in Clients, InProgress(other)'
      PROVE  InProgress(other) /\ session'[other].arrival = session[other].arrival
  BY <1>1, <1>2, <1>3 DEF OnlyMoves, InProgress, Answered
<1>4. ASSUME NEW request \in dropped' \ dropped
      PROVE  \E c \in Clients : /\ InProgress(c) /\ ~InProgress(c)'
                                /\ request = Admitted(session[c].arrival)
  BY <1>4 DEF ServiceWorks, InProgress
<1>5. QED
  BY <1>1, <1>3, <1>4 DEF ProgressKept

\* The store touches no session, and no call but to reply to it.
LEMMA StoreProgress ==
    ASSUME ServiceWorks, UNCHANGED session,
           \A client \in Clients :
             call'[client] = call[client] \/ call'[client].status # "pending"
    PROVE  ProgressKept
<1>1. ASSUME NEW client \in Clients, InProgress(client)' PROVE InProgress(client)
  BY <1>1 DEF InProgress, Answered
<1>2. ASSUME NEW request \in dropped' \ dropped
      PROVE  \E c \in Clients : /\ InProgress(c) /\ ~InProgress(c)'
                                /\ request = Admitted(session[c].arrival)
  BY <1>2 DEF ServiceWorks, InProgress
<1>3. QED
  BY <1>1, <1>2 DEF ProgressKept

\* What has not taken effect, and will not.
Gone(request) ==
    /\ \A row \in database.commands : row.request # request
    /\ request \in Outstanding => Recorded(database, request)

LEMMA GoneKept ==
    ASSUME NEW request, Gone(request), UNCHANGED database,
           Outstanding' \subseteq Outstanding \/ request \notin Outstanding'
    PROVE  Gone(request)'
BY DEF Gone

LEMMA AllGone == RefusedForGood <=> \A request \in dropped : Gone(request)
BY DEF RefusedForGood, Gone, Outstanding

\* One client moves, and if it is refused for good then its command is gone.
LEMMA MoveRefuses ==
    ASSUME RefusedForGood, ServiceWorks, NEW client \in Clients,
           OnlyMoves(client), UNCHANGED database,
           Outstanding' \subseteq Outstanding,
           NEW last, last = Admitted(session[client].arrival),
           Drops(client) => Gone(last)'
    PROVE  RefusedForGood'
<1>1. \A request \in dropped : Gone(request)'
  BY GoneKept, AllGone
<1>2. \A request \in dropped' : Gone(request)'
  <2>1. dropped' \subseteq dropped \union {last}
    BY OneDrops
  <2>2. ~Drops(client) => dropped' = dropped
    BY OneDrops
  <2>3. QED
    BY <1>1, <2>1, <2>2
<1>3. QED
  BY <1>2, AllGone DEF RefusedForGood, Gone, Outstanding

\* An answer of the service itself.
LEMMA RespondRefuses ==
    ASSUME ToolsInvariant, ServiceWorks, NEW client \in Clients,
           session[client].phase \in {"membership", "permission", "authorized"},
           NEW answer \in Answers, Respond(client, answer),
           answer \in {"Runtime", "Forbidden"}
             \/ ~IsCommand(session[client].arrival)
             \/ Admitted(session[client].arrival) \notin Recordable
    PROVE  ProgressKept /\ RefusedForGood'
<1> DEFINE s == session[client]
           new == [phase |-> "answered", arrival |-> s.arrival, answer |-> answer]
<1>1. /\ session' = [session EXCEPT ![client] = new]
      /\ UNCHANGED <<database, abandoned, call>>
  BY DEF Respond, ToolsInvariant, ServiceInvariant, SessionsTyped
<1>2. new \in SessionState /\ new.arrival = s.arrival
  BY DEF ToolsInvariant, ServiceInvariant, SessionsTyped, SessionState
<1>3. session'[client] = new
  BY <1>1 DEF ToolsInvariant, ServiceInvariant, SessionsTyped
<1>4. Answer(client)' = answer
  BY <1>3 DEF Answer
<1> HIDE DEF new
<1>5. ProgressKept /\ OnlyMoves(client)
  BY <1>1, <1>2, SessionProgress DEF ToolsInvariant
<1>6. Outstanding' = Outstanding
  BY <1>1 DEF Outstanding, Store!Awaited, Store!Waiting
<1>7. PICK last : last = Admitted(s.arrival)
  OBVIOUS
<1>8. ASSUME Drops(client) PROVE Gone(last)'
  <2>1. answer \notin {"Runtime", "Forbidden"} /\ IsCommand(s.arrival)
    BY <1>4, <1>8 DEF Drops, ToolAnswer, ToolError, Definite
  <2>2. last \notin Recordable
    BY <1>7, <2>1
  <2>3. Gone(last)
    BY <2>2, OutstandingRequests
    DEF Gone, ToolsInvariant, CommandsRecordable, Recordable
  <2>4. QED
    BY <1>1, <1>6, <2>3, GoneKept
<1>9. QED
  BY <1>1, <1>5, <1>6, <1>7, <1>8, MoveRefuses DEF ToolsInvariant

LEMMA ProceedRefuses ==
    ASSUME ToolsInvariant, ServiceWorks, NEW client \in Clients,
           session[client].phase \in {"membership", "permission"},
           NEW phase \in {"permission", "authorized"}, Proceed(client, phase)
    PROVE  ProgressKept /\ RefusedForGood'
<1> DEFINE new == [session[client] EXCEPT !.phase = phase]
<1>1. /\ session' = [session EXCEPT ![client] = new]
      /\ UNCHANGED <<database, abandoned, call>>
  BY DEF Proceed
<1>2. /\ new \in SessionState /\ new.arrival = session[client].arrival
      /\ new.phase = phase
  BY DEF ToolsInvariant, ServiceInvariant, SessionsTyped, SessionState
<1> HIDE DEF new
<1>3. ProgressKept /\ OnlyMoves(client) /\ session'[client] = new
  BY <1>1, <1>2, SessionProgress
  DEF ToolsInvariant, ServiceInvariant, SessionsTyped
<1>4. ~Drops(client)
  BY <1>2, <1>3 DEF Drops, Answered
<1>5. Outstanding' = Outstanding
  BY <1>1 DEF Outstanding, Store!Awaited, Store!Waiting
<1>6. QED
  BY <1>1, <1>3, <1>4, <1>5, MoveRefuses DEF ToolsInvariant

\* Nobody has dropped what is submitted.
LEMMA SubmitRefuses ==
    ASSUME ToolsInvariant, ServiceWorks, NEW client \in Clients, Submit(client)
    PROVE  ProgressKept /\ RefusedForGood'
<1> DEFINE s       == session[client]
           new     == [s EXCEPT !.phase = "submitted"]
           request == Admitted(s.arrival)
<1>1. /\ session' = [session EXCEPT ![client] = new]
      /\ call' = [call EXCEPT ![client] = Pending(request)]
      /\ UNCHANGED <<database, abandoned>>
      /\ s.phase = "authorized"
      /\ IsCommand(s.arrival) /\ Validate(s.arrival) = "Valid"
  BY SameReplies DEF Submit, Store!Call
<1>2. /\ new \in SessionState /\ new.arrival = s.arrival
      /\ new.phase = "submitted"
  BY <1>1 DEF ToolsInvariant, ServiceInvariant, SessionsTyped, SessionState
<1> HIDE DEF new
<1>3. \A other \in Clients \ {client} : call'[other] = call[other]
  BY <1>1 DEF ToolsInvariant, ServiceInvariant
<1>4. ProgressKept /\ OnlyMoves(client) /\ session'[client] = new
  BY <1>1, <1>2, <1>3, SessionProgress
  DEF ToolsInvariant, ServiceInvariant, SessionsTyped
<1>5. call'[client] = Pending(request)
  BY <1>1 DEF ToolsInvariant, ServiceInvariant
<1>6. ~Drops(client)
  BY <1>2, <1>4, <1>5 DEF Drops, Answered, Pending
<1>7. dropped' = dropped
  BY <1>4, <1>6, OneDrops
<1>8. request \in Requests /\ InProgress(client)
  BY <1>1, AskedOfStore DEF ToolsInvariant, InProgress, Answered
<1>9. request \notin dropped
  BY <1>1, <1>8 DEF ToolsInvariant, Turns
<1>10. Outstanding' \subseteq Outstanding \union {request}
  BY <1>1, <1>3, <1>5 DEF Outstanding, Store!Awaited, Store!Waiting, Pending
<1>11. \A dead \in dropped : Gone(dead)'
  <2> SUFFICES ASSUME NEW dead \in dropped PROVE Gone(dead)'
    OBVIOUS
  <2>1. Gone(dead) /\ dead # request
    BY <1>9, AllGone DEF ToolsInvariant
  <2>2. QED
    BY <1>1, <1>10, <2>1 DEF Gone
<1>12. QED
  BY <1>4, <1>7, <1>11 DEF RefusedForGood, Gone, Outstanding

\* The store replies to one call.
LEMMA ReplyRefuses ==
    ASSUME ToolsInvariant, ServiceWorks, NEW client \in Clients,
           Store!Waiting(client), NEW reply, reply.status # "pending",
           OnlyMoves(client), call'[client] = reply,
           UNCHANGED <<database, session>>, abandoned' \subseteq abandoned,
           NEW last, last = call[client].request,
           Drops(client) => Gone(last)'
    PROVE  ProgressKept /\ RefusedForGood'
<1>1. ProgressKept
  BY StoreProgress DEF OnlyMoves
<1>2. Outstanding' \subseteq Outstanding
  BY DEF OnlyMoves, Outstanding, Store!Awaited, Store!Waiting
<1>3. last = Admitted(session[client].arrival)
  BY WaitingProgress DEF ToolsInvariant
<1>4. QED
  BY <1>1, <1>2, <1>3, MoveRefuses DEF ToolsInvariant

\* What a refused call tells the agent is the name of its failure.
LEMMA RefusalAnswer ==
    ASSUME ToolsInvariant, NEW client \in Clients, Store!Waiting(client),
           NEW reply, reply.status \in {"done", "failed", "refused"},
           call'[client] = reply, UNCHANGED session, Drops(client)
    PROVE  reply.status = "refused" /\ reply.failure # "OperationInProgress"
<1>1. session'[client].phase = "submitted"
  BY WaitingProgress DEF ToolsInvariant
<1> DEFINE operation == session'[client].arrival.body.operation
<1>2. Answer(client)' = CASE reply.status = "done" -> "Ok"
                          [] reply.status = "refused" ->
                               ErrorOf(operation, reply.failure)
                          [] OTHER -> "Runtime"
  BY <1>1 DEF Answer, ErrorOf, EvaluationError, AdminError,
                    EvaluationOperations
<1> HIDE DEF operation
<1>3. Answer(client)' \notin {"Ok", "Runtime"}
  BY DEF Drops, ToolAnswer, Definite
<1>4. reply.status = "refused"
  BY <1>2, <1>3
<1>5. Answer(client)' = ErrorOf(operation, reply.failure)
  BY <1>2, <1>4
<1>6. ErrorOf(operation, "OperationInProgress") = "OperationInProgress"
  BY DEF ErrorOf, EvaluationError, AdminError
<1>7. ToolError(Answer(client)') \in Definite
  BY <1>3 DEF Drops, ToolAnswer, ToolError
<1>8. ToolError("OperationInProgress") \notin Definite
  BY DEF ToolError, Definite
<1>9. QED
  BY <1>4, <1>5, <1>6, <1>7, <1>8

\* A key recorded for another request is recorded for no other.
LEMMA ConflictGone ==
    ASSUME ToolsInvariant, NEW client \in Clients, Store!Conflict(client),
           NEW last, last = call[client].request
    PROVE  Gone(last)
<1>1. PICK row \in database.commands :
        CommandId(row.request) = CommandId(last) /\ row.request # last
  BY SameTables DEF Store!Conflict, CommandRows
<1>2. CommandsUnique(database)
  BY DEF ToolsInvariant, AnswersNamed, Sound, Consistent
<1>3. \A other \in database.commands : other.request # last
  BY <1>1, <1>2 DEF CommandsUnique
<1>4. Recorded(database, last)
  BY <1>1 DEF Recorded, CommandRows
<1>5. QED
  BY <1>3, <1>4 DEF Gone

\* The plan refused the command: no row has its key, nobody else waits for it,
\* and what was abandoned of it is fenced off.
LEMMA RefuseGone ==
    ASSUME ToolsInvariant, NEW client \in Clients, Store!Refuse(client),
           UNCHANGED session, NEW last, last = call[client].request
    PROVE  Gone(last)'
<1>1. /\ Store!Waiting(client) /\ ~Recorded(database, last)
      /\ abandoned' = abandoned \ {last} /\ UNCHANGED database
  BY SameTables DEF Store!Refuse
<1>2. \A row \in database.commands : row.request # last
  BY <1>1 DEF Recorded, CommandRows
<1>3. InProgress(client) /\ RunsAlone(client)
  BY <1>1, WaitingProgress, CommandRunsAlone DEF ToolsInvariant
<1>4. \A other \in Clients \ {client} : ~Store!Waiting(other)
  BY <1>3, WaitingProgress DEF ToolsInvariant, Turns
<1>5. PICK failure :
        call' = [call EXCEPT ![client] = RefusedCall(last, failure)]
  BY SameReplies DEF Store!Refuse, ToolsInvariant, ServiceInvariant
<1>6. \A other \in Clients : ~Store!Waiting(other)'
  BY <1>4, <1>5
  DEF RefusedCall, Store!Waiting, ToolsInvariant, ServiceInvariant
<1>7. last \notin Outstanding'
  BY <1>1, <1>6 DEF Outstanding, Store!Awaited
<1>8. QED
  BY <1>1, <1>2, <1>7 DEF Gone

LEMMA StoreRefuses ==
    ASSUME ToolsInvariant, ServiceWorks, StoreWorks
    PROVE  ProgressKept /\ RefusedForGood' /\ CommandsRecordable'
<1>1. UNCHANGED session
  BY DEF StoreWorks
<1>2. UNCHANGED database => CommandsRecordable'
  BY DEF ToolsInvariant, CommandsRecordable
<1>3. ASSUME NEW client \in Clients, NEW reply,
             reply.status \in {"done", "failed", "refused"},
             OnlyMoves(client), call'[client] = reply,
             UNCHANGED database, abandoned' \subseteq abandoned,
             Store!Waiting(client),
             NEW last, last = call[client].request,
             (/\ reply.status = "refused"
              /\ reply.failure # "OperationInProgress") => Gone(last)'
      PROVE  ProgressKept /\ RefusedForGood' /\ CommandsRecordable'
  <2>1. ASSUME Drops(client) PROVE Gone(last)'
    <3>1. /\ reply.status = "refused"
          /\ reply.failure # "OperationInProgress"
      BY <1>1, <1>3, <2>1, RefusalAnswer
    <3>2. QED
      BY <1>3, <3>1
  <2>2. QED
    BY <1>1, <1>2, <1>3, <2>1, ReplyRefuses
<1>4. ASSUME NEW client \in Clients, Store!Reply(client)
      PROVE  ProgressKept /\ RefusedForGood' /\ CommandsRecordable'
  <2>1. PICK response :
          OnlyMoves(client) /\ call'[client] = Done(call[client].request, response)
    BY <1>1, <1>4, SameReplies
    DEF Store!Reply, OnlyMoves, ToolsInvariant, ServiceInvariant
  <2>2. PICK reply : reply = Done(call[client].request, response)
    OBVIOUS
  <2>3. PICK last : last = call[client].request
    OBVIOUS
  <2>4. reply.status = "done"
    BY <2>2 DEF Done
  <2>5. QED
    BY <1>3, <1>4, <2>1, <2>2, <2>3, <2>4 DEF Store!Reply
<1>5. ASSUME NEW client \in Clients, Store!Fail(client)
      PROVE  ProgressKept /\ RefusedForGood' /\ CommandsRecordable'
  <2>1. PICK reply : reply = Failed(call[client].request)
    OBVIOUS
  <2>2. PICK last : last = call[client].request
    OBVIOUS
  <2>3. OnlyMoves(client) /\ call'[client] = reply /\ reply.status = "failed"
    BY <1>1, <1>5, <2>1, SameReplies
    DEF Store!Fail, Failed, OnlyMoves, ToolsInvariant, ServiceInvariant
  <2>4. QED
    BY <1>3, <1>5, <2>2, <2>3 DEF Store!Fail
<1>6. ASSUME NEW client \in Clients, NEW failure,
             OnlyMoves(client),
             call'[client] = RefusedCall(call[client].request, failure),
             UNCHANGED database, abandoned' \subseteq abandoned,
             Store!Waiting(client),
             NEW last, last = call[client].request,
             failure # "OperationInProgress" => Gone(last)'
      PROVE  ProgressKept /\ RefusedForGood' /\ CommandsRecordable'
  <2>1. PICK reply : reply = RefusedCall(call[client].request, failure)
    OBVIOUS
  <2>2. reply.status = "refused" /\ reply.failure = failure
    BY <2>1 DEF RefusedCall
  <2>3. QED
    BY <1>3, <1>6, <2>1, <2>2
<1>7. ASSUME NEW client \in Clients, Store!Conflict(client)
      PROVE  ProgressKept /\ RefusedForGood' /\ CommandsRecordable'
  <2>1. PICK last : last = call[client].request
    OBVIOUS
  <2>2. /\ OnlyMoves(client)
        /\ call'[client] =
             RefusedCall(call[client].request, "IdempotencyConflict")
        /\ UNCHANGED <<database, abandoned>> /\ Store!Waiting(client)
    BY <1>1, <1>7, SameReplies
    DEF Store!Conflict, OnlyMoves, ToolsInvariant, ServiceInvariant
  <2>3. last \in Outstanding
    BY <2>1, <2>2 DEF Outstanding, Store!Awaited
  <2>4. Gone(last)'
    <3>1. Gone(last)
      BY <1>7, <2>1, ConflictGone
    <3>2. Recorded(database, last) /\ database' = database
      BY <2>2, <2>3, <3>1 DEF Gone
    <3>3. QED
      BY <3>1, <3>2 DEF Gone
  <2>5. QED
    BY <1>6, <2>1, <2>2, <2>4
<1>8. ASSUME NEW client \in Clients, Store!Postpone(client)
      PROVE  ProgressKept /\ RefusedForGood' /\ CommandsRecordable'
  <2>1. PICK last : last = call[client].request
    OBVIOUS
  <2>2. /\ OnlyMoves(client)
        /\ call'[client] =
             RefusedCall(call[client].request, "OperationInProgress")
        /\ UNCHANGED <<database, abandoned>> /\ Store!Waiting(client)
    BY <1>1, <1>8, SameReplies
    DEF Store!Postpone, OnlyMoves, ToolsInvariant, ServiceInvariant
  <2>3. QED
    BY <1>6, <2>1, <2>2
<1>9. ASSUME NEW client \in Clients, Store!Refuse(client)
      PROVE  ProgressKept /\ RefusedForGood' /\ CommandsRecordable'
  <2>1. PICK last : last = call[client].request
    OBVIOUS
  <2>2. PICK failure :
          /\ OnlyMoves(client)
          /\ call'[client] = RefusedCall(call[client].request, failure)
    BY <1>1, <1>9, SameReplies
    DEF Store!Refuse, OnlyMoves, ToolsInvariant, ServiceInvariant
  <2>3. /\ UNCHANGED database /\ abandoned' \subseteq abandoned
        /\ Store!Waiting(client)
    BY <1>9 DEF Store!Refuse
  <2>4. Gone(last)'
    BY <1>1, <1>9, <2>1, RefuseGone
  <2>5. QED
    BY <1>6, <2>1, <2>2, <2>3, <2>4
<1>10. CASE UNCHANGED <<database, call>> /\ Outstanding' \subseteq Outstanding
  <2>1. ProgressKept /\ dropped' = dropped
    BY <1>1, <1>10, StoreProgress, NoneDrops
  <2>2. \A request \in dropped : Gone(request)'
    BY <1>10, GoneKept, AllGone DEF ToolsInvariant
  <2>3. QED
    BY <1>2, <1>10, <2>1, <2>2 DEF RefusedForGood, Gone, Outstanding
<1>11. ASSUME NEW client \in Clients, Store!Abandon(client)
       PROVE  UNCHANGED <<database, call>> /\ Outstanding' \subseteq Outstanding
  BY <1>11 DEF Store!Abandon, Outstanding, Store!Awaited, Store!Waiting
<1>12. ASSUME Store!Forget
       PROVE  UNCHANGED <<database, call>> /\ Outstanding' \subseteq Outstanding
  BY <1>12 DEF Store!Forget, Outstanding, Store!Awaited, Store!Waiting
<1>13. ASSUME NEW request \in Requests, Store!Execute(request)
       PROVE  ProgressKept /\ RefusedForGood' /\ CommandsRecordable'
  <2>1. /\ request \in Outstanding /\ ~Recorded(database, request)
        /\ call' = call /\ abandoned' \subseteq abandoned
    BY <1>13, SameTables DEF Store!Execute, Outstanding
  <2>2. PICK response :
          database'.commands =
            database.commands \union {[request |-> request, response |-> response]}
    BY <1>13 DEF Store!Execute, Store!Commit
  <2>3. ProgressKept /\ dropped' = dropped
    BY <1>1, <2>1, StoreProgress, NoneDrops
  <2>4. request \notin dropped
    BY <2>1, AllGone DEF ToolsInvariant, Gone
  <2>5. Outstanding' \subseteq Outstanding
    BY <2>1 DEF Outstanding, Store!Awaited, Store!Waiting
  <2>6. ASSUME NEW dead \in dropped PROVE Gone(dead)'
    <3>1. Gone(dead) /\ dead # request
      BY <2>4, AllGone DEF ToolsInvariant
    <3>2. Recorded(database, dead) => Recorded(database', dead)
      BY <2>2 DEF Recorded, CommandRows
    <3>3. \A row \in database'.commands : row.request # dead
      BY <2>2, <3>1 DEF Gone
    <3>4. QED
      BY <2>5, <3>1, <3>2, <3>3 DEF Gone, Recorded, CommandRows, CommandId
  <2>7. CommandsRecordable'
    BY <2>2 DEF ToolsInvariant, CommandsRecordable, Recordable
  <2>8. QED
    BY <2>3, <2>6, <2>7 DEF RefusedForGood, Gone, Outstanding
<1>14. QED
  BY <1>4, <1>5, <1>7, <1>8, <1>9, <1>10, <1>11, <1>12, <1>13 DEF StoreWorks

\* The agent takes up the command of the tool that begins.
LEMMA ExecuteKeeps ==
    ASSUME ToolsInvariant, NEW client \in Clients, NEW tool_call \in ToolCalls,
           Execute(client, tool_call)
    PROVE  Turns' /\ RefusedForGood' /\ CommandsRecordable'
<1> DEFINE a == Forwarded(tool_call)
<1>1. /\ UNCHANGED <<database, abandoned, call>>
      /\ dropped' = dropped \ {Admitted(a)}
      /\ tool_call.name \in ReadTools \union MutationTools
      /\ \A other \in Clients :
           InProgress(other) =>
             ExecutionClass(tool_call.name) = "ParallelSafe" /\ ~RunsAlone(other)
  BY DEF Execute, Arrive, AnsweredHere
<1>2. a.body.operation = tool_call.name
  BY DEF Execute, AnsweredHere, Forwarded
<1>3. session'[client].arrival = a
  BY DEF Execute, Arrive, ToolsInvariant, ServiceInvariant, SessionsTyped
<1>4. \A other \in Clients \ {client} : session'[other] = session[other]
  BY DEF Execute, Arrive, ToolsInvariant, ServiceInvariant, SessionsTyped
<1> HIDE DEF a
<1>5. ASSUME NEW other \in Clients \ {client}
      PROVE  /\ InProgress(other)' <=> InProgress(other)
             /\ RunsAlone(other)' <=> RunsAlone(other)
  BY <1>1, <1>4, <1>5 DEF InProgress, Answered, RunsAlone
<1>6. RunsAlone(client)' <=> ExecutionClass(tool_call.name) = "Exclusive"
  BY <1>2, <1>3 DEF RunsAlone
<1>7. ASSUME NEW one \in Clients, NEW two \in Clients, one # two,
             InProgress(one)', InProgress(two)'
      PROVE  ~RunsAlone(one)'
  <2>1. CASE one = client
    <3>1. InProgress(two)
      BY <1>5, <1>7, <2>1
    <3>2. QED
      BY <1>1, <1>6, <2>1, <3>1
  <2>2. CASE one # client
    <3>1. InProgress(one) /\ (RunsAlone(one)' <=> RunsAlone(one))
      BY <1>5, <1>7, <2>2
    <3>2. CASE two = client
      BY <1>1, <3>1
    <3>3. CASE two # client
      BY <1>5, <1>7, <3>1, <3>3 DEF ToolsInvariant, Turns
    <3>4. QED
      BY <3>2, <3>3
  <2>3. QED
    BY <2>1, <2>2
<1>8. ASSUME NEW other \in Clients, InProgress(other)'
      PROVE  /\ session'[other].arrival.body.operation
                  \in ReadTools \union MutationTools
             /\ (/\ IsCommand(session'[other].arrival)
                 /\ Admitted(session'[other].arrival) \in Requests) =>
                  Admitted(session'[other].arrival) \notin dropped'
  <2>1. CASE other = client
    BY <1>1, <1>2, <1>3, <2>1
  <2>2. CASE other # client
    <3>1. InProgress(other) /\ session'[other] = session[other]
      BY <1>4, <1>5, <1>8, <2>2
    <3>2. QED
      BY <1>1, <3>1 DEF ToolsInvariant, Turns
  <2>3. QED
    BY <2>1, <2>2
<1>9. Turns'
  BY <1>7, <1>8 DEF Turns
<1>10. RefusedForGood' /\ CommandsRecordable'
  BY <1>1
  DEF ToolsInvariant, RefusedForGood, CommandsRecordable, Store!Awaited,
      Store!Waiting
<1>11. QED
  BY <1>9, <1>10

LEMMA ServiceWorksKeeps ==
    ASSUME ToolsInvariant, ServiceWorks
    PROVE  ProgressKept /\ RefusedForGood' /\ CommandsRecordable'
<1>1. UNCHANGED database => CommandsRecordable'
  BY DEF ToolsInvariant, CommandsRecordable
<1>2. ASSUME NEW client \in Clients,
             CheckMembership(client) \/ CheckPermission(client)
      PROVE  ProgressKept /\ RefusedForGood' /\ CommandsRecordable'
  <2>1. session[client].phase \in {"membership", "permission"}
    BY <1>2 DEF CheckMembership, CheckPermission
  <2>2. \/ \E phase \in {"permission", "authorized"} : Proceed(client, phase)
        \/ Respond(client, "Forbidden")
    BY <1>2 DEF CheckMembership, CheckPermission
  <2>3. "Forbidden" \in Answers /\ UNCHANGED database
    BY <2>2 DEF Answers, Proceed, Respond
  <2>4. QED
    BY <1>1, <2>1, <2>2, <2>3, ProceedRefuses, RespondRefuses
<1>3. ASSUME NEW client \in Clients, PortFails(client)
      PROVE  ProgressKept /\ RefusedForGood' /\ CommandsRecordable'
  BY <1>1, <1>3, RespondRefuses DEF PortFails, Answers, Respond
<1>4. ASSUME NEW client \in Clients, Reject(client)
      PROVE  ProgressKept /\ RefusedForGood' /\ CommandsRecordable'
  <2> DEFINE a == session[client].arrival
  <2>1. /\ Respond(client, Validate(a)) /\ Validate(a) # "Valid"
        /\ session[client].phase = "authorized"
    BY <1>4 DEF Reject
  <2>2. Validate(a) \in Answers
    BY <2>1 DEF Validate, Answers
  <2>3. a \in Arrivals
    BY <2>1 DEF ToolsInvariant, ServiceInvariant, SessionsTyped, SessionState
  <2>4. ~IsCommand(a) \/ Admitted(a) \notin Recordable
    BY <2>1, <2>3, RejectionsAssumption
  <2>5. UNCHANGED database
    BY <2>1 DEF Respond
  <2>6. QED
    BY <1>1, <2>1, <2>2, <2>4, <2>5, RespondRefuses
<1>5. ASSUME NEW client \in Clients, ReadFlag(client)
      PROVE  ProgressKept /\ RefusedForGood' /\ CommandsRecordable'
  <2>1. \E answer \in Answers : Respond(client, answer)
    BY <1>5 DEF ReadFlag, AdminError, Answers
  <2>2. UNCHANGED database
    BY <2>1 DEF Respond
  <2>3. QED
    BY <1>1, <1>5, <2>1, <2>2, RespondRefuses DEF ReadFlag
<1>6. ASSUME NEW client \in Clients, Submit(client)
      PROVE  ProgressKept /\ RefusedForGood' /\ CommandsRecordable'
  BY <1>1, <1>6, SubmitRefuses DEF Submit, Store!Call
<1>7. ASSUME NEW fact \in Facts, Gain(fact) \/ Lose(fact)
      PROVE  ProgressKept /\ RefusedForGood' /\ CommandsRecordable'
  <2>1. UNCHANGED <<database, abandoned, call, session>>
    BY <1>7 DEF Gain, Lose
  <2>2. ProgressKept /\ dropped' = dropped
    BY <2>1, StoreProgress, NoneDrops
  <2>3. QED
    BY <1>1, <2>1, <2>2
    DEF ToolsInvariant, RefusedForGood, Store!Awaited, Store!Waiting
<1>8. QED
  BY <1>2, <1>3, <1>4, <1>5, <1>6, <1>7, StoreRefuses DEF ServiceWorks

\* A definite refusal is for good: neither the refused call nor an earlier one
\* with the same key, whose outcome was unknown, can have taken effect or still
\* do so.  The plan that refuses a command fences off what was abandoned of it,
\* and an Exclusive tool has no rival.
THEOREM ToolsRefusedForGood == ToolsSpec => []RefusedForGood
<1>1. ToolsInit => ToolsInvariant
  <2> SUFFICES ASSUME ToolsInit PROVE ToolsInvariant
    OBVIOUS
  <2>1. Init /\ dropped = {}
    BY DEF ToolsInit
  <2>2. CommandsRecordable
    BY <2>1 DEF Init, Store!Init, CommandsRecordable, Recordable
  <2>3. Turns
    BY <2>1 DEF Init, Turns, InProgress
  <2>4. RefusedForGood
    BY <2>1 DEF RefusedForGood
  <2>5. QED
    BY <2>1, <2>2, <2>3, <2>4, InvariantInitially, NamedInitially,
       ExchangesInitially
    DEF ToolsInvariant
<1>2. ToolsInvariant /\ [ToolsNext]_toolVars => ToolsInvariant'
  <2> SUFFICES ASSUME ToolsInvariant, [ToolsNext]_toolVars
               PROVE  ToolsInvariant'
    OBVIOUS
  <2>1. ServiceInvariant' /\ AnswersNamed' /\ Exchanges'
    BY ToolsStep, InvariantKept, NamedKept, ExchangesKept DEF ToolsInvariant
  <2>2. Turns' /\ RefusedForGood' /\ CommandsRecordable'
    <3>1. CASE UNCHANGED toolVars
      BY <3>1
      DEF toolVars, vars, ToolsInvariant, Turns, RefusedForGood,
          CommandsRecordable, InProgress, Answered, RunsAlone,
          Store!Awaited, Store!Waiting
    <3>2. CASE ServiceWorks
      BY <3>2, ServiceWorksKeeps, TurnsKept DEF ToolsInvariant
    <3>3. QED
      BY <3>1, <3>2, ExecuteKeeps DEF ToolsNext
  <2>3. QED
    BY <2>1, <2>2 DEF ToolsInvariant
<1>3. ToolsInvariant => RefusedForGood
  BY DEF ToolsInvariant
<1>4. QED
  BY <1>1, <1>2, <1>3, PTL DEF ToolsSpec

=============================================================================
