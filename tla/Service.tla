------------------------------- MODULE Service ------------------------------
(***************************************************************************)
(* The Feature Flag service (crates/lenso-feature-flag-core/src/lib.rs) in *)
(* front of a store: a call is authenticated, its actor's membership and   *)
(* permission are asked of two other services, its request is validated,   *)
(* and only then a command is submitted.  Memberships and permissions      *)
(* change while a call waits.                                              *)
(*                                                                         *)
(* A row key belongs to one organization, so the rows of all organizations *)
(* are in one database, as they are in the code's tables.  The two list    *)
(* operations are in Listing.                                              *)
(***************************************************************************)
EXTENDS StoreCalls

CONSTANTS
    Organizations,     \* valid organization identifiers
    Actors,            \* valid actor identifiers
    EvaluationCallers, \* PolicyConfig.evaluation_callers
    AdminCallers,      \* PolicyConfig.admin_callers
    MaxBatchSize,      \* PolicyConfig.max_batch_size
    MaxVariants, MaxTargetingRules, MaxComparisonValues,
    Facts,             \* the memberships and permissions that may hold
    Arrivals           \* the calls that reach the service

VARIABLES
    database, abandoned, call,      \* the store, see FlagStore
    session,           \* how far the call of each client has come
    facts,             \* the memberships and permissions that hold
    held,              \* auxiliary: the facts that held during each call
    entitled           \* auxiliary: the requests made by entitled calls

Store == INSTANCE FlagStore

storeVars == <<database, abandoned, call>>
vars      == <<database, abandoned, call, session, facts, held, entitled>>

-----------------------------------------------------------------------------
(* Calls.  An arrival is what reaches a handler: the calling plugin, the   *)
(* actor assertion of its context, the organization it names, and the body *)
(* of the request, which has no principal yet.                             *)

EvaluationOperations == {"evaluate", "evaluate_batch"}

Callers(operation) ==
    IF operation \in EvaluationOperations THEN EvaluationCallers
    ELSE AdminCallers

Permission(operation) ==
    IF operation \in EvaluationOperations THEN "feature-flags.evaluate"
    ELSE "feature-flags.admin"

\* A mistake to detect: an assertion for any operation will do.
AuthenticForAny(a) == a.assertion.genuine

\* An assertion that is absent, expired, badly signed or another issuer's is
\* not genuine; a genuine one is audienced to one operation.
Authentic(a) ==
    /\ a.assertion.genuine
    /\ a.assertion.operation = a.body.operation

\* fn authorize, up to its first await.
Authenticate(a) ==
    IF a.caller \notin Callers(a.body.operation) THEN "Forbidden"
    ELSE IF ~Authentic(a) THEN "Unauthenticated"
    ELSE IF a.organization \notin Organizations \/ a.assertion.subject \notin Actors
    THEN "Forbidden"
    ELSE "Authentic"

Active(a) == <<"active", a.organization, a.assertion.subject>>

Permitted(a) ==
    <<Permission(a.body.operation), a.organization, a.assertion.subject>>

IsCommand(a) == a.body.operation # "get_flag"

\* fn command: the service acts for the caller and actor it authorized.
Admitted(a) ==
    [field \in {"principal"} \union DOMAIN a.body |->
        IF field = "principal" THEN <<a.caller, a.assertion.subject>>
        ELSE a.body[field]]

-----------------------------------------------------------------------------
(* Validation, one operator for each way the handlers differ.  `texts` is  *)
(* the failure that the keys, names, texts and context of a call deserve,  *)
(* or "Valid" when all of them are within their bounds.  An expected       *)
(* revision that is not a positive decimal is 0.                           *)

BatchValid(body) ==
    /\ Len(body.flags) \in 1 .. MaxBatchSize
    /\ IsInjective(body.flags)

\* fn valid_mutation: update_flag and archive_flag.
ChangeValid(body) == body.expected > 0

PublicationValid(body) == body.expected > 0 /\ body.expected_environment > 0

\* fn ruleset_definition.
DefinitionBounded(definition) ==
    /\ Len(definition.variants) \in 1 .. MaxVariants
    /\ Len(definition.targeting_rules) =< MaxTargetingRules
    /\ Len(definition.percentage_rollout) =< MaxVariants
    /\ \A rule \in ToSet(definition.targeting_rules) :
         Len(rule.comparison_values) =< MaxComparisonValues

WellFormed(body) ==
    CASE body.operation = "evaluate_batch" -> BatchValid(body)
      [] body.operation \in {"update_flag", "archive_flag"} -> ChangeValid(body)
      [] body.operation = "publish_ruleset" -> PublicationValid(body)
      [] OTHER -> TRUE

Validate(a) ==
    IF a.texts = "InvalidRequest" \/ ~WellFormed(a.body) THEN "InvalidRequest"
    ELSE IF a.body.operation = "publish_ruleset"
            /\ (a.texts = "InvalidRuleset" \/ ~DefinitionBounded(a.body.definition))
    THEN "InvalidRuleset"
    ELSE "Valid"

ASSUME FactsAssumption ==
    Facts \subseteq
      {"active", "feature-flags.evaluate", "feature-flags.admin"}
        \X Organizations \X Actors

\* The validated calls are the well-formed requests a store accepts.
ASSUME ArrivalsAssumption ==
    \A a \in Arrivals :
        IsCommand(a) /\ Authenticate(a) = "Authentic" /\ Validate(a) = "Valid"
          => Admitted(a) \in Requests

-----------------------------------------------------------------------------
(* Answers.                                                                *)

\* macro evaluation_error!
EvaluationError(failure) ==
    IF failure \in {"FlagNotFound", "EnvironmentNotFound", "NoPublishedRuleset",
                    "Archived", "TypeMismatch", "IdempotencyConflict",
                    "OperationInProgress"}
    THEN failure ELSE "InvalidRequest"

\* macro admin_error!
AdminError(failure) ==
    IF failure \in {"NotFound", "FlagNotFound", "EnvironmentNotFound"}
    THEN "NotFound"
    ELSE IF failure \in {"Archived", "RevisionConflict", "IdempotencyConflict",
                         "OperationInProgress", "AlreadyExists", "TypeMismatch",
                         "InvalidRuleset"}
    THEN failure ELSE "InvalidRequest"

ErrorOf(operation, failure) ==
    IF operation \in EvaluationOperations THEN EvaluationError(failure)
    ELSE AdminError(failure)

\* fn map_storage, and the answers given before the store was asked.
Answer(client) ==
    LET s == session[client] IN
    IF s.phase = "answered" THEN s.answer
    ELSE CASE call[client].status = "done" -> "Ok"
           [] call[client].status = "refused" ->
                ErrorOf(s.arrival.body.operation, call[client].failure)
           [] OTHER -> "Runtime"

Answered(client) ==
    \/ session[client].phase = "answered"
    \/ session[client].phase = "submitted" /\ call[client].status # "pending"

InProgress(client) == session[client].phase # "idle" /\ ~Answered(client)

-----------------------------------------------------------------------------

\* The answers given without a command.
Answers ==
    {"Unauthenticated", "Forbidden", "Runtime", "InvalidRequest",
     "InvalidRuleset", "NotFound", "Ok"}

SessionState ==
    {[phase |-> "idle"]}
      \union [phase: {"membership", "permission", "authorized", "submitted"},
              arrival: Arrivals]
      \union [phase: {"answered"}, arrival: Arrivals, answer: Answers]

TypeOK ==
    /\ Store!TypeOK
    /\ session \in [Clients -> SessionState]
    /\ facts \subseteq Facts
    /\ held \in [Clients -> SUBSET Facts]
    /\ entitled \subseteq Request

Init ==
    /\ Store!Init
    /\ session = [client \in Clients |-> [phase |-> "idle"]]
    /\ facts \in SUBSET Facts
    /\ held = [client \in Clients |-> {}]
    /\ entitled = {row.request : row \in database.commands}

\* The caller may use the capability, the actor asserted itself for exactly this
\* operation, and was at some instants of the call a member of the organization
\* and permitted to do this.
Entitles(a, facts_held) ==
    /\ a.caller \in Callers(a.body.operation)
    /\ a.assertion.genuine
    /\ a.assertion.operation = a.body.operation
    /\ a.organization \in Organizations
    /\ a.assertion.subject \in Actors
    /\ {Active(a), Permitted(a)} \subseteq facts_held

\* What the auxiliary variables become with the facts held during each call.
Record(held_now) ==
    /\ held' = held_now
    /\ entitled' = entitled \union
         {Admitted(session'[client].arrival) :
            client \in {c \in Clients :
                          /\ session'[c].phase \notin {"idle", "answered"}
                          /\ IsCommand(session'[c].arrival)
                          /\ Validate(session'[c].arrival) = "Valid"
                          /\ Entitles(session'[c].arrival, held_now[c])}}

\* A call reaches the service and is authenticated.
Arrive(client, a) ==
    /\ ~InProgress(client)
    /\ LET verdict == Authenticate(a) IN
         session' = [session EXCEPT ![client] =
           IF verdict = "Authentic" THEN [phase |-> "membership", arrival |-> a]
           ELSE [phase |-> "answered", arrival |-> a, answer |-> verdict]]
    /\ Record([held EXCEPT ![client] = facts \intersect {Active(a), Permitted(a)}])
    /\ UNCHANGED <<database, abandoned, call, facts>>

Proceed(client, phase) ==
    /\ session' = [session EXCEPT ![client].phase = phase]
    /\ UNCHANGED <<database, abandoned, call, facts, held, entitled>>

Respond(client, answer) ==
    /\ session' = [session EXCEPT ![client] =
                     [phase |-> "answered", arrival |-> @.arrival,
                      answer |-> answer]]
    /\ UNCHANGED <<database, abandoned, call, facts, held, entitled>>

\* A mistake to detect: only the permission is asked for.
SkipMembership(client) ==
    /\ session[client].phase = "membership"
    /\ Proceed(client, "permission")

\* The membership service decides on what holds when it is asked.
CheckMembership(client) ==
    /\ session[client].phase = "membership"
    /\ IF Active(session[client].arrival) \in facts
       THEN Proceed(client, "permission")
       ELSE Respond(client, "Forbidden")

\* The access service decides, likewise.
CheckPermission(client) ==
    /\ session[client].phase = "permission"
    /\ IF Permitted(session[client].arrival) \in facts
       THEN Proceed(client, "authorized")
       ELSE Respond(client, "Forbidden")

\* One of the two services fails, times out or answers a domain error.
PortFails(client) ==
    /\ session[client].phase \in {"membership", "permission"}
    /\ Respond(client, "Runtime")

Reject(client) ==
    /\ session[client].phase = "authorized"
    /\ Validate(session[client].arrival) # "Valid"
    /\ Respond(client, Validate(session[client].arrival))

\* A mistake to detect: the request is submitted before it is validated.
SubmitUnvalidated(client) ==
    LET a == session[client].arrival IN
    /\ session[client].phase = "authorized"
    /\ IsCommand(a)
    /\ Store!Call(client, Admitted(a))
    /\ session' = [session EXCEPT ![client].phase = "submitted"]
    /\ UNCHANGED <<facts, held, entitled>>

Submit(client) ==
    LET a == session[client].arrival IN
    /\ session[client].phase = "authorized"
    /\ Validate(a) = "Valid"
    /\ IsCommand(a)
    /\ Store!Call(client, Admitted(a))
    /\ session' = [session EXCEPT ![client].phase = "submitted"]
    /\ UNCHANGED <<facts, held, entitled>>

\* get_flag reads one row, or fails to.
ReadFlag(client) ==
    LET a == session[client].arrival IN
    /\ session[client].phase = "authorized"
    /\ Validate(a) = "Valid"
    /\ ~IsCommand(a)
    /\ \/ Respond(client, "Runtime")
       \/ Respond(client, IF database.flags[a.body.flag].revision = 0
                          THEN AdminError("NotFound") ELSE "Ok")

\* The store works on the commands submitted to it.
StoreWorks ==
    /\ \/ \E client \in Clients :
            \/ Store!Reply(client)
            \/ Store!Conflict(client)
            \/ Store!Postpone(client)
            \/ Store!Refuse(client)
            \/ Store!Abandon(client)
            \/ Store!Fail(client)
       \/ \E request \in Requests : Store!Execute(request)
       \/ Store!Forget
    /\ UNCHANGED <<session, facts, held, entitled>>

\* A membership or a permission is given, or taken away.
Gain(fact) ==
    /\ fact \notin facts
    /\ facts' = facts \union {fact}
    /\ UNCHANGED <<database, abandoned, call, session>>
    /\ Record([client \in Clients |->
                 IF /\ InProgress(client)
                    /\ fact \in {Active(session[client].arrival),
                                 Permitted(session[client].arrival)}
                 THEN held[client] \union {fact} ELSE held[client]])

Lose(fact) ==
    /\ fact \in facts
    /\ facts' = facts \ {fact}
    /\ UNCHANGED <<database, abandoned, call, session, held, entitled>>

Next ==
    \/ \E client \in Clients :
         \/ \E a \in Arrivals : Arrive(client, a)
         \/ CheckMembership(client)
         \/ CheckPermission(client)
         \/ PortFails(client)
         \/ Reject(client)
         \/ Submit(client)
         \/ ReadFlag(client)
    \/ StoreWorks
    \/ \E fact \in Facts : Gain(fact) \/ Lose(fact)

Spec == Init /\ [][Next]_vars

-----------------------------------------------------------------------------
(* What the service promises.                                              *)

\* The service asks of its store only what the contract of a store accepts: an
\* authorized request that was validated in full.  So all that FlagStore promises
\* holds behind the service.
ImplementsStore == Store!Spec

\* A command is recorded, even after its call has failed, only for a caller of
\* the capability and an actor who was a member and permitted during one of the
\* calls that made it, never on the strength of an earlier call.
CommandsEntitled == \A row \in database.commands : row.request \in entitled

\* Whoever is not entitled learns nothing of an organization, not even whether
\* a request was well formed or had been recorded: an answer other than a
\* refusal of the caller or a failure follows from both checks of this call.
AnswersEntitled ==
    \A client \in Clients :
        /\ Answered(client)
        /\ Answer(client) \notin {"Unauthenticated", "Forbidden", "Runtime"}
        => Entitles(session[client].arrival, held[client])

\* "InvalidRequest" blames the request, although the code also answers it to
\* every failure of the store it has no name for.
InvalidRequestsInvalid ==
    \A client \in Clients :
        Answered(client) /\ Answer(client) = "InvalidRequest" =>
            Validate(session[client].arrival) = "InvalidRequest"

=============================================================================
