----------------------------- MODULE AgentTools -----------------------------
(***************************************************************************)
(* The administration tools of an agent                                    *)
(* (crates/lenso-feature-flag-admin-agent-tools-plugin/src/lib.rs) over    *)
(* the service.  The plugin keeps no state: a tool call is decoded and     *)
(* forwarded with the context it came in, so that the actor's assertion is *)
(* the agent's own, and the answer is renamed.                             *)
(*                                                                         *)
(* A host runs an Exclusive tool alone and ParallelSafe tools together     *)
(* (external); but a call that failed at run time may leave a command      *)
(* behind, which takes effect during later calls.                          *)
(***************************************************************************)
EXTENDS Service

CONSTANT ToolCalls     \* [name, arguments, context] of the calls agents make

VARIABLE dropped       \* auxiliary: the intents agents were refused for good

toolVars == <<vars, dropped>>

-----------------------------------------------------------------------------

\* A tool bears the name of the operation it is for.
ReadTools     == {"get_flag", "list_flags", "list_evaluation_receipts"}
MutationTools == {"create_flag", "update_flag", "archive_flag",
                  "put_environment", "publish_ruleset"}

\* fn tool_definitions.
ExecutionClass(name) ==
    IF name \in ReadTools THEN "ParallelSafe" ELSE "Exclusive"

\* Arguments that do not decode to the request of the tool.
Undecodable == [operation |-> "none"]

\* A call answered without asking the service, which changes nothing.
AnsweredHere(tool_call) ==
    \/ tool_call.name \notin ReadTools \union MutationTools
    \/ tool_call.arguments.operation # tool_call.name

\* What reaches the service: the plugin's own instance is the caller.
Forwarded(tool_call) ==
    [caller       |-> "agent-tools",
     assertion    |-> tool_call.context.assertion,
     organization |-> tool_call.context.organization,
     body         |-> tool_call.arguments,
     texts        |-> tool_call.context.texts]

ASSUME ToolCallsAssumption ==
    \A tool_call \in ToolCalls :
        AnsweredHere(tool_call) \/ Forwarded(tool_call) \in Arrivals

\* What commands can be of: this generation's requests and earlier ones'.
Recordable ==
    Requests \union {row.request : row \in UNION {db.commands : db \in Stored}}

\* The bounds were never wider than they are: what is rejected as it stands was
\* no request of an earlier generation either.
ASSUME RejectionsAssumption ==
    \A a \in Arrivals :
        IsCommand(a) /\ Validate(a) # "Valid" => Admitted(a) \notin Recordable

\* A mistake to detect: what one may not see is reported as missing.
ToolErrorHiding(error) ==
    CASE error = "InvalidRequest" -> "InvalidArguments"
      [] error \in {"Forbidden", "Unauthenticated"} -> "NotFound"
      [] OTHER -> error

\* fn to_tool_error: NotFound, or ExecutionFailed with its reason_code.
ToolError(error) ==
    CASE error = "InvalidRequest" -> "InvalidArguments"
      [] error \in {"Forbidden", "Unauthenticated"} -> "PermissionDenied"
      [] OTHER -> error

\* macro invoke!
ToolAnswer(client) ==
    IF Answer(client) \in {"Ok", "Runtime"} THEN Answer(client)
    ELSE ToolError(Answer(client))

-----------------------------------------------------------------------------

ToolsInit == Init /\ dropped = {}

RunsAlone(client) ==
    ExecutionClass(session[client].arrival.body.operation) = "Exclusive"

\* The host starts a tool beside the ones in progress, and the agent takes up
\* an intent, maybe again.
Execute(client, tool_call) ==
    /\ ~AnsweredHere(tool_call)
    /\ \A other \in Clients :
         InProgress(other) =>
            ExecutionClass(tool_call.name) = "ParallelSafe" /\ ~RunsAlone(other)
    /\ Arrive(client, Forwarded(tool_call))
    /\ dropped' = dropped \ {Admitted(Forwarded(tool_call))}

\* The answers that say a mutation has not happened: all but success, a refusal
\* for want of permission, which says nothing of earlier attempts, and the two
\* that ask for a retry with the same key.
Definite ==
    {"InvalidArguments", "NotFound", "AlreadyExists", "Archived",
     "IdempotencyConflict", "InvalidRuleset", "RevisionConflict", "TypeMismatch"}

\* The service works on the calls, and agents drop what they are refused.
ServiceWorks ==
    /\ \/ \E client \in Clients :
            \/ CheckMembership(client)
            \/ CheckPermission(client)
            \/ PortFails(client)
            \/ Reject(client)
            \/ Submit(client)
            \/ ReadFlag(client)
       \/ StoreWorks
       \/ \E fact \in Facts : Gain(fact) \/ Lose(fact)
    /\ dropped' = dropped \union
         {Admitted(session[client].arrival) :
            client \in {c \in Clients :
                          /\ InProgress(c)
                          /\ IsCommand(session[c].arrival)
                          /\ Answered(c)'
                          /\ ToolAnswer(c)' \in Definite}}

ToolsNext ==
    \/ \E client \in Clients, tool_call \in ToolCalls : Execute(client, tool_call)
    \/ ServiceWorks

ToolsSpec == ToolsInit /\ [][ToolsNext]_toolVars

-----------------------------------------------------------------------------

\* An agent that is definitely refused may drop its intent: neither this call
\* nor an earlier one with the same key, which may have failed with its outcome
\* unknown, has taken effect or will, unless somebody asks again.
RefusedForGood ==
    \A request \in dropped :
        /\ \A row \in database.commands : row.request # request
        /\ request \in Store!Awaited \union abandoned => Recorded(database, request)

=============================================================================
