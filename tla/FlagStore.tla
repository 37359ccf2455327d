------------------------------ MODULE FlagStore -----------------------------
(***************************************************************************)
(* The contract of a Feature Flag store, free of any backend: "each write  *)
(* includes its command receipt" (core/src/store.rs).  A command takes     *)
(* effect at most once, at one instant, and only as its plan on the tables *)
(* of that instant; its caller learns the recorded response, a refusal, or *)
(* that the backend failed and the outcome is unknown.                     *)
(*                                                                         *)
(* A request whose call has already failed may still take effect as long   *)
(* as it is in `abandoned`: "a submitted write may have committed; retry   *)
(* only with the same idempotency key".                                    *)
(***************************************************************************)
EXTENDS StoreCalls

VARIABLES
    database,
    abandoned,         \* requests that may take effect though no call waits
    call               \* what each client asked, and the reply it got

vars == <<database, abandoned, call>>

-----------------------------------------------------------------------------

TypeOK ==
    /\ database \in Database
    /\ abandoned \subseteq Requests
    /\ call \in [Clients -> CallState]

Waiting(client) == call[client].status = "pending"

Awaited == {call[client].request : client \in {c \in Clients : Waiting(c)}}

Init ==
    /\ database \in Stored
    /\ abandoned = {}
    /\ call = [client \in Clients |-> Idle]

-----------------------------------------------------------------------------

Call(client, request) ==
    /\ ~Waiting(client)
    /\ call' = [call EXCEPT ![client] = Pending(request)]
    /\ UNCHANGED <<database, abandoned>>

\* The transaction of a command.  What was abandoned before it may be fenced
\* off by it.
Execute(request) ==
    /\ request \in Awaited \union abandoned
    /\ ~Recorded(database, request)
    /\ LET plan == Plan(database, request) IN
         /\ plan.status = "Planned"
         /\ database' = Commit(database, request, plan)
    /\ abandoned' \in SUBSET abandoned
    /\ UNCHANGED call

\* A mistake to detect: the request hash of the recorded row is not compared.
ReplyUnchecked(client) ==
    /\ Waiting(client)
    /\ \E row \in CommandRows(database, call[client].request) :
         call' = [call EXCEPT ![client] = Done(@.request, row.response)]
    /\ UNCHANGED <<database, abandoned>>

\* The recorded response, to the first caller and to every retry alike.
Reply(client) ==
    /\ Waiting(client)
    /\ \E row \in database.commands :
         /\ row.request = call[client].request
         /\ call' = [call EXCEPT ![client] = Done(@.request, row.response)]
    /\ UNCHANGED <<database, abandoned>>

\* The command key was admitted for another request.
Conflict(client) ==
    /\ Waiting(client)
    /\ \E row \in CommandRows(database, call[client].request) :
         row.request # call[client].request
    /\ call' = [call EXCEPT ![client] =
                  RefusedCall(@.request, "IdempotencyConflict")]
    /\ UNCHANGED <<database, abandoned>>

\* The command was recorded while this call was under way: retry to learn the
\* response.
Postpone(client) ==
    /\ Waiting(client)
    /\ Recorded(database, call[client].request)
    /\ call' = [call EXCEPT ![client] =
                  RefusedCall(@.request, "OperationInProgress")]
    /\ UNCHANGED <<database, abandoned>>

\* A refused command cannot take effect later, unless somebody asks again.
Refuse(client) ==
    /\ Waiting(client)
    /\ ~Recorded(database, call[client].request)
    /\ LET plan == Plan(database, call[client].request) IN
         /\ plan.status # "Planned"
         /\ call' = [call EXCEPT ![client] = RefusedCall(@.request, plan.status)]
    /\ abandoned' = abandoned \ {call[client].request}
    /\ UNCHANGED database

Abandon(client) ==
    /\ Waiting(client)
    /\ abandoned' = abandoned \union {call[client].request}
    /\ UNCHANGED <<database, call>>

Fail(client) ==
    /\ Waiting(client)
    /\ call' = [call EXCEPT ![client] = Failed(@.request)]
    /\ UNCHANGED <<database, abandoned>>

Forget ==
    /\ abandoned' \in (SUBSET abandoned) \ {abandoned}
    /\ UNCHANGED <<database, call>>

Next ==
    \/ \E client \in Clients :
         \/ \E request \in Requests : Call(client, request)
         \/ Reply(client)
         \/ Conflict(client)
         \/ Postpone(client)
         \/ Refuse(client)
         \/ Abandon(client)
         \/ Fail(client)
    \/ \E request \in Requests : Execute(request)
    \/ Forget

Spec == Init /\ [][Next]_vars

-----------------------------------------------------------------------------
(* What the contract promises.                                             *)

\* Every published ruleset is valid for the type of its flag, although the
\* check and the flag's row are read long before the ruleset is used.
RulesetsValid == PublishedValid(database)

\* The ruleset history of a flag in an environment has no gap and no fork,
\* whoever publishes concurrently.
HistoryNumbered == HistoryContiguous(database)

\* No lost update: the revision of a flag or an environment is the number of
\* commands recorded against it.
NoLostUpdates == RevisionsCount(database)

\* Idempotency: a command key is recorded for one request and one response.
KeysUsedOnce == CommandsUnique(database)

\* "Batch evaluation is admitted and committed atomically": the receipts are
\* exactly the evaluations of the recorded responses.
ReceiptsComplete == ReceiptsMatch(database)

\* "Old rulesets remain immutable audit evidence": the history still explains
\* the variant, the reason and the revision of every recorded evaluation.
ReceiptsExplained == EvaluationsExplained(database)

\* A success reply is the recorded response of exactly that request.
RepliesRecorded ==
    \A client \in Clients :
        call[client].status = "done" =>
            \E row \in database.commands :
                /\ row.request = call[client].request
                /\ row.response = call[client].response

\* A refusal for an idempotency conflict points at another recorded request.
ConflictsJustified ==
    \A client \in Clients :
        (/\ call[client].status = "refused"
         /\ call[client].failure = "IdempotencyConflict") =>
            \E row \in CommandRows(database, call[client].request) :
                row.request # call[client].request

\* What a definite answer says of the command's key is recorded: a success under
\* the same request, a conflict under another one.
RepliesJustified == RepliesRecorded /\ ConflictsJustified

\* Audit evidence is never rewritten: commands, ruleset revisions and receipts
\* are only ever added, and revisions never go back.
EvidenceGrows ==
    [][/\ database.commands \subseteq database'.commands
       /\ database.rulesets \subseteq database'.rulesets
       /\ database.receipts \subseteq database'.receipts
       /\ \A flag \in FlagKeys :
            database.flags[flag].revision =< database'.flags[flag].revision
      ]_database

\* Archiving is final: the row of an archived flag never changes again, and
\* nothing is evaluated or published for it.
ArchivedIsFinal ==
    [][\A flag \in FlagKeys :
         database.flags[flag].archived =>
           /\ database'.flags[flag] = database.flags[flag]
           /\ \A receipt \in database'.receipts \ database.receipts :
                receipt.flag # flag
           /\ \A row \in database'.rulesets \ database.rulesets :
                row.flag # flag
      ]_database

\* An evaluation is recorded only against the ruleset that is the latest one at
\* the instant it commits.
EvaluationsCurrent ==
    [][\A receipt \in database'.receipts \ database.receipts :
         \A row \in Published(database, receipt.flag, receipt.environment) :
             row.revision =< receipt.ruleset_revision
      ]_database

=============================================================================
