---------------------------- MODULE PostgresStore ---------------------------
(***************************************************************************)
(* The Postgres store                                                      *)
(* (crates/lenso-feature-flag-postgres-plugin/src/storage.rs).  A command  *)
(* is one transaction under READ COMMITTED: every statement reads what is  *)
(* committed when it runs, and row locks and unique indexes make it wait   *)
(* for other transactions.  One step is one statement; the statements that *)
(* only write rows the transaction already holds take no step of their     *)
(* own, their effect shows when the transaction commits.                   *)
(*                                                                         *)
(* The server is external to the repository.  A transaction whose COMMIT   *)
(* reports an error is an orphan: it keeps its locks until the server      *)
(* commits it or rolls it back.                                            *)
(***************************************************************************)
EXTENDS StoreCalls

CONSTANT MaxOrphans    \* bound on the transactions nobody waits for

VARIABLES
    database,          \* the committed rows
    tx,                \* the transaction of each client's call
    orphans,           \* transactions whose client has gone
    call               \* what each client asked, and the reply it got

vars == <<database, tx, orphans, call>>

ASSUME OrphansAssumption == MaxOrphans \in Nat

-----------------------------------------------------------------------------
(* Transactions.                                                           *)

Rows ==
    ({"command"} \X (Principals \X {"create_flag", "update_flag",
        "archive_flag", "put_environment", "publish_ruleset", "evaluate",
        "evaluate_batch"} \X IdempotencyKeys))
      \union ({"flag"} \X FlagKeys)
      \union ({"environment"} \X EnvironmentKeys)

Lock(row, mode) == [row |-> row, mode |-> mode]

FlagLock(flag, mode) == Lock(<<"flag", flag>>, mode)

EnvironmentLock(environment) ==
    Lock(<<"environment", environment>>, "exclusive")

NothingSeen ==
    [flags        |-> [flag \in FlagKeys |-> NoFlag],
     environments |-> [environment \in EnvironmentKeys |-> NoEnvironment],
     rulesets     |-> {}]

NoTransaction == [step |-> "none"]

\* `at` is the place of the flag being evaluated; `seen` the rows read so far.
Begun(request) ==
    [request |-> request, step |-> "select", at |-> 1, locks |-> {},
     seen |-> NothingSeen]

Steps ==
    {"select", "insert", "insert_flag", "lock_flag", "lock_environment",
     "insert_environment", "lock_published", "allocate", "share_flag",
     "read_ruleset", "commit", "committed", "lost"}

TransactionOK(t) ==
    /\ t.request \in Requests
    /\ t.step \in Steps
    /\ t.locks \subseteq [row: Rows, mode: {"exclusive", "shared"}]
    /\ t.seen.flags \in [FlagKeys -> FlagRecord]
    /\ t.seen.environments \in [EnvironmentKeys -> EnvironmentRecord]
    /\ t.seen.rulesets \subseteq RulesetRow
    /\ t.step \in {"share_flag", "read_ruleset"} =>
         t.at \in DOMAIN t.request.flags

TypeOK ==
    /\ database \in Database
    /\ call \in [Clients -> CallState]
    /\ \A client \in Clients :
         IF call[client].status = "pending"
         THEN TransactionOK(tx[client])
                /\ tx[client].request = call[client].request
         ELSE tx[client] = NoTransaction
    /\ \A t \in orphans : TransactionOK(t) /\ t.step = "commit"

Init ==
    /\ database \in Stored
    /\ tx = [client \in Clients |-> NoTransaction]
    /\ orphans = {}
    /\ call = [client \in Clients |-> Idle]

-----------------------------------------------------------------------------
(* Locks.                                                                  *)

\* The first statement after the command row is inserted.
FirstStep(request) ==
    CASE request.operation = "create_flag" -> "insert_flag"
      [] request.operation \in {"update_flag", "archive_flag",
                                "publish_ruleset"} -> "lock_flag"
      [] request.operation = "put_environment" -> "lock_environment"
      [] request.operation \in {"evaluate", "evaluate_batch"} -> "share_flag"

FlagOf(t) ==
    IF t.step \in {"share_flag", "read_ruleset"} THEN t.request.flags[t.at]
    ELSE t.request.flag

Existing(table, key, lock) == IF table[key].revision = 0 THEN {} ELSE {lock}

\* Mistakes to detect: a flag read without FOR SHARE by an evaluation, one read
\* without FOR UPDATE by a change, and one that evaluations lock exclusively.
LocksWantedUnshared(t) ==
    CASE t.step = "insert" ->
           {Lock(<<"command", CommandId(t.request)>>, "exclusive")}
      [] t.step = "insert_flag" -> {FlagLock(FlagOf(t), "exclusive")}
      [] t.step = "lock_flag" ->
           Existing(database.flags, FlagOf(t), FlagLock(FlagOf(t), "exclusive"))
      [] OTHER -> {}

LocksWantedUnlocked(t) ==
    CASE t.step = "insert" ->
           {Lock(<<"command", CommandId(t.request)>>, "exclusive")}
      [] t.step = "share_flag" ->
           Existing(database.flags, FlagOf(t), FlagLock(FlagOf(t), "shared"))
      [] OTHER -> {}

LocksWantedExclusive(t) ==
    CASE t.step \in {"lock_flag", "share_flag"} ->
           Existing(database.flags, FlagOf(t), FlagLock(FlagOf(t), "exclusive"))
      [] OTHER -> {}

\* What the next statement of a transaction has to lock.  An insertion waits for
\* whoever inserted the same key; SELECT ... FOR finds committed rows only.
LocksWanted(t) ==
    CASE t.step = "insert" ->
           {Lock(<<"command", CommandId(t.request)>>, "exclusive")}
      [] t.step = "insert_flag" -> {FlagLock(FlagOf(t), "exclusive")}
      [] t.step = "lock_flag" ->
           Existing(database.flags, FlagOf(t), FlagLock(FlagOf(t), "exclusive"))
      [] t.step = "share_flag" ->
           Existing(database.flags, FlagOf(t), FlagLock(FlagOf(t), "shared"))
      [] t.step \in {"lock_environment", "lock_published"} ->
           Existing(database.environments, t.request.environment,
                    EnvironmentLock(t.request.environment))
      [] t.step = "insert_environment" ->
           {EnvironmentLock(t.request.environment)}
      [] OTHER -> {}

Conflicting(one, two) ==
    one.row = two.row /\ "exclusive" \in {one.mode, two.mode}

Blocks(holder, t) ==
    \E held \in holder.locks, wanted \in LocksWanted(t) :
        Conflicting(held, wanted)

InTransaction(client) == tx[client].step \notin {"none", "committed", "lost"}

Granted(client) ==
    /\ \A other \in Clients \ {client} :
         InTransaction(other) => ~Blocks(tx[other], tx[client])
    /\ \A orphan \in orphans : ~Blocks(orphan, tx[client])

Locked(t) == [t EXCEPT !.locks = @ \union LocksWanted(t)]

-----------------------------------------------------------------------------
(* Statements.                                                             *)

Advance(client, t) ==
    /\ tx' = [tx EXCEPT ![client] = t]
    /\ UNCHANGED <<database, orphans, call>>

\* The call returns; unless it committed, its transaction is rolled back.
Respond(client, reply) ==
    /\ call' = [call EXCEPT ![client] = reply]
    /\ tx' = [tx EXCEPT ![client] = NoTransaction]
    /\ UNCHANGED <<database, orphans>>

Refusal(client, failure) ==
    Respond(client, RefusedCall(call[client].request, failure))

Call(client, request) ==
    /\ tx[client].step = "none"
    /\ call' = [call EXCEPT ![client] = Pending(request)]
    /\ tx' = [tx EXCEPT ![client] = Begun(request)]
    /\ UNCHANGED <<database, orphans>>

\* admit_command: the command row, if it is committed.
SelectCommand(client) ==
    LET t    == tx[client]
        rows == CommandRows(database, t.request) IN
    /\ t.step = "select"
    /\ \/ \E row \in rows :
            IF row.request = t.request
            THEN Respond(client, Done(t.request, row.response))
            ELSE Refusal(client, "IdempotencyConflict")
       \/ rows = {} /\ Advance(client, [t EXCEPT !.step = "insert"])

\* admit_command: a unique violation is a command that has just committed.
InsertCommand(client) ==
    LET t == tx[client] IN
    /\ t.step = "insert"
    /\ Granted(client)
    /\ IF Recorded(database, t.request)
       THEN Refusal(client, "OperationInProgress")
       ELSE Advance(client,
              [Locked(t) EXCEPT !.step = FirstStep(t.request)])

\* create_flag: the flag's key is unique.
InsertFlag(client) ==
    LET t == tx[client] IN
    /\ t.step = "insert_flag"
    /\ Granted(client)
    /\ IF database.flags[t.request.flag].revision # 0
       THEN Refusal(client, "AlreadyExists")
       ELSE Advance(client, [Locked(t) EXCEPT !.step = "commit"])

\* lock_flag, require_flag_revision and, before publishing, validate_ruleset.
LockFlag(client) ==
    LET t         == tx[client]
        flag      == database.flags[t.request.flag]
        verdict   == FlagVerdict(flag, t.request.expected)
        publishes == t.request.operation = "publish_ruleset"
        validity  == IF publishes
                     THEN ValidateRuleset(flag.value_type, t.request.definition)
                     ELSE "Valid" IN
    /\ t.step = "lock_flag"
    /\ Granted(client)
    /\ IF flag.revision = 0 THEN Refusal(client, "NotFound")
       ELSE IF verdict # "Current" THEN Refusal(client, verdict)
       ELSE IF validity # "Valid" THEN Refusal(client, validity)
       ELSE Advance(client,
              [Locked(t) EXCEPT
                 !.seen.flags[t.request.flag] = flag,
                 !.step = IF publishes THEN "lock_published" ELSE "commit"])

\* put_environment: the environment, if it is committed.
LockEnvironment(client) ==
    LET t           == tx[client]
        environment == database.environments[t.request.environment]
        expected    == t.request.expected IN
    /\ t.step = "lock_environment"
    /\ Granted(client)
    /\ IF environment.revision = 0
       THEN IF expected # 0 THEN Refusal(client, "NotFound")
            ELSE Advance(client, [t EXCEPT !.step = "insert_environment"])
       ELSE IF expected = 0 THEN Refusal(client, "AlreadyExists")
       ELSE IF environment.revision # expected
       THEN Refusal(client, "RevisionConflict")
       ELSE Advance(client,
              [Locked(t) EXCEPT
                 !.seen.environments[t.request.environment] = environment,
                 !.step = "commit"])

\* publish_ruleset: the environment it publishes to.
LockPublishedEnvironment(client) ==
    LET t           == tx[client]
        environment == database.environments[t.request.environment] IN
    /\ t.step = "lock_published"
    /\ Granted(client)
    /\ IF environment.revision = 0 THEN Refusal(client, "NotFound")
       ELSE IF environment.revision # t.request.expected_environment
       THEN Refusal(client, "RevisionConflict")
       ELSE Advance(client,
              [Locked(t) EXCEPT
                 !.seen.environments[t.request.environment] = environment,
                 !.step = "allocate"])

\* put_environment found no row; another transaction may have committed one.
InsertEnvironment(client) ==
    LET t == tx[client] IN
    /\ t.step = "insert_environment"
    /\ Granted(client)
    /\ IF database.environments[t.request.environment].revision # 0
       THEN Refusal(client, "AlreadyExists")
       ELSE Advance(client, [Locked(t) EXCEPT !.step = "commit"])

LatestRows(flag, environment) ==
    {row \in Published(database, flag, environment) :
        row = Latest(database, flag, environment)}

\* publish_ruleset: SELECT MAX(ruleset_revision).
AllocateRevision(client) ==
    LET t == tx[client] IN
    /\ t.step = "allocate"
    /\ Advance(client,
         [t EXCEPT
            !.seen.rulesets = LatestRows(t.request.flag, t.request.environment),
            !.step = "commit"])

\* evaluate_one: the flag, for share.
ShareFlag(client) ==
    LET t    == tx[client]
        flag == database.flags[FlagOf(t)] IN
    /\ t.step = "share_flag"
    /\ Granted(client)
    /\ IF flag.revision = 0 THEN Refusal(client, "FlagNotFound")
       ELSE IF flag.archived THEN Refusal(client, "Archived")
       ELSE Advance(client,
              [Locked(t) EXCEPT !.seen.flags[FlagOf(t)] = flag,
                                !.step = "read_ruleset"])

\* A mistake to detect: the batch goes on after its last flag.
ReadRulesetPastLast(client) ==
    LET t           == tx[client]
        environment == database.environments[t.request.environment]
        latest      == LatestRows(FlagOf(t), t.request.environment)
        verdict     == EvaluationVerdict(
                         [t.seen EXCEPT
                            !.environments[t.request.environment] = environment,
                            !.rulesets = latest],
                         t.request, FlagOf(t)) IN
    /\ t.step = "read_ruleset"
    /\ IF verdict # "Chosen" THEN Refusal(client, verdict)
       ELSE Advance(client,
              [t EXCEPT
                 !.seen.environments[t.request.environment] = environment,
                 !.seen.rulesets = @ \union latest,
                 !.at = IF t.at =< Len(t.request.flags) THEN t.at + 1 ELSE t.at,
                 !.step = IF t.at =< Len(t.request.flags) THEN "share_flag"
                          ELSE "commit"])

\* evaluate_one: the environment and the latest ruleset, neither of them locked;
\* then the next flag.
ReadRuleset(client) ==
    LET t           == tx[client]
        environment == database.environments[t.request.environment]
        latest      == LatestRows(FlagOf(t), t.request.environment)
        verdict     == EvaluationVerdict(
                         [t.seen EXCEPT
                            !.environments[t.request.environment] = environment,
                            !.rulesets = latest],
                         t.request, FlagOf(t)) IN
    /\ t.step = "read_ruleset"
    /\ IF verdict # "Chosen" THEN Refusal(client, verdict)
       ELSE Advance(client,
              [t EXCEPT
                 !.seen.environments[t.request.environment] = environment,
                 !.seen.rulesets = @ \union latest,
                 !.at = IF t.at < Len(t.request.flags) THEN t.at + 1 ELSE t.at,
                 !.step = IF t.at < Len(t.request.flags) THEN "share_flag"
                          ELSE "commit"])

\* The rows a transaction writes rest on the rows it has seen.
PlanOf(t) == Plan(t.seen, t.request)

CommitTransaction(client) ==
    LET t == tx[client] IN
    /\ t.step = "commit"
    /\ database' = Commit(database, t.request, PlanOf(t))
    /\ tx' = [tx EXCEPT ![client] = [t EXCEPT !.step = "committed"]]
    /\ UNCHANGED <<orphans, call>>

Acknowledge(client) ==
    LET t == tx[client] IN
    /\ t.step = "committed"
    /\ Respond(client, Done(t.request, PlanOf(t).response))

\* COMMIT reports an error before the server has decided.
CommitLost(client) ==
    LET t == tx[client] IN
    /\ t.step = "commit"
    /\ Cardinality(orphans) < MaxOrphans
    /\ orphans' = orphans \union {t}
    /\ tx' = [tx EXCEPT ![client] = [t EXCEPT !.step = "lost"]]
    /\ UNCHANGED <<database, call>>

\* A statement fails and the transaction is rolled back, or the answer of a
\* COMMIT is an error.
Fail(client) ==
    /\ tx[client].step # "none"
    /\ Respond(client, Failed(call[client].request))

OrphanCommits(t) ==
    /\ database' = Commit(database, t.request, PlanOf(t))
    /\ orphans' = orphans \ {t}
    /\ UNCHANGED <<tx, call>>

OrphanRollsBack(t) ==
    /\ orphans' = orphans \ {t}
    /\ UNCHANGED <<database, tx, call>>

-----------------------------------------------------------------------------

Proceed(client) ==
    \/ SelectCommand(client)
    \/ InsertCommand(client)
    \/ InsertFlag(client)
    \/ LockFlag(client)
    \/ LockEnvironment(client)
    \/ InsertEnvironment(client)
    \/ LockPublishedEnvironment(client)
    \/ AllocateRevision(client)
    \/ ShareFlag(client)
    \/ ReadRuleset(client)
    \/ CommitTransaction(client)
    \/ Acknowledge(client)

Next ==
    \/ \E client \in Clients, request \in Requests : Call(client, request)
    \/ \E client \in Clients :
         Proceed(client) \/ CommitLost(client) \/ Fail(client)
    \/ \E t \in orphans : OrphanCommits(t) \/ OrphanRollsBack(t)

Spec == Init /\ [][Next]_vars

-----------------------------------------------------------------------------
(* What the store implements and what its locks are for.                   *)

\* The requests whose transactions may commit though nobody waits for them.
Abandoned == {t.request : t \in orphans}

Contract == INSTANCE FlagStore WITH abandoned <- Abandoned

\* Statement by statement and lock by lock, a transaction is one step of the
\* contract: it commits what its command plans on the tables of that instant,
\* at most once, and a refusal is what those tables say.
ImplementsContract == Contract!Spec

Committing ==
    orphans \union {tx[client] : client \in {c \in Clients :
                                               tx[c].step = "commit"}}

\* Rows are read one statement at a time, yet what a transaction has seen still
\* holds when it commits, and no key or reference of the schema stops it.
LocksSuffice ==
    \A t \in Committing :
        /\ PlanOf(t) = Plan(database, t.request)
        /\ Fits(database, t.request, PlanOf(t))

Blockers(client) ==
    {other \in Clients \ {client} :
        InTransaction(other) /\ Blocks(tx[other], tx[client])}

\* Flags, environments and commands are locked in an order that never leaves
\* some transactions waiting for each other.
NoDeadlock ==
    \A stuck \in (SUBSET Clients) \ {{}} :
        \E client \in stuck : Blockers(client) \intersect stuck = {}

=============================================================================
