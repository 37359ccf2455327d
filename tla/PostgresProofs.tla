---------------------------- MODULE PostgresProofs ---------------------------
(***************************************************************************)
(* The Postgres store implements the contract of FlagStore, for any number *)
(* of clients, orphans, requests and keys.                                 *)
(*                                                                         *)
(* Under READ COMMITTED nothing but its locks protects what a transaction  *)
(* has read.  The invariant says, step by step, what a transaction has     *)
(* seen, checked and locked (Warranted) and that no two transactions hold  *)
(* conflicting locks (Exclusion).  What another transaction commits then   *)
(* leaves every warrant in force, and a transaction that reaches its       *)
(* COMMIT writes what its command plans on the tables of that instant.     *)
(***************************************************************************)
EXTENDS PostgresStore, DatabaseTheorems

-----------------------------------------------------------------------------
(* What a transaction has seen, checked and locked at each step.           *)

Transaction ==
    [request: Requests, step: Steps, at: Nat,
     locks: SUBSET [row: Rows, mode: {"exclusive", "shared"}],
     seen: [flags: [FlagKeys -> FlagRecord],
            environments: [EnvironmentKeys -> EnvironmentRecord],
            rulesets: SUBSET RulesetRow]]

CommandLock(request) == Lock(<<"command", CommandId(request)>>, "exclusive")

\* The latest ruleset as a set of rows, empty where nothing is published.
LatestOf(db, flag, environment) ==
    {row \in Published(db, flag, environment) :
        row = Latest(db, flag, environment)}

\* The flag a change or a publication has locked is the one it has seen.
FlagHeld(t, db) ==
    /\ FlagLock(t.request.flag, "exclusive") \in t.locks
    /\ t.seen.flags[t.request.flag] = db.flags[t.request.flag]
    /\ db.flags[t.request.flag].revision # 0
    /\ FlagVerdict(db.flags[t.request.flag], t.request.expected) = "Current"

EnvironmentHeld(t, db) ==
    /\ EnvironmentLock(t.request.environment) \in t.locks
    /\ t.seen.environments[t.request.environment]
         = db.environments[t.request.environment]

CreateWarranted(t, db) ==
    /\ t.step \in {"select", "insert", "insert_flag", "commit"}
    /\ t.seen = NothingSeen
    /\ t.step = "commit" =>
         /\ FlagLock(t.request.flag, "exclusive") \in t.locks
         /\ db.flags[t.request.flag].revision = 0

ChangeWarranted(t, db) ==
    /\ t.step \in {"select", "insert", "lock_flag", "commit"}
    /\ t.step = "commit" => FlagHeld(t, db)

PutWarranted(t, db) ==
    /\ t.step \in {"select", "insert", "lock_environment",
                   "insert_environment", "commit"}
    /\ t.step # "commit" => t.seen = NothingSeen
    /\ t.step = "insert_environment" => t.request.expected = 0
    /\ t.step = "commit" =>
         /\ EnvironmentHeld(t, db)
         /\ db.environments[t.request.environment].revision = t.request.expected

PublishWarranted(t, db) ==
    /\ t.step \in {"select", "insert", "lock_flag", "lock_published",
                   "allocate", "commit"}
    /\ t.step \in {"lock_published", "allocate", "commit"} =>
         /\ FlagHeld(t, db)
         /\ Valid(db.flags[t.request.flag].value_type, t.request.definition)
    /\ t.step \in {"allocate", "commit"} =>
         /\ EnvironmentHeld(t, db)
         /\ db.environments[t.request.environment].revision # 0
         /\ db.environments[t.request.environment].revision
              = t.request.expected_environment
    /\ t.step = "commit" =>
         t.seen.rulesets = LatestOf(db, t.request.flag, t.request.environment)

\* The places of a batch that are done with.
Evaluated(t) == {i \in DOMAIN t.request.flags : i < t.at \/ t.step = "commit"}

FlagShared(t, db, flag) ==
    /\ FlagLock(flag, "shared") \in t.locks
    /\ t.seen.flags[flag] = db.flags[flag]

FlagEvaluated(t, db, flag) ==
    /\ FlagShared(t, db, flag)
    /\ t.seen.environments[t.request.environment].revision # 0
    /\ db.environments[t.request.environment].revision # 0
    /\ Published(t.seen, flag, t.request.environment)
         = LatestOf(db, flag, t.request.environment)
    /\ EvaluationVerdict(db, t.request, flag) = "Chosen"

EvaluateWarranted(t, db) ==
    /\ t.step \in {"select", "insert", "share_flag", "read_ruleset", "commit"}
    /\ t.at \in DOMAIN t.request.flags
    /\ \A i \in Evaluated(t) : FlagEvaluated(t, db, t.request.flags[i])
    /\ \A row \in t.seen.rulesets :
         /\ row.environment = t.request.environment
         /\ \E i \in Evaluated(t) : row.flag = t.request.flags[i]
    /\ t.step = "read_ruleset" =>
         /\ FlagShared(t, db, t.request.flags[t.at])
         /\ db.flags[t.request.flags[t.at]].revision # 0
         /\ ~db.flags[t.request.flags[t.at]].archived

\* Before its command row is inserted a transaction has read and locked nothing.
Fresh(t) == t.locks = {} /\ t.at = 1 /\ t.seen = NothingSeen

\* What a transaction has seen, checked and locked warrants its next step.
Warranted(t, db) ==
    /\ IF t.step \in {"select", "insert"} THEN Fresh(t)
       ELSE CommandLock(t.request) \in t.locks /\ ~Recorded(db, t.request)
    /\ t.request.operation = "create_flag" => CreateWarranted(t, db)
    /\ t.request.operation \in {"update_flag", "archive_flag"} =>
         ChangeWarranted(t, db)
    /\ t.request.operation = "put_environment" => PutWarranted(t, db)
    /\ t.request.operation = "publish_ruleset" => PublishWarranted(t, db)
    /\ t.request.operation \in EvaluateOperations => EvaluateWarranted(t, db)

\* The steps at which a transaction holds a lock.
HeldAt(lock) ==
    CASE lock.row[1] = "environment" -> {"allocate", "commit"}
      [] lock.row[1] = "flag" /\ lock.mode = "exclusive" ->
           {"lock_published", "allocate", "commit"}
      [] lock.row[1] = "flag" /\ lock.mode = "shared" ->
           {"share_flag", "read_ruleset", "commit"}
      [] OTHER -> Steps \ {"select", "insert"}

LocksOrdered(t) == \A lock \in t.locks : t.step \in HeldAt(lock)

\* No two transactions hold locks that conflict.
Compatible(one, two) ==
    \A lock \in one.locks, other \in two.locks : ~Conflicting(lock, other)

Exclusion ==
    /\ \A one, two \in Clients :
         one # two /\ InTransaction(one) /\ InTransaction(two) =>
           Compatible(tx[one], tx[two])
    /\ \A client \in Clients, orphan \in orphans :
         InTransaction(client) => Compatible(tx[client], orphan)
    /\ \A one, two \in orphans : one # two => Compatible(one, two)

\* What ties a transaction to its call.
Linked ==
    /\ call \in [Clients -> CallState]
    /\ DOMAIN tx = Clients
    /\ \A client \in Clients :
         IF call[client].status = "pending"
         THEN tx[client] \in Transaction
                /\ tx[client].request = call[client].request
         ELSE tx[client] = NoTransaction

Live(t, db) == t \in Transaction /\ Warranted(t, db) /\ LocksOrdered(t)

\* The response a committed transaction is about to return is recorded.
ResponsesRecorded ==
    \A client \in Clients :
        tx[client].step = "committed" =>
           [request |-> tx[client].request,
            response |-> PlanOf(tx[client]).response] \in database.commands

\* The inductive invariant.
Isolated ==
    /\ Sound(database)
    /\ Linked
    /\ Exclusion
    /\ \A client \in Clients :
         InTransaction(client) => Live(tx[client], database)
    /\ \A orphan \in orphans :
         Live(orphan, database) /\ orphan.step = "commit"
    /\ ResponsesRecorded

-----------------------------------------------------------------------------
(* Requests by their operation.                                            *)

LEMMA Kinds ==
    ASSUME NEW request \in Requests
    PROVE  /\ request.operation = "create_flag" =>
                request \in CreateFlag /\ request.flag \in FlagKeys
           /\ request.operation \in {"update_flag", "archive_flag"} =>
                request \in ChangeFlag /\ request.flag \in FlagKeys
           /\ request.operation = "put_environment" =>
                /\ request \in PutEnvironment
                /\ request.environment \in EnvironmentKeys
           /\ request.operation = "publish_ruleset" =>
                /\ request \in PublishRuleset
                /\ request.flag \in FlagKeys
                /\ request.environment \in EnvironmentKeys
           /\ request.operation \in EvaluateOperations =>
                /\ request \in Evaluate
                /\ request.environment \in EnvironmentKeys
                /\ request.flags \in Seq(FlagKeys)
BY RequestFields
DEF CreateFlag, ChangeFlag, PutEnvironment, PublishRuleset, Evaluate,
    EvaluateOperations

LEMMA Operations ==
    ASSUME NEW request \in Requests
    PROVE  /\ request.operation \in
                {"create_flag", "update_flag", "archive_flag",
                 "put_environment", "publish_ruleset", "evaluate",
                 "evaluate_batch"}
           /\ CommandLock(request) \in [row: Rows, mode: {"exclusive", "shared"}]
BY RequestFields
DEF CreateFlag, ChangeFlag, PutEnvironment, PublishRuleset, Evaluate,
    CommandLock, Lock, Rows, CommandId

-----------------------------------------------------------------------------
(* What a commit leaves alone.                                             *)

\* The flags, environments and histories a request does not advance.
LEMMA Undisturbed ==
    ASSUME NEW db, NEW request, Admissible(db, request)
    PROVE  LET after == Committed(db, request) IN
           /\ \A flag \in FlagKeys : FlagStep(request, flag) = 0 =>
                /\ after.flags[flag] = db.flags[flag]
                /\ \A environment : Published(after, flag, environment)
                                      = Published(db, flag, environment)
           /\ \A environment \in EnvironmentKeys :
                /\ EnvironmentStep(request, environment) = 0 =>
                     after.environments[environment]
                       = db.environments[environment]
                /\ db.environments[environment].revision # 0 =>
                     after.environments[environment].revision # 0
           /\ \A other : Recorded(after, other) =>
                \/ Recorded(db, other)
                \/ CommandId(other) = CommandId(request)
<1> DEFINE after == Committed(db, request)
<1>1. /\ db.flags \in [FlagKeys -> FlagRecord]
      /\ db.environments \in [EnvironmentKeys -> EnvironmentRecord]
      /\ request \in Requests
  BY DEF Admissible, Sound, Database
<1>2. Effects(db, request, after)
  BY CommitEffects
<1>3. \A flag \in FlagKeys :
        FlagStep(request, flag) = 0 => after.flags[flag] = db.flags[flag]
  <2>1. CASE request \in CreateFlag
    <3>1. PICK row \in FlagRecord :
            after.flags = [db.flags EXCEPT ![request.flag] = row]
      BY <2>1, CreateFlagWrites
    <3>2. request.operation \in FlagOperations
      BY <2>1 DEF CreateFlag, FlagOperations
    <3> HIDE DEF after
    <3>3. QED
      BY <1>1, <3>1, <3>2 DEF FlagStep
  <2>2. CASE request \in ChangeFlag
    <3>1. PICK row \in FlagRecord :
            after.flags = [db.flags EXCEPT ![request.flag] = row]
      BY <2>2, ChangeFlagWrites
    <3>2. request.operation \in FlagOperations
      BY <2>2 DEF ChangeFlag, FlagOperations
    <3> HIDE DEF after
    <3>3. QED
      BY <1>1, <3>1, <3>2 DEF FlagStep
  <2>3. CASE request \in PutEnvironment
    BY <2>3, PutEnvironmentWrites
  <2>4. CASE request \in PublishRuleset
    <3>1. PICK row \in FlagRecord, place \in EnvironmentRecord :
            after =
              [flags        |-> [db.flags EXCEPT ![request.flag] = row],
               environments |-> [db.environments EXCEPT
                                   ![request.environment] = place],
               rulesets     |-> db.rulesets \union {NewRuleset(db, request)},
               commands     |-> db.commands \union {NewCommand(db, request)},
               receipts     |-> db.receipts]
      BY <2>4, PublishRulesetWrites, ZenonT(30)
    <3>2. request.operation \in FlagOperations
      BY <2>4 DEF PublishRuleset, FlagOperations
    <3> HIDE DEF after
    <3>3. QED
      BY <1>1, <3>1, <3>2 DEF FlagStep
  <2>5. CASE request \in Evaluate
    <3>1. after =
            [flags        |-> db.flags,
             environments |-> db.environments,
             rulesets     |-> db.rulesets,
             commands     |-> db.commands \union {NewCommand(db, request)},
             receipts     |-> db.receipts
                                \union ReceiptsOf(request,
                                          EvaluationsOf(db, request))]
      BY <2>5, EvaluateWrites
    <3> HIDE DEF after
    <3>2. QED
      BY <3>1
  <2> HIDE DEF after
  <2>6. QED
    BY <1>1, <2>1, <2>2, <2>3, <2>4, <2>5, RequestFields
<1>4. ASSUME NEW flag \in FlagKeys, FlagStep(request, flag) = 0,
             NEW environment
      PROVE  Published(after, flag, environment)
               = Published(db, flag, environment)
  <2>1. after.rulesets = db.rulesets \union NewRulesets(db, request)
    BY <1>2 DEF Effects, RowEffects
  <2>2. \A row \in NewRulesets(db, request) :
          row.flag = request.flag /\ request.operation = "publish_ruleset"
    BY DEF NewRulesets, NewRuleset
  <2>3. request.operation = "publish_ruleset" => request.flag # flag
    BY <1>4 DEF FlagStep, FlagOperations
  <2> HIDE DEF after
  <2>4. QED
    BY <2>1, <2>2, <2>3 DEF Published
<1>5. ASSUME NEW environment \in EnvironmentKeys
      PROVE  /\ EnvironmentStep(request, environment) = 0 =>
                  after.environments[environment]
                    = db.environments[environment]
             /\ db.environments[environment].revision # 0 =>
                  after.environments[environment].revision # 0
  <2>1. /\ after.environments[environment] \in EnvironmentRecord
        /\ db.environments[environment] \in EnvironmentRecord
        /\ after.environments[environment].revision
             = db.environments[environment].revision
                 + EnvironmentStep(request, environment)
    BY <1>1, <1>2 DEF Effects, EnvironmentEffects
  <2>2. EnvironmentStep(request, environment) \in {0, 1}
    BY DEF EnvironmentStep
  <2> HIDE DEF after
  <2>3. QED
    BY <2>1, <2>2 DEF EnvironmentRecord
<1>6. ASSUME NEW other, Recorded(after, other)
      PROVE  Recorded(db, other) \/ CommandId(other) = CommandId(request)
  <2>1. after.commands = db.commands \union {NewCommand(db, request)}
    BY <1>2 DEF Effects, RowEffects
  <2>2. NewCommand(db, request).request = request
    BY NewCommandNew
  <2> HIDE DEF after
  <2>3. QED
    BY <1>6, <2>1, <2>2 DEF Recorded, CommandRows
<1>7. QED
  BY <1>3, <1>4, <1>5, <1>6

-----------------------------------------------------------------------------
(* What another transaction commits leaves every warrant in force.         *)

\* A request that advances no row a transaction has locked.
Apart(t, request) ==
    /\ CommandId(t.request) # CommandId(request)
    /\ \A flag \in FlagKeys, mode \in {"exclusive", "shared"} :
         FlagLock(flag, mode) \in t.locks => FlagStep(request, flag) = 0
    /\ \A environment \in EnvironmentKeys :
         EnvironmentLock(environment) \in t.locks =>
           EnvironmentStep(request, environment) = 0

\* The rows a transaction that commits has locked: those it advances.
Protected(t) ==
    /\ CommandLock(t.request) \in t.locks
    /\ t.request.operation \in FlagOperations =>
         FlagLock(t.request.flag, "exclusive") \in t.locks
    /\ t.request.operation \in {"put_environment", "publish_ruleset"} =>
         EnvironmentLock(t.request.environment) \in t.locks

LEMMA WarrantProtects ==
    ASSUME NEW t, NEW db, t.request \in Requests, Warranted(t, db),
           t.step = "commit"
    PROVE  Protected(t)
BY Operations
DEF Warranted, CreateWarranted, ChangeWarranted, PutWarranted,
    PublishWarranted, FlagHeld, EnvironmentHeld, Protected, FlagOperations

LEMMA ProtectedApart ==
    ASSUME NEW one, NEW two, Protected(one), Compatible(one, two),
           CommandLock(two.request) \in two.locks
    PROVE  Apart(two, one.request)
<1>1. \A lock \in one.locks, other \in two.locks :
        lock.row = other.row => ~("exclusive" \in {lock.mode, other.mode})
  BY DEF Compatible, Conflicting
<1>2. CommandId(two.request) # CommandId(one.request)
  BY <1>1 DEF Protected, CommandLock, Lock
<1>3. ASSUME NEW flag \in FlagKeys, NEW mode,
             FlagLock(flag, mode) \in two.locks
      PROVE  FlagStep(one.request, flag) = 0
  BY <1>1, <1>3 DEF Protected, FlagLock, Lock, FlagStep
<1>4. ASSUME NEW environment, EnvironmentLock(environment) \in two.locks
      PROVE  EnvironmentStep(one.request, environment) = 0
  BY <1>1, <1>4 DEF Protected, EnvironmentLock, Lock, EnvironmentStep
<1>5. QED
  BY <1>2, <1>3, <1>4 DEF Apart

LEMMA FlagHeldKept ==
    ASSUME NEW db, NEW request, Admissible(db, request),
           NEW t, t.request.flag \in FlagKeys, Apart(t, request),
           FlagHeld(t, db)
    PROVE  LET after == Committed(db, request) IN
           /\ FlagHeld(t, after)
           /\ after.flags[t.request.flag] = db.flags[t.request.flag]
           /\ \A environment : Published(after, t.request.flag, environment)
                                 = Published(db, t.request.flag, environment)
<1>1. FlagStep(request, t.request.flag) = 0
  BY DEF FlagHeld, Apart
<1>2. QED
  BY <1>1, Undisturbed DEF FlagHeld

LEMMA EnvironmentHeldKept ==
    ASSUME NEW db, NEW request, Admissible(db, request),
           NEW t, t.request.environment \in EnvironmentKeys, Apart(t, request),
           EnvironmentHeld(t, db)
    PROVE  LET after == Committed(db, request) IN
           /\ EnvironmentHeld(t, after)
           /\ after.environments[t.request.environment]
                = db.environments[t.request.environment]
<1>1. EnvironmentStep(request, t.request.environment) = 0
  BY DEF EnvironmentHeld, Apart
<1>2. QED
  BY <1>1, Undisturbed DEF EnvironmentHeld

LEMMA LatestKept ==
    ASSUME NEW one, NEW two, NEW flag, NEW environment,
           Published(one, flag, environment) = Published(two, flag, environment)
    PROVE  /\ Latest(one, flag, environment) = Latest(two, flag, environment)
           /\ LatestOf(one, flag, environment) = LatestOf(two, flag, environment)
BY DEF Latest, LatestOf

\* An evaluation depends on the flag, its history and that there is an
\* environment.
LEMMA VerdictKept ==
    ASSUME NEW one, NEW two, NEW request, NEW flag,
           one.flags[flag] = two.flags[flag],
           one.environments[request.environment].revision = 0 <=>
             two.environments[request.environment].revision = 0,
           Published(one, flag, request.environment) = {} <=>
             Published(two, flag, request.environment) = {},
           Latest(one, flag, request.environment)
             = Latest(two, flag, request.environment)
               \/ Published(one, flag, request.environment) = {}
    PROVE  /\ EvaluationVerdict(one, request, flag)
                = EvaluationVerdict(two, request, flag)
           /\ Published(one, flag, request.environment) # {} =>
                Evaluation(one, request, flag) = Evaluation(two, request, flag)
<1>1. CASE Published(one, flag, request.environment) = {}
  BY <1>1 DEF EvaluationVerdict
<1>2. CASE Published(one, flag, request.environment) # {}
  BY <1>2 DEF EvaluationVerdict, Evaluation, Choice
<1>3. QED
  BY <1>1, <1>2

LEMMA FlagSharedKept ==
    ASSUME NEW db, NEW request, Admissible(db, request),
           NEW t, NEW flag \in FlagKeys, Apart(t, request),
           FlagShared(t, db, flag)
    PROVE  LET after == Committed(db, request) IN
           /\ FlagShared(t, after, flag)
           /\ after.flags[flag] = db.flags[flag]
           /\ \A environment : Published(after, flag, environment)
                                 = Published(db, flag, environment)
<1>1. FlagStep(request, flag) = 0
  BY DEF FlagShared, Apart
<1>2. QED
  BY <1>1, Undisturbed DEF FlagShared

LEMMA FlagEvaluatedKept ==
    ASSUME NEW db, NEW request, Admissible(db, request),
           NEW t, NEW flag \in FlagKeys, Apart(t, request),
           t.request.environment \in EnvironmentKeys,
           FlagEvaluated(t, db, flag)
    PROVE  FlagEvaluated(t, Committed(db, request), flag)
<1> DEFINE after       == Committed(db, request)
           environment == t.request.environment
<1>1. /\ FlagShared(t, after, flag)
      /\ after.flags[flag] = db.flags[flag]
      /\ Published(after, flag, environment) = Published(db, flag, environment)
  BY FlagSharedKept DEF FlagEvaluated
<1>2. /\ db.environments[environment].revision # 0
      /\ after.environments[environment].revision # 0
  BY Undisturbed DEF FlagEvaluated
<1> HIDE DEF after
<1>3. /\ Latest(after, flag, environment) = Latest(db, flag, environment)
      /\ LatestOf(after, flag, environment) = LatestOf(db, flag, environment)
  BY <1>1, LatestKept
<1>4. EvaluationVerdict(after, t.request, flag)
        = EvaluationVerdict(db, t.request, flag)
  BY <1>1, <1>2, <1>3, VerdictKept
<1>5. QED
  BY <1>1, <1>2, <1>3, <1>4 DEF FlagEvaluated, after

LEMMA EvaluateWarrantKept ==
    ASSUME NEW db, NEW request, Admissible(db, request),
           NEW t \in Transaction, Apart(t, request),
           t.request \in Evaluate, EvaluateWarranted(t, db)
    PROVE  EvaluateWarranted(t, Committed(db, request))
<1> DEFINE after == Committed(db, request)
<1>1. /\ t.request.environment \in EnvironmentKeys
      /\ \A i \in DOMAIN t.request.flags : t.request.flags[i] \in FlagKeys
  BY DEF Evaluate
<1>2. \A i \in Evaluated(t) : FlagEvaluated(t, after, t.request.flags[i])
  BY <1>1, FlagEvaluatedKept DEF EvaluateWarranted, Evaluated
<1>3. t.step = "read_ruleset" =>
        LET flag == t.request.flags[t.at] IN
        /\ FlagShared(t, after, flag)
        /\ after.flags[flag] = db.flags[flag]
  BY <1>1, FlagSharedKept DEF EvaluateWarranted
<1> HIDE DEF after
<1>4. QED
  BY <1>2, <1>3 DEF EvaluateWarranted, after

\* A transaction that another one's commit does not touch keeps its warrant.
LEMMA WarrantKept ==
    ASSUME NEW db, NEW request, Admissible(db, request),
           NEW t \in Transaction, Warranted(t, db),
           t.step \notin {"select", "insert"} => Apart(t, request)
    PROVE  Warranted(t, Committed(db, request))
<1> DEFINE after == Committed(db, request)
<1>1. t.request \in Requests
  BY DEF Transaction
<1>2. CASE t.step \in {"select", "insert"}
  <2>1. Fresh(t)
    BY <1>2 DEF Warranted
  <2>2. t.request.operation \in EvaluateOperations =>
          /\ Evaluated(t) = {}
          /\ t.at \in DOMAIN t.request.flags
    BY <1>1, <1>2, <2>1, Kinds
    DEF Warranted, EvaluateWarranted, Evaluated, Fresh, Evaluate
  <2>3. QED
    BY <1>2, <2>1, <2>2
    DEF Warranted, Fresh, NothingSeen, CreateWarranted, ChangeWarranted,
        PutWarranted, PublishWarranted, EvaluateWarranted
<1>3. CASE t.step \notin {"select", "insert"}
  <2>1. Apart(t, request) /\ CommandLock(t.request) \in t.locks
    BY <1>3 DEF Warranted
  <2>2. ~Recorded(after, t.request)
    BY <1>3, <2>1, Undisturbed DEF Warranted, Apart
  <2>3. ASSUME t.request.operation = "create_flag"
        PROVE  CreateWarranted(t, after)
    <3>1. t.request.flag \in FlagKeys
      BY <1>1, <2>3, Kinds
    <3>2. CreateWarranted(t, db)
      BY <2>3 DEF Warranted
    <3>3. FlagLock(t.request.flag, "exclusive") \in t.locks =>
            after.flags[t.request.flag] = db.flags[t.request.flag]
      BY <2>1, <3>1, Undisturbed DEF Apart
    <3> HIDE DEF after
    <3>4. QED
      BY <3>2, <3>3 DEF CreateWarranted
  <2>4. ASSUME t.request.operation \in {"update_flag", "archive_flag"}
        PROVE  ChangeWarranted(t, after)
    <3>1. t.request.flag \in FlagKeys
      BY <1>1, <2>4, Kinds
    <3>2. ChangeWarranted(t, db)
      BY <2>4 DEF Warranted
    <3>3. FlagHeld(t, db) => FlagHeld(t, after)
      BY <2>1, <3>1, FlagHeldKept
    <3> HIDE DEF after
    <3>4. QED
      BY <3>2, <3>3 DEF ChangeWarranted
  <2>5. ASSUME t.request.operation = "put_environment"
        PROVE  PutWarranted(t, after)
    <3>1. t.request.environment \in EnvironmentKeys
      BY <1>1, <2>5, Kinds
    <3>2. PutWarranted(t, db)
      BY <2>5 DEF Warranted
    <3>3. EnvironmentHeld(t, db) =>
            /\ EnvironmentHeld(t, after)
            /\ after.environments[t.request.environment]
                 = db.environments[t.request.environment]
      BY <2>1, <3>1, EnvironmentHeldKept
    <3> HIDE DEF after
    <3>4. QED
      BY <3>2, <3>3 DEF PutWarranted
  <2>6. ASSUME t.request.operation = "publish_ruleset"
        PROVE  PublishWarranted(t, after)
    <3>1. /\ t.request.flag \in FlagKeys
          /\ t.request.environment \in EnvironmentKeys
      BY <1>1, <2>6, Kinds
    <3>2. PublishWarranted(t, db)
      BY <2>6 DEF Warranted
    <3>3. EnvironmentHeld(t, db) =>
            /\ EnvironmentHeld(t, after)
            /\ after.environments[t.request.environment]
                 = db.environments[t.request.environment]
      BY <2>1, <3>1, EnvironmentHeldKept
    <3>4. FlagHeld(t, db) =>
            /\ FlagHeld(t, after)
            /\ after.flags[t.request.flag] = db.flags[t.request.flag]
            /\ LatestOf(after, t.request.flag, t.request.environment)
                 = LatestOf(db, t.request.flag, t.request.environment)
      BY <2>1, <3>1, FlagHeldKept, LatestKept
    <3> HIDE DEF after
    <3>5. QED
      BY <3>2, <3>3, <3>4 DEF PublishWarranted
  <2>7. ASSUME t.request.operation \in EvaluateOperations
        PROVE  EvaluateWarranted(t, after)
    <3>1. t.request \in Evaluate
      BY <1>1, <2>7, Kinds
    <3>2. EvaluateWarranted(t, db)
      BY <2>7 DEF Warranted
    <3>3. QED
      BY <2>1, <3>1, <3>2, EvaluateWarrantKept
  <2> HIDE DEF after
  <2>8. Warranted(t, after)
    BY <1>3, <2>1, <2>2, <2>3, <2>4, <2>5, <2>6, <2>7 DEF Warranted
  <2>9. QED
    BY <2>8 DEF after
<1>4. QED
  BY <1>2, <1>3

-----------------------------------------------------------------------------
(* At its COMMIT a transaction writes what its command plans.              *)

\* Reading no more than the latest ruleset of a history shows it.
LEMMA SeenLatest ==
    ASSUME NEW db, Sound(db), NEW seen, NEW flag \in FlagKeys,
           NEW environment \in EnvironmentKeys,
           Published(seen, flag, environment) = LatestOf(db, flag, environment)
    PROVE  /\ Published(seen, flag, environment) = {} <=>
                Published(db, flag, environment) = {}
           /\ Published(db, flag, environment) # {} =>
                Latest(seen, flag, environment) = Latest(db, flag, environment)
<1>1. CASE Published(db, flag, environment) = {}
  BY <1>1 DEF LatestOf
<1>2. CASE Published(db, flag, environment) # {}
  <2> DEFINE latest == Latest(db, flag, environment)
  <2>1. /\ latest \in Published(db, flag, environment)
        /\ latest.revision \in Nat
    BY <1>2, LatestRow
  <2> HIDE DEF latest
  <2>2. Published(seen, flag, environment) = {latest}
    BY <2>1 DEF LatestOf, latest
  <2>3. latest.revision =< latest.revision
    BY <2>1
  <2>4. Latest(seen, flag, environment) = latest
    BY <2>2, <2>3 DEF Latest
  <2>5. QED
    BY <1>2, <2>2, <2>4 DEF latest
<1>3. QED
  BY <1>1, <1>2

\* The latest ruleset, seen alone, is its own history.
LEMMA LatestAlone ==
    ASSUME NEW db, NEW seen, NEW flag, NEW environment,
           seen.rulesets = LatestOf(db, flag, environment)
    PROVE  Published(seen, flag, environment) = LatestOf(db, flag, environment)
BY DEF Published, LatestOf

LEMMA PlannedStatus ==
    ASSUME NEW response, NEW flags, NEW environments, NEW rulesets, NEW receipts
    PROVE  Planned(response, flags, environments, rulesets, receipts).status
             = "Planned"
BY DEF Planned

\* What a publication plans depends on its flag, its environment and the next
\* number.
LEMMA PublishPlans ==
    ASSUME NEW one, NEW two, NEW request,
           one.flags[request.flag] = two.flags[request.flag],
           one.environments[request.environment]
             = two.environments[request.environment],
           NextRulesetRevision(one, request.flag, request.environment)
             = NextRulesetRevision(two, request.flag, request.environment),
           two.flags[request.flag].revision # 0,
           FlagVerdict(two.flags[request.flag], request.expected) = "Current",
           Valid(two.flags[request.flag].value_type, request.definition),
           two.environments[request.environment].revision # 0,
           two.environments[request.environment].revision
             = request.expected_environment
    PROVE  /\ PlanPublishRuleset(one, request) = PlanPublishRuleset(two, request)
           /\ PlanPublishRuleset(two, request).status = "Planned"
<1>1. PlanPublishRuleset(one, request) = PlanPublishRuleset(two, request)
  BY DEF PlanPublishRuleset
<1>2. PlanPublishRuleset(two, request).status = "Planned"
  BY PlannedStatus DEF PlanPublishRuleset, Valid
<1>3. QED
  BY <1>1, <1>2

LEMMA EvaluatePlans ==
    ASSUME NEW db, Sound(db), NEW t \in Transaction, t.request \in Evaluate,
           EvaluateWarranted(t, db), t.step = "commit"
    PROVE  /\ PlanEvaluate(t.seen, t.request) = PlanEvaluate(db, t.request)
           /\ PlanEvaluate(db, t.request).status = "Planned"
<1> DEFINE flags       == t.request.flags
           environment == t.request.environment
<1>1. ASSUME NEW i \in DOMAIN flags
      PROVE  /\ EvaluationVerdict(t.seen, t.request, flags[i]) = "Chosen"
             /\ EvaluationVerdict(db, t.request, flags[i]) = "Chosen"
             /\ Evaluation(t.seen, t.request, flags[i])
                  = Evaluation(db, t.request, flags[i])
  <2>1. /\ flags[i] \in FlagKeys
        /\ environment \in EnvironmentKeys
    BY DEF Evaluate
  <2>2. FlagEvaluated(t, db, flags[i])
    BY DEF EvaluateWarranted, Evaluated
  <2>3. /\ t.seen.flags[flags[i]] = db.flags[flags[i]]
        /\ t.seen.environments[environment].revision # 0
        /\ db.environments[environment].revision # 0
        /\ Published(t.seen, flags[i], environment)
             = LatestOf(db, flags[i], environment)
        /\ EvaluationVerdict(db, t.request, flags[i]) = "Chosen"
    BY <2>2 DEF FlagEvaluated, FlagShared
  <2>4. Published(db, flags[i], environment) # {}
    BY <2>3 DEF EvaluationVerdict
  <2>5. /\ Published(t.seen, flags[i], environment) # {}
        /\ Latest(t.seen, flags[i], environment)
             = Latest(db, flags[i], environment)
    BY <2>1, <2>3, <2>4, SeenLatest
  <2>6. /\ EvaluationVerdict(t.seen, t.request, flags[i])
             = EvaluationVerdict(db, t.request, flags[i])
        /\ Evaluation(t.seen, t.request, flags[i])
             = Evaluation(db, t.request, flags[i])
    <3>1. t.seen.environments[environment].revision = 0 <=>
            db.environments[environment].revision = 0
      BY <2>3
    <3>2. Published(t.seen, flags[i], environment) = {} <=>
            Published(db, flags[i], environment) = {}
      BY <2>4, <2>5
    <3>3. QED
      BY <2>3, <2>5, <3>1, <3>2, VerdictKept
  <2>7. QED
    BY <2>3, <2>6
<1> HIDE DEF flags
<1>2. ASSUME NEW one,
             \A i \in DOMAIN flags :
               EvaluationVerdict(one, t.request, flags[i]) = "Chosen"
      PROVE  PlanEvaluate(one, t.request) =
               LET evaluations == [i \in DOMAIN flags |->
                                     Evaluation(one, t.request, flags[i])] IN
               Planned([evaluations |-> evaluations], NoRows, NoRows, {},
                       ReceiptsOf(t.request, evaluations))
  <2>1. {i \in DOMAIN flags :
           EvaluationVerdict(one, t.request, flags[i]) # "Chosen"} = {}
    BY <1>2
  <2>2. QED
    BY <2>1 DEF PlanEvaluate, flags
<1>3. [i \in DOMAIN flags |-> Evaluation(t.seen, t.request, flags[i])]
        = [i \in DOMAIN flags |-> Evaluation(db, t.request, flags[i])]
  BY <1>1
<1>4. PlanEvaluate(t.seen, t.request) = PlanEvaluate(db, t.request)
  BY <1>1, <1>2, <1>3
<1>5. PlanEvaluate(db, t.request).status = "Planned"
  <2> DEFINE evaluations == [i \in DOMAIN flags |->
                               Evaluation(db, t.request, flags[i])]
  <2>1. PlanEvaluate(db, t.request) =
          Planned([evaluations |-> evaluations], NoRows, NoRows, {},
                  ReceiptsOf(t.request, evaluations))
    BY <1>1, <1>2
  <2> HIDE DEF evaluations
  <2>2. QED
    BY <2>1, PlannedStatus
<1>6. QED
  BY <1>4, <1>5

\* A warrant to commit: what the command plans on the rows seen is what it plans
\* on the tables.
LEMMA CommitPlans ==
    ASSUME NEW db, Sound(db), NEW t \in Transaction, Warranted(t, db),
           t.step = "commit"
    PROVE  /\ PlanOf(t) = Plan(db, t.request)
           /\ Admissible(db, t.request)
<1> DEFINE request == t.request
<1>1. /\ request \in Requests
      /\ ~Recorded(db, request)
  BY DEF Transaction, Warranted
<1>2. /\ Plan(t.seen, request) = Plan(db, request)
      /\ Plan(db, request).status = "Planned"
  <2>1. CASE request.operation = "create_flag"
    <3>1. request.flag \in FlagKeys
      BY <1>1, <2>1, Kinds
    <3>2. /\ t.seen.flags[request.flag].revision = 0
          /\ db.flags[request.flag].revision = 0
      BY <2>1, <3>1 DEF Warranted, CreateWarranted, NothingSeen, NoFlag
    <3>3. /\ Plan(t.seen, request) = PlanCreateFlag(t.seen, request)
          /\ Plan(db, request) = PlanCreateFlag(db, request)
      BY <2>1 DEF Plan
    <3>4. QED
      BY <3>2, <3>3 DEF PlanCreateFlag, Planned
  <2>2. CASE request.operation \in {"update_flag", "archive_flag"}
    <3>1. FlagHeld(t, db)
      BY <2>2 DEF Warranted, ChangeWarranted
    <3>2. /\ Plan(t.seen, request) = PlanChangeFlag(t.seen, request)
          /\ Plan(db, request) = PlanChangeFlag(db, request)
      BY <2>2 DEF Plan
    <3>3. QED
      BY <3>1, <3>2 DEF FlagHeld, PlanChangeFlag, Planned
  <2>3. CASE request.operation = "put_environment"
    <3>1. /\ EnvironmentHeld(t, db)
          /\ db.environments[request.environment].revision = request.expected
      BY <2>3 DEF Warranted, PutWarranted
    <3>2. /\ Plan(t.seen, request) = PlanPutEnvironment(t.seen, request)
          /\ Plan(db, request) = PlanPutEnvironment(db, request)
      BY <2>3 DEF Plan
    <3>3. QED
      BY <3>1, <3>2 DEF EnvironmentHeld, PlanPutEnvironment, Planned
  <2>4. CASE request.operation = "publish_ruleset"
    <3>1. /\ request.flag \in FlagKeys
          /\ request.environment \in EnvironmentKeys
      BY <1>1, <2>4, Kinds
    <3>2. /\ FlagHeld(t, db)
          /\ EnvironmentHeld(t, db)
          /\ Valid(db.flags[request.flag].value_type, request.definition)
          /\ db.environments[request.environment].revision # 0
          /\ db.environments[request.environment].revision
               = request.expected_environment
          /\ t.seen.rulesets
               = LatestOf(db, request.flag, request.environment)
      BY <2>4 DEF Warranted, PublishWarranted
    <3>3. NextRulesetRevision(t.seen, request.flag, request.environment)
            = NextRulesetRevision(db, request.flag, request.environment)
      BY <3>1, <3>2, LatestAlone, SeenLatest DEF NextRulesetRevision
    <3>4. /\ Plan(t.seen, request) = PlanPublishRuleset(t.seen, request)
          /\ Plan(db, request) = PlanPublishRuleset(db, request)
      BY <2>4 DEF Plan
    <3>5. QED
      BY <3>2, <3>3, <3>4, PublishPlans DEF FlagHeld, EnvironmentHeld
  <2>5. CASE request.operation \in EvaluateOperations
    <3>1. request \in Evaluate /\ EvaluateWarranted(t, db)
      BY <1>1, <2>5, Kinds DEF Warranted
    <3>2. /\ Plan(t.seen, request) = PlanEvaluate(t.seen, request)
          /\ Plan(db, request) = PlanEvaluate(db, request)
      BY <2>5 DEF Plan, EvaluateOperations
    <3>3. QED
      BY <3>1, <3>2, EvaluatePlans
  <2>6. QED
    BY <1>1, <2>1, <2>2, <2>3, <2>4, <2>5, Operations DEF EvaluateOperations
<1>3. QED
  BY <1>1, <1>2 DEF PlanOf, Admissible

-----------------------------------------------------------------------------
(* The refinement: the contract plans and commits by the same operators.   *)

LEMMA SameValidity ==
    ASSUME NEW type, NEW definition
    PROVE  Contract!ValidateRuleset(type, definition)
             = ValidateRuleset(type, definition)
BY DEF ValidateRuleset, NamesVariants, VariantKeysOf, ValuesTyped,
       ValidValue, RulesSound, RolloutSound, RolloutTotal, Wrapped, Upper,
       ToSet, Contract!ToSet,
       Contract!ValidateRuleset, Contract!NamesVariants,
       Contract!VariantKeysOf, Contract!ValuesTyped, Contract!ValidValue,
       Contract!RulesSound, Contract!RolloutSound, Contract!RolloutTotal,
       Contract!Wrapped, Contract!Upper

LEMMA SameChoice ==
    ASSUME NEW context, NEW bucket, NEW definition
    PROVE  Contract!ChooseVariant(context, bucket, definition)
             = ChooseVariant(context, bucket, definition)
BY DEF ChooseVariant, MatchingRules, RuleMatches, RolloutStops, Serve,
       NoChoice, ToSet, SelectInSeq, Min, RolloutTotal, Wrapped, Upper,
       Contract!ChooseVariant, Contract!MatchingRules,
       Contract!RuleMatches, Contract!RolloutStops, Contract!Serve,
       Contract!NoChoice, Contract!ToSet, Contract!SelectInSeq,
       Contract!Min, Contract!RolloutTotal, Contract!Wrapped,
       Contract!Upper

LEMMA SameLatest ==
    ASSUME NEW db, NEW flag, NEW environment
    PROVE  /\ Contract!Published(db, flag, environment)
                = Published(db, flag, environment)
           /\ Contract!Latest(db, flag, environment)
                = Latest(db, flag, environment)
           /\ Contract!NextRulesetRevision(db, flag, environment)
                = NextRulesetRevision(db, flag, environment)
BY DEF Published, Latest, NextRulesetRevision, Contract!Published,
       Contract!Latest, Contract!NextRulesetRevision

LEMMA SameEvaluation ==
    ASSUME NEW db, NEW request, NEW flag
    PROVE  /\ Contract!EvaluationVerdict(db, request, flag)
                = EvaluationVerdict(db, request, flag)
           /\ Contract!Evaluation(db, request, flag)
                = Evaluation(db, request, flag)
<1>1. Contract!Choice(db, request, flag) = Choice(db, request, flag)
  BY SameChoice, SameLatest DEF Choice, Contract!Choice
<1>2. QED
  BY <1>1, SameValidity, SameLatest
  DEF EvaluationVerdict, Evaluation, Contract!EvaluationVerdict,
      Contract!Evaluation

LEMMA SameWords ==
    ASSUME NEW failure, NEW response, NEW flags, NEW environments,
           NEW rulesets, NEW receipts, NEW row, NEW key, NEW expected
    PROVE  /\ Contract!Refused(failure) = Refused(failure)
           /\ Contract!Planned(response, flags, environments, rulesets, receipts)
                = Planned(response, flags, environments, rulesets, receipts)
           /\ Contract!NoRows = NoRows
           /\ Contract!Row(key, row) = Row(key, row)
           /\ Contract!Bumped(row) = Bumped(row)
           /\ Contract!FlagVerdict(row, expected) = FlagVerdict(row, expected)
BY DEF Refused, Planned, NoRows, Row, Bumped, FlagVerdict,
       Contract!Refused, Contract!Planned, Contract!NoRows, Contract!Row,
       Contract!Bumped, Contract!FlagVerdict

LEMMA SamePlan ==
    ASSUME NEW db, NEW request
    PROVE  Contract!Plan(db, request) = Plan(db, request)
<1>1. Contract!PlanCreateFlag(db, request) = PlanCreateFlag(db, request)
  BY SameWords DEF PlanCreateFlag, Contract!PlanCreateFlag
<1>2. Contract!PlanChangeFlag(db, request) = PlanChangeFlag(db, request)
  BY SameWords DEF PlanChangeFlag, Contract!PlanChangeFlag
<1>3. Contract!PlanPutEnvironment(db, request) = PlanPutEnvironment(db, request)
  BY SameWords DEF PlanPutEnvironment, Contract!PlanPutEnvironment
<1>4. Contract!PlanPublishRuleset(db, request) = PlanPublishRuleset(db, request)
  BY SameWords, SameValidity, SameLatest
  DEF PlanPublishRuleset, Contract!PlanPublishRuleset
<1>5. Contract!PlanEvaluate(db, request) = PlanEvaluate(db, request)
  <2> DEFINE flags       == request.flags
             failing     == {i \in DOMAIN flags :
                               EvaluationVerdict(db, request, flags[i]) # "Chosen"}
             evaluations == [i \in DOMAIN flags |->
                               Evaluation(db, request, flags[i])]
  <2>1. failing = {i \in DOMAIN flags :
                     Contract!EvaluationVerdict(db, request, flags[i]) # "Chosen"}
    BY SameEvaluation
  <2>2. evaluations = [i \in DOMAIN flags |->
                         Contract!Evaluation(db, request, flags[i])]
    BY SameEvaluation
  <2>3. Contract!Min(failing) = Min(failing)
    BY DEF Min, Contract!Min
  <2>4. Contract!ReceiptsOf(request, evaluations)
          = ReceiptsOf(request, evaluations)
    BY DEF ReceiptsOf, ReceiptOf, EvaluationIdOf, Contract!ReceiptsOf,
           Contract!ReceiptOf, Contract!EvaluationIdOf
  <2>5. Contract!EvaluationVerdict(db, request, flags[Min(failing)])
          = EvaluationVerdict(db, request, flags[Min(failing)])
    BY SameEvaluation
  <2>6. PlanEvaluate(db, request) =
          IF failing # {}
          THEN Refused(EvaluationVerdict(db, request, flags[Min(failing)]))
          ELSE Planned([evaluations |-> evaluations], NoRows, NoRows, {},
                       ReceiptsOf(request, evaluations))
    BY DEF PlanEvaluate
  <2>7. Contract!PlanEvaluate(db, request) =
          IF failing # {}
          THEN Contract!Refused(Contract!EvaluationVerdict(
                 db, request, flags[Contract!Min(failing)]))
          ELSE Contract!Planned(
                 [evaluations |-> evaluations], Contract!NoRows,
                 Contract!NoRows, {}, Contract!ReceiptsOf(request, evaluations))
    <3> HIDE DEF failing, evaluations
    <3>1. QED
      BY <2>1, <2>2 DEF Contract!PlanEvaluate
  <2> HIDE DEF failing, evaluations
  <2>8. QED
    BY <2>3, <2>4, <2>5, <2>6, <2>7, SameWords
<1>6. QED
  BY <1>1, <1>2, <1>3, <1>4, <1>5 DEF Plan, Contract!Plan

LEMMA SameTables ==
    ASSUME NEW db, NEW request, NEW plan
    PROVE  /\ Contract!Commit(db, request, plan) = Commit(db, request, plan)
           /\ Contract!Recorded(db, request) <=> Recorded(db, request)
           /\ Contract!CommandRows(db, request) = CommandRows(db, request)
BY DEF Commit, Written, Recorded, CommandRows, CommandId,
       Contract!Commit, Contract!Written,
       Contract!Recorded, Contract!CommandRows, Contract!CommandId

LEMMA SameReplies ==
    ASSUME NEW request, NEW response, NEW failure
    PROVE  /\ Contract!Idle = Idle
           /\ Contract!Pending(request) = Pending(request)
           /\ Contract!Failed(request) = Failed(request)
           /\ Contract!Done(request, response) = Done(request, response)
           /\ Contract!RefusedCall(request, failure)
                = RefusedCall(request, failure)
BY DEF Idle, Pending, Failed, Done, RefusedCall, Contract!Idle,
       Contract!Pending, Contract!Failed, Contract!Done, Contract!RefusedCall

\* What the contract sees of a step: one of its own steps, or nothing.
Implements == Contract!Next \/ UNCHANGED Contract!vars

\* A client with a transaction waits for its call.
LEMMA TransactionPending ==
    ASSUME Linked, NEW client \in Clients
    PROVE  /\ tx[client].step # "none" =>
                /\ call[client].status = "pending"
                /\ tx[client] \in Transaction
                /\ tx[client].request = call[client].request
                /\ tx[client].request \in Requests
                /\ Contract!Waiting(client)
                /\ call[client].request \in Contract!Awaited
           /\ tx[client].step = "none" =>
                /\ call[client].status # "pending"
                /\ tx[client] = NoTransaction
                /\ ~Contract!Waiting(client)
<1>1. \A t \in Transaction : t.step # "none" /\ t.request \in Requests
  BY DEF Transaction, Steps
<1>2. NoTransaction.step = "none"
  BY DEF NoTransaction
<1>3. QED
  BY <1>1, <1>2 DEF Linked, Contract!Waiting, Contract!Awaited

-----------------------------------------------------------------------------
(* Locks.                                                                  *)

LEMMA CompatibleBothWays ==
    ASSUME NEW one, NEW two, Compatible(one, two)
    PROVE  Compatible(two, one)
BY DEF Compatible, Conflicting

\* A statement that runs takes only locks nobody else holds.
LEMMA GrantedCompatible ==
    ASSUME NEW holder, NEW t, NEW new, Compatible(holder, t),
           \/ new.locks = t.locks
           \/ /\ ~Blocks(holder, t)
              /\ new.locks = t.locks \union LocksWanted(t)
    PROVE  Compatible(holder, new)
BY DEF Compatible, Blocks

LEMMA LockKinds ==
    /\ \A request : HeldAt(CommandLock(request)) = Steps \ {"select", "insert"}
    /\ \A flag : HeldAt(FlagLock(flag, "exclusive"))
                   = {"lock_published", "allocate", "commit"}
    /\ \A flag : HeldAt(FlagLock(flag, "shared"))
                   = {"share_flag", "read_ruleset", "commit"}
    /\ \A environment : HeldAt(EnvironmentLock(environment))
                          = {"allocate", "commit"}
BY DEF HeldAt, CommandLock, FlagLock, EnvironmentLock, Lock

\* The locks a transaction holds let it go on.
LEMMA HeldOn ==
    ASSUME NEW lock, NEW one, NEW two \in Steps \ {"select", "insert"},
           one \in HeldAt(lock),
           \/ one \in {"insert_flag", "lock_flag", "lock_environment",
                       "insert_environment"}
           \/ /\ one \in {"share_flag", "read_ruleset"}
              /\ two \in {"share_flag", "read_ruleset", "commit"}
           \/ one = "lock_published" /\ two \in {"allocate", "commit"}
           \/ one = "allocate" /\ two = "commit"
    PROVE  two \in HeldAt(lock)
BY DEF HeldAt

-----------------------------------------------------------------------------
(* Steps that leave the tables alone.                                      *)

\* A statement that runs, and leaves its transaction warranted.
LEMMA AdvanceStep ==
    ASSUME Isolated, NEW client \in Clients, InTransaction(client),
           NEW new, Live(new, database),
           new.request = tx[client].request,
           new.step \notin {"committed", "lost"},
           \/ new.locks = tx[client].locks
           \/ /\ Granted(client)
              /\ new.locks = tx[client].locks \union LocksWanted(tx[client]),
           Advance(client, new)
    PROVE  Isolated' /\ Implements
<1>1. /\ tx' = [tx EXCEPT ![client] = new]
      /\ database' = database /\ orphans' = orphans /\ call' = call
  BY DEF Advance
<1>2. DOMAIN tx = Clients
  BY DEF Isolated, Linked
<1>3. /\ tx'[client] = new
      /\ \A c \in Clients : c # client => tx'[c] = tx[c]
  BY <1>1, <1>2
<1>4. tx[client].step # "none"
  BY DEF InTransaction
<1>5. Linked'
  BY <1>1, <1>2, <1>3, <1>4, TransactionPending DEF Isolated, Linked, Live
<1>6. \A c \in Clients :
        c # client /\ InTransaction(c) =>
          Compatible(tx[c], new) /\ Compatible(new, tx[c])
  <2>1. TAKE c \in Clients
  <2>2. HAVE c # client /\ InTransaction(c)
  <2>3. Compatible(tx[c], tx[client])
    BY <2>2 DEF Isolated, Exclusion
  <2>4. Compatible(tx[c], new)
    BY <2>2, <2>3, GrantedCompatible DEF Granted
  <2>5. QED
    BY <2>4, CompatibleBothWays
<1>7. \A orphan \in orphans : Compatible(new, orphan)
  <2>1. TAKE orphan \in orphans
  <2>2. Compatible(orphan, tx[client])
    BY CompatibleBothWays DEF Isolated, Exclusion
  <2>3. Compatible(orphan, new)
    BY <2>2, GrantedCompatible DEF Granted
  <2>4. QED
    BY <2>3, CompatibleBothWays
<1>8. Exclusion'
  BY <1>1, <1>3, <1>6, <1>7 DEF Isolated, Exclusion, InTransaction
<1>9. \A c \in Clients : InTransaction(c)' => Live(tx'[c], database')
  BY <1>1, <1>3 DEF Isolated, InTransaction
<1>10. ResponsesRecorded'
  BY <1>1, <1>3 DEF Isolated, ResponsesRecorded
<1>11. Isolated'
  BY <1>1, <1>5, <1>8, <1>9, <1>10 DEF Isolated
<1>12. UNCHANGED Contract!vars
  BY <1>1 DEF Contract!vars, Abandoned
<1>13. QED
  BY <1>11, <1>12 DEF Implements

\* A call that returns.
LEMMA RespondKept ==
    ASSUME Isolated, NEW client \in Clients,
           NEW reply \in CallState, reply.status # "pending",
           Respond(client, reply)
    PROVE  /\ Isolated'
           /\ UNCHANGED <<database, Abandoned>>
<1>1. /\ tx' = [tx EXCEPT ![client] = NoTransaction]
      /\ call' = [call EXCEPT ![client] = reply]
      /\ database' = database /\ orphans' = orphans
  BY DEF Respond
<1>2. DOMAIN tx = Clients /\ call \in [Clients -> CallState]
  BY DEF Isolated, Linked
<1>3. /\ tx'[client] = NoTransaction
      /\ call'[client] = reply
      /\ \A c \in Clients : c # client => tx'[c] = tx[c] /\ call'[c] = call[c]
  BY <1>1, <1>2
<1>4. NoTransaction.step = "none"
  BY DEF NoTransaction
<1>5. Linked'
  BY <1>1, <1>2, <1>3 DEF Isolated, Linked
<1>6. Exclusion'
  BY <1>1, <1>3, <1>4 DEF Isolated, Exclusion, InTransaction
<1>7. \A c \in Clients : InTransaction(c)' => Live(tx'[c], database')
  BY <1>1, <1>3, <1>4 DEF Isolated, InTransaction
<1>8. ResponsesRecorded'
  BY <1>1, <1>3, <1>4 DEF Isolated, ResponsesRecorded
<1>9. Isolated'
  BY <1>1, <1>5, <1>6, <1>7, <1>8 DEF Isolated
<1>10. QED
  BY <1>1, <1>9 DEF Abandoned

\* A refusal that the tables justify.
LEMMA RefusalStep ==
    ASSUME Isolated, NEW client \in Clients, InTransaction(client),
           tx[client].step \notin {"select", "insert"},
           NEW failure, failure # "Planned",
           Plan(database, tx[client].request).status = failure,
           Refusal(client, failure)
    PROVE  Isolated' /\ Implements
<1> DEFINE t       == tx[client]
           request == call[client].request
<1>1. /\ t.request = request
      /\ request \in Requests
      /\ Contract!Waiting(client)
  BY TransactionPending DEF Isolated, InTransaction
<1>2. Live(t, database)
  BY DEF Isolated
<1>3. CommandLock(request) \in t.locks /\ ~Recorded(database, request)
  BY <1>1, <1>2 DEF Live, Warranted
<1>4. failure \in PlanFailures
  BY <1>1, PlanStatus
<1>5. RefusedCall(request, failure) \in CallState
  BY <1>1, <1>4 DEF RefusedCall, CallState, PlanFailures, Failures
<1>6. RefusedCall(request, failure).status # "pending"
  BY DEF RefusedCall
<1>7. Isolated' /\ UNCHANGED <<database, Abandoned>>
  BY <1>5, <1>6, RespondKept DEF Refusal
<1>8. request \notin Abandoned
  <2>1. SUFFICES ASSUME NEW orphan \in orphans, orphan.request = request
                 PROVE  FALSE
    BY DEF Abandoned
  <2>2. Compatible(t, orphan)
    BY DEF Isolated, Exclusion
  <2>3. Protected(orphan)
    BY WarrantProtects DEF Isolated, Live, Transaction
  <2>4. Conflicting(CommandLock(request), CommandLock(request))
    BY DEF Conflicting, CommandLock, Lock
  <2>5. QED
    BY <1>3, <2>1, <2>2, <2>3, <2>4 DEF Compatible, Protected
<1>9. Abandoned' = Abandoned \ {request}
  BY <1>7, <1>8
<1>10. call' = [call EXCEPT ![client] = RefusedCall(request, failure)]
  BY DEF Refusal, Respond
<1>11. Contract!Refuse(client)
  BY <1>1, <1>3, <1>7, <1>9, <1>10, SamePlan, SameTables, SameReplies
  DEF Contract!Refuse
<1>12. QED
  BY <1>7, <1>11 DEF Implements, Contract!Next

-----------------------------------------------------------------------------
(* The statements.                                                         *)

\* What an open transaction may rely on.
LEMMA OpenTransaction ==
    ASSUME Isolated, NEW client \in Clients, InTransaction(client)
    PROVE  /\ tx[client] \in Transaction
           /\ tx[client].request \in Requests
           /\ tx[client].request = call[client].request
           /\ Warranted(tx[client], database)
           /\ LocksOrdered(tx[client])
           /\ database.flags \in [FlagKeys -> FlagRecord]
           /\ database.environments \in [EnvironmentKeys -> EnvironmentRecord]
           /\ database.rulesets \subseteq RulesetRow
BY TransactionPending
DEF Isolated, InTransaction, Live, Sound, Database

\* A flag or an environment can be locked as a row of its table.
LEMMA RowLocks ==
    /\ \A flag \in FlagKeys, mode \in {"exclusive", "shared"} :
         FlagLock(flag, mode) \in [row: Rows, mode: {"exclusive", "shared"}]
    /\ \A environment \in EnvironmentKeys :
         EnvironmentLock(environment)
           \in [row: Rows, mode: {"exclusive", "shared"}]
BY DEF FlagLock, EnvironmentLock, Lock, Rows

LEMMA SelectCommandStep ==
    ASSUME Isolated, NEW client \in Clients, SelectCommand(client)
    PROVE  Isolated' /\ Implements
<1> DEFINE t       == tx[client]
           request == call[client].request
<1>1. t.step = "select" /\ InTransaction(client)
  BY DEF SelectCommand, InTransaction
<1>2. /\ t \in Transaction
      /\ t.request = request
      /\ request \in Requests
      /\ Warranted(t, database)
      /\ LocksOrdered(t)
      /\ Contract!Waiting(client)
  BY <1>1, OpenTransaction, TransactionPending DEF Isolated
<1>3. ASSUME NEW row \in CommandRows(database, request),
             IF row.request = request
             THEN Respond(client, Done(request, row.response))
             ELSE Refusal(client, "IdempotencyConflict")
      PROVE  Isolated' /\ Implements
  <2>1. row \in database.commands /\ row.response \in Response
    BY DEF CommandRows, Isolated, Sound, Database, CommandRow
  <2>2. CASE row.request = request
    <3>1. /\ Done(request, row.response) \in CallState
          /\ Done(request, row.response).status # "pending"
      BY <1>2, <2>1 DEF Done, CallState
    <3>2. Respond(client, Done(request, row.response))
      BY <1>3, <2>2
    <3>3. Isolated' /\ UNCHANGED <<database, Abandoned>>
      BY <3>1, <3>2, RespondKept
    <3>4. call' = [call EXCEPT ![client] = Done(request, row.response)]
      BY <3>2 DEF Respond
    <3>5. Contract!Reply(client)
      BY <1>2, <2>1, <2>2, <3>3, <3>4, SameReplies DEF Contract!Reply
    <3>6. QED
      BY <3>3, <3>5 DEF Implements, Contract!Next
  <2>3. CASE row.request # request
    <3>1. /\ RefusedCall(request, "IdempotencyConflict") \in CallState
          /\ RefusedCall(request, "IdempotencyConflict").status # "pending"
      BY <1>2 DEF RefusedCall, CallState, Failures
    <3>2. Respond(client, RefusedCall(request, "IdempotencyConflict"))
      BY <1>3, <2>3 DEF Refusal
    <3>3. Isolated' /\ UNCHANGED <<database, Abandoned>>
      BY <3>1, <3>2, RespondKept
    <3>4. call' = [call EXCEPT ![client] =
                     RefusedCall(request, "IdempotencyConflict")]
      BY <3>2 DEF Respond
    <3>5. row \in Contract!CommandRows(database, request)
      BY SameTables
    <3>6. Contract!Conflict(client)
      BY <1>2, <2>3, <3>3, <3>4, <3>5, SameReplies DEF Contract!Conflict
    <3>7. QED
      BY <3>3, <3>6 DEF Implements, Contract!Next
  <2>4. QED
    BY <2>2, <2>3
<1>4. ASSUME Advance(client, [t EXCEPT !.step = "insert"])
      PROVE  Isolated' /\ Implements
  <2> DEFINE new == [t EXCEPT !.step = "insert"]
  <2>1. /\ new \in Transaction
        /\ new.step = "insert"
        /\ new.request = t.request
        /\ new.locks = t.locks
        /\ new.at = t.at
        /\ new.seen = t.seen
    BY <1>2 DEF Transaction, Steps
  <2> HIDE DEF new
  <2>2. t.locks = {} /\ t.at = 1
    BY <1>1, <1>2 DEF Warranted, Fresh
  <2>3. LocksOrdered(new)
    BY <2>1, <2>2 DEF LocksOrdered
  <2>4. t.request.operation \in EvaluateOperations =>
          EvaluateWarranted(new, database)
    <3>1. ASSUME t.request.operation \in EvaluateOperations
          PROVE  EvaluateWarranted(new, database)
      <4>1. EvaluateWarranted(t, database)
        BY <1>2, <3>1 DEF Warranted
      <4>2. Evaluated(new) = {} /\ Evaluated(t) = {}
        <5>1. t.request \in Evaluate
          BY <1>2, <3>1, Kinds
        <5>2. QED
          BY <1>1, <2>1, <2>2, <5>1 DEF Evaluated, Evaluate
      <4>3. QED
        BY <2>1, <4>1, <4>2 DEF EvaluateWarranted
    <3>2. QED
      BY <3>1
  <2>5. Warranted(new, database)
    BY <1>1, <1>2, <2>1, <2>4
    DEF Warranted, Fresh, CreateWarranted, ChangeWarranted, PutWarranted,
        PublishWarranted
  <2>6. QED
    BY <1>1, <1>4, <2>1, <2>3, <2>5, AdvanceStep DEF Live, new
<1>5. QED
  BY <1>2, <1>3, <1>4 DEF SelectCommand

LEMMA InsertCommandStep ==
    ASSUME Isolated, NEW client \in Clients, InsertCommand(client)
    PROVE  Isolated' /\ Implements
<1> DEFINE t       == tx[client]
           request == call[client].request
<1>1. t.step = "insert" /\ InTransaction(client) /\ Granted(client)
  BY DEF InsertCommand, InTransaction
<1>2. /\ t \in Transaction
      /\ t.request = request
      /\ request \in Requests
      /\ Warranted(t, database)
      /\ Contract!Waiting(client)
  BY <1>1, OpenTransaction, TransactionPending DEF Isolated
<1>3. Fresh(t)
  BY <1>1, <1>2 DEF Warranted
<1>4. CASE Recorded(database, request)
  <2>1. /\ RefusedCall(request, "OperationInProgress") \in CallState
        /\ RefusedCall(request, "OperationInProgress").status # "pending"
    BY <1>2 DEF RefusedCall, CallState, Failures
  <2>2. Respond(client, RefusedCall(request, "OperationInProgress"))
    BY <1>2, <1>4 DEF InsertCommand, Refusal
  <2>3. Isolated' /\ UNCHANGED <<database, Abandoned>>
    BY <2>1, <2>2, RespondKept
  <2>4. call' = [call EXCEPT ![client] =
                   RefusedCall(request, "OperationInProgress")]
    BY <2>2 DEF Respond
  <2>5. Contract!Postpone(client)
    BY <1>2, <1>4, <2>3, <2>4, SameTables, SameReplies DEF Contract!Postpone
  <2>6. QED
    BY <2>3, <2>5 DEF Implements, Contract!Next
<1>5. CASE ~Recorded(database, request)
  <2> DEFINE new == [Locked(t) EXCEPT !.step = FirstStep(request)]
  <2>1. LocksWanted(t) = {CommandLock(request)}
    BY <1>1, <1>2 DEF LocksWanted, CommandLock
  <2>2. /\ request.operation = "create_flag" =>
             FirstStep(request) = "insert_flag"
        /\ request.operation
             \in {"update_flag", "archive_flag", "publish_ruleset"} =>
             FirstStep(request) = "lock_flag"
        /\ request.operation = "put_environment" =>
             FirstStep(request) = "lock_environment"
        /\ request.operation \in EvaluateOperations =>
             FirstStep(request) = "share_flag"
    BY DEF FirstStep, EvaluateOperations
  <2>3. FirstStep(request)
          \in {"insert_flag", "lock_flag", "lock_environment", "share_flag"}
    BY <1>2, <2>2, Operations DEF EvaluateOperations
  <2>4. CommandLock(request) \in [row: Rows, mode: {"exclusive", "shared"}]
    BY <1>2, Operations
  <2>5. /\ new \in Transaction
        /\ new.step = FirstStep(request)
        /\ new.request = request
        /\ new.locks = {CommandLock(request)}
        /\ new.at = 1
        /\ new.seen = NothingSeen
    BY <1>2, <1>3, <2>1, <2>3, <2>4 DEF Transaction, Steps, Locked, Fresh
  <2>6. Advance(client, new)
    BY <1>2, <1>5 DEF InsertCommand
  <2> HIDE DEF new
  <2>7. new.locks = t.locks \union LocksWanted(t)
    BY <1>3, <2>1, <2>5 DEF Fresh
  <2>8. LocksOrdered(new)
    BY <2>3, <2>5, LockKinds DEF LocksOrdered, Steps
  <2>9. request.operation \in EvaluateOperations =>
          EvaluateWarranted(new, database)
    <3>1. ASSUME request.operation \in EvaluateOperations
          PROVE  EvaluateWarranted(new, database)
      <4>1. EvaluateWarranted(t, database)
        BY <1>2, <3>1 DEF Warranted
      <4>2. request \in Evaluate /\ FirstStep(request) = "share_flag"
        BY <1>2, <2>2, <3>1, Kinds
      <4>3. Evaluated(new) = {}
        BY <2>5, <4>2 DEF Evaluated, Evaluate
      <4>4. new.seen.rulesets = {}
        BY <2>5 DEF NothingSeen
      <4>5. 1 \in DOMAIN request.flags
        BY <1>2, <1>3, <4>1 DEF EvaluateWarranted, Fresh
      <4>6. QED
        BY <2>5, <4>2, <4>3, <4>4, <4>5 DEF EvaluateWarranted
    <3>2. QED
      BY <3>1
  <2>10. Warranted(new, database)
    BY <1>5, <2>2, <2>3, <2>5, <2>9
    DEF Warranted, CreateWarranted, ChangeWarranted, PutWarranted,
        PublishWarranted
  <2>11. QED
    BY <1>1, <1>2, <2>3, <2>5, <2>6, <2>7, <2>8, <2>10, AdvanceStep DEF Live
<1>6. QED
  BY <1>4, <1>5

\* Each statement belongs to some operations.
LEMMA StepKinds ==
    ASSUME NEW t, NEW db, t.request \in Requests, Warranted(t, db)
    PROVE  /\ t.step = "insert_flag" =>
                t.request.operation = "create_flag" /\ CreateWarranted(t, db)
           /\ t.step = "lock_flag" =>
                \/ /\ t.request.operation \in {"update_flag", "archive_flag"}
                   /\ ChangeWarranted(t, db)
                \/ /\ t.request.operation = "publish_ruleset"
                   /\ PublishWarranted(t, db)
           /\ t.step \in {"lock_environment", "insert_environment"} =>
                t.request.operation = "put_environment" /\ PutWarranted(t, db)
           /\ t.step \in {"lock_published", "allocate"} =>
                /\ t.request.operation = "publish_ruleset"
                /\ PublishWarranted(t, db)
           /\ t.step \in {"share_flag", "read_ruleset"} =>
                /\ t.request.operation \in EvaluateOperations
                /\ EvaluateWarranted(t, db)
BY Operations
DEF Warranted, CreateWarranted, ChangeWarranted, PutWarranted,
    PublishWarranted, EvaluateWarranted, EvaluateOperations

LEMMA InsertFlagStep ==
    ASSUME Isolated, NEW client \in Clients, InsertFlag(client)
    PROVE  Isolated' /\ Implements
<1> DEFINE t    == tx[client]
           flag == t.request.flag
<1>1. t.step = "insert_flag" /\ InTransaction(client) /\ Granted(client)
  BY DEF InsertFlag, InTransaction
<1>2. /\ t \in Transaction
      /\ t.request \in Requests
      /\ Warranted(t, database)
      /\ LocksOrdered(t)
  BY <1>1, OpenTransaction
<1>3. t.request.operation = "create_flag" /\ CreateWarranted(t, database)
  BY <1>1, <1>2, StepKinds
<1>4. flag \in FlagKeys
  BY <1>2, <1>3, Kinds
<1>5. CASE database.flags[flag].revision # 0
  <2>1. Plan(database, t.request).status = "AlreadyExists"
    BY <1>3, <1>5 DEF Plan, PlanCreateFlag, Refused
  <2>2. Refusal(client, "AlreadyExists")
    BY <1>5 DEF InsertFlag
  <2>3. QED
    BY <1>1, <2>1, <2>2, RefusalStep
<1>6. CASE database.flags[flag].revision = 0
  <2> DEFINE new == [Locked(t) EXCEPT !.step = "commit"]
  <2>1. LocksWanted(t) = {FlagLock(flag, "exclusive")}
    BY <1>1 DEF LocksWanted, FlagOf
  <2>2. FlagLock(flag, "exclusive")
          \in [row: Rows, mode: {"exclusive", "shared"}]
    BY <1>4, RowLocks
  <2>3. /\ new \in Transaction
        /\ new.step = "commit"
        /\ new.request = t.request
        /\ new.locks = t.locks \union {FlagLock(flag, "exclusive")}
        /\ new.seen = t.seen
    BY <1>2, <2>1, <2>2 DEF Transaction, Steps, Locked
  <2>4. Advance(client, new)
    BY <1>6 DEF InsertFlag
  <2> HIDE DEF new
  <2>5. LocksOrdered(new)
    BY <1>1, <1>2, <2>3, LockKinds, HeldOn DEF LocksOrdered, Steps
  <2>6. Warranted(new, database)
    BY <1>1, <1>2, <1>3, <1>6, <2>3
    DEF Warranted, CreateWarranted, EvaluateOperations
  <2>7. QED
    BY <1>1, <2>1, <2>3, <2>4, <2>5, <2>6, AdvanceStep DEF Live
<1>7. QED
  BY <1>5, <1>6

\* The exclusive lock of a flag, taken and its row remembered.
LEMMA LockFlagAdvances ==
    ASSUME Isolated, NEW client \in Clients, InTransaction(client),
           tx[client].step = "lock_flag", Granted(client),
           NEW next \in {"lock_published", "commit"},
           next = "lock_published" <=>
             tx[client].request.operation = "publish_ruleset",
           database.flags[tx[client].request.flag].revision # 0,
           FlagVerdict(database.flags[tx[client].request.flag],
                       tx[client].request.expected) = "Current",
           next = "lock_published" =>
             Valid(database.flags[tx[client].request.flag].value_type,
                   tx[client].request.definition),
           Advance(client,
             [Locked(tx[client]) EXCEPT
                !.seen.flags[tx[client].request.flag]
                  = database.flags[tx[client].request.flag],
                !.step = next])
    PROVE  Isolated' /\ Implements
<1> DEFINE t   == tx[client]
           key == t.request.flag
           new == [Locked(t) EXCEPT !.seen.flags[key] = database.flags[key],
                                    !.step = next]
<1>1. /\ t \in Transaction
      /\ t.request \in Requests
      /\ Warranted(t, database)
      /\ LocksOrdered(t)
      /\ database.flags \in [FlagKeys -> FlagRecord]
  BY OpenTransaction
<1>2. /\ t.request.operation
           \in {"update_flag", "archive_flag", "publish_ruleset"}
      /\ key \in FlagKeys
  BY <1>1, StepKinds, Kinds
<1>3. LocksWanted(t) = {FlagLock(key, "exclusive")}
  BY DEF LocksWanted, FlagOf, Existing
<1>4. FlagLock(key, "exclusive") \in [row: Rows, mode: {"exclusive", "shared"}]
  BY <1>2, RowLocks
<1>5. /\ Locked(t) \in Transaction
      /\ Locked(t).request = t.request
      /\ Locked(t).locks = t.locks \union {FlagLock(key, "exclusive")}
      /\ Locked(t).seen = t.seen
  BY <1>1, <1>3, <1>4 DEF Transaction, Locked
<1>6. /\ new \in Transaction
      /\ new.step = next
      /\ new.request = t.request
      /\ new.locks = t.locks \union {FlagLock(key, "exclusive")}
      /\ new.seen.flags[key] = database.flags[key]
  BY <1>1, <1>2, <1>5 DEF Transaction, Steps
<1>7. Advance(client, new)
  OBVIOUS
<1> HIDE DEF new
<1>8. LocksOrdered(new)
  BY <1>1, <1>6, LockKinds, HeldOn DEF LocksOrdered, Steps
<1>9. FlagHeld(new, database)
  BY <1>6 DEF FlagHeld
<1>10. Warranted(new, database)
  BY <1>1, <1>2, <1>6, <1>9
  DEF Warranted, ChangeWarranted, PublishWarranted, EvaluateOperations
<1>11. QED
  BY <1>3, <1>6, <1>7, <1>8, <1>10, AdvanceStep DEF Live

LEMMA LockFlagStep ==
    ASSUME Isolated, NEW client \in Clients, LockFlag(client)
    PROVE  Isolated' /\ Implements
<1> DEFINE t         == tx[client]
           request   == t.request
           flag      == database.flags[request.flag]
           verdict   == FlagVerdict(flag, request.expected)
           publishes == request.operation = "publish_ruleset"
           validity  == IF publishes
                        THEN ValidateRuleset(flag.value_type, request.definition)
                        ELSE "Valid"
<1>1. t.step = "lock_flag" /\ InTransaction(client) /\ Granted(client)
  BY DEF LockFlag, InTransaction
<1>2. request \in Requests /\ Warranted(t, database)
  BY <1>1, OpenTransaction
<1>3. request.operation \in {"update_flag", "archive_flag", "publish_ruleset"}
  BY <1>1, <1>2, StepKinds
<1>4. Plan(database, request) = IF publishes
                                THEN PlanPublishRuleset(database, request)
                                ELSE PlanChangeFlag(database, request)
  BY <1>3 DEF Plan
<1>5. CASE flag.revision = 0
  <2>1. Plan(database, request).status = "NotFound"
    BY <1>4, <1>5 DEF PlanPublishRuleset, PlanChangeFlag, Refused
  <2>2. Refusal(client, "NotFound")
    BY <1>5 DEF LockFlag
  <2>3. QED
    BY <1>1, <2>1, <2>2, RefusalStep
<1>6. CASE flag.revision # 0 /\ verdict # "Current"
  <2>1. Plan(database, request).status = verdict
    BY <1>4, <1>6 DEF PlanPublishRuleset, PlanChangeFlag, Refused
  <2>2. Refusal(client, verdict) /\ verdict # "Planned"
    BY <1>6 DEF LockFlag, FlagVerdict
  <2>3. QED
    BY <1>1, <2>1, <2>2, RefusalStep
<1>7. CASE flag.revision # 0 /\ verdict = "Current" /\ validity # "Valid"
  <2>1. Plan(database, request).status = validity
    BY <1>4, <1>7 DEF PlanPublishRuleset, Refused
  <2>2. Refusal(client, validity) /\ validity # "Planned"
    BY <1>7 DEF LockFlag, ValidateRuleset
  <2>3. QED
    BY <1>1, <2>1, <2>2, RefusalStep
<1>8. CASE flag.revision # 0 /\ verdict = "Current" /\ validity = "Valid"
  <2> DEFINE next == IF publishes THEN "lock_published" ELSE "commit"
  <2>1. Advance(client,
          [Locked(t) EXCEPT !.seen.flags[request.flag] = flag, !.step = next])
    BY <1>8 DEF LockFlag
  <2>2. /\ next \in {"lock_published", "commit"}
        /\ next = "lock_published" <=> publishes
    OBVIOUS
  <2>3. publishes => Valid(flag.value_type, request.definition)
    BY <1>8 DEF Valid
  <2> HIDE DEF next
  <2>4. QED
    BY <1>1, <1>8, <2>1, <2>2, <2>3, LockFlagAdvances
<1>9. QED
  BY <1>5, <1>6, <1>7, <1>8

LEMMA LockEnvironmentStep ==
    ASSUME Isolated, NEW client \in Clients, LockEnvironment(client)
    PROVE  Isolated' /\ Implements
<1> DEFINE t           == tx[client]
           request     == t.request
           key         == request.environment
           environment == database.environments[key]
           expected    == request.expected
<1>1. t.step = "lock_environment" /\ InTransaction(client) /\ Granted(client)
  BY DEF LockEnvironment, InTransaction
<1>2. /\ t \in Transaction
      /\ request \in Requests
      /\ Warranted(t, database)
      /\ LocksOrdered(t)
      /\ database.environments \in [EnvironmentKeys -> EnvironmentRecord]
  BY <1>1, OpenTransaction
<1>3. request.operation = "put_environment" /\ PutWarranted(t, database)
  BY <1>1, <1>2, StepKinds
<1>4. key \in EnvironmentKeys
  BY <1>2, <1>3, Kinds
<1>5. Plan(database, request) = PlanPutEnvironment(database, request)
  BY <1>3 DEF Plan
<1>6. CASE environment.revision = 0 /\ expected # 0
  <2>1. Plan(database, request).status = "NotFound"
    BY <1>5, <1>6 DEF PlanPutEnvironment, Refused
  <2>2. Refusal(client, "NotFound")
    BY <1>6 DEF LockEnvironment
  <2>3. QED
    BY <1>1, <2>1, <2>2, RefusalStep
<1>7. CASE environment.revision # 0 /\ expected = 0
  <2>1. Plan(database, request).status = "AlreadyExists"
    BY <1>5, <1>7 DEF PlanPutEnvironment, Refused
  <2>2. Refusal(client, "AlreadyExists")
    BY <1>7 DEF LockEnvironment
  <2>3. QED
    BY <1>1, <2>1, <2>2, RefusalStep
<1>8. CASE /\ environment.revision # 0
           /\ expected # 0
           /\ environment.revision # expected
  <2>1. Plan(database, request).status = "RevisionConflict"
    BY <1>5, <1>8 DEF PlanPutEnvironment, Refused
  <2>2. Refusal(client, "RevisionConflict")
    BY <1>8 DEF LockEnvironment
  <2>3. QED
    BY <1>1, <2>1, <2>2, RefusalStep
<1>9. CASE environment.revision = 0 /\ expected = 0
  <2> DEFINE new == [t EXCEPT !.step = "insert_environment"]
  <2>1. /\ new \in Transaction
        /\ new.step = "insert_environment"
        /\ new.request = request
        /\ new.locks = t.locks
        /\ new.seen = t.seen
    BY <1>2 DEF Transaction, Steps
  <2>2. Advance(client, new)
    BY <1>9 DEF LockEnvironment
  <2> HIDE DEF new
  <2>3. LocksOrdered(new)
    BY <1>1, <1>2, <2>1, HeldOn DEF LocksOrdered, Steps
  <2>4. Warranted(new, database)
    BY <1>1, <1>2, <1>3, <1>9, <2>1
    DEF Warranted, PutWarranted, EvaluateOperations
  <2>5. QED
    BY <1>1, <2>1, <2>2, <2>3, <2>4, AdvanceStep DEF Live
<1>10. CASE /\ environment.revision # 0
            /\ expected # 0
            /\ environment.revision = expected
  <2> DEFINE new == [Locked(t) EXCEPT !.seen.environments[key] = environment,
                                      !.step = "commit"]
  <2>1. LocksWanted(t) = {EnvironmentLock(key)}
    BY <1>1, <1>10 DEF LocksWanted, Existing
  <2>2. EnvironmentLock(key) \in [row: Rows, mode: {"exclusive", "shared"}]
    BY <1>4, RowLocks
  <2>3. /\ Locked(t) \in Transaction
        /\ Locked(t).request = request
        /\ Locked(t).locks = t.locks \union {EnvironmentLock(key)}
        /\ Locked(t).seen = t.seen
    BY <1>2, <2>1, <2>2 DEF Transaction, Locked
  <2>4. /\ new \in Transaction
        /\ new.step = "commit"
        /\ new.request = request
        /\ new.locks = t.locks \union {EnvironmentLock(key)}
        /\ new.seen.environments[key] = environment
    BY <1>2, <1>4, <2>3 DEF Transaction, Steps
  <2>5. Advance(client, new)
    BY <1>10 DEF LockEnvironment
  <2> HIDE DEF new
  <2>6. LocksOrdered(new)
    BY <1>1, <1>2, <2>4, LockKinds, HeldOn DEF LocksOrdered, Steps
  <2>7. EnvironmentHeld(new, database)
    BY <2>4 DEF EnvironmentHeld
  <2>8. Warranted(new, database)
    BY <1>1, <1>2, <1>3, <1>10, <2>4, <2>7
    DEF Warranted, PutWarranted, EvaluateOperations
  <2>9. QED
    BY <1>1, <2>1, <2>4, <2>5, <2>6, <2>8, AdvanceStep DEF Live
<1>11. QED
  BY <1>6, <1>7, <1>8, <1>9, <1>10

LEMMA InsertEnvironmentStep ==
    ASSUME Isolated, NEW client \in Clients, InsertEnvironment(client)
    PROVE  Isolated' /\ Implements
<1> DEFINE t           == tx[client]
           request     == t.request
           key         == request.environment
           environment == database.environments[key]
<1>1. t.step = "insert_environment" /\ InTransaction(client) /\ Granted(client)
  BY DEF InsertEnvironment, InTransaction
<1>2. /\ t \in Transaction
      /\ request \in Requests
      /\ Warranted(t, database)
      /\ LocksOrdered(t)
      /\ database.environments \in [EnvironmentKeys -> EnvironmentRecord]
  BY <1>1, OpenTransaction
<1>3. /\ request.operation = "put_environment"
      /\ t.seen = NothingSeen
      /\ request.expected = 0
  BY <1>1, <1>2, StepKinds DEF PutWarranted
<1>4. key \in EnvironmentKeys
  BY <1>2, <1>3, Kinds
<1>5. CASE environment.revision # 0
  <2>1. Plan(database, request).status = "AlreadyExists"
    BY <1>3, <1>5 DEF Plan, PlanPutEnvironment, Refused
  <2>2. Refusal(client, "AlreadyExists")
    BY <1>5 DEF InsertEnvironment
  <2>3. QED
    BY <1>1, <2>1, <2>2, RefusalStep
<1>6. CASE environment.revision = 0
  <2> DEFINE new == [Locked(t) EXCEPT !.step = "commit"]
  <2>1. LocksWanted(t) = {EnvironmentLock(key)}
    BY <1>1 DEF LocksWanted
  <2>2. EnvironmentLock(key) \in [row: Rows, mode: {"exclusive", "shared"}]
    BY <1>4, RowLocks
  <2>3. /\ new \in Transaction
        /\ new.step = "commit"
        /\ new.request = request
        /\ new.locks = t.locks \union {EnvironmentLock(key)}
        /\ new.seen = NothingSeen
    BY <1>2, <1>3, <2>1, <2>2 DEF Transaction, Steps, Locked
  <2>4. Advance(client, new)
    BY <1>6 DEF InsertEnvironment
  <2> HIDE DEF new
  <2>5. LocksOrdered(new)
    BY <1>1, <1>2, <2>3, LockKinds, HeldOn DEF LocksOrdered, Steps
  <2>6. environment = NoEnvironment
    BY <1>2, <1>4, <1>6 DEF EnvironmentRecord, NoEnvironment
  <2>7. EnvironmentHeld(new, database)
    BY <1>4, <2>3, <2>6 DEF EnvironmentHeld, NothingSeen
  <2>8. Warranted(new, database)
    BY <1>1, <1>2, <1>3, <1>6, <2>3, <2>7
    DEF Warranted, PutWarranted, EvaluateOperations
  <2>9. QED
    BY <1>1, <2>1, <2>3, <2>4, <2>5, <2>8, AdvanceStep DEF Live
<1>7. QED
  BY <1>5, <1>6

LEMMA LockPublishedEnvironmentStep ==
    ASSUME Isolated, NEW client \in Clients, LockPublishedEnvironment(client)
    PROVE  Isolated' /\ Implements
<1> DEFINE t           == tx[client]
           request     == t.request
           key         == request.environment
           environment == database.environments[key]
<1>1. t.step = "lock_published" /\ InTransaction(client) /\ Granted(client)
  BY DEF LockPublishedEnvironment, InTransaction
<1>2. /\ t \in Transaction
      /\ request \in Requests
      /\ Warranted(t, database)
      /\ LocksOrdered(t)
      /\ database.environments \in [EnvironmentKeys -> EnvironmentRecord]
  BY <1>1, OpenTransaction
<1>3. request.operation = "publish_ruleset" /\ PublishWarranted(t, database)
  BY <1>1, <1>2, StepKinds
<1>4. key \in EnvironmentKeys /\ request.flag \in FlagKeys
  BY <1>2, <1>3, Kinds
<1>5. /\ FlagHeld(t, database)
      /\ Valid(database.flags[request.flag].value_type, request.definition)
  BY <1>1, <1>3 DEF PublishWarranted
<1>6. Plan(database, request) = PlanPublishRuleset(database, request)
  BY <1>3 DEF Plan
<1>7. CASE environment.revision = 0
  <2>1. Plan(database, request).status = "NotFound"
    BY <1>5, <1>6, <1>7 DEF PlanPublishRuleset, Refused, FlagHeld, Valid
  <2>2. Refusal(client, "NotFound")
    BY <1>7 DEF LockPublishedEnvironment
  <2>3. QED
    BY <1>1, <2>1, <2>2, RefusalStep
<1>8. CASE /\ environment.revision # 0
           /\ environment.revision # request.expected_environment
  <2>1. Plan(database, request).status = "RevisionConflict"
    BY <1>5, <1>6, <1>8 DEF PlanPublishRuleset, Refused, FlagHeld, Valid
  <2>2. Refusal(client, "RevisionConflict")
    BY <1>8 DEF LockPublishedEnvironment
  <2>3. QED
    BY <1>1, <2>1, <2>2, RefusalStep
<1>9. CASE /\ environment.revision # 0
           /\ environment.revision = request.expected_environment
  <2> DEFINE new == [Locked(t) EXCEPT !.seen.environments[key] = environment,
                                      !.step = "allocate"]
  <2>1. LocksWanted(t) = {EnvironmentLock(key)}
    BY <1>1, <1>9 DEF LocksWanted, Existing
  <2>2. EnvironmentLock(key) \in [row: Rows, mode: {"exclusive", "shared"}]
    BY <1>4, RowLocks
  <2>3. /\ Locked(t) \in Transaction
        /\ Locked(t).request = request
        /\ Locked(t).locks = t.locks \union {EnvironmentLock(key)}
        /\ Locked(t).seen = t.seen
    BY <1>2, <2>1, <2>2 DEF Transaction, Locked
  <2>4. /\ new \in Transaction
        /\ new.step = "allocate"
        /\ new.request = request
        /\ new.locks = t.locks \union {EnvironmentLock(key)}
        /\ new.seen.environments[key] = environment
        /\ new.seen.flags = t.seen.flags
    BY <1>2, <1>4, <2>3 DEF Transaction, Steps
  <2>5. Advance(client, new)
    BY <1>9 DEF LockPublishedEnvironment
  <2> HIDE DEF new
  <2>6. LocksOrdered(new)
    BY <1>1, <1>2, <2>4, LockKinds, HeldOn DEF LocksOrdered, Steps
  <2>7. EnvironmentHeld(new, database) /\ FlagHeld(new, database)
    BY <1>5, <2>4 DEF EnvironmentHeld, FlagHeld
  <2>8. Warranted(new, database)
    BY <1>1, <1>2, <1>3, <1>5, <1>9, <2>4, <2>7
    DEF Warranted, PublishWarranted, EvaluateOperations
  <2>9. QED
    BY <1>1, <2>1, <2>4, <2>5, <2>6, <2>8, AdvanceStep DEF Live
<1>10. QED
  BY <1>7, <1>8, <1>9

LEMMA AllocateRevisionStep ==
    ASSUME Isolated, NEW client \in Clients, AllocateRevision(client)
    PROVE  Isolated' /\ Implements
<1> DEFINE t       == tx[client]
           request == t.request
           latest  == LatestRows(request.flag, request.environment)
           new     == [t EXCEPT !.seen.rulesets = latest, !.step = "commit"]
<1>1. t.step = "allocate" /\ InTransaction(client)
  BY DEF AllocateRevision, InTransaction
<1>2. /\ t \in Transaction
      /\ request \in Requests
      /\ Warranted(t, database)
      /\ LocksOrdered(t)
      /\ database.rulesets \subseteq RulesetRow
  BY <1>1, OpenTransaction
<1>3. request.operation = "publish_ruleset" /\ PublishWarranted(t, database)
  BY <1>1, <1>2, StepKinds
<1>4. /\ latest \subseteq RulesetRow
      /\ latest = LatestOf(database, request.flag, request.environment)
  BY <1>2 DEF LatestRows, LatestOf, Published
<1>5. Advance(client, new)
  BY DEF AllocateRevision
<1> HIDE DEF latest
<1>6. /\ new \in Transaction
      /\ new.step = "commit"
      /\ new.request = request
      /\ new.locks = t.locks
      /\ new.seen.flags = t.seen.flags
      /\ new.seen.environments = t.seen.environments
      /\ new.seen.rulesets = latest
  BY <1>2, <1>4 DEF Transaction, Steps
<1> HIDE DEF new
<1>7. LocksOrdered(new)
  BY <1>1, <1>2, <1>6, HeldOn DEF LocksOrdered, Steps
<1>8. Warranted(new, database)
  BY <1>1, <1>2, <1>3, <1>4, <1>6
  DEF Warranted, PublishWarranted, FlagHeld, EnvironmentHeld, EvaluateOperations
<1>9. QED
  BY <1>1, <1>5, <1>6, <1>7, <1>8, AdvanceStep DEF Live

\* The first flag that does not evaluate refuses the whole request.
LEMMA FirstRefusal ==
    ASSUME NEW db, NEW t \in Transaction, t.request \in Evaluate,
           t.step # "commit", EvaluateWarranted(t, db),
           EvaluationVerdict(db, t.request, t.request.flags[t.at]) # "Chosen"
    PROVE  PlanEvaluate(db, t.request).status
             = EvaluationVerdict(db, t.request, t.request.flags[t.at])
<1> DEFINE flags      == t.request.flags
           verdict(i) == EvaluationVerdict(db, t.request, flags[i])
           failing    == {i \in DOMAIN flags : verdict(i) # "Chosen"}
<1>1. flags \in Seq(FlagKeys) /\ t.at \in DOMAIN flags
  BY DEF Evaluate, EvaluateWarranted
<1>2. failing \in SUBSET Nat /\ t.at \in failing
  BY <1>1
<1>3. \A i \in failing : ~(i < t.at)
  BY DEF EvaluateWarranted, Evaluated, FlagEvaluated
<1>4. PlanEvaluate(db, t.request) = Refused(verdict(Min(failing)))
  BY <1>2 DEF PlanEvaluate
<1> HIDE DEF failing
<1>5. Min(failing) \in failing /\ Min(failing) =< t.at
  <2>1. failing \in SUBSET Nat /\ failing # {}
    BY <1>2
  <2>2. Min(failing) \in failing /\ \A n \in failing : Min(failing) =< n
    BY <2>1, MinOfNaturals
  <2>3. QED
    BY <1>2, <2>2
<1>6. Min(failing) = t.at
  <2>1. Min(failing) \in Nat /\ t.at \in Nat
    BY <1>2, <1>5
  <2>2. ~(Min(failing) < t.at)
    BY <1>3, <1>5
  <2>3. QED
    BY <1>5, <2>1, <2>2
<1>7. PlanEvaluate(db, t.request) = Refused(verdict(t.at))
  BY <1>4, <1>6
<1>8. QED
  BY <1>7 DEF Refused

LEMMA ShareFlagStep ==
    ASSUME Isolated, NEW client \in Clients, ShareFlag(client)
    PROVE  Isolated' /\ Implements
<1> DEFINE t       == tx[client]
           request == t.request
           key     == request.flags[t.at]
           flag    == database.flags[key]
<1>1. t.step = "share_flag" /\ InTransaction(client) /\ Granted(client)
  BY DEF ShareFlag, InTransaction
<1>2. /\ t \in Transaction
      /\ request \in Requests
      /\ Warranted(t, database)
      /\ LocksOrdered(t)
      /\ database.flags \in [FlagKeys -> FlagRecord]
  BY <1>1, OpenTransaction
<1>3. /\ request.operation \in EvaluateOperations
      /\ EvaluateWarranted(t, database)
      /\ FlagOf(t) = key
  BY <1>1, <1>2, StepKinds DEF FlagOf
<1>4. /\ request \in Evaluate
      /\ \A i \in DOMAIN request.flags : request.flags[i] \in FlagKeys
      /\ t.at \in DOMAIN request.flags
  BY <1>2, <1>3, Kinds DEF EvaluateWarranted
<1>5. Plan(database, request) = PlanEvaluate(database, request)
  BY <1>3 DEF Plan, EvaluateOperations
<1>6. CASE flag.revision = 0 \/ flag.archived
  <2> DEFINE failure == IF flag.revision = 0 THEN "FlagNotFound" ELSE "Archived"
  <2>1. EvaluationVerdict(database, request, key) = failure
    BY <1>6 DEF EvaluationVerdict
  <2>2. Refusal(client, failure)
    BY <1>3, <1>6 DEF ShareFlag
  <2>3. failure # "Chosen" /\ failure # "Planned"
    OBVIOUS
  <2> HIDE DEF failure
  <2>4. Plan(database, request).status = failure
    BY <1>1, <1>2, <1>3, <1>4, <1>5, <2>1, <2>3, FirstRefusal
  <2>5. QED
    BY <1>1, <2>2, <2>3, <2>4, RefusalStep
<1>7. CASE flag.revision # 0 /\ ~flag.archived
  <2> DEFINE new == [Locked(t) EXCEPT !.seen.flags[key] = flag,
                                      !.step = "read_ruleset"]
  <2>1. LocksWanted(t) = {FlagLock(key, "shared")}
    BY <1>1, <1>3, <1>7 DEF LocksWanted, Existing
  <2>2. FlagLock(key, "shared") \in [row: Rows, mode: {"exclusive", "shared"}]
    BY <1>4, RowLocks
  <2>3. /\ Locked(t) \in Transaction
        /\ Locked(t).request = request
        /\ Locked(t).locks = t.locks \union {FlagLock(key, "shared")}
        /\ Locked(t).seen = t.seen
        /\ Locked(t).at = t.at
    BY <1>2, <2>1, <2>2 DEF Transaction, Locked
  <2>4. /\ new \in Transaction
        /\ new.step = "read_ruleset"
        /\ new.request = request
        /\ new.at = t.at
        /\ new.locks = t.locks \union {FlagLock(key, "shared")}
        /\ new.seen.flags = [t.seen.flags EXCEPT ![key] = flag]
        /\ new.seen.environments = t.seen.environments
        /\ new.seen.rulesets = t.seen.rulesets
        /\ t.seen.flags \in [FlagKeys -> FlagRecord]
    BY <1>2, <1>4, <2>3 DEF Transaction, Steps
  <2>5. Advance(client, new)
    BY <1>3, <1>7 DEF ShareFlag
  <2> HIDE DEF new
  <2>6. LocksOrdered(new)
    BY <1>1, <1>2, <2>4, LockKinds, HeldOn DEF LocksOrdered, Steps
  <2>7. FlagShared(new, database, key)
    BY <1>4, <2>4 DEF FlagShared
  <2>8. Evaluated(new) = Evaluated(t)
    BY <1>1, <2>4 DEF Evaluated
  <2>9. ASSUME NEW i \in Evaluated(new)
        PROVE  FlagEvaluated(new, database, request.flags[i])
    <3>1. i \in DOMAIN request.flags
      BY <2>4 DEF Evaluated
    <3>2. FlagEvaluated(t, database, request.flags[i])
      BY <1>3, <2>8 DEF EvaluateWarranted
    <3>3. FlagShared(new, database, request.flags[i])
      BY <1>4, <2>4, <3>1, <3>2 DEF FlagEvaluated, FlagShared
    <3>4. Published(new.seen, request.flags[i], request.environment)
            = Published(t.seen, request.flags[i], request.environment)
      BY <2>4 DEF Published
    <3>5. QED
      BY <2>4, <3>2, <3>3, <3>4 DEF FlagEvaluated
  <2>10. \A row \in new.seen.rulesets :
           /\ row.environment = new.request.environment
           /\ \E i \in Evaluated(new) : row.flag = new.request.flags[i]
    BY <1>3, <2>4, <2>8 DEF EvaluateWarranted
  <2>11. \A i \in Evaluated(new) :
           FlagEvaluated(new, database, new.request.flags[i])
    BY <2>4, <2>9
  <2>12. /\ new.at \in DOMAIN new.request.flags
         /\ FlagShared(new, database, new.request.flags[new.at])
         /\ database.flags[new.request.flags[new.at]].revision # 0
         /\ ~database.flags[new.request.flags[new.at]].archived
    BY <1>4, <1>7, <2>4, <2>7
  <2>13. EvaluateWarranted(new, database)
    BY <2>4, <2>10, <2>11, <2>12 DEF EvaluateWarranted
  <2>14. Warranted(new, database)
    BY <1>1, <1>2, <1>3, <2>4, <2>13 DEF Warranted, EvaluateOperations
  <2>15. QED
    BY <1>1, <2>1, <2>4, <2>5, <2>6, <2>14, AdvanceStep DEF Live
<1>8. QED
  BY <1>6, <1>7

\* A flag that has been read and found to evaluate, and then the next one.
LEMMA ReadRulesetAdvances ==
    ASSUME Isolated, NEW client \in Clients,
           tx[client].step = "read_ruleset",
           EvaluationVerdict(database, tx[client].request,
                             tx[client].request.flags[tx[client].at]) = "Chosen",
           NEW new \in Transaction,
           new.request = tx[client].request,
           new.locks = tx[client].locks,
           new.seen.flags = tx[client].seen.flags,
           new.seen.environments[new.request.environment]
             = database.environments[new.request.environment],
           new.seen.rulesets = tx[client].seen.rulesets
             \union LatestOf(database, new.request.flags[tx[client].at],
                             new.request.environment),
           \/ /\ tx[client].at < Len(new.request.flags)
              /\ new.at = tx[client].at + 1
              /\ new.step = "share_flag"
           \/ /\ ~(tx[client].at < Len(new.request.flags))
              /\ new.at = tx[client].at
              /\ new.step = "commit",
           Advance(client, new)
    PROVE  Isolated' /\ Implements
<1> DEFINE t           == tx[client]
           request     == t.request
           environment == request.environment
           key         == request.flags[t.at]
           latest      == LatestOf(database, key, environment)
<1>1. InTransaction(client)
  BY DEF InTransaction
<1>2. /\ t \in Transaction
      /\ request \in Requests
      /\ Warranted(t, database)
      /\ LocksOrdered(t)
  BY <1>1, OpenTransaction
<1>3. /\ request.operation \in EvaluateOperations
      /\ EvaluateWarranted(t, database)
  BY <1>2, StepKinds
<1>4. /\ request \in Evaluate
      /\ request.flags \in Seq(FlagKeys)
      /\ t.at \in DOMAIN request.flags
  BY <1>2, <1>3, Kinds DEF EvaluateWarranted
<1>5. FlagShared(t, database, key)
  BY <1>3 DEF EvaluateWarranted
<1>6. database.environments[environment].revision # 0
  BY DEF EvaluationVerdict
<1>7. Evaluated(new) = Evaluated(t) \union {t.at}
  <2>1. /\ DOMAIN request.flags = 1 .. Len(request.flags)
        /\ Len(request.flags) \in Nat
    BY <1>4
  <2>2. Evaluated(t) = {i \in 1 .. Len(request.flags) : i < t.at}
    BY <2>1 DEF Evaluated
  <2>3. Evaluated(new) = {i \in 1 .. Len(request.flags) :
                            i < new.at \/ new.step = "commit"}
    BY <2>1 DEF Evaluated
  <2>4. CASE t.at < Len(request.flags)
    <3>1. new.at = t.at + 1 /\ new.step = "share_flag"
      BY <2>4
    <3>2. QED
      BY <1>4, <2>1, <2>2, <2>3, <3>1
  <2>5. CASE ~(t.at < Len(request.flags))
    <3>1. new.at = t.at /\ new.step = "commit"
      BY <2>5
    <3>2. QED
      BY <1>4, <2>1, <2>2, <2>3, <2>5, <3>1
  <2>6. QED
    BY <2>4, <2>5
<1>8. \A row \in latest : row.flag = key /\ row.environment = environment
  BY DEF LatestOf, Published
<1>9. \A flag :
        /\ flag = key => Published(new.seen, flag, environment)
                           = Published(t.seen, flag, environment) \union latest
        /\ flag # key => Published(new.seen, flag, environment)
                           = Published(t.seen, flag, environment)
  BY <1>8 DEF Published
<1>10. \A i \in Evaluated(t) :
         Published(t.seen, request.flags[i], environment)
           = LatestOf(database, request.flags[i], environment)
  BY <1>3 DEF EvaluateWarranted, FlagEvaluated
<1>11. \A i \in Evaluated(new) :
         Published(new.seen, request.flags[i], environment)
           = LatestOf(database, request.flags[i], environment)
  <2>1. ASSUME NEW i \in Evaluated(t)
        PROVE  Published(new.seen, request.flags[i], environment)
                 = LatestOf(database, request.flags[i], environment)
    <3>1. CASE request.flags[i] = key
      <4>1. Published(t.seen, key, environment) = latest
        BY <1>10, <3>1
      <4>2. Published(new.seen, key, environment) = latest
        BY <1>9, <4>1
      <4>3. QED
        BY <3>1, <4>2
    <3>2. CASE request.flags[i] # key
      BY <1>9, <1>10, <3>2
    <3>3. QED
      BY <3>1, <3>2
  <2>2. Published(new.seen, key, environment) = latest
    <3>1. CASE \E i \in Evaluated(t) : request.flags[i] = key
      BY <2>1, <3>1
    <3>2. CASE ~\E i \in Evaluated(t) : request.flags[i] = key
      <4>1. Published(t.seen, key, environment) = {}
        BY <1>3, <3>2 DEF EvaluateWarranted, Published
      <4>2. QED
        BY <1>9, <4>1
    <3>3. QED
      BY <3>1, <3>2
  <2>3. QED
    BY <1>7, <2>1, <2>2
<1> HIDE DEF latest
<1>12. ASSUME NEW i \in Evaluated(new)
       PROVE  FlagEvaluated(new, database, request.flags[i])
  <2>1. /\ FlagShared(t, database, request.flags[i])
        /\ EvaluationVerdict(database, request, request.flags[i]) = "Chosen"
    BY <1>3, <1>5, <1>7 DEF EvaluateWarranted, FlagEvaluated
  <2>2. FlagShared(new, database, request.flags[i])
    BY <2>1 DEF FlagShared
  <2>3. QED
    BY <1>6, <1>11, <2>1, <2>2 DEF FlagEvaluated
<1>13. ASSUME NEW row \in new.seen.rulesets
       PROVE  /\ row.environment = environment
              /\ \E i \in Evaluated(new) : row.flag = request.flags[i]
  <2>1. row \in t.seen.rulesets \/ row \in latest
    BY DEF latest
  <2>2. QED
    BY <1>3, <1>7, <1>8, <2>1 DEF EvaluateWarranted
<1>14. new.at \in DOMAIN request.flags
  BY <1>4
<1>15. EvaluateWarranted(new, database)
  BY <1>12, <1>13, <1>14 DEF EvaluateWarranted
<1>16. Warranted(new, database)
  BY <1>2, <1>3, <1>15 DEF Warranted, EvaluateOperations
<1>17. LocksOrdered(new)
  BY <1>2, HeldOn DEF LocksOrdered, Steps
<1>18. QED
  BY <1>1, <1>16, <1>17, AdvanceStep DEF Live

LEMMA ReadRulesetStep ==
    ASSUME Isolated, NEW client \in Clients, ReadRuleset(client)
    PROVE  Isolated' /\ Implements
<1> DEFINE t           == tx[client]
           request     == t.request
           key         == request.flags[t.at]
           environment == database.environments[request.environment]
           latest      == LatestRows(FlagOf(t), request.environment)
           read        == [t.seen EXCEPT
                             !.environments[request.environment] = environment,
                             !.rulesets = latest]
           verdict     == EvaluationVerdict(read, request, FlagOf(t))
           new         == [t EXCEPT
                 !.seen.environments[request.environment] = environment,
                 !.seen.rulesets = @ \union latest,
                 !.at = IF t.at < Len(request.flags) THEN t.at + 1 ELSE t.at,
                 !.step = IF t.at < Len(request.flags) THEN "share_flag"
                          ELSE "commit"]
<1>1. t.step = "read_ruleset" /\ InTransaction(client)
  BY DEF ReadRuleset, InTransaction
<1>2. /\ t \in Transaction
      /\ request \in Requests
      /\ Warranted(t, database)
      /\ database.environments \in [EnvironmentKeys -> EnvironmentRecord]
      /\ database.rulesets \subseteq RulesetRow
  BY <1>1, OpenTransaction
<1>3. /\ request.operation \in EvaluateOperations
      /\ EvaluateWarranted(t, database)
      /\ FlagOf(t) = key
  BY <1>1, <1>2, StepKinds DEF FlagOf
<1>4. /\ request \in Evaluate
      /\ request.flags \in Seq(FlagKeys)
      /\ t.at \in DOMAIN request.flags
      /\ key \in FlagKeys
      /\ request.environment \in EnvironmentKeys
  BY <1>2, <1>3, Kinds DEF EvaluateWarranted
<1>5. FlagShared(t, database, key)
  BY <1>1, <1>3 DEF EvaluateWarranted
<1>6. /\ latest = LatestOf(database, key, request.environment)
      /\ latest \subseteq RulesetRow
  BY <1>2, <1>3 DEF LatestRows, LatestOf, Published
<1>7. /\ read.flags = t.seen.flags
      /\ read.environments[request.environment] = environment
      /\ read.rulesets = latest
  BY <1>2, <1>4 DEF Transaction
<1>8. /\ new \in Transaction
      /\ new.request = request
      /\ new.locks = t.locks
      /\ new.seen.flags = t.seen.flags
      /\ new.seen.environments[request.environment] = environment
      /\ new.seen.rulesets = t.seen.rulesets \union latest
      /\ new.at = IF t.at < Len(request.flags) THEN t.at + 1 ELSE t.at
      /\ new.step = IF t.at < Len(request.flags) THEN "share_flag" ELSE "commit"
  <2> HIDE DEF latest
  <2>1. environment \in EnvironmentRecord
    BY <1>2, <1>4
  <2>2. t.at \in Nat
    BY <1>2 DEF Transaction
  <2> DEFINE at   == IF t.at < Len(request.flags) THEN t.at + 1 ELSE t.at
             step == IF t.at < Len(request.flags) THEN "share_flag"
                     ELSE "commit"
  <2>3. at \in Nat /\ step \in Steps
    <3>1. CASE t.at < Len(request.flags)
      BY <2>2, <3>1 DEF Steps
    <3>2. CASE ~(t.at < Len(request.flags))
      BY <2>2, <3>2 DEF Steps
    <3>3. QED
      BY <3>1, <3>2
  <2> HIDE DEF at, step
  <2>4. new = [t EXCEPT
                 !.seen.environments[request.environment] = environment,
                 !.seen.rulesets = @ \union latest,
                 !.at = at,
                 !.step = step]
    BY Zenon DEF at, step
  <2> HIDE DEF new
  <2>5. /\ new \in Transaction
        /\ new.request = request
        /\ new.locks = t.locks
        /\ new.seen.flags = t.seen.flags
        /\ new.seen.environments[request.environment] = environment
        /\ new.seen.rulesets = t.seen.rulesets \union latest
        /\ new.at = at
        /\ new.step = step
    BY <1>2, <1>4, <1>6, <2>1, <2>3, <2>4 DEF Transaction
  <2>6. QED
    BY <2>5 DEF at, step
<1>9. IF verdict # "Chosen" THEN Refusal(client, verdict)
      ELSE Advance(client, new)
  BY DEF ReadRuleset
<1> HIDE DEF new, read, latest
<1>10. verdict = EvaluationVerdict(database, request, key)
  <2>1. read.flags[key] = database.flags[key]
    BY <1>5, <1>7 DEF FlagShared
  <2>2. Published(read, key, request.environment)
          = LatestOf(database, key, request.environment)
    BY <1>6, <1>7, LatestAlone
  <2>3. /\ Published(read, key, request.environment) = {} <=>
             Published(database, key, request.environment) = {}
        /\ Published(database, key, request.environment) # {} =>
             Latest(read, key, request.environment)
               = Latest(database, key, request.environment)
    BY <1>4, <2>2, SeenLatest DEF Isolated
  <2>4. read.environments[request.environment].revision = 0 <=>
          database.environments[request.environment].revision = 0
    BY <1>7
  <2>5. \/ Latest(read, key, request.environment)
             = Latest(database, key, request.environment)
        \/ Published(read, key, request.environment) = {}
    BY <2>3
  <2> HIDE DEF key, request
  <2>6. EvaluationVerdict(read, request, key)
          = EvaluationVerdict(database, request, key)
    BY <2>1, <2>3, <2>4, <2>5, VerdictKept
  <2>7. QED
    BY <1>3, <2>6
<1>11. CASE verdict # "Chosen"
  <2>1. Plan(database, request).status = verdict
    <3>1. Plan(database, request) = PlanEvaluate(database, request)
      BY <1>3 DEF Plan, EvaluateOperations
    <3>2. QED
      BY <1>1, <1>2, <1>3, <1>4, <1>10, <1>11, <3>1, FirstRefusal
  <2>2. verdict # "Planned"
    BY VerdictNeverPlanned
  <2>3. QED
    BY <1>1, <1>9, <1>11, <2>1, <2>2, RefusalStep
<1>12. CASE verdict = "Chosen"
  <2>1. Advance(client, new)
    BY <1>9, <1>12
  <2>2. new.seen.rulesets = t.seen.rulesets
          \union LatestOf(database, key, request.environment)
    BY <1>6, <1>8
  <2>3. QED
    BY <1>1, <1>8, <1>10, <1>12, <2>1, <2>2, ReadRulesetAdvances
<1>13. QED
  BY <1>11, <1>12

-----------------------------------------------------------------------------
(* Steps that write the tables.                                            *)

\* A transaction that commits does what its command plans on the tables, and
\* leaves the other transactions warranted.
LEMMA TransactionCommits ==
    ASSUME Isolated, NEW t, Live(t, database), t.step = "commit",
           database' = Commit(database, t.request, PlanOf(t))
    PROVE  /\ Sound(database')
           /\ ~Recorded(database, t.request)
           /\ Plan(database, t.request).status = "Planned"
           /\ PlanOf(t) = Plan(database, t.request)
           /\ [request |-> t.request, response |-> PlanOf(t).response]
                \in database'.commands
           /\ database.commands \subseteq database'.commands
           /\ \A other : Live(other, database) /\ Compatible(t, other) =>
                Live(other, database')
<1> DEFINE request == t.request
<1>1. /\ t \in Transaction
      /\ request \in Requests
      /\ Warranted(t, database)
  BY DEF Live, Transaction
<1>2. PlanOf(t) = Plan(database, request) /\ Admissible(database, request)
  BY <1>1, CommitPlans DEF Isolated
<1>3. database' = Committed(database, request)
  BY <1>2 DEF Committed
<1>4. Sound(database')
  BY <1>2, <1>3, CommitSound
<1>5. /\ [request |-> request, response |-> PlanOf(t).response]
           \in database'.commands
      /\ database.commands \subseteq database'.commands
  BY <1>2, <1>3 DEF Committed, Commit
<1>6. ASSUME NEW other, Live(other, database), Compatible(t, other)
      PROVE  Live(other, database')
  <2>1. Protected(t)
    BY <1>1, WarrantProtects
  <2>2. other \in Transaction /\ Warranted(other, database)
    BY <1>6 DEF Live
  <2>3. other.step \notin {"select", "insert"} => Apart(other, request)
    BY <1>6, <2>1, <2>2, ProtectedApart DEF Warranted
  <2>4. Warranted(other, database')
    BY <1>2, <1>3, <2>2, <2>3, WarrantKept
  <2>5. QED
    BY <1>6, <2>4 DEF Live
<1>7. QED
  BY <1>2, <1>4, <1>5, <1>6 DEF Admissible

\* The contract executes the request of a transaction that commits.
LEMMA CommitExecutes ==
    ASSUME Isolated, NEW t, Live(t, database), t.step = "commit",
           database' = Commit(database, t.request, PlanOf(t)),
           t.request \in Contract!Awaited \union Abandoned,
           Abandoned' \in SUBSET Abandoned, call' = call
    PROVE  Implements
<1>1. /\ t.request \in Requests
      /\ ~Recorded(database, t.request)
      /\ Plan(database, t.request).status = "Planned"
      /\ PlanOf(t) = Plan(database, t.request)
  BY TransactionCommits DEF Live, Transaction
<1>2. Contract!Execute(t.request)
  BY <1>1, SamePlan, SameTables DEF Contract!Execute
<1>3. QED
  BY <1>1, <1>2 DEF Implements, Contract!Next

LEMMA CommitTransactionStep ==
    ASSUME Isolated, NEW client \in Clients, CommitTransaction(client)
    PROVE  Isolated' /\ Implements
<1> DEFINE t   == tx[client]
           new == [t EXCEPT !.step = "committed"]
<1>1. /\ t.step = "commit" /\ InTransaction(client)
      /\ database' = Commit(database, t.request, PlanOf(t))
      /\ tx' = [tx EXCEPT ![client] = new]
      /\ orphans' = orphans /\ call' = call
  BY DEF CommitTransaction, InTransaction
<1>2. Live(t, database) /\ t \in Transaction /\ DOMAIN tx = Clients
  BY <1>1 DEF Isolated, Live, Linked
<1>3. /\ new \in Transaction
      /\ new.step = "committed"
      /\ new.request = t.request
      /\ new.seen = t.seen
  BY <1>2 DEF Transaction, Steps
<1> HIDE DEF new
<1>4. /\ tx'[client] = new
      /\ \A c \in Clients : c # client => tx'[c] = tx[c]
  BY <1>1, <1>2
<1>5. Sound(database')
  BY <1>1, <1>2, TransactionCommits
<1>6. Linked'
  BY <1>1, <1>2, <1>3, <1>4, TransactionPending DEF Isolated, Linked
<1>7. Exclusion'
  BY <1>1, <1>3, <1>4 DEF Isolated, Exclusion, InTransaction
<1>8. ASSUME NEW c \in Clients, InTransaction(c)'
      PROVE  Live(tx'[c], database')
  <2>1. c # client /\ tx'[c] = tx[c] /\ InTransaction(c)
    BY <1>3, <1>4, <1>8 DEF InTransaction
  <2>2. Live(tx[c], database) /\ Compatible(t, tx[c])
    BY <1>1, <2>1 DEF Isolated, Exclusion
  <2>3. QED
    BY <1>1, <1>2, <2>1, <2>2, TransactionCommits
<1>9. ASSUME NEW orphan \in orphans'
      PROVE  Live(orphan, database') /\ orphan.step = "commit"
  <2>1. /\ Live(orphan, database) /\ orphan.step = "commit"
        /\ Compatible(t, orphan)
    BY <1>1, <1>9 DEF Isolated, Exclusion
  <2>2. QED
    BY <1>1, <1>2, <2>1, TransactionCommits
<1>10. ASSUME NEW c \in Clients, tx'[c].step = "committed"
       PROVE  [request |-> tx'[c].request, response |-> PlanOf(tx'[c]).response]
                \in database'.commands
  <2>1. CASE c = client
    <3>1. PlanOf(new) = PlanOf(t)
      BY <1>3 DEF PlanOf
    <3>2. QED
      BY <1>1, <1>2, <1>3, <1>4, <2>1, <3>1, TransactionCommits
  <2>2. CASE c # client
    BY <1>1, <1>2, <1>4, <1>10, <2>2, TransactionCommits
    DEF Isolated, ResponsesRecorded
  <2>3. QED
    BY <2>1, <2>2
<1>11. Isolated'
  BY <1>5, <1>6, <1>7, <1>8, <1>9, <1>10 DEF Isolated, ResponsesRecorded, PlanOf
<1>12. t.request \in Contract!Awaited
  BY <1>1, TransactionPending DEF Isolated, Contract!Awaited, Contract!Waiting
<1>13. Abandoned' = Abandoned
  BY <1>1 DEF Abandoned
<1>14. QED
  BY <1>1, <1>2, <1>11, <1>12, <1>13, CommitExecutes

\* What is left when an orphan ends, and the tables leave the rest warranted.
LEMMA OrphanEnds ==
    ASSUME Isolated, NEW t \in orphans, orphans' = orphans \ {t},
           tx' = tx, call' = call, Sound(database'),
           database.commands \subseteq database'.commands,
           \A other : Live(other, database) /\ Compatible(t, other) =>
             Live(other, database')
    PROVE  Isolated' /\ Abandoned' \in SUBSET Abandoned
<1>1. Linked'
  BY DEF Isolated, Linked
<1>2. Exclusion'
  BY DEF Isolated, Exclusion, InTransaction
<1>3. ASSUME NEW c \in Clients, InTransaction(c)'
      PROVE  Live(tx'[c], database')
  <2>1. InTransaction(c) /\ tx'[c] = tx[c]
    BY <1>3 DEF InTransaction
  <2>2. Live(tx[c], database) /\ Compatible(t, tx[c])
    BY <2>1, CompatibleBothWays DEF Isolated, Exclusion
  <2>3. QED
    BY <2>1, <2>2
<1>4. ASSUME NEW orphan \in orphans'
      PROVE  Live(orphan, database') /\ orphan.step = "commit"
  <2>1. /\ Live(orphan, database) /\ orphan.step = "commit"
        /\ Compatible(t, orphan)
    BY <1>4 DEF Isolated, Exclusion
  <2>2. QED
    BY <2>1
<1>5. ResponsesRecorded'
  BY DEF Isolated, ResponsesRecorded, PlanOf
<1>6. QED
  BY <1>1, <1>2, <1>3, <1>4, <1>5 DEF Isolated, Abandoned

LEMMA OrphanCommitsStep ==
    ASSUME Isolated, NEW t \in orphans, OrphanCommits(t)
    PROVE  Isolated' /\ Implements
<1>1. /\ database' = Commit(database, t.request, PlanOf(t))
      /\ orphans' = orphans \ {t}
      /\ tx' = tx /\ call' = call
  BY DEF OrphanCommits
<1>2. Live(t, database) /\ t.step = "commit"
  BY DEF Isolated
<1>3. Isolated' /\ Abandoned' \in SUBSET Abandoned
  BY <1>1, <1>2, TransactionCommits, OrphanEnds
<1>4. t.request \in Abandoned
  BY DEF Abandoned
<1>5. QED
  BY <1>1, <1>2, <1>3, <1>4, CommitExecutes

LEMMA OrphanRollsBackStep ==
    ASSUME Isolated, NEW t \in orphans, OrphanRollsBack(t)
    PROVE  Isolated' /\ Implements
<1>1. /\ database' = database
      /\ orphans' = orphans \ {t}
      /\ tx' = tx /\ call' = call
  BY DEF OrphanRollsBack
<1>2. Isolated' /\ Abandoned' \in SUBSET Abandoned
  BY <1>1, OrphanEnds DEF Isolated
<1>3. Contract!Forget \/ UNCHANGED Contract!vars
  BY <1>1, <1>2 DEF Contract!Forget, Contract!vars
<1>4. QED
  BY <1>2, <1>3 DEF Implements, Contract!Next

-----------------------------------------------------------------------------
(* Calls, replies and transactions nobody waits for.                       *)

LEMMA CallStep ==
    ASSUME Isolated, NEW client \in Clients, NEW request \in Requests,
           Call(client, request)
    PROVE  Isolated' /\ Implements
<1> DEFINE new == Begun(request)
<1>1. /\ tx[client].step = "none"
      /\ tx' = [tx EXCEPT ![client] = new]
      /\ call' = [call EXCEPT ![client] = Pending(request)]
      /\ database' = database /\ orphans' = orphans
  BY DEF Call
<1>2. /\ DOMAIN tx = Clients
      /\ call \in [Clients -> CallState]
      /\ ~Contract!Waiting(client)
  BY <1>1, TransactionPending DEF Isolated, Linked
<1>3. NothingSeen \in [flags: [FlagKeys -> FlagRecord],
                       environments: [EnvironmentKeys -> EnvironmentRecord],
                       rulesets: SUBSET RulesetRow]
  <2>1. NoFlag \in FlagRecord /\ NoEnvironment \in EnvironmentRecord
    BY ValueTypesAssumption DEF NoFlag, NoEnvironment, FlagRecord,
       EnvironmentRecord
  <2>2. QED
    BY <2>1 DEF NothingSeen
<1>4. /\ new \in Transaction
      /\ new.step = "select"
      /\ new.request = request
      /\ new.at = 1
      /\ new.locks = {}
      /\ new.seen = NothingSeen
  BY <1>3 DEF Begun, Transaction, Steps
<1> HIDE DEF new
<1>5. request.operation \in EvaluateOperations =>
        EvaluateWarranted(new, database)
  <2>1. ASSUME request.operation \in EvaluateOperations
        PROVE  EvaluateWarranted(new, database)
    <3>1. request \in Evaluate
      BY <2>1, Kinds
    <3>2. Evaluated(new) = {} /\ 1 \in DOMAIN request.flags
      BY <1>4, <3>1, EvaluatedFlagsAssumption DEF Evaluated, Evaluate
    <3>3. QED
      BY <1>4, <3>2 DEF EvaluateWarranted, NothingSeen
  <2>2. QED
    BY <2>1
<1>6. Warranted(new, database)
  BY <1>4, <1>5
  DEF Warranted, Fresh, CreateWarranted, ChangeWarranted, PutWarranted,
      PublishWarranted
<1>7. Live(new, database)
  BY <1>4, <1>6 DEF Live, LocksOrdered
<1>8. /\ Pending(request) \in CallState
      /\ Pending(request).status = "pending"
      /\ Pending(request).request = request
  BY DEF Pending, CallState
<1>9. /\ tx'[client] = new
      /\ call'[client] = Pending(request)
      /\ call' \in [Clients -> CallState]
      /\ DOMAIN tx' = Clients
      /\ \A c \in Clients : c # client => tx'[c] = tx[c] /\ call'[c] = call[c]
  BY <1>1, <1>2, <1>8
<1>10. Linked'
  BY <1>4, <1>8, <1>9 DEF Isolated, Linked
<1>11. Exclusion'
  BY <1>1, <1>4, <1>9 DEF Isolated, Exclusion, InTransaction, Compatible
<1>12. \A c \in Clients : InTransaction(c)' => Live(tx'[c], database')
  BY <1>1, <1>7, <1>9 DEF Isolated, InTransaction
<1>13. ResponsesRecorded'
  BY <1>1, <1>4, <1>9 DEF Isolated, ResponsesRecorded
<1>14. Isolated'
  BY <1>1, <1>10, <1>11, <1>12, <1>13 DEF Isolated
<1>15. Contract!Call(client, request)
  BY <1>1, <1>2, SameReplies DEF Contract!Call, Abandoned
<1>16. QED
  BY <1>14, <1>15 DEF Implements, Contract!Next

LEMMA AcknowledgeStep ==
    ASSUME Isolated, NEW client \in Clients, Acknowledge(client)
    PROVE  Isolated' /\ Implements
<1> DEFINE t     == tx[client]
           reply == Done(t.request, PlanOf(t).response)
<1>1. t.step = "committed" /\ Respond(client, reply)
  BY DEF Acknowledge
<1>2. /\ t.request = call[client].request
      /\ t.request \in Requests
      /\ Contract!Waiting(client)
  BY <1>1, TransactionPending DEF Isolated
<1>3. PICK row \in database.commands :
        row = [request |-> t.request, response |-> PlanOf(t).response]
  BY <1>1 DEF Isolated, ResponsesRecorded
<1>4. row.request = t.request /\ row.response = PlanOf(t).response
  BY <1>3
<1>5. row.response \in Response
  BY DEF Isolated, Sound, Database, CommandRow
<1>6. reply \in CallState /\ reply.status # "pending"
  BY <1>2, <1>4, <1>5 DEF Done, CallState
<1>7. Isolated' /\ UNCHANGED <<database, Abandoned>>
  BY <1>1, <1>6, RespondKept
<1>8. call' = [call EXCEPT ![client] = Done(call[client].request, row.response)]
  BY <1>1, <1>2, <1>4 DEF Respond
<1>9. Contract!Reply(client)
  BY <1>2, <1>4, <1>7, <1>8, SameReplies DEF Contract!Reply
<1>10. QED
  BY <1>7, <1>9 DEF Implements, Contract!Next

LEMMA FailStep ==
    ASSUME Isolated, NEW client \in Clients, Fail(client)
    PROVE  Isolated' /\ Implements
<1> DEFINE reply == Failed(call[client].request)
<1>1. tx[client].step # "none" /\ Respond(client, reply)
  BY DEF Fail
<1>2. call[client].request \in Requests /\ Contract!Waiting(client)
  BY <1>1, TransactionPending DEF Isolated
<1>3. reply \in CallState /\ reply.status # "pending"
  BY <1>2 DEF Failed, CallState
<1>4. Isolated' /\ UNCHANGED <<database, Abandoned>>
  BY <1>1, <1>3, RespondKept
<1>5. Contract!Fail(client)
  BY <1>1, <1>2, <1>4, SameReplies DEF Contract!Fail, Respond
<1>6. QED
  BY <1>4, <1>5 DEF Implements, Contract!Next

LEMMA CommitLostStep ==
    ASSUME Isolated, NEW client \in Clients, CommitLost(client)
    PROVE  Isolated' /\ Implements
<1> DEFINE t   == tx[client]
           new == [t EXCEPT !.step = "lost"]
<1>1. /\ t.step = "commit" /\ InTransaction(client)
      /\ orphans' = orphans \union {t}
      /\ tx' = [tx EXCEPT ![client] = new]
      /\ database' = database /\ call' = call
  BY DEF CommitLost, InTransaction
<1>2. /\ Live(t, database)
      /\ t \in Transaction
      /\ t.request = call[client].request
      /\ Contract!Waiting(client)
      /\ DOMAIN tx = Clients
  BY <1>1, TransactionPending DEF Isolated, Live, Linked
<1>3. /\ new \in Transaction
      /\ new.step = "lost"
      /\ new.request = t.request
  BY <1>2 DEF Transaction, Steps
<1> HIDE DEF new
<1>4. /\ tx'[client] = new
      /\ \A c \in Clients : c # client => tx'[c] = tx[c]
  BY <1>1, <1>2
<1>5. Linked'
  BY <1>1, <1>2, <1>3, <1>4, TransactionPending DEF Isolated, Linked
<1>6. Exclusion'
  <2>1. \A c \in Clients :
          InTransaction(c)' => c # client /\ tx'[c] = tx[c] /\ InTransaction(c)
    BY <1>3, <1>4 DEF InTransaction
  <2>2. \A c \in Clients :
          c # client /\ InTransaction(c) => Compatible(tx[c], t)
    BY <1>1 DEF Isolated, Exclusion
  <2>3. \A orphan \in orphans : Compatible(t, orphan) /\ Compatible(orphan, t)
    BY <1>1, CompatibleBothWays DEF Isolated, Exclusion
  <2>4. QED
    BY <1>1, <2>1, <2>2, <2>3 DEF Isolated, Exclusion
<1>7. \A c \in Clients : InTransaction(c)' => Live(tx'[c], database')
  BY <1>1, <1>3, <1>4 DEF Isolated, InTransaction
<1>8. ResponsesRecorded'
  BY <1>1, <1>3, <1>4 DEF Isolated, ResponsesRecorded
<1>9. Isolated'
  BY <1>1, <1>2, <1>5, <1>6, <1>7, <1>8 DEF Isolated
<1>10. Abandoned' = Abandoned \union {call[client].request}
  BY <1>1, <1>2 DEF Abandoned
<1>11. Contract!Abandon(client)
  BY <1>1, <1>2, <1>10 DEF Contract!Abandon
<1>12. QED
  BY <1>9, <1>11 DEF Implements, Contract!Next

-----------------------------------------------------------------------------
(* The invariant and what follows from it.                                 *)

LEMMA InitIsolated ==
    ASSUME Init
    PROVE  Isolated /\ Contract!Init
<1>1. /\ database \in Stored
      /\ tx = [client \in Clients |-> NoTransaction]
      /\ orphans = {}
      /\ call = [client \in Clients |-> Idle]
  BY DEF Init
<1>2. Idle \in CallState /\ Idle.status # "pending" /\ NoTransaction.step = "none"
  BY DEF Idle, CallState, NoTransaction
<1>3. Linked
  BY <1>1, <1>2 DEF Linked
<1>4. QED
  BY <1>1, <1>2, <1>3, StoredAssumption, SameReplies
  DEF Isolated, Exclusion, InTransaction, ResponsesRecorded, Contract!Init,
      Abandoned

\* One case per action.
LEMMA NextStep ==
    ASSUME Isolated, [Next]_vars
    PROVE  Isolated' /\ Implements
<1>1. CASE UNCHANGED vars
  BY <1>1
  DEF vars, Isolated, Linked, Exclusion, InTransaction, ResponsesRecorded,
      PlanOf, Implements, Contract!vars, Abandoned
<1>2. ASSUME NEW client \in Clients, NEW request \in Requests,
             Call(client, request)
      PROVE  Isolated' /\ Implements
  BY <1>2, CallStep
<1>3. ASSUME NEW client \in Clients, Proceed(client)
      PROVE  Isolated' /\ Implements
  BY <1>3, SelectCommandStep, InsertCommandStep, InsertFlagStep, LockFlagStep,
     LockEnvironmentStep, InsertEnvironmentStep, LockPublishedEnvironmentStep,
     AllocateRevisionStep, ShareFlagStep, ReadRulesetStep,
     CommitTransactionStep, AcknowledgeStep
  DEF Proceed
<1>4. ASSUME NEW client \in Clients, CommitLost(client) \/ Fail(client)
      PROVE  Isolated' /\ Implements
  BY <1>4, CommitLostStep, FailStep
<1>5. ASSUME NEW t \in orphans, OrphanCommits(t) \/ OrphanRollsBack(t)
      PROVE  Isolated' /\ Implements
  BY <1>5, OrphanCommitsStep, OrphanRollsBackStep
<1>6. QED
  BY <1>1, <1>2, <1>3, <1>4, <1>5 DEF Next

\* Every transaction is isolated by what it has locked.
THEOREM IsolatedInvariant == Spec => []Isolated
<1>1. Init => Isolated
  BY InitIsolated
<1>2. Isolated /\ [Next]_vars => Isolated'
  BY NextStep
<1>3. QED
  BY <1>1, <1>2, PTL DEF Spec

\* Between any two statements, and whatever became of earlier transactions, the
\* committed tables keep every constraint and every invariant of the contract.
THEOREM PostgresTablesSound == Spec => []Sound(database)
<1>1. Isolated => Sound(database)
  BY DEF Isolated
<1>2. QED
  BY <1>1, IsolatedInvariant, PTL

\* Statement by statement, lock by lock and whatever becomes of a COMMIT, every
\* transaction of the store is one step of the contract.
THEOREM PostgresImplements == Spec => ImplementsContract
<1>1. Init => Contract!Init
  BY InitIsolated
<1>2. Isolated /\ [Next]_vars => [Contract!Next]_(Contract!vars)
  BY NextStep DEF Implements
<1>3. QED
  BY <1>1, <1>2, IsolatedInvariant, PTL
  DEF Spec, ImplementsContract, Contract!Spec

\* What a transaction has read one statement at a time still holds when it
\* commits, and no key or reference of the schema stops it.
THEOREM PostgresLocksSuffice == Spec => []LocksSuffice
<1>1. Isolated => LocksSuffice
  <2>1. SUFFICES ASSUME Isolated, NEW t \in Committing
                 PROVE  /\ PlanOf(t) = Plan(database, t.request)
                        /\ Fits(database, t.request, PlanOf(t))
    BY DEF LocksSuffice
  <2>2. Live(t, database) /\ t.step = "commit"
    BY <2>1 DEF Committing, Isolated, InTransaction
  <2>3. PlanOf(t) = Plan(database, t.request) /\ Admissible(database, t.request)
    BY <2>1, <2>2, CommitPlans DEF Isolated, Live
  <2>4. QED
    BY <2>3, PlansFit
<1>2. QED
  BY <1>1, IsolatedInvariant, PTL

\* The type invariant.
THEOREM PostgresTyped == Spec => []TypeOK
<1>1. Isolated => TypeOK
  <2>1. SUFFICES ASSUME Isolated PROVE TypeOK
    OBVIOUS
  <2>2. ASSUME NEW t \in Transaction, Live(t, database)
        PROVE  t.step \in {"share_flag", "read_ruleset"} =>
                 t.at \in DOMAIN t.request.flags
    BY <2>2, Operations
    DEF Live, Transaction, Warranted, CreateWarranted, ChangeWarranted,
        PutWarranted, PublishWarranted, EvaluateWarranted, EvaluateOperations
  <2>3. ASSUME NEW client \in Clients, call[client].status = "pending"
        PROVE  TransactionOK(tx[client])
                 /\ tx[client].request = call[client].request
    <3>1. tx[client] \in Transaction /\ tx[client].request = call[client].request
      BY <2>1, <2>3 DEF Isolated, Linked
    <3>2. tx[client].step \in {"share_flag", "read_ruleset"} =>
            tx[client].at \in DOMAIN tx[client].request.flags
      BY <2>1, <2>2, <3>1 DEF Isolated, InTransaction
    <3>3. QED
      BY <3>1, <3>2 DEF TransactionOK, Transaction
  <2>4. ASSUME NEW t \in orphans
        PROVE  TransactionOK(t) /\ t.step = "commit"
    <3>1. t \in Transaction /\ t.step = "commit"
      BY <2>1 DEF Isolated, Live
    <3>2. QED
      BY <3>1 DEF TransactionOK, Transaction
  <2>5. QED
    BY <2>1, <2>3, <2>4 DEF TypeOK, Isolated, Linked, Sound
<1>2. QED
  BY <1>1, IsolatedInvariant, PTL

\* How many tables a transaction that waits has still to go.
TablesLeft(step) ==
    CASE step = "insert" -> 4
      [] step \in {"insert_flag", "lock_flag"} -> 3
      [] step = "share_flag" -> 2
      [] step \in {"lock_environment", "lock_published",
                   "insert_environment"} -> 1
      [] OTHER -> 0

\* Who blocks a transaction is further on: commands are locked before flags,
\* flags before environments, and an evaluation, which may share several flags,
\* is never followed by a lock on another table.
LEMMA BlockersAhead ==
    ASSUME NEW t \in Transaction, NEW holder \in Transaction,
           LocksOrdered(holder), Blocks(holder, t)
    PROVE  TablesLeft(holder.step) < TablesLeft(t.step)
<1>1. PICK held \in holder.locks, wanted \in LocksWanted(t) :
        Conflicting(held, wanted)
  BY DEF Blocks
<1>2. /\ held.row = wanted.row
      /\ "exclusive" \in {held.mode, wanted.mode}
      /\ held.mode \in {"exclusive", "shared"}
      /\ holder.step \in HeldAt(held)
      /\ holder.step \in Steps
  BY <1>1 DEF Conflicting, Transaction, LocksOrdered
<1>3. CASE t.step = "insert"
  <2>1. wanted.row[1] = "command"
    BY <1>1, <1>3 DEF LocksWanted, Lock
  <2>2. holder.step \notin {"select", "insert"}
    BY <1>2, <2>1 DEF HeldAt
  <2>3. QED
    BY <1>3, <2>2 DEF TablesLeft
<1>4. CASE t.step \in {"insert_flag", "lock_flag"}
  <2>1. wanted.row[1] = "flag"
    BY <1>1, <1>4 DEF LocksWanted, Existing, FlagLock, Lock
  <2>2. holder.step \in {"lock_published", "allocate", "commit", "share_flag",
                         "read_ruleset"}
    BY <1>2, <2>1 DEF HeldAt
  <2>3. QED
    BY <1>4, <2>2 DEF TablesLeft
<1>5. CASE t.step = "share_flag"
  <2>1. wanted.row[1] = "flag" /\ wanted.mode = "shared"
    BY <1>1, <1>5 DEF LocksWanted, Existing, FlagLock, Lock
  <2>2. holder.step \in {"lock_published", "allocate", "commit"}
    BY <1>2, <2>1 DEF HeldAt
  <2>3. QED
    BY <1>5, <2>2 DEF TablesLeft
<1>6. CASE t.step \in {"lock_environment", "lock_published",
                       "insert_environment"}
  <2>1. wanted.row[1] = "environment"
    BY <1>1, <1>6 DEF LocksWanted, Existing, EnvironmentLock, Lock
  <2>2. holder.step \in {"allocate", "commit"}
    BY <1>2, <2>1 DEF HeldAt
  <2>3. QED
    BY <1>6, <2>2 DEF TablesLeft
<1>7. CASE t.step \notin {"insert", "insert_flag", "lock_flag", "share_flag",
                          "lock_environment", "lock_published",
                          "insert_environment"}
  BY <1>1, <1>7 DEF LocksWanted
<1>8. QED
  BY <1>3, <1>4, <1>5, <1>6, <1>7

\* Flags, environments and commands are locked in an order that never leaves
\* some transactions waiting for each other, however many clients there are.
THEOREM PostgresNeverDeadlocks == Spec => []NoDeadlock
<1>1. Isolated => NoDeadlock
  <2>1. SUFFICES ASSUME Isolated, NEW stuck \in (SUBSET Clients) \ {{}}
                 PROVE  \E client \in stuck :
                          Blockers(client) \intersect stuck = {}
    BY DEF NoDeadlock
  <2> DEFINE left(client) == TablesLeft(tx[client].step)
             lefts        == {left(client) : client \in stuck}
  <2>2. \A client \in stuck : left(client) \in Nat
    BY DEF TablesLeft
  <2>3. lefts \in SUBSET Nat /\ lefts # {}
    BY <2>2
  <2> HIDE DEF left
  <2>4. PICK client \in stuck : \A other \in stuck : left(client) =< left(other)
    <3>1. Min(lefts) \in lefts /\ \A n \in lefts : Min(lefts) =< n
      BY <2>3, MinOfNaturals
    <3>2. QED
      BY <3>1
  <2>5. ASSUME NEW other \in Blockers(client) \intersect stuck
        PROVE  FALSE
    <3>1. InTransaction(other) /\ Blocks(tx[other], tx[client])
      BY DEF Blockers
    <3>2. tx[other] \in Transaction /\ LocksOrdered(tx[other])
      BY <2>1, <3>1, OpenTransaction
    <3>3. tx[client] \in Transaction
      <4>1. tx[client].step # "none"
        BY <3>1 DEF Blocks, LocksWanted
      <4>2. QED
        BY <2>1, <4>1, TransactionPending DEF Isolated
    <3>4. left(other) < left(client)
      BY <3>1, <3>2, <3>3, BlockersAhead DEF left
    <3>5. QED
      BY <2>2, <2>4, <3>4
  <2>6. QED
    BY <2>5
<1>2. QED
  BY <1>1, IsolatedInvariant, PTL

-----------------------------------------------------------------------------
(* What the contract promises, of the Postgres store.                      *)

\* A definite reply is the contract's, so what it says is recorded.
LEMMA ReplySteps ==
    ASSUME Isolated, [Next]_vars, NEW c \in Clients
    PROVE  call'[c] = call[c] \/ Justified(call'[c], database)
<1>1. /\ DOMAIN call = Clients
      /\ \A client \in Clients :
           Contract!Waiting(client) => call[client].request \in Requests
  BY DEF Isolated, Linked, Transaction, Contract!Waiting
<1>2. ASSUME NEW client \in Clients, NEW request \in Requests,
             Contract!Call(client, request)
      PROVE  call'[c] = call[c] \/ Justified(call'[c], database)
  BY <1>1, <1>2 DEF Contract!Call, Contract!Pending, Justified
<1>3. ASSUME NEW client \in Clients, Contract!Reply(client)
      PROVE  call'[c] = call[c] \/ Justified(call'[c], database)
  <2>1. PICK row \in database.commands :
          /\ row.request = call[client].request
          /\ call' = [call EXCEPT ![client] =
                        Done(call[client].request, row.response)]
    BY <1>3, SameReplies DEF Contract!Reply
  <2>2. Justified(Done(call[client].request, row.response), database)
    BY <2>1 DEF Done, Justified
  <2>3. QED
    BY <1>1, <2>1, <2>2
<1>4. ASSUME NEW client \in Clients, Contract!Conflict(client)
      PROVE  call'[c] = call[c] \/ Justified(call'[c], database)
  <2>1. PICK row \in CommandRows(database, call[client].request) :
          /\ row.request # call[client].request
          /\ call' = [call EXCEPT ![client] =
                RefusedCall(call[client].request, "IdempotencyConflict")]
    BY <1>4, SameReplies, SameTables DEF Contract!Conflict
  <2>2. Justified(RefusedCall(call[client].request, "IdempotencyConflict"),
                  database)
    BY <2>1 DEF RefusedCall, Justified
  <2>3. QED
    BY <1>1, <2>1, <2>2
<1>5. ASSUME NEW client \in Clients, Contract!Refuse(client)
      PROVE  call'[c] = call[c] \/ Justified(call'[c], database)
  <2> DEFINE failure == Plan(database, call[client].request).status
  <2>1. call[client].request \in Requests
    BY <1>1, <1>5 DEF Contract!Refuse
  <2>2. failure # "IdempotencyConflict"
    BY <2>1, PlanStatus DEF PlanFailures
  <2>3. call' = [call EXCEPT ![client] =
                   RefusedCall(call[client].request, failure)]
    BY <1>5, <2>1, SamePlan, SameReplies DEF Contract!Refuse
  <2> HIDE DEF failure
  <2>4. Justified(RefusedCall(call[client].request, failure), database)
    BY <2>2 DEF RefusedCall, Justified
  <2>5. QED
    BY <1>1, <2>3, <2>4
<1>6. ASSUME NEW client \in Clients,
             Contract!Abandon(client) \/ Contract!Fail(client)
      PROVE  call'[c] = call[c] \/ Justified(call'[c], database)
  BY <1>1, <1>6 DEF Contract!Abandon, Contract!Fail, Contract!Failed, Justified
<1>7. ASSUME NEW client \in Clients, Contract!Postpone(client)
      PROVE  call'[c] = call[c] \/ Justified(call'[c], database)
  BY <1>1, <1>7 DEF Contract!Postpone, Contract!RefusedCall, Justified
<1>8. ASSUME \/ Contract!Forget
             \/ UNCHANGED Contract!vars
             \/ \E request \in Requests : Contract!Execute(request)
      PROVE  call'[c] = call[c]
  BY <1>8 DEF Contract!Forget, Contract!vars, Contract!Execute
<1>9. QED
  BY NextStep, <1>2, <1>3, <1>4, <1>5, <1>6, <1>7, <1>8
  DEF Contract!Next, Implements

\* A step leaves the committed tables alone or commits one admitted command.
LEMMA TablesStep ==
    ASSUME Isolated, [Next]_vars
    PROVE  \/ database' = database
           \/ \E request \in Requests :
                /\ Admissible(database, request)
                /\ database' = Committed(database, request)
<1>1. ASSUME NEW request \in Requests, Contract!Execute(request)
      PROVE  /\ Admissible(database, request)
             /\ database' = Committed(database, request)
  BY <1>1, SamePlan, SameTables
  DEF Contract!Execute, Admissible, Committed, Isolated
<1>2. QED
  BY <1>1, NextStep
  DEF Implements, Contract!Next, Contract!vars, Contract!Call, Contract!Reply,
      Contract!Conflict, Contract!Postpone, Contract!Refuse, Contract!Abandon,
      Contract!Fail, Contract!Forget

\* What the tables keep, read as the contract reads it.
LEMMA SameRows ==
    ASSUME NEW db, NEW flag, NEW environment
    PROVE  Contract!Published(db, flag, environment)
             = Published(db, flag, environment)
BY DEF Published, Contract!Published

\* On Postgres no client is told of a success, or of a conflict, that is not
\* recorded: neither by a replay, nor by a transaction that has just committed.
THEOREM PostgresRepliesJustified == Spec => []Contract!RepliesJustified
<1> DEFINE Replies == \A c \in Clients : Justified(call[c], database)
<1>1. Init => Replies
  BY DEF Init, Idle, Justified
<1>2. Isolated /\ Replies /\ [Next]_vars => Replies'
  <2> SUFFICES ASSUME Isolated, Replies, [Next]_vars,
                      NEW c \in Clients
               PROVE  Justified(call'[c], database')
    OBVIOUS
  <2>1. Justified(call'[c], database)
    BY ReplySteps
  <2>2. database.commands \subseteq database'.commands
    BY TablesStep, CommitKeepsEvidence DEF EvidenceKept
  <2>3. QED
    BY <2>1, <2>2, JustifiedKept
<1>3. Replies => Contract!RepliesJustified
  BY SameTables
  DEF Justified, Contract!RepliesJustified, Contract!RepliesRecorded,
      Contract!ConflictsJustified
<1> HIDE DEF Replies
<1>4. QED
  BY <1>1, <1>2, <1>3, IsolatedInvariant, PTL DEF Spec

\* On Postgres no transaction, and no COMMIT of unknown outcome, rewrites audit
\* evidence.
THEOREM PostgresEvidenceGrows == Spec => Contract!EvidenceGrows
<1>1. ASSUME Isolated, [Next]_vars
      PROVE  [/\ database.commands \subseteq database'.commands
              /\ database.rulesets \subseteq database'.rulesets
              /\ database.receipts \subseteq database'.receipts
              /\ \A flag \in FlagKeys :
                   database.flags[flag].revision =< database'.flags[flag].revision
             ]_database
  BY <1>1, TablesStep, CommitKeepsEvidence DEF EvidenceKept
<1>2. QED
  BY <1>1, IsolatedInvariant, PTL DEF Spec, Contract!EvidenceGrows

\* On Postgres archiving is final, although other transactions read the flag
\* before or while it is archived.
THEOREM PostgresArchivedIsFinal == Spec => Contract!ArchivedIsFinal
<1>1. ASSUME Isolated, [Next]_vars
      PROVE  [\A flag \in FlagKeys :
                database.flags[flag].archived =>
                  /\ database'.flags[flag] = database.flags[flag]
                  /\ \A receipt \in database'.receipts \ database.receipts :
                       receipt.flag # flag
                  /\ \A row \in database'.rulesets \ database.rulesets :
                       row.flag # flag
             ]_database
  BY <1>1, TablesStep, CommitKeepsArchived DEF ArchivedKept
<1>2. QED
  BY <1>1, IsolatedInvariant, PTL DEF Spec, Contract!ArchivedIsFinal

\* On Postgres an evaluation is recorded against the latest ruleset, although it
\* read the ruleset, and locked no row of it, some statements before its commit.
THEOREM PostgresEvaluationsCurrent == Spec => Contract!EvaluationsCurrent
<1>1. ASSUME Isolated, [Next]_vars
      PROVE  [\A receipt \in database'.receipts \ database.receipts :
                \A row \in Contract!Published(database, receipt.flag,
                                              receipt.environment) :
                    row.revision =< receipt.ruleset_revision
             ]_database
  BY <1>1, TablesStep, SameRows, CommitEvaluatesLatest DEF EvaluatedLatest
<1>2. QED
  BY <1>1, IsolatedInvariant, PTL
  DEF Spec, Contract!EvaluationsCurrent

=============================================================================
