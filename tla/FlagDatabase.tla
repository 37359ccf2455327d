---------------------------- MODULE FlagDatabase ----------------------------
(***************************************************************************)
(* What a Feature Flag store keeps, and what each command of the store     *)
(* contract (crates/lenso-feature-flag-core/src/store.rs) reads from it    *)
(* and writes to it.  Every rule is translated from the planning half of   *)
(* the D1 store (crates/lenso-feature-flag-d1-plugin/src/storage.rs).      *)
(*                                                                         *)
(* One organization.  Names, descriptions, timestamps and identifiers      *)
(* drawn at random are left out, so a request stands for its own hash and  *)
(* two requests that differ only in a name differ in their idempotency     *)
(* key.  A row that does not exist has revision 0.                         *)
(***************************************************************************)
EXTENDS Rulesets

CONSTANTS
    FlagKeys,
    EnvironmentKeys,
    TargetingKeys,
    Principals,        \* a caller plugin and the actor it acts for
    IdempotencyKeys,
    Bucket,            \* deterministic_bucket: a SHA-256 prefix modulo 10_000
    Requests           \* the authorized, well-formed requests

-----------------------------------------------------------------------------
(* Requests.                                                               *)

Revisions == Nat \ {0}

CreateFlag ==
    [operation: {"create_flag"}, principal: Principals, key: IdempotencyKeys,
     flag: FlagKeys, value_type: ValueTypes]

\* update_flag and archive_flag.
ChangeFlag ==
    [operation: {"update_flag", "archive_flag"}, principal: Principals,
     key: IdempotencyKeys, flag: FlagKeys, expected: Revisions]

\* An expected revision of 0 is an absent expected_revision.
PutEnvironment ==
    [operation: {"put_environment"}, principal: Principals,
     key: IdempotencyKeys, environment: EnvironmentKeys, expected: Nat]

PublishRuleset ==
    [operation: {"publish_ruleset"}, principal: Principals,
     key: IdempotencyKeys, flag: FlagKeys, environment: EnvironmentKeys,
     expected: Revisions, expected_environment: Revisions,
     definition: RulesetDefinition]

\* evaluate names one flag, evaluate_batch at least one and none twice.
Evaluate ==
    [operation: {"evaluate", "evaluate_batch"}, principal: Principals,
     key: IdempotencyKeys, environment: EnvironmentKeys, flags: Seq(FlagKeys),
     targeting_key: TargetingKeys, attributes: Context]

Request ==
    CreateFlag \union ChangeFlag \union PutEnvironment
      \union PublishRuleset \union Evaluate

ASSUME RequestsAssumption == Requests \subseteq Request

ASSUME EvaluatedFlagsAssumption ==
    \A request \in Requests \intersect Evaluate :
        /\ request.flags # <<>>
        /\ IsInjective(request.flags)
        /\ request.operation = "evaluate" => Len(request.flags) = 1

ASSUME ValueTypesAssumption == ValueTypes # {}

ASSUME BucketAssumption ==
    Bucket \in [EnvironmentKeys \X FlagKeys \X TargetingKeys -> Buckets]

CommandId(request) ==
    <<request.principal, request.operation, request.key>>

-----------------------------------------------------------------------------
(* Rows.                                                                   *)

FlagRecord == [value_type: ValueTypes, archived: BOOLEAN, revision: Nat]

EnvironmentRecord == [revision: Nat]

RulesetRow ==
    [flag: FlagKeys, environment: EnvironmentKeys, revision: Revisions,
     definition: RulesetDefinition]

PublishRecord ==
    [ruleset_revision: Revisions, flag_revision: Revisions,
     environment_revision: Revisions]

EvaluationRecord ==
    [flag: FlagKeys, environment: EnvironmentKeys, variant: VariantRecord,
     reason: {"target_match", "percentage_rollout", "fallthrough"},
     ruleset_revision: Revisions]

Response ==
    FlagRecord \union EnvironmentRecord \union PublishRecord
      \union [evaluations: Seq(EvaluationRecord)]

CommandRow == [request: Request, response: Response]

\* The key of an evaluate, or "key:index" of a batch; index 0 is no index.
EvaluationId == [key: IdempotencyKeys, index: Nat]

ReceiptRow ==
    [principal: Principals, operation: {"evaluate", "evaluate_batch"},
     evaluation_id: EvaluationId, flag: FlagKeys,
     environment: EnvironmentKeys, variant_key: VariantKeys,
     reason: {"target_match", "percentage_rollout", "fallthrough"},
     ruleset_revision: Revisions]

Database ==
    [flags: [FlagKeys -> FlagRecord],
     environments: [EnvironmentKeys -> EnvironmentRecord],
     rulesets: SUBSET RulesetRow,
     commands: SUBSET CommandRow,
     receipts: SUBSET ReceiptRow]

NoFlag == [value_type |-> CHOOSE type \in ValueTypes : TRUE,
           archived |-> FALSE, revision |-> 0]

NoEnvironment == [revision |-> 0]

\* The tables a migration leaves behind.
EmptyDatabase ==
    [flags        |-> [flag \in FlagKeys |-> NoFlag],
     environments |-> [environment \in EnvironmentKeys |-> NoEnvironment],
     rulesets     |-> {},
     commands     |-> {},
     receipts     |-> {}]

-----------------------------------------------------------------------------
(* Reading.                                                                *)

Published(db, flag, environment) ==
    {row \in db.rulesets : row.flag = flag /\ row.environment = environment}

\* A mistake to detect: the history is read in ascending order.
Oldest(db, flag, environment) ==
    CHOOSE row \in Published(db, flag, environment) :
        \A other \in Published(db, flag, environment) :
            row.revision =< other.revision

\* The ruleset of the greatest revision, which is the one evaluations use.
Latest(db, flag, environment) ==
    CHOOSE row \in Published(db, flag, environment) :
        \A other \in Published(db, flag, environment) :
            other.revision =< row.revision

CommandRows(db, request) ==
    {row \in db.commands : CommandId(row.request) = CommandId(request)}

\* A mistake to detect: the request hash is part of the primary key.
RecordedByHash(db, request) == \E row \in db.commands : row.request = request

Recorded(db, request) == CommandRows(db, request) # {}

\* fn replay, on the row the primary key allows.
Replayed(db, request) == \E row \in db.commands : row.request = request

-----------------------------------------------------------------------------
(* Planning.  A plan is either refused with a domain failure or carries    *)
(* the response and the rows to write.                                     *)

Refused(failure) == [status |-> failure]

NoRows == [key \in {} |-> key]

\* The write of one row of a keyed table, and a table after some writes.
Row(key, row) == [k \in {key} |-> row]

Written(table, rows) ==
    [key \in DOMAIN table |->
        IF key \in DOMAIN rows THEN rows[key] ELSE table[key]]

Planned(response, flags, environments, rulesets, receipts) ==
    [status |-> "Planned", response |-> response, flags |-> flags,
     environments |-> environments, rulesets |-> rulesets,
     receipts |-> receipts]

Bumped(row) == [row EXCEPT !.revision = @ + 1]

\* fn require_flag: an archived flag is refused before its revision is read.
FlagVerdict(flag, expected) ==
    IF flag.archived THEN "Archived"
    ELSE IF flag.revision # expected THEN "RevisionConflict"
    ELSE "Current"

PlanCreateFlag(db, request) ==
    LET flag == [value_type |-> request.value_type, archived |-> FALSE,
                 revision |-> 1]
    IN  IF db.flags[request.flag].revision # 0 THEN Refused("AlreadyExists")
        ELSE Planned(flag, Row(request.flag, flag), NoRows, {}, {})

\* A mistake to detect: archiving leaves the revision alone.
PlanArchiveQuietly(db, request) ==
    LET flag    == db.flags[request.flag]
        verdict == FlagVerdict(flag, request.expected)
        changed == IF request.operation = "archive_flag"
                   THEN [flag EXCEPT !.archived = TRUE] ELSE Bumped(flag)
    IN  IF flag.revision = 0 THEN Refused("NotFound")
        ELSE IF verdict # "Current" THEN Refused(verdict)
        ELSE Planned(changed, Row(request.flag, changed), NoRows, {}, {})

PlanChangeFlag(db, request) ==
    LET flag    == db.flags[request.flag]
        verdict == FlagVerdict(flag, request.expected)
        changed == [Bumped(flag) EXCEPT
                      !.archived = @ \/ request.operation = "archive_flag"]
    IN  IF flag.revision = 0 THEN Refused("NotFound")
        ELSE IF verdict # "Current" THEN Refused(verdict)
        ELSE Planned(changed, Row(request.flag, changed), NoRows, {}, {})

PlanPutEnvironment(db, request) ==
    LET environment == db.environments[request.environment]
        revision    == environment.revision
    IN  IF revision # 0 /\ request.expected = 0 THEN Refused("AlreadyExists")
        ELSE IF revision = 0 /\ request.expected # 0 THEN Refused("NotFound")
        ELSE IF revision # request.expected THEN Refused("RevisionConflict")
        ELSE Planned(Bumped(environment), NoRows,
                     Row(request.environment, Bumped(environment)), {}, {})

\* A mistake to detect: every ruleset gets the same number.
SameRulesetRevision(db, flag, environment) == 1

NextRulesetRevision(db, flag, environment) ==
    IF Published(db, flag, environment) = {} THEN 1
    ELSE Latest(db, flag, environment).revision + 1

\* A mistake to detect: the ruleset is not validated against the flag's type.
PlanPublishUnvalidated(db, request) ==
    LET flag        == db.flags[request.flag]
        environment == db.environments[request.environment]
        next        == NextRulesetRevision(db, request.flag, request.environment)
    IN  IF FlagVerdict(flag, request.expected) # "Current"
        THEN Refused(FlagVerdict(flag, request.expected))
        ELSE IF environment.revision # request.expected_environment
        THEN Refused("RevisionConflict")
        ELSE Planned(
               [ruleset_revision |-> next,
                flag_revision |-> flag.revision + 1,
                environment_revision |-> environment.revision + 1],
               Row(request.flag, Bumped(flag)),
               Row(request.environment, Bumped(environment)),
               {[flag |-> request.flag, environment |-> request.environment,
                 revision |-> next, definition |-> request.definition]},
               {})

PlanPublishRuleset(db, request) ==
    LET flag        == db.flags[request.flag]
        environment == db.environments[request.environment]
        verdict     == FlagVerdict(flag, request.expected)
        validity    == ValidateRuleset(flag.value_type, request.definition)
        next        == NextRulesetRevision(db, request.flag, request.environment)
    IN  IF flag.revision = 0 THEN Refused("NotFound")
        ELSE IF verdict # "Current" THEN Refused(verdict)
        ELSE IF validity # "Valid" THEN Refused(validity)
        ELSE IF environment.revision = 0 THEN Refused("NotFound")
        ELSE IF environment.revision # request.expected_environment
             THEN Refused("RevisionConflict")
        ELSE Planned(
               [ruleset_revision |-> next,
                flag_revision |-> flag.revision + 1,
                environment_revision |-> environment.revision + 1],
               Row(request.flag, Bumped(flag)),
               Row(request.environment, Bumped(environment)),
               {[flag |-> request.flag, environment |-> request.environment,
                 revision |-> next, definition |-> request.definition]},
               {})

Choice(db, request, flag) ==
    ChooseVariant(request.attributes,
                  Bucket[<<request.environment, flag, request.targeting_key>>],
                  Latest(db, flag, request.environment).definition)

\* A mistake to detect: archived flags are still evaluated.
EvaluationVerdictOfAny(db, request, flag) ==
    IF db.flags[flag].revision = 0 THEN "FlagNotFound"
    ELSE IF db.environments[request.environment].revision = 0
         THEN "EnvironmentNotFound"
    ELSE IF Published(db, flag, request.environment) = {}
         THEN "NoPublishedRuleset"
    ELSE Choice(db, request, flag).status

\* Whether one flag of the request evaluates, and the failure if it does not.
EvaluationVerdict(db, request, flag) ==
    LET record   == db.flags[flag]
        current  == Latest(db, flag, request.environment).definition
        validity == ValidateRuleset(record.value_type, current)
    IN  IF record.revision = 0 THEN "FlagNotFound"
        ELSE IF record.archived THEN "Archived"
        ELSE IF db.environments[request.environment].revision = 0
             THEN "EnvironmentNotFound"
        ELSE IF Published(db, flag, request.environment) = {}
             THEN "NoPublishedRuleset"
        ELSE IF validity # "Valid" THEN validity
        ELSE Choice(db, request, flag).status

\* Mistakes to detect: revisions reported from zero, and the flag's revision
\* reported as the ruleset's.
EvaluationFromZero(db, request, flag) ==
    [flag |-> flag, environment |-> request.environment,
     variant |-> Choice(db, request, flag).variant,
     reason |-> Choice(db, request, flag).reason,
     ruleset_revision |-> Latest(db, flag, request.environment).revision - 1]

EvaluationOfFlagRevision(db, request, flag) ==
    [flag |-> flag, environment |-> request.environment,
     variant |-> Choice(db, request, flag).variant,
     reason |-> Choice(db, request, flag).reason,
     ruleset_revision |-> db.flags[flag].revision]

Evaluation(db, request, flag) ==
    [flag |-> flag, environment |-> request.environment,
     variant |-> Choice(db, request, flag).variant,
     reason |-> Choice(db, request, flag).reason,
     ruleset_revision |-> Latest(db, flag, request.environment).revision]

EvaluationIdOf(request, i) ==
    [key |-> request.key,
     index |-> IF request.operation = "evaluate" THEN 0 ELSE i]

ReceiptOf(request, evaluation, i) ==
    [principal |-> request.principal, operation |-> request.operation,
     evaluation_id |-> EvaluationIdOf(request, i), flag |-> evaluation.flag,
     environment |-> request.environment,
     variant_key |-> evaluation.variant.variant_key,
     reason |-> evaluation.reason,
     ruleset_revision |-> evaluation.ruleset_revision]

ReceiptsOf(request, evaluations) ==
    {ReceiptOf(request, evaluations[i], i) : i \in DOMAIN evaluations}

\* The first flag that does not evaluate refuses the whole request.
PlanEvaluate(db, request) ==
    LET verdict(i)  == EvaluationVerdict(db, request, request.flags[i])
        failing     == {i \in DOMAIN request.flags : verdict(i) # "Chosen"}
        evaluations == [i \in DOMAIN request.flags |->
                          Evaluation(db, request, request.flags[i])]
    IN  IF failing # {} THEN Refused(verdict(Min(failing)))
        ELSE Planned([evaluations |-> evaluations], NoRows, NoRows, {},
                     ReceiptsOf(request, evaluations))

Plan(db, request) ==
    CASE request.operation = "create_flag" -> PlanCreateFlag(db, request)
      [] request.operation \in {"update_flag", "archive_flag"}
           -> PlanChangeFlag(db, request)
      [] request.operation = "put_environment"
           -> PlanPutEnvironment(db, request)
      [] request.operation = "publish_ruleset"
           -> PlanPublishRuleset(db, request)
      [] request.operation \in {"evaluate", "evaluate_batch"}
           -> PlanEvaluate(db, request)

-----------------------------------------------------------------------------
(* Writing.                                                                *)

\* Mistakes to detect: an evaluation that keeps no receipts, and one that
\* replaces the earlier receipts.
Rewritten(db, request, plan) ==
    [db EXCEPT
       !.flags = Written(@, plan.flags),
       !.environments = Written(@, plan.environments),
       !.rulesets = @ \union plan.rulesets,
       !.commands = @ \union
         {[request |-> request, response |-> plan.response]}]

CommitWithoutReceipts(db, request, plan) == Rewritten(db, request, plan)

CommitReplacingReceipts(db, request, plan) ==
    [Rewritten(db, request, plan) EXCEPT
       !.receipts = IF plan.receipts = {} THEN @ ELSE plan.receipts]

\* The command row and the planned rows, over whatever the rows are now.
Commit(db, request, plan) ==
    [flags        |-> Written(db.flags, plan.flags),
     environments |-> Written(db.environments, plan.environments),
     rulesets     |-> db.rulesets \union plan.rulesets,
     commands     |-> db.commands \union
                        {[request |-> request, response |-> plan.response]},
     receipts     |-> db.receipts \union plan.receipts]

\* The primary keys, unique keys and foreign keys the rows must satisfy.
Fits(db, request, plan) ==
    /\ ~Recorded(db, request)
    /\ request.operation = "create_flag" => db.flags[request.flag].revision = 0
    /\ \A new \in plan.rulesets :
         /\ \A row \in Published(db, new.flag, new.environment) :
              row.revision # new.revision
         /\ db.flags[new.flag].revision # 0
         /\ db.environments[new.environment].revision # 0
    /\ \A new \in plan.receipts, row \in db.receipts :
         <<new.principal, new.operation, new.evaluation_id, new.flag>> #
         <<row.principal, row.operation, row.evaluation_id, row.flag>>

-----------------------------------------------------------------------------
(* What must hold of the tables together.                                  *)

\* A command key was admitted for one request only.
CommandsUnique(db) ==
    \A one, two \in db.commands :
        CommandId(one.request) = CommandId(two.request) => one = two

\* Publishing checks the ruleset against the type of its flag, and neither a
\* flag's type nor a row of its history changes afterwards.
PublishedValid(db) ==
    \A row \in db.rulesets :
        /\ db.flags[row.flag].revision # 0
        /\ db.environments[row.environment].revision # 0
        /\ Valid(db.flags[row.flag].value_type, row.definition)

\* The history of a flag in an environment is numbered 1, 2, ... n.
HistoryContiguous(db) ==
    \A flag \in FlagKeys, environment \in EnvironmentKeys :
        LET history == Published(db, flag, environment) IN
        /\ \A one, two \in history : one.revision = two.revision => one = two
        /\ {row.revision : row \in history} = 1 .. Cardinality(history)

\* The commands that advance the revision of a flag or of an environment.
FlagCommands(db, flag) ==
    {row \in db.commands :
        /\ row.request.operation \in
             {"create_flag", "update_flag", "archive_flag", "publish_ruleset"}
        /\ row.request.flag = flag}

EnvironmentCommands(db, environment) ==
    {row \in db.commands :
        /\ row.request.operation \in {"put_environment", "publish_ruleset"}
        /\ row.request.environment = environment}

\* No update is lost: a revision counts the commands that advanced it.
RevisionsCount(db) ==
    /\ \A flag \in FlagKeys :
         db.flags[flag].revision = Cardinality(FlagCommands(db, flag))
    /\ \A environment \in EnvironmentKeys :
         db.environments[environment].revision
           = Cardinality(EnvironmentCommands(db, environment))

\* The receipts are exactly the evaluations the stored responses report.
ReceiptsMatch(db) ==
    db.receipts =
      UNION {ReceiptsOf(row.request, row.response.evaluations) :
               row \in {command \in db.commands :
                          command.request.operation
                            \in {"evaluate", "evaluate_batch"}}}

\* Some revision of the history, applied to the request, serves the variant the
\* evaluation reports, for the reason it reports.
Explained(db, request, evaluation) ==
    \E row \in Published(db, evaluation.flag, request.environment) :
        /\ row.revision = evaluation.ruleset_revision
        /\ ChooseVariant(request.attributes,
             Bucket[<<request.environment, evaluation.flag,
                      request.targeting_key>>],
             row.definition)
           = [status |-> "Chosen", variant |-> evaluation.variant,
              reason |-> evaluation.reason]

\* The history still explains every stored evaluation.
EvaluationsExplained(db) ==
    \A command \in db.commands :
        command.request.operation \in {"evaluate", "evaluate_batch"} =>
            \A i \in DOMAIN command.response.evaluations :
                Explained(db, command.request, command.response.evaluations[i])

Consistent(db) ==
    /\ CommandsUnique(db)
    /\ PublishedValid(db)
    /\ HistoryContiguous(db)
    /\ RevisionsCount(db)
    /\ ReceiptsMatch(db)
    /\ EvaluationsExplained(db)

\* A flag that does not exist has no type to keep and is not archived.
AbsentRows(db) ==
    \A flag \in FlagKeys : db.flags[flag].revision = 0 => db.flags[flag] = NoFlag

\* What a generation may find in its tables.
Sound(db) ==
    /\ db \in Database
    /\ AbsentRows(db)
    /\ IsFiniteSet(db.rulesets)
    /\ IsFiniteSet(db.commands)
    /\ Consistent(db)

=============================================================================
