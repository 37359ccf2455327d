-------------------------- MODULE DatabaseTheorems --------------------------
(***************************************************************************)
(* Publication and evaluation agree, for every ruleset, context and bucket *)
(* and every width of integer: what validate_ruleset accepts,              *)
(* choose_variant serves (ValidatedRulesetServes).                         *)
(*                                                                         *)
(* A command that commits its plan on sound tables leaves sound tables.    *)
(* The lemmas say what each operation writes; the theorem CommitSound puts *)
(* them together, one named part of Consistent at a time.                  *)
(***************************************************************************)
EXTENDS FlagDatabase, WellFoundedInduction, FiniteSetTheorems, TLAPS

-----------------------------------------------------------------------------
(* Rulesets.                                                               *)

\* Min of community modules, on a set of naturals.
LEMMA MinOfNaturals ==
    ASSUME NEW S \in SUBSET Nat, S # {}
    PROVE  Min(S) \in S /\ \A n \in S : Min(S) =< n
<1>1. PICK least \in S : \A n \in S : ~(<<n, least>> \in OpToRel(<, Nat))
  BY NatLessThanWellFounded, WFMin
<1>2. \A n \in S : least =< n
  <2>1. TAKE n \in S
  <2>2. n \in Nat /\ least \in Nat
    OBVIOUS
  <2>3. ~(n < least)
    BY <1>1, <2>2 DEF OpToRel
  <2>4. QED
    BY <2>2, <2>3
<1>3. QED
  BY <1>2 DEF Min

\* fn variant: a key the ruleset names is served by the first of its variants
\* with that key.
LEMMA FirstVariantServed ==
    ASSUME NEW definition \in RulesetDefinition,
           NEW key \in VariantKeysOf(definition), NEW reason
    PROVE  \E i \in 1 .. Len(definition.variants) :
             /\ definition.variants[i].variant_key = key
             /\ \A j \in 1 .. Len(definition.variants) :
                  definition.variants[j].variant_key = key => i =< j
             /\ definition.variants[i] \in ToSet(definition.variants)
             /\ Serve(definition, key, reason) =
                  [status |-> "Chosen", variant |-> definition.variants[i],
                   reason |-> reason]
<1> DEFINE variants == definition.variants
           named == {i \in 1 .. Len(variants) : variants[i].variant_key = key}
<1>1. variants \in Seq(VariantRecord)
  BY DEF RulesetDefinition
<1>2. named # {}
  <2>1. PICK variant \in ToSet(variants) : key = variant.variant_key
    BY DEF VariantKeysOf
  <2>2. PICK i \in DOMAIN variants : variants[i] = variant
    BY <2>1 DEF ToSet
  <2>3. QED
    BY <1>1, <2>1, <2>2
<1>3. named \in SUBSET Nat
  BY <1>1
<1>4. Min(named) \in named /\ \A j \in named : Min(named) =< j
  BY <1>2, <1>3, MinOfNaturals
<1>5. SelectInSeq(variants, LAMBDA v : v.variant_key = key) = Min(named)
  BY <1>2 DEF SelectInSeq
<1>6. /\ Min(named) # 0
      /\ variants[Min(named)] \in ToSet(variants)
  <2>1. DOMAIN variants = 1 .. Len(variants) /\ Len(variants) \in Nat
    BY <1>1
  <2>2. Min(named) \in 1 .. Len(variants)
    BY <1>4
  <2>3. Min(named) # 0 /\ Min(named) \in DOMAIN variants
    BY <2>1, <2>2
  <2>4. \A i \in DOMAIN variants : variants[i] \in ToSet(variants)
    BY DEF ToSet
  <2>5. QED
    BY <2>3, <2>4
<1>7. Serve(definition, key, reason) =
        [status |-> "Chosen", variant |-> variants[Min(named)], reason |-> reason]
  BY <1>5, <1>6 DEF Serve
<1>8. QED
  BY <1>4, <1>6, <1>7

\* It is a variant of the ruleset, served for the reason given.
LEMMA NamedVariantServed ==
    ASSUME NEW definition \in RulesetDefinition,
           NEW key \in VariantKeysOf(definition), NEW reason
    PROVE  LET choice == Serve(definition, key, reason) IN
           /\ choice.status = "Chosen"
           /\ choice.variant \in ToSet(definition.variants)
           /\ choice.variant.variant_key = key
           /\ choice.reason = reason
           /\ choice = [status |-> "Chosen", variant |-> choice.variant,
                        reason |-> choice.reason]
BY FirstVariantServed

\* Every key choose_variant may serve is one that validation looked up.
LEMMA ValidKeysNamed ==
    ASSUME NEW type, NEW definition \in RulesetDefinition,
           Valid(type, definition)
    PROVE  /\ definition.fallthrough_variant \in VariantKeysOf(definition)
           /\ \A i \in DOMAIN definition.targeting_rules :
                definition.targeting_rules[i].variant_key
                  \in VariantKeysOf(definition)
           /\ \A i \in DOMAIN definition.percentage_rollout :
                /\ definition.percentage_rollout[i].basis_points > 0
                /\ definition.percentage_rollout[i].variant_key
                     \in VariantKeysOf(definition)
           /\ ValuesTyped(type, definition)
<1>1. /\ NamesVariants(definition)
      /\ ValuesTyped(type, definition)
      /\ RulesSound(definition)
      /\ RolloutSound(definition)
  BY DEF Valid, ValidateRuleset
<1>2. \A i \in DOMAIN definition.targeting_rules :
        definition.targeting_rules[i] \in ToSet(definition.targeting_rules)
  BY DEF ToSet
<1>3. \A i \in DOMAIN definition.percentage_rollout :
        definition.percentage_rollout[i] \in ToSet(definition.percentage_rollout)
  BY DEF ToSet
<1>4. QED
  BY <1>1, <1>2, <1>3 DEF NamesVariants, RulesSound, RolloutSound

\* A ruleset that passes validation for a type serves, to every context and in
\* every bucket, one of its variants, with a value of that type.
THEOREM ValidatedRulesetServes ==
    ASSUME NEW type, NEW definition \in RulesetDefinition,
           Valid(type, definition), NEW attributes, NEW bucket
    PROVE  LET choice == ChooseVariant(attributes, bucket, definition) IN
           /\ choice.status = "Chosen"
           /\ choice.variant \in ToSet(definition.variants)
           /\ choice.reason
                \in {"target_match", "percentage_rollout", "fallthrough"}
           /\ ValidValue(type, choice.variant.value)
           /\ choice = [status |-> "Chosen", variant |-> choice.variant,
                        reason |-> choice.reason]
<1> DEFINE choice   == ChooseVariant(attributes, bucket, definition)
           rules    == definition.targeting_rules
           rollout  == definition.percentage_rollout
           matching == MatchingRules(attributes, definition)
           stops    == RolloutStops(bucket, rollout)
           reasons  == {"target_match", "percentage_rollout", "fallthrough"}
<1>1. /\ rules \in Seq(TargetingRuleRecord)
      /\ rollout \in Seq(RolloutRecord)
  BY DEF RulesetDefinition
<1>2. matching \in SUBSET Nat /\ matching \subseteq DOMAIN rules
  BY <1>1 DEF MatchingRules
<1>3. stops \in SUBSET Nat /\ stops \subseteq DOMAIN rollout
  BY <1>1 DEF RolloutStops
<1>4. \E key \in VariantKeysOf(definition), reason \in reasons :
        choice = Serve(definition, key, reason)
  <2>1. CASE matching # {}
    <3>1. Min(matching) \in DOMAIN rules
      BY <1>2, <2>1, MinOfNaturals
    <3>2. choice = Serve(definition, rules[Min(matching)].variant_key,
                         "target_match")
      BY <2>1 DEF ChooseVariant
    <3>3. QED
      BY <3>1, <3>2, ValidKeysNamed
  <2>2. CASE matching = {} /\ stops = {}
    <3>1. choice = Serve(definition, definition.fallthrough_variant,
                         "fallthrough")
      BY <2>2 DEF ChooseVariant
    <3>2. QED
      BY <3>1, ValidKeysNamed
  <2>3. CASE matching = {} /\ stops # {}
    <3>1. Min(stops) \in DOMAIN rollout
      BY <1>3, <2>3, MinOfNaturals
    <3>2. rollout[Min(stops)].basis_points \in Int
      <4>1. rollout[Min(stops)] \in RolloutRecord
        BY <1>1, <3>1
      <4>2. QED
        BY <4>1, BasisPointsAssumption DEF RolloutRecord, Integer64
    <3>3. ~(rollout[Min(stops)].basis_points < 0)
      BY <3>1, <3>2, ValidKeysNamed
    <3>4. choice = Serve(definition, rollout[Min(stops)].variant_key,
                         "percentage_rollout")
      BY <2>3, <3>3 DEF ChooseVariant
    <3>5. QED
      BY <3>1, <3>4, ValidKeysNamed
  <2>4. QED
    BY <2>1, <2>2, <2>3
<1>5. /\ choice.status = "Chosen"
      /\ choice.variant \in ToSet(definition.variants)
      /\ choice.reason \in reasons
      /\ choice = [status |-> "Chosen", variant |-> choice.variant,
                   reason |-> choice.reason]
  BY <1>4, NamedVariantServed
<1>6. ValidValue(type, choice.variant.value)
  BY <1>5, ValidKeysNamed DEF ValuesTyped
<1>7. QED
  BY <1>5, <1>6

-----------------------------------------------------------------------------
(* Commits.                                                                *)

FlagOperations ==
    {"create_flag", "update_flag", "archive_flag", "publish_ruleset"}

EvaluateOperations == {"evaluate", "evaluate_batch"}

\* The tables after a command commits.
Committed(db, request) == Commit(db, request, Plan(db, request))

\* The command row it leaves.
NewCommand(db, request) ==
    [request |-> request, response |-> Plan(db, request).response]

\* A command whose plan is admitted on sound tables.
Admissible(db, request) ==
    /\ Sound(db)
    /\ request \in Requests
    /\ ~Recorded(db, request)
    /\ Plan(db, request).status = "Planned"

-----------------------------------------------------------------------------
(* Rows and functions.                                                     *)

LEMMA FlagWritten ==
    ASSUME NEW f \in [FlagKeys -> FlagRecord], NEW key \in FlagKeys, NEW row
    PROVE  Written(f, Row(key, row)) = [f EXCEPT ![key] = row]
BY DEF Row, Written

LEMMA EnvironmentWritten ==
    ASSUME NEW f \in [EnvironmentKeys -> EnvironmentRecord],
           NEW key \in EnvironmentKeys, NEW row
    PROVE  Written(f, Row(key, row)) = [f EXCEPT ![key] = row]
BY DEF Row, Written

LEMMA NothingWritten ==
    ASSUME NEW db, db \in Database
    PROVE  /\ Written(db.flags, NoRows) = db.flags
           /\ Written(db.environments, NoRows) = db.environments
<1>1. /\ db.flags \in [FlagKeys -> FlagRecord]
      /\ db.environments \in [EnvironmentKeys -> EnvironmentRecord]
  BY DEF Database
<1>2. QED
  BY <1>1 DEF NoRows, Written

LEMMA CommitFields ==
    ASSUME NEW db, NEW request
    PROVE  Committed(db, request) =
             [flags        |-> Written(db.flags, Plan(db, request).flags),
              environments |-> Written(db.environments,
                                       Plan(db, request).environments),
              rulesets     |-> db.rulesets \union Plan(db, request).rulesets,
              commands     |-> db.commands \union {NewCommand(db, request)},
              receipts     |-> db.receipts \union Plan(db, request).receipts]
BY DEF Committed, Commit, NewCommand

LEMMA BumpedFlag ==
    ASSUME NEW flag \in FlagRecord
    PROVE  /\ Bumped(flag) \in FlagRecord
           /\ Bumped(flag).value_type = flag.value_type
           /\ Bumped(flag).archived = flag.archived
           /\ Bumped(flag).revision = flag.revision + 1
BY DEF FlagRecord, Bumped

LEMMA BumpedEnvironment ==
    ASSUME NEW environment \in EnvironmentRecord
    PROVE  /\ Bumped(environment) \in EnvironmentRecord
           /\ Bumped(environment).revision = environment.revision + 1
BY DEF EnvironmentRecord, Bumped

LEMMA RequestFields ==
    ASSUME NEW request \in Requests
    PROVE  \/ request \in CreateFlag
           \/ request \in ChangeFlag
           \/ request \in PutEnvironment
           \/ request \in PublishRuleset
           \/ request \in Evaluate
BY RequestsAssumption DEF Request

\* The latest ruleset of a history that is not empty is its last revision.
LEMMA LatestRow ==
    ASSUME NEW db, Sound(db), NEW flag \in FlagKeys,
           NEW environment \in EnvironmentKeys,
           Published(db, flag, environment) # {}
    PROVE  /\ Latest(db, flag, environment) \in Published(db, flag, environment)
           /\ Latest(db, flag, environment) \in RulesetRow
           /\ Latest(db, flag, environment) \in db.rulesets
           /\ Latest(db, flag, environment).revision
                = Cardinality(Published(db, flag, environment))
           /\ Latest(db, flag, environment).revision \in Nat \ {0}
           /\ \A row \in Published(db, flag, environment) :
                row.revision =< Latest(db, flag, environment).revision
<1> DEFINE history == Published(db, flag, environment)
           n       == Cardinality(history)
           latest  == Latest(db, flag, environment)
<1>1. history \subseteq db.rulesets /\ history \subseteq RulesetRow
  BY DEF Published, Sound, Database
<1>2. IsFiniteSet(history)
  BY <1>1, FS_Subset DEF Sound
<1>3. n \in Nat /\ n # 0
  BY <1>2, FS_CardinalityType, FS_EmptySet
<1>4. {row.revision : row \in history} = 1 .. n
  BY DEF Sound, Consistent, HistoryContiguous
<1>5. PICK last \in history : last.revision = n
  BY <1>3, <1>4
<1>6. \A row \in history : row.revision =< n /\ row.revision \in Nat
  BY <1>3, <1>4
<1>7. \E row \in history : \A other \in history : other.revision =< row.revision
  BY <1>5, <1>6
<1>8. /\ latest \in history
      /\ \A other \in history : other.revision =< latest.revision
  BY <1>7 DEF Latest
<1>9. latest.revision = n
  BY <1>3, <1>5, <1>6, <1>8
<1>10. QED
  BY <1>1, <1>3, <1>8, <1>9

-----------------------------------------------------------------------------
(* What each operation writes.                                             *)

LEMMA CreateFlagWrites ==
    ASSUME NEW db, NEW request, Admissible(db, request),
           request \in CreateFlag
    PROVE  \E row \in FlagRecord :
           /\ db.flags[request.flag].revision = 0
           /\ row.revision = 1
           /\ Plan(db, request).response = row
           /\ Committed(db, request) =
                [flags        |-> [db.flags EXCEPT ![request.flag] = row],
                 environments |-> db.environments,
                 rulesets     |-> db.rulesets,
                 commands     |-> db.commands \union {NewCommand(db, request)},
                 receipts     |-> db.receipts]
<1> DEFINE row == [value_type |-> request.value_type, archived |-> FALSE,
                   revision |-> 1]
<1>1. Plan(db, request) = PlanCreateFlag(db, request)
  BY DEF CreateFlag, Plan
<1>2. /\ db.flags[request.flag].revision = 0
      /\ Plan(db, request) = Planned(row, Row(request.flag, row), NoRows, {}, {})
  BY <1>1 DEF PlanCreateFlag, Admissible, Refused
<1>3. /\ db.flags \in [FlagKeys -> FlagRecord]
      /\ db.environments \in [EnvironmentKeys -> EnvironmentRecord]
      /\ request.flag \in FlagKeys
  BY DEF Admissible, Sound, Database, CreateFlag
<1>4. row \in FlagRecord /\ row.revision = 1
  BY DEF CreateFlag, FlagRecord
<1> HIDE DEF row
<1>5. /\ Written(db.flags, Row(request.flag, row))
           = [db.flags EXCEPT ![request.flag] = row]
      /\ Written(db.environments, NoRows) = db.environments
  BY <1>3, FlagWritten, EnvironmentWritten, NothingWritten DEF Admissible, Sound
<1>6. db.rulesets \union {} = db.rulesets /\ db.receipts \union {} = db.receipts
  OBVIOUS
<1>7. /\ Plan(db, request).response = row
      /\ Committed(db, request) =
           [flags        |-> Written(db.flags, Row(request.flag, row)),
            environments |-> Written(db.environments, NoRows),
            rulesets     |-> db.rulesets \union {},
            commands     |-> db.commands \union {NewCommand(db, request)},
            receipts     |-> db.receipts \union {}]
  <2>1. Plan(db, request)
          = Planned(row, Row(request.flag, row), NoRows, {}, {})
    BY <1>2
  <2>2. /\ Plan(db, request).response = row
        /\ Plan(db, request).flags = Row(request.flag, row)
        /\ Plan(db, request).environments = NoRows
        /\ Plan(db, request).rulesets = {}
        /\ Plan(db, request).receipts = {}
    BY <2>1 DEF Planned
  <2>3. QED
    BY <2>2, CommitFields
<1>8. QED
  BY <1>2, <1>4, <1>5, <1>6, <1>7

LEMMA ChangeFlagWrites ==
    ASSUME NEW db, NEW request, Admissible(db, request),
           request \in ChangeFlag
    PROVE  \E row \in FlagRecord :
           /\ db.flags[request.flag].revision # 0
           /\ ~db.flags[request.flag].archived
           /\ row.value_type = db.flags[request.flag].value_type
           /\ row.revision = db.flags[request.flag].revision + 1
           /\ Plan(db, request).response = row
           /\ Committed(db, request) =
                [flags        |-> [db.flags EXCEPT ![request.flag] = row],
                 environments |-> db.environments,
                 rulesets     |-> db.rulesets,
                 commands     |-> db.commands \union {NewCommand(db, request)},
                 receipts     |-> db.receipts]
<1> DEFINE flag == db.flags[request.flag]
           row  == [Bumped(flag) EXCEPT
                      !.archived = @ \/ request.operation = "archive_flag"]
<1>1. Plan(db, request) = PlanChangeFlag(db, request)
  BY DEF ChangeFlag, Plan
<1>2. /\ db.flags \in [FlagKeys -> FlagRecord]
      /\ db.environments \in [EnvironmentKeys -> EnvironmentRecord]
      /\ request.flag \in FlagKeys
      /\ flag \in FlagRecord
  BY DEF Admissible, Sound, Database, ChangeFlag
<1>3. /\ flag.revision # 0
      /\ FlagVerdict(flag, request.expected) = "Current"
      /\ Plan(db, request)
           = Planned(row, Row(request.flag, row), NoRows, {}, {})
  BY <1>1 DEF PlanChangeFlag, Admissible, Refused, FlagVerdict
<1>4. ~flag.archived
  BY <1>3 DEF FlagVerdict
<1>5. /\ row \in FlagRecord
      /\ row.value_type = flag.value_type
      /\ row.revision = flag.revision + 1
  <2> HIDE DEF flag
  <2>1. /\ Bumped(flag) \in FlagRecord
        /\ Bumped(flag).value_type = flag.value_type
        /\ Bumped(flag).revision = flag.revision + 1
    BY <1>2, BumpedFlag
  <2>2. (Bumped(flag).archived \/ request.operation = "archive_flag") \in BOOLEAN
    OBVIOUS
  <2>3. QED
    BY <2>1, <2>2 DEF FlagRecord
<1> HIDE DEF row
<1>6. /\ Written(db.flags, Row(request.flag, row))
           = [db.flags EXCEPT ![request.flag] = row]
      /\ Written(db.environments, NoRows) = db.environments
  BY <1>2, FlagWritten, NothingWritten DEF Admissible, Sound
<1>7. db.rulesets \union {} = db.rulesets /\ db.receipts \union {} = db.receipts
  OBVIOUS
<1>8. /\ Plan(db, request).response = row
      /\ Committed(db, request) =
           [flags        |-> Written(db.flags, Row(request.flag, row)),
            environments |-> Written(db.environments, NoRows),
            rulesets     |-> db.rulesets \union {},
            commands     |-> db.commands \union {NewCommand(db, request)},
            receipts     |-> db.receipts \union {}]
  <2>1. Plan(db, request)
          = Planned(row, Row(request.flag, row), NoRows, {}, {})
    BY <1>3
  <2>2. /\ Plan(db, request).response = row
        /\ Plan(db, request).flags = Row(request.flag, row)
        /\ Plan(db, request).environments = NoRows
        /\ Plan(db, request).rulesets = {}
        /\ Plan(db, request).receipts = {}
    BY <2>1 DEF Planned
  <2>3. QED
    BY <2>2, CommitFields
<1>9. QED
  BY <1>3, <1>4, <1>5, <1>6, <1>7, <1>8

LEMMA PutEnvironmentWrites ==
    ASSUME NEW db, NEW request, Admissible(db, request),
           request \in PutEnvironment
    PROVE  \E row \in EnvironmentRecord :
           /\ row.revision = db.environments[request.environment].revision + 1
           /\ Plan(db, request).response = row
           /\ Committed(db, request) =
                [flags        |-> db.flags,
                 environments |-> [db.environments EXCEPT
                                     ![request.environment] = row],
                 rulesets     |-> db.rulesets,
                 commands     |-> db.commands \union {NewCommand(db, request)},
                 receipts     |-> db.receipts]
<1> DEFINE environment == db.environments[request.environment]
           row         == Bumped(environment)
<1>1. Plan(db, request) = PlanPutEnvironment(db, request)
  BY DEF PutEnvironment, Plan
<1>2. Plan(db, request)
        = Planned(row, NoRows, Row(request.environment, row), {}, {})
  BY <1>1 DEF PlanPutEnvironment, Admissible, Refused
<1>3. /\ db.flags \in [FlagKeys -> FlagRecord]
      /\ db.environments \in [EnvironmentKeys -> EnvironmentRecord]
      /\ request.environment \in EnvironmentKeys
      /\ environment \in EnvironmentRecord
  BY DEF Admissible, Sound, Database, PutEnvironment
<1>4. row \in EnvironmentRecord /\ row.revision = environment.revision + 1
  BY <1>3, BumpedEnvironment
<1> HIDE DEF row
<1>5. /\ Written(db.environments, Row(request.environment, row))
           = [db.environments EXCEPT ![request.environment] = row]
      /\ Written(db.flags, NoRows) = db.flags
  BY <1>3, FlagWritten, EnvironmentWritten, NothingWritten DEF Admissible, Sound
<1>6. db.rulesets \union {} = db.rulesets /\ db.receipts \union {} = db.receipts
  OBVIOUS
<1>7. /\ Plan(db, request).response = row
      /\ Committed(db, request) =
           [flags        |-> Written(db.flags, NoRows),
            environments |-> Written(db.environments, Row(request.environment, row)),
            rulesets     |-> db.rulesets \union {},
            commands     |-> db.commands \union {NewCommand(db, request)},
            receipts     |-> db.receipts \union {}]
  <2>1. /\ Plan(db, request).response = row
        /\ Plan(db, request).flags = NoRows
        /\ Plan(db, request).environments = Row(request.environment, row)
        /\ Plan(db, request).rulesets = {}
        /\ Plan(db, request).receipts = {}
    BY <1>2 DEF Planned
  <2>2. QED
    BY <2>1, CommitFields
<1>8. QED
  BY <1>4, <1>5, <1>6, <1>7

\* The ruleset row a publication adds.
NewRuleset(db, request) ==
    [flag |-> request.flag, environment |-> request.environment,
     revision |-> Cardinality(Published(db, request.flag,
                                        request.environment)) + 1,
     definition |-> request.definition]

LEMMA PublishRulesetWrites ==
    ASSUME NEW db, NEW request, Admissible(db, request),
           request \in PublishRuleset
    PROVE  \E row \in FlagRecord, place \in EnvironmentRecord :
           /\ db.flags[request.flag].revision # 0
           /\ ~db.flags[request.flag].archived
           /\ db.environments[request.environment].revision # 0
           /\ Valid(db.flags[request.flag].value_type, request.definition)
           /\ NewRuleset(db, request) \in RulesetRow
           /\ row.value_type = db.flags[request.flag].value_type
           /\ row.revision = db.flags[request.flag].revision + 1
           /\ place.revision
                = db.environments[request.environment].revision + 1
           /\ Plan(db, request).response =
                [ruleset_revision |-> NewRuleset(db, request).revision,
                 flag_revision |-> row.revision,
                 environment_revision |-> place.revision]
           /\ Plan(db, request).rulesets = {NewRuleset(db, request)}
           /\ Plan(db, request).receipts = {}
           /\ Committed(db, request) =
                [flags        |-> [db.flags EXCEPT ![request.flag] = row],
                 environments |-> [db.environments EXCEPT
                                     ![request.environment] = place],
                 rulesets     |-> db.rulesets \union {NewRuleset(db, request)},
                 commands     |-> db.commands \union {NewCommand(db, request)},
                 receipts     |-> db.receipts]
<1> DEFINE flag        == db.flags[request.flag]
           environment == db.environments[request.environment]
           history     == Published(db, request.flag, request.environment)
           next        == Cardinality(history) + 1
           new         == NewRuleset(db, request)
           row         == Bumped(flag)
           place       == Bumped(environment)
           response    == [ruleset_revision |-> next,
                           flag_revision |-> flag.revision + 1,
                           environment_revision |-> environment.revision + 1]
<1>1. Plan(db, request) = PlanPublishRuleset(db, request)
  BY DEF PublishRuleset, Plan
<1>2. /\ db.flags \in [FlagKeys -> FlagRecord]
      /\ db.environments \in [EnvironmentKeys -> EnvironmentRecord]
      /\ request.flag \in FlagKeys
      /\ request.environment \in EnvironmentKeys
      /\ request.definition \in RulesetDefinition
      /\ flag \in FlagRecord
      /\ environment \in EnvironmentRecord
  BY DEF Admissible, Sound, Database, PublishRuleset
<1>3. /\ NextRulesetRevision(db, request.flag, request.environment) = next
      /\ next \in Nat \ {0}
  <2>1. CASE history = {}
    BY <2>1, FS_EmptySet DEF NextRulesetRevision
  <2>2. CASE history # {}
    BY <1>2, <2>2, LatestRow DEF NextRulesetRevision, Admissible
  <2>3. QED
    BY <2>1, <2>2
<1>4. /\ flag.revision # 0
      /\ FlagVerdict(flag, request.expected) = "Current"
      /\ ValidateRuleset(flag.value_type, request.definition) = "Valid"
      /\ environment.revision # 0
      /\ Plan(db, request)
           = Planned(response, Row(request.flag, row),
                     Row(request.environment, place), {new}, {})
  BY <1>1, <1>3
  DEF PlanPublishRuleset, Admissible, Refused, FlagVerdict, ValidateRuleset,
      NewRuleset
<1>5. ~flag.archived
  BY <1>4 DEF FlagVerdict
<1>6. /\ row \in FlagRecord
      /\ row.value_type = flag.value_type
      /\ row.revision = flag.revision + 1
      /\ place \in EnvironmentRecord
      /\ place.revision = environment.revision + 1
  BY <1>2, BumpedFlag, BumpedEnvironment
<1>7. new \in RulesetRow /\ new.revision = next
  BY <1>2, <1>3 DEF RulesetRow, Revisions, NewRuleset
<1> HIDE DEF row, place, new
<1>8. /\ Written(db.flags, Row(request.flag, row))
           = [db.flags EXCEPT ![request.flag] = row]
      /\ Written(db.environments, Row(request.environment, place))
           = [db.environments EXCEPT ![request.environment] = place]
  BY <1>2, FlagWritten, EnvironmentWritten
<1>9. response = [ruleset_revision |-> new.revision,
                  flag_revision |-> row.revision,
                  environment_revision |-> place.revision]
  BY <1>6, <1>7
<1> HIDE DEF response
<1>10. /\ Plan(db, request).response = response
       /\ Plan(db, request).rulesets = {new}
       /\ Plan(db, request).receipts = {}
       /\ Committed(db, request) =
           [flags        |-> [db.flags EXCEPT ![request.flag] = row],
            environments |-> [db.environments EXCEPT
                                ![request.environment] = place],
            rulesets     |-> db.rulesets \union {new},
            commands     |-> db.commands \union {NewCommand(db, request)},
            receipts     |-> db.receipts]
  <2>1. db.receipts \union {} = db.receipts
    OBVIOUS
  <2>2. /\ Plan(db, request).response = response
        /\ Plan(db, request).rulesets = {new}
        /\ Plan(db, request).receipts = {}
        /\ Committed(db, request) =
             [flags        |-> Written(db.flags, Row(request.flag, row)),
              environments |-> Written(db.environments,
                                       Row(request.environment, place)),
              rulesets     |-> db.rulesets \union {new},
              commands     |-> db.commands \union {NewCommand(db, request)},
              receipts     |-> db.receipts \union {}]
    <3>1. Plan(db, request)
            = Planned(response, Row(request.flag, row),
                      Row(request.environment, place), {new}, {})
      BY <1>4
    <3>2. /\ Plan(db, request).response = response
          /\ Plan(db, request).flags = Row(request.flag, row)
          /\ Plan(db, request).environments = Row(request.environment, place)
          /\ Plan(db, request).rulesets = {new}
          /\ Plan(db, request).receipts = {}
      BY <3>1 DEF Planned
    <3>3. QED
      BY <3>2, CommitFields
  <2>3. QED
    BY <1>8, <2>1, <2>2
<1>11. QED
  BY <1>4, <1>5, <1>6, <1>7, <1>9, <1>10 DEF Valid, new

\* The evaluations an evaluate or an evaluate_batch reports.
EvaluationsOf(db, request) ==
    [i \in DOMAIN request.flags |-> Evaluation(db, request, request.flags[i])]

LEMMA VerdictNeverPlanned ==
    ASSUME NEW db, NEW request, NEW flag
    PROVE  EvaluationVerdict(db, request, flag) # "Planned"
<1>1. Choice(db, request, flag).status # "Planned"
  BY DEF Choice, ChooseVariant, Serve, NoChoice
<1>2. QED
  BY <1>1 DEF EvaluationVerdict, ValidateRuleset

\* What an evaluation that is chosen reports.
LEMMA ChosenEvaluation ==
    ASSUME NEW db, Sound(db), NEW request \in Evaluate, NEW flag \in FlagKeys,
           EvaluationVerdict(db, request, flag) = "Chosen"
    PROVE  /\ ~db.flags[flag].archived
           /\ Evaluation(db, request, flag) \in EvaluationRecord
           /\ Explained(db, request, Evaluation(db, request, flag))
<1> DEFINE environment == request.environment
           latest      == Latest(db, flag, environment)
           choice      == Choice(db, request, flag)
           result      == Evaluation(db, request, flag)
           type        == db.flags[flag].value_type
           bucket      == Bucket[<<environment, flag, request.targeting_key>>]
           reasons     == {"target_match", "percentage_rollout", "fallthrough"}
<1>1. /\ ~db.flags[flag].archived
      /\ Published(db, flag, environment) # {}
      /\ ValidateRuleset(type, latest.definition) = "Valid"
  BY DEF EvaluationVerdict, ValidateRuleset
<1>2. environment \in EnvironmentKeys
  BY DEF Evaluate
<1>3. /\ latest \in Published(db, flag, environment)
      /\ latest.revision \in Revisions
      /\ latest.definition \in RulesetDefinition
  BY <1>1, <1>2, LatestRow DEF RulesetRow, Revisions
<1>4. choice = ChooseVariant(request.attributes, bucket, latest.definition)
  BY DEF Choice
<1> HIDE DEF latest, choice, bucket, type
<1>5. /\ choice.variant \in ToSet(latest.definition.variants)
      /\ choice.reason \in reasons
      /\ choice = [status |-> "Chosen", variant |-> choice.variant,
                   reason |-> choice.reason]
  BY <1>1, <1>3, <1>4, ValidatedRulesetServes DEF Valid
<1>6. choice.variant \in VariantRecord
  <2>1. latest.definition.variants \in Seq(VariantRecord)
    BY <1>3 DEF RulesetDefinition
  <2>2. QED
    BY <1>5, <2>1 DEF ToSet
<1>7. result = [flag |-> flag, environment |-> environment,
                variant |-> choice.variant, reason |-> choice.reason,
                ruleset_revision |-> latest.revision]
  BY DEF Evaluation, choice, latest
<1> HIDE DEF result, environment
<1>8. result \in EvaluationRecord
  BY <1>2, <1>3, <1>5, <1>6, <1>7 DEF EvaluationRecord
<1>9. Explained(db, request, result)
  BY <1>3, <1>4, <1>5, <1>7 DEF Explained, bucket, environment
<1>10. QED
  BY <1>1, <1>8, <1>9 DEF result

LEMMA EvaluateWrites ==
    ASSUME NEW db, NEW request, Admissible(db, request),
           request \in Evaluate
    PROVE  /\ EvaluationsOf(db, request) \in Seq(EvaluationRecord)
           /\ \A i \in DOMAIN request.flags :
                /\ ~db.flags[request.flags[i]].archived
                /\ EvaluationsOf(db, request)[i].flag = request.flags[i]
                /\ EvaluationsOf(db, request)[i].ruleset_revision =
                     Latest(db, request.flags[i], request.environment).revision
                /\ Explained(db, request, EvaluationsOf(db, request)[i])
           /\ Plan(db, request).response =
                [evaluations |-> EvaluationsOf(db, request)]
           /\ Plan(db, request).rulesets = {}
           /\ Plan(db, request).receipts =
                ReceiptsOf(request, EvaluationsOf(db, request))
           /\ Committed(db, request) =
                [flags        |-> db.flags,
                 environments |-> db.environments,
                 rulesets     |-> db.rulesets,
                 commands     |-> db.commands \union {NewCommand(db, request)},
                 receipts     |-> db.receipts \union
                   ReceiptsOf(request, EvaluationsOf(db, request))]
<1> DEFINE flags       == request.flags
           evaluations == EvaluationsOf(db, request)
           reasons     == {"target_match", "percentage_rollout", "fallthrough"}
<1>1. Plan(db, request) = PlanEvaluate(db, request)
  BY DEF Evaluate, Plan
<1>2. /\ \A i \in DOMAIN flags :
           EvaluationVerdict(db, request, flags[i]) = "Chosen"
      /\ Plan(db, request) =
           Planned([evaluations |-> evaluations], NoRows, NoRows, {},
                   ReceiptsOf(request, evaluations))
  <2> DEFINE verdict(i) == EvaluationVerdict(db, request, flags[i])
             failing    == {i \in DOMAIN flags : verdict(i) # "Chosen"}
  <2>1. PlanEvaluate(db, request) =
          IF failing # {} THEN Refused(verdict(Min(failing)))
          ELSE Planned([evaluations |-> evaluations], NoRows, NoRows, {},
                       ReceiptsOf(request, evaluations))
    BY DEF PlanEvaluate, EvaluationsOf
  <2>2. failing = {}
    <3>1. ASSUME failing # {} PROVE verdict(Min(failing)) = "Planned"
      BY <1>1, <2>1, <3>1 DEF Refused, Admissible
    <3>2. QED
      BY <3>1, VerdictNeverPlanned
  <2>3. QED
    BY <1>1, <2>1, <2>2
<1>3. /\ flags \in Seq(FlagKeys)
      /\ request.environment \in EnvironmentKeys
      /\ db \in Database
  BY DEF Evaluate, Admissible, Sound
<1>4. \A i \in DOMAIN flags :
        /\ flags[i] \in FlagKeys
        /\ ~db.flags[flags[i]].archived
        /\ Evaluation(db, request, flags[i]) \in EvaluationRecord
        /\ Explained(db, request, Evaluation(db, request, flags[i]))
  BY <1>2, <1>3, ChosenEvaluation DEF Admissible
<1>5. /\ DOMAIN evaluations = DOMAIN flags
      /\ \A i \in DOMAIN flags :
           evaluations[i] = Evaluation(db, request, flags[i])
  BY DEF EvaluationsOf
<1>6. evaluations \in Seq(EvaluationRecord)
  <2>1. evaluations \in [1 .. Len(flags) -> EvaluationRecord]
    BY <1>3, <1>4 DEF EvaluationsOf
  <2>2. QED
    BY <1>3, <2>1
<1>7. \A i \in DOMAIN flags :
        /\ evaluations[i].flag = flags[i]
        /\ evaluations[i].ruleset_revision =
             Latest(db, flags[i], request.environment).revision
  <2>1. TAKE i \in DOMAIN flags
  <2>2. evaluations[i] = Evaluation(db, request, flags[i])
    BY <1>5
  <2>3. QED
    BY <2>2 DEF Evaluation
<1> HIDE DEF evaluations
<1>8. /\ Plan(db, request).response = [evaluations |-> evaluations]
      /\ Plan(db, request).flags = NoRows
      /\ Plan(db, request).environments = NoRows
      /\ Plan(db, request).rulesets = {}
      /\ Plan(db, request).receipts = ReceiptsOf(request, evaluations)
  BY <1>2 DEF Planned
<1>9. Committed(db, request) =
        [flags        |-> db.flags,
         environments |-> db.environments,
         rulesets     |-> db.rulesets,
         commands     |-> db.commands \union {NewCommand(db, request)},
         receipts     |-> db.receipts \union ReceiptsOf(request, evaluations)]
  <2>1. db.rulesets \union {} = db.rulesets
    OBVIOUS
  <2>2. QED
    BY <1>3, <1>8, <2>1, NothingWritten, CommitFields
<1>10. QED
  BY <1>4, <1>5, <1>6, <1>7, <1>8, <1>9 DEF evaluations

-----------------------------------------------------------------------------
(* What a commit does to the tables, whatever the operation.               *)

\* 1 if the request advances the revision of the flag (of the environment).
FlagStep(request, flag) ==
    IF request.operation \in FlagOperations /\ request.flag = flag THEN 1 ELSE 0

EnvironmentStep(request, environment) ==
    IF /\ request.operation \in {"put_environment", "publish_ruleset"}
       /\ request.environment = environment
    THEN 1 ELSE 0

\* The ruleset rows and the receipts the request adds.
NewRulesets(db, request) ==
    IF request.operation = "publish_ruleset"
    THEN {NewRuleset(db, request)} ELSE {}

NewReceipts(db, request) ==
    IF request.operation \in EvaluateOperations
    THEN ReceiptsOf(request, EvaluationsOf(db, request)) ELSE {}

FlagEffects(db, request, after) ==
    /\ after.flags \in [FlagKeys -> FlagRecord]
    /\ \A flag \in FlagKeys :
         /\ after.flags[flag].revision
              = db.flags[flag].revision + FlagStep(request, flag)
         /\ db.flags[flag].revision # 0 =>
              after.flags[flag].value_type = db.flags[flag].value_type
         /\ db.flags[flag].archived => after.flags[flag] = db.flags[flag]
         /\ after.flags[flag].revision = 0 => after.flags[flag] = db.flags[flag]

EnvironmentEffects(db, request, after) ==
    /\ after.environments \in [EnvironmentKeys -> EnvironmentRecord]
    /\ \A environment \in EnvironmentKeys :
         after.environments[environment].revision
           = db.environments[environment].revision
               + EnvironmentStep(request, environment)

RowEffects(db, request, after) ==
    /\ after.commands = db.commands \union {NewCommand(db, request)}
    /\ after.rulesets = db.rulesets \union NewRulesets(db, request)
    /\ after.receipts = db.receipts \union NewReceipts(db, request)
    /\ after = [flags |-> after.flags, environments |-> after.environments,
                rulesets |-> after.rulesets, commands |-> after.commands,
                receipts |-> after.receipts]

ResponseEffects(db, request) ==
    /\ Plan(db, request).response \in Response
    /\ request.operation \in EvaluateOperations =>
         /\ Plan(db, request).response =
              [evaluations |-> EvaluationsOf(db, request)]
         /\ EvaluationsOf(db, request) \in Seq(EvaluationRecord)
         /\ DOMAIN EvaluationsOf(db, request) = DOMAIN request.flags
         /\ \A i \in DOMAIN request.flags :
              /\ ~db.flags[request.flags[i]].archived
              /\ EvaluationsOf(db, request)[i].flag = request.flags[i]
              /\ EvaluationsOf(db, request)[i].ruleset_revision =
                   Latest(db, request.flags[i], request.environment).revision
              /\ Explained(db, request, EvaluationsOf(db, request)[i])
    /\ request.operation = "publish_ruleset" =>
         /\ request \in PublishRuleset
         /\ db.flags[request.flag].revision # 0
         /\ ~db.flags[request.flag].archived
         /\ db.environments[request.environment].revision # 0
         /\ Valid(db.flags[request.flag].value_type, request.definition)
         /\ NewRuleset(db, request) \in RulesetRow

Effects(db, request, after) ==
    /\ FlagEffects(db, request, after)
    /\ EnvironmentEffects(db, request, after)
    /\ RowEffects(db, request, after)
    /\ ResponseEffects(db, request)

LEMMA CreateFlagEffects ==
    ASSUME NEW db, NEW request, Admissible(db, request),
           request \in CreateFlag
    PROVE  Effects(db, request, Committed(db, request))
<1> DEFINE after == Committed(db, request)
<1>1. /\ db.flags \in [FlagKeys -> FlagRecord]
      /\ db.environments \in [EnvironmentKeys -> EnvironmentRecord]
      /\ request.flag \in FlagKeys
      /\ request.operation = "create_flag"
  BY DEF Admissible, Sound, Database, CreateFlag
<1>2. PICK row \in FlagRecord :
        /\ db.flags[request.flag].revision = 0
        /\ row.revision = 1
        /\ Plan(db, request).response = row
        /\ after =
             [flags        |-> [db.flags EXCEPT ![request.flag] = row],
              environments |-> db.environments,
              rulesets     |-> db.rulesets,
              commands     |-> db.commands \union {NewCommand(db, request)},
              receipts     |-> db.receipts]
  BY CreateFlagWrites
<1> HIDE DEF after
<1>3. FlagEffects(db, request, after)
  <2>1. ~db.flags[request.flag].archived
    <3>1. db.flags[request.flag] = NoFlag
      BY <1>1, <1>2 DEF Admissible, Sound, AbsentRows
    <3>2. NoFlag.archived = FALSE
      BY DEF NoFlag
    <3>3. QED
      BY <3>1, <3>2
  <2>2. QED
    BY <1>1, <1>2, <2>1 DEF FlagEffects, FlagStep, FlagOperations, FlagRecord
<1>4. EnvironmentEffects(db, request, after)
  BY <1>1, <1>2 DEF EnvironmentEffects, EnvironmentStep, EnvironmentRecord
<1>5. RowEffects(db, request, after)
  BY <1>1, <1>2
  DEF RowEffects, NewRulesets, NewReceipts, EvaluateOperations
<1>6. ResponseEffects(db, request)
  BY <1>1, <1>2 DEF ResponseEffects, Response, EvaluateOperations
<1>7. QED
  BY <1>3, <1>4, <1>5, <1>6 DEF Effects, after

LEMMA ChangeFlagEffects ==
    ASSUME NEW db, NEW request, Admissible(db, request),
           request \in ChangeFlag
    PROVE  Effects(db, request, Committed(db, request))
<1> DEFINE after == Committed(db, request)
<1>1. /\ db.flags \in [FlagKeys -> FlagRecord]
      /\ db.environments \in [EnvironmentKeys -> EnvironmentRecord]
      /\ request.flag \in FlagKeys
      /\ request.operation \in {"update_flag", "archive_flag"}
  BY DEF Admissible, Sound, Database, ChangeFlag
<1>2. PICK row \in FlagRecord :
        /\ ~db.flags[request.flag].archived
        /\ row.value_type = db.flags[request.flag].value_type
        /\ row.revision = db.flags[request.flag].revision + 1
        /\ Plan(db, request).response = row
        /\ after =
             [flags        |-> [db.flags EXCEPT ![request.flag] = row],
              environments |-> db.environments,
              rulesets     |-> db.rulesets,
              commands     |-> db.commands \union {NewCommand(db, request)},
              receipts     |-> db.receipts]
  BY ChangeFlagWrites
<1> HIDE DEF after
<1>3. FlagEffects(db, request, after)
  BY <1>1, <1>2 DEF FlagEffects, FlagStep, FlagOperations, FlagRecord
<1>4. EnvironmentEffects(db, request, after)
  BY <1>1, <1>2 DEF EnvironmentEffects, EnvironmentStep, EnvironmentRecord
<1>5. RowEffects(db, request, after)
  BY <1>1, <1>2
  DEF RowEffects, NewRulesets, NewReceipts, EvaluateOperations
<1>6. ResponseEffects(db, request)
  BY <1>1, <1>2 DEF ResponseEffects, Response, EvaluateOperations
<1>7. QED
  BY <1>3, <1>4, <1>5, <1>6 DEF Effects, after

LEMMA PutEnvironmentEffects ==
    ASSUME NEW db, NEW request, Admissible(db, request),
           request \in PutEnvironment
    PROVE  Effects(db, request, Committed(db, request))
<1> DEFINE after == Committed(db, request)
<1>1. /\ db.flags \in [FlagKeys -> FlagRecord]
      /\ db.environments \in [EnvironmentKeys -> EnvironmentRecord]
      /\ request.environment \in EnvironmentKeys
      /\ request.operation = "put_environment"
  BY DEF Admissible, Sound, Database, PutEnvironment
<1>2. PICK row \in EnvironmentRecord :
        /\ row.revision = db.environments[request.environment].revision + 1
        /\ Plan(db, request).response = row
        /\ after =
             [flags        |-> db.flags,
              environments |-> [db.environments EXCEPT
                                  ![request.environment] = row],
              rulesets     |-> db.rulesets,
              commands     |-> db.commands \union {NewCommand(db, request)},
              receipts     |-> db.receipts]
  BY PutEnvironmentWrites
<1> HIDE DEF after
<1>3. FlagEffects(db, request, after)
  BY <1>1, <1>2 DEF FlagEffects, FlagStep, FlagOperations, FlagRecord
<1>4. EnvironmentEffects(db, request, after)
  BY <1>1, <1>2 DEF EnvironmentEffects, EnvironmentStep, EnvironmentRecord
<1>5. RowEffects(db, request, after)
  BY <1>1, <1>2
  DEF RowEffects, NewRulesets, NewReceipts, EvaluateOperations
<1>6. ResponseEffects(db, request)
  BY <1>1, <1>2 DEF ResponseEffects, Response, EvaluateOperations
<1>7. QED
  BY <1>3, <1>4, <1>5, <1>6 DEF Effects, after

LEMMA PublishRulesetEffects ==
    ASSUME NEW db, NEW request, Admissible(db, request),
           request \in PublishRuleset
    PROVE  Effects(db, request, Committed(db, request))
<1> DEFINE after == Committed(db, request)
<1>1. /\ db.flags \in [FlagKeys -> FlagRecord]
      /\ db.environments \in [EnvironmentKeys -> EnvironmentRecord]
      /\ request.flag \in FlagKeys
      /\ request.environment \in EnvironmentKeys
      /\ request.operation = "publish_ruleset"
  BY DEF Admissible, Sound, Database, PublishRuleset
<1>2. PICK row \in FlagRecord, place \in EnvironmentRecord :
        /\ db.flags[request.flag].revision # 0
        /\ ~db.flags[request.flag].archived
        /\ db.environments[request.environment].revision # 0
        /\ Valid(db.flags[request.flag].value_type, request.definition)
        /\ NewRuleset(db, request) \in RulesetRow
        /\ row.value_type = db.flags[request.flag].value_type
        /\ row.revision = db.flags[request.flag].revision + 1
        /\ place.revision
             = db.environments[request.environment].revision + 1
        /\ Plan(db, request).response =
             [ruleset_revision |-> NewRuleset(db, request).revision,
              flag_revision |-> row.revision,
              environment_revision |-> place.revision]
        /\ Plan(db, request).rulesets = {NewRuleset(db, request)}
        /\ Plan(db, request).receipts = {}
        /\ after =
             [flags        |-> [db.flags EXCEPT ![request.flag] = row],
              environments |-> [db.environments EXCEPT
                                  ![request.environment] = place],
              rulesets     |-> db.rulesets \union {NewRuleset(db, request)},
              commands     |-> db.commands \union {NewCommand(db, request)},
              receipts     |-> db.receipts]
  BY PublishRulesetWrites
<1> HIDE DEF after
<1>3. FlagEffects(db, request, after)
  BY <1>1, <1>2 DEF FlagEffects, FlagStep, FlagOperations, FlagRecord
<1>4. EnvironmentEffects(db, request, after)
  BY <1>1, <1>2 DEF EnvironmentEffects, EnvironmentStep, EnvironmentRecord
<1>5. RowEffects(db, request, after)
  BY <1>1, <1>2
  DEF RowEffects, NewRulesets, NewReceipts, EvaluateOperations
<1>6. ResponseEffects(db, request)
  BY <1>1, <1>2 DEF ResponseEffects, Response, EvaluateOperations, PublishRecord,
         Revisions, FlagRecord, EnvironmentRecord, RulesetRow
<1>7. QED
  BY <1>3, <1>4, <1>5, <1>6 DEF Effects, after

LEMMA EvaluateEffects ==
    ASSUME NEW db, NEW request, Admissible(db, request),
           request \in Evaluate
    PROVE  Effects(db, request, Committed(db, request))
<1> DEFINE after == Committed(db, request)
<1>1. /\ db.flags \in [FlagKeys -> FlagRecord]
      /\ db.environments \in [EnvironmentKeys -> EnvironmentRecord]
      /\ request.operation \in EvaluateOperations
      /\ request.flags \in Seq(FlagKeys)
  BY DEF Admissible, Sound, Database, Evaluate, EvaluateOperations
<1>2. /\ Plan(db, request).response =
           [evaluations |-> EvaluationsOf(db, request)]
      /\ after =
           [flags        |-> db.flags,
            environments |-> db.environments,
            rulesets     |-> db.rulesets,
            commands     |-> db.commands \union {NewCommand(db, request)},
            receipts     |-> db.receipts \union
              ReceiptsOf(request, EvaluationsOf(db, request))]
  BY EvaluateWrites
<1> HIDE DEF after
<1>3. FlagEffects(db, request, after)
  BY <1>1, <1>2
  DEF FlagEffects, FlagStep, FlagOperations, EvaluateOperations, FlagRecord
<1>4. EnvironmentEffects(db, request, after)
  BY <1>1, <1>2
  DEF EnvironmentEffects, EnvironmentStep, EvaluateOperations,
      EnvironmentRecord
<1>5. RowEffects(db, request, after)
  BY <1>1, <1>2
  DEF RowEffects, NewRulesets, NewReceipts, EvaluateOperations
<1>6. ResponseEffects(db, request)
  <2>1. EvaluationsOf(db, request) \in Seq(EvaluationRecord)
    BY EvaluateWrites
  <2>2. DOMAIN EvaluationsOf(db, request) = DOMAIN request.flags
    BY DEF EvaluationsOf
  <2>3. Plan(db, request).response \in Response
    BY <1>2, <2>1 DEF Response
  <2>4. request.operation # "publish_ruleset"
    BY <1>1 DEF EvaluateOperations
  <2>5. QED
    BY <1>2, <2>1, <2>2, <2>3, <2>4, EvaluateWrites DEF ResponseEffects
<1>7. QED
  BY <1>3, <1>4, <1>5, <1>6 DEF Effects, after

\* The rows a plan inserts.
LEMMA PlanRows ==
    ASSUME NEW db, NEW request, Admissible(db, request)
    PROVE  /\ Plan(db, request).rulesets = NewRulesets(db, request)
           /\ Plan(db, request).receipts = NewReceipts(db, request)
<1>1. CASE request \in CreateFlag
  <2>1. Plan(db, request) = PlanCreateFlag(db, request)
    BY <1>1 DEF CreateFlag, Plan
  <2>2. QED
    BY <1>1, <2>1
    DEF PlanCreateFlag, Admissible, Refused, Planned, NewRulesets, NewReceipts,
        EvaluateOperations, CreateFlag
<1>2. CASE request \in ChangeFlag
  <2>1. Plan(db, request) = PlanChangeFlag(db, request)
    BY <1>2 DEF ChangeFlag, Plan
  <2>2. QED
    BY <1>2, <2>1
    DEF PlanChangeFlag, FlagVerdict, Admissible, Refused, Planned, NewRulesets,
        NewReceipts, EvaluateOperations, ChangeFlag
<1>3. CASE request \in PutEnvironment
  <2>1. Plan(db, request) = PlanPutEnvironment(db, request)
    BY <1>3 DEF PutEnvironment, Plan
  <2>2. QED
    BY <1>3, <2>1
    DEF PlanPutEnvironment, Admissible, Refused, Planned, NewRulesets,
        NewReceipts, EvaluateOperations, PutEnvironment
<1>4. CASE request \in PublishRuleset
  BY <1>4, PublishRulesetWrites
  DEF NewRulesets, NewReceipts, EvaluateOperations, PublishRuleset
<1>5. CASE request \in Evaluate
  BY <1>5, EvaluateWrites
  DEF NewRulesets, NewReceipts, EvaluateOperations, Evaluate
<1>6. QED
  BY <1>1, <1>2, <1>3, <1>4, <1>5, RequestFields DEF Admissible

\* What committing an admitted command does to every table.
THEOREM CommitEffects ==
    ASSUME NEW db, NEW request, Admissible(db, request)
    PROVE  Effects(db, request, Committed(db, request))
<1>1. request \in Requests
  BY DEF Admissible
<1>2. QED
  BY <1>1, RequestFields, CreateFlagEffects, ChangeFlagEffects,
     PutEnvironmentEffects, PublishRulesetEffects, EvaluateEffects

-----------------------------------------------------------------------------
(* Every named part of Sound holds after a commit.                         *)

LEMMA NewCommandNew ==
    ASSUME NEW db, NEW request, Admissible(db, request)
    PROVE  /\ NewCommand(db, request).request = request
           /\ NewCommand(db, request).response = Plan(db, request).response
           /\ NewCommand(db, request) \notin db.commands
           /\ \A row \in db.commands :
                CommandId(row.request) # CommandId(request)
<1>1. /\ NewCommand(db, request).request = request
      /\ NewCommand(db, request).response = Plan(db, request).response
  BY DEF NewCommand
<1>2. \A row \in db.commands : CommandId(row.request) # CommandId(request)
  BY DEF Admissible, Recorded, CommandRows
<1>3. QED
  BY <1>1, <1>2

LEMMA CommandsStayUnique ==
    ASSUME NEW db, NEW request, NEW after, Admissible(db, request),
           RowEffects(db, request, after)
    PROVE  CommandsUnique(after)
<1>1. CommandsUnique(db)
  BY DEF Admissible, Sound, Consistent
<1>2. after.commands = db.commands \union {NewCommand(db, request)}
  BY DEF RowEffects
<1>3. QED
  BY <1>1, <1>2, NewCommandNew DEF CommandsUnique

LEMMA PublishedStaysValid ==
    ASSUME NEW db, NEW request, NEW after, Admissible(db, request),
           Effects(db, request, after)
    PROVE  PublishedValid(after)
<1>1. SUFFICES ASSUME NEW row \in after.rulesets
      PROVE  /\ after.flags[row.flag].revision # 0
             /\ after.environments[row.environment].revision # 0
             /\ Valid(after.flags[row.flag].value_type, row.definition)
  BY DEF PublishedValid
<1>2. /\ row.flag \in FlagKeys
      /\ row.environment \in EnvironmentKeys
      /\ db.flags[row.flag].revision # 0
      /\ db.environments[row.environment].revision # 0
      /\ Valid(db.flags[row.flag].value_type, row.definition)
  <2>1. CASE row \in db.rulesets
    BY <2>1
    DEF Admissible, Sound, Database, RulesetRow, Consistent, PublishedValid
  <2>2. CASE row \in NewRulesets(db, request)
    <3>1. /\ request.operation = "publish_ruleset"
          /\ row = NewRuleset(db, request)
      BY <2>2 DEF NewRulesets
    <3>2. /\ row.flag = request.flag
          /\ row.environment = request.environment
          /\ row.definition = request.definition
      BY <3>1 DEF NewRuleset
    <3>3. QED
      BY <3>1, <3>2 DEF Effects, ResponseEffects, PublishRuleset
  <2>3. QED
    BY <2>1, <2>2 DEF Effects, RowEffects
<1>3. /\ db.flags[row.flag].revision \in Nat
      /\ db.environments[row.environment].revision \in Nat
  BY <1>2
  DEF Admissible, Sound, Database, FlagRecord, EnvironmentRecord
<1>4. /\ after.flags[row.flag].revision
           = db.flags[row.flag].revision + FlagStep(request, row.flag)
      /\ after.flags[row.flag].value_type = db.flags[row.flag].value_type
      /\ after.environments[row.environment].revision
           = db.environments[row.environment].revision
               + EnvironmentStep(request, row.environment)
  BY <1>2 DEF Effects, FlagEffects, EnvironmentEffects
<1>5. /\ FlagStep(request, row.flag) \in {0, 1}
      /\ EnvironmentStep(request, row.environment) \in {0, 1}
  BY DEF FlagStep, EnvironmentStep
<1>6. QED
  BY <1>2, <1>3, <1>4, <1>5

LEMMA HistoryStaysContiguous ==
    ASSUME NEW db, NEW request, NEW after, Admissible(db, request),
           Effects(db, request, after)
    PROVE  HistoryContiguous(after)
<1>1. SUFFICES ASSUME NEW flag \in FlagKeys, NEW environment \in EnvironmentKeys
      PROVE  LET later == Published(after, flag, environment) IN
             /\ \A one, two \in later : one.revision = two.revision => one = two
             /\ {row.revision : row \in later} = 1 .. Cardinality(later)
  BY DEF HistoryContiguous
<1> DEFINE history == Published(db, flag, environment)
           later   == Published(after, flag, environment)
           n       == Cardinality(history)
           new     == NewRuleset(db, request)
<1>2. /\ \A one, two \in history : one.revision = two.revision => one = two
      /\ {row.revision : row \in history} = 1 .. n
  BY DEF Admissible, Sound, Consistent, HistoryContiguous
<1>3. IsFiniteSet(history) /\ n \in Nat
  <2>1. history \subseteq db.rulesets
    BY DEF Published
  <2>2. QED
    BY <2>1, FS_Subset, FS_CardinalityType DEF Admissible, Sound
<1>4. after.rulesets = db.rulesets \union NewRulesets(db, request)
  BY DEF Effects, RowEffects
<1>5. CASE /\ request.operation = "publish_ruleset"
           /\ request.flag = flag
           /\ request.environment = environment
  <2>1. /\ new.flag = flag
        /\ new.environment = environment
        /\ new.revision = n + 1
    BY <1>5 DEF NewRuleset
  <2>2. NewRulesets(db, request) = {new}
    BY <1>5 DEF NewRulesets
  <2> HIDE DEF new
  <2>3. later = history \union {new}
    BY <1>4, <2>1, <2>2 DEF Published
  <2> HIDE DEF history, later
  <2>4. \A row \in history : row.revision # n + 1
    <3>1. \A row \in history : row.revision \in 1 .. n
      BY <1>2
    <3>2. n + 1 \notin 1 .. n
      BY <1>3
    <3>3. QED
      BY <3>1, <3>2
  <2>5. Cardinality(later) = n + 1
    BY <1>3, <2>1, <2>3, <2>4, FS_AddElement
  <2>6. {row.revision : row \in later} = (1 .. n) \union {n + 1}
    BY <1>2, <2>1, <2>3
  <2>7. (1 .. n) \union {n + 1} = 1 .. n + 1
    BY <1>3
  <2>8. \A one, two \in later : one.revision = two.revision => one = two
    BY <1>2, <2>1, <2>3, <2>4
  <2>9. QED
    BY <2>5, <2>6, <2>7, <2>8 DEF later
<1>6. CASE ~(/\ request.operation = "publish_ruleset"
             /\ request.flag = flag
             /\ request.environment = environment)
  <2>1. /\ new.flag = request.flag
        /\ new.environment = request.environment
    BY DEF NewRuleset
  <2>2. NewRulesets(db, request) =
          IF request.operation = "publish_ruleset" THEN {new} ELSE {}
    BY DEF NewRulesets
  <2> HIDE DEF new
  <2>3. later = history
    BY <1>4, <1>6, <2>1, <2>2 DEF Published
  <2>4. QED
    BY <1>2, <2>3
<1>7. QED
  BY <1>5, <1>6

LEMMA RevisionsStayCounted ==
    ASSUME NEW db, NEW request, NEW after, Admissible(db, request),
           Effects(db, request, after)
    PROVE  RevisionsCount(after)
<1> DEFINE new == NewCommand(db, request)
<1>1. /\ after.commands = db.commands \union {new}
      /\ new.request = request
      /\ new \notin db.commands
  BY NewCommandNew DEF Effects, RowEffects
<1>2. IsFiniteSet(db.commands) /\ RevisionsCount(db)
  BY DEF Admissible, Sound, Consistent
<1> HIDE DEF new
<1>3. ASSUME NEW flag \in FlagKeys
      PROVE  after.flags[flag].revision = Cardinality(FlagCommands(after, flag))
  <2> DEFINE counted == FlagCommands(db, flag)
  <2>1. IsFiniteSet(counted) /\ Cardinality(counted) \in Nat
    <3>1. counted \subseteq db.commands
      BY DEF FlagCommands
    <3>2. QED
      BY <1>2, <3>1, FS_Subset, FS_CardinalityType
  <2>2. after.flags[flag].revision = Cardinality(counted) + FlagStep(request, flag)
    BY <1>2, <1>3 DEF Effects, FlagEffects, RevisionsCount
  <2>3. FlagCommands(after, flag) =
          IF request.operation \in FlagOperations /\ request.flag = flag
          THEN counted \union {new} ELSE counted
    BY <1>1 DEF FlagCommands, FlagOperations
  <2>4. new \notin counted
    BY <1>1 DEF FlagCommands
  <2> HIDE DEF counted
  <2>5. Cardinality(counted \union {new}) = Cardinality(counted) + 1
    BY <2>1, <2>4, FS_AddElement
  <2>6. QED
    BY <2>1, <2>2, <2>3, <2>5 DEF FlagStep
<1>4. ASSUME NEW environment \in EnvironmentKeys
      PROVE  after.environments[environment].revision
               = Cardinality(EnvironmentCommands(after, environment))
  <2> DEFINE counted == EnvironmentCommands(db, environment)
  <2>1. IsFiniteSet(counted) /\ Cardinality(counted) \in Nat
    <3>1. counted \subseteq db.commands
      BY DEF EnvironmentCommands
    <3>2. QED
      BY <1>2, <3>1, FS_Subset, FS_CardinalityType
  <2>2. after.environments[environment].revision
          = Cardinality(counted) + EnvironmentStep(request, environment)
    BY <1>2, <1>4 DEF Effects, EnvironmentEffects, RevisionsCount
  <2>3. EnvironmentCommands(after, environment) =
          IF /\ request.operation \in {"put_environment", "publish_ruleset"}
             /\ request.environment = environment
          THEN counted \union {new} ELSE counted
    BY <1>1 DEF EnvironmentCommands
  <2>4. new \notin counted
    BY <1>1 DEF EnvironmentCommands
  <2> HIDE DEF counted
  <2>5. Cardinality(counted \union {new}) = Cardinality(counted) + 1
    BY <2>1, <2>4, FS_AddElement
  <2>6. QED
    BY <2>1, <2>2, <2>3, <2>5 DEF EnvironmentStep
<1>5. QED
  BY <1>3, <1>4 DEF RevisionsCount

LEMMA ReceiptsStayMatched ==
    ASSUME NEW db, NEW request, NEW after, Admissible(db, request),
           Effects(db, request, after)
    PROVE  ReceiptsMatch(after)
<1> DEFINE new           == NewCommand(db, request)
           receipts(row) == ReceiptsOf(row.request, row.response.evaluations)
           reporting(t)  == {row \in t.commands :
                               row.request.operation \in EvaluateOperations}
<1>1. /\ after.commands = db.commands \union {new}
      /\ after.receipts = db.receipts \union NewReceipts(db, request)
      /\ new.request = request
      /\ new.response = Plan(db, request).response
  BY NewCommandNew DEF Effects, RowEffects
<1>2. db.receipts = UNION {receipts(row) : row \in reporting(db)}
  BY DEF Admissible, Sound, Consistent, ReceiptsMatch, EvaluateOperations
<1>3. NewReceipts(db, request) =
        IF request.operation \in EvaluateOperations THEN receipts(new) ELSE {}
  BY <1>1 DEF NewReceipts, Effects, ResponseEffects
<1>4. reporting(after) =
        IF request.operation \in EvaluateOperations
        THEN reporting(db) \union {new} ELSE reporting(db)
  BY <1>1
<1> HIDE DEF new, receipts, reporting
<1>5. after.receipts = UNION {receipts(row) : row \in reporting(after)}
  BY <1>1, <1>2, <1>3, <1>4
<1>6. QED
  BY <1>5 DEF ReceiptsMatch, EvaluateOperations, receipts, reporting

LEMMA EvaluationsStayExplained ==
    ASSUME NEW db, NEW request, NEW after, Admissible(db, request),
           Effects(db, request, after)
    PROVE  EvaluationsExplained(after)
<1>1. /\ after.commands = db.commands \union {NewCommand(db, request)}
      /\ db.rulesets \subseteq after.rulesets
  BY DEF Effects, RowEffects
<1>2. ASSUME NEW one, NEW evaluation, Explained(db, one, evaluation)
      PROVE  Explained(after, one, evaluation)
  <2>1. Published(db, evaluation.flag, one.environment)
          \subseteq Published(after, evaluation.flag, one.environment)
    BY <1>1 DEF Published
  <2>2. QED
    BY <1>2, <2>1 DEF Explained
<1>3. SUFFICES ASSUME NEW command \in after.commands,
                      command.request.operation \in EvaluateOperations,
                      NEW i \in DOMAIN command.response.evaluations
               PROVE  Explained(after, command.request,
                                command.response.evaluations[i])
  BY DEF EvaluationsExplained, EvaluateOperations
<1>4. CASE command \in db.commands
  <2>1. Explained(db, command.request, command.response.evaluations[i])
    BY <1>3, <1>4
    DEF Admissible, Sound, Consistent, EvaluationsExplained, EvaluateOperations
  <2>2. QED
    BY <1>2, <2>1
<1>5. CASE command = NewCommand(db, request)
  <2>1. /\ command.request = request
        /\ command.response = [evaluations |-> EvaluationsOf(db, request)]
        /\ DOMAIN EvaluationsOf(db, request) = DOMAIN request.flags
        /\ \A j \in DOMAIN request.flags :
             Explained(db, request, EvaluationsOf(db, request)[j])
    BY <1>3, <1>5, NewCommandNew DEF Effects, ResponseEffects
  <2>2. command.response.evaluations = EvaluationsOf(db, request)
    BY <2>1
  <2>3. Explained(db, command.request, command.response.evaluations[i])
    BY <2>1, <2>2
  <2>4. QED
    BY <1>2, <2>3
<1>6. QED
  BY <1>1, <1>4, <1>5

LEMMA NewReceiptsTyped ==
    ASSUME NEW db, NEW request, Admissible(db, request),
           ResponseEffects(db, request)
    PROVE  NewReceipts(db, request) \subseteq ReceiptRow
<1>1. SUFFICES ASSUME request.operation \in EvaluateOperations,
                      NEW i \in DOMAIN EvaluationsOf(db, request)
      PROVE  ReceiptOf(request, EvaluationsOf(db, request)[i], i) \in ReceiptRow
  BY DEF NewReceipts, ReceiptsOf
<1> DEFINE result == EvaluationsOf(db, request)[i]
<1>2. EvaluationsOf(db, request) \in Seq(EvaluationRecord)
  BY <1>1 DEF ResponseEffects
<1>3. result \in EvaluationRecord /\ i \in Nat
  BY <1>1, <1>2
<1>4. request \in Evaluate
  BY <1>1, RequestFields
  DEF Admissible, EvaluateOperations, CreateFlag, ChangeFlag, PutEnvironment,
      PublishRuleset, Evaluate
<1>5. EvaluationIdOf(request, i) \in EvaluationId
  BY <1>3, <1>4 DEF EvaluationIdOf, EvaluationId, Evaluate
<1> HIDE DEF result
<1>6. QED
  BY <1>3, <1>4, <1>5
  DEF ReceiptOf, ReceiptRow, EvaluationRecord, VariantRecord, Evaluate, result

LEMMA TablesStayTyped ==
    ASSUME NEW db, NEW request, NEW after, Admissible(db, request),
           Effects(db, request, after)
    PROVE  /\ after \in Database
           /\ AbsentRows(after)
           /\ IsFiniteSet(after.rulesets)
           /\ IsFiniteSet(after.commands)
<1> DEFINE new == NewCommand(db, request)
<1>1. /\ db.rulesets \subseteq RulesetRow
      /\ db.commands \subseteq CommandRow
      /\ db.receipts \subseteq ReceiptRow
      /\ IsFiniteSet(db.rulesets)
      /\ IsFiniteSet(db.commands)
  BY DEF Admissible, Sound, Database
<1>2. NewRulesets(db, request) \subseteq RulesetRow
  BY DEF NewRulesets, Effects, ResponseEffects
<1>3. new \in CommandRow
  BY RequestsAssumption
  DEF CommandRow, NewCommand, Effects, ResponseEffects, Admissible
<1>4. NewReceipts(db, request) \subseteq ReceiptRow
  BY NewReceiptsTyped DEF Effects
<1>5. /\ after.flags \in [FlagKeys -> FlagRecord]
      /\ after.environments \in [EnvironmentKeys -> EnvironmentRecord]
  BY DEF Effects, FlagEffects, EnvironmentEffects
<1> HIDE DEF new
<1>6. after \in Database
  BY <1>1, <1>2, <1>3, <1>4, <1>5 DEF Effects, RowEffects, Database, new
<1>7. IsFiniteSet(after.commands)
  <2>1. IsFiniteSet(db.commands \union {new})
    BY <1>1, FS_AddElement
  <2>2. QED
    BY <2>1 DEF Effects, RowEffects, new
<1>8. IsFiniteSet(after.rulesets)
  <2>1. NewRulesets(db, request) = {}
          \/ NewRulesets(db, request) = {NewRuleset(db, request)}
    BY DEF NewRulesets
  <2>2. IsFiniteSet(db.rulesets \union {NewRuleset(db, request)})
    BY <1>1, FS_AddElement
  <2>3. db.rulesets \union {} = db.rulesets
    OBVIOUS
  <2>4. QED
    BY <1>1, <2>1, <2>2, <2>3 DEF Effects, RowEffects
<1>9. AbsentRows(after)
  <2>1. SUFFICES ASSUME NEW flag \in FlagKeys, after.flags[flag].revision = 0
                 PROVE  after.flags[flag] = NoFlag
    BY DEF AbsentRows
  <2>2. /\ after.flags[flag] = db.flags[flag]
        /\ AbsentRows(db)
    BY <2>1 DEF Effects, FlagEffects, Admissible, Sound
  <2>3. QED
    BY <2>1, <2>2 DEF AbsentRows
<1>10. QED
  BY <1>6, <1>7, <1>8, <1>9

\* A command that commits its plan on sound tables leaves sound tables.
THEOREM CommitSound ==
    ASSUME NEW db, NEW request, Admissible(db, request)
    PROVE  Sound(Committed(db, request))
<1> DEFINE after == Committed(db, request)
<1>1. Effects(db, request, after)
  BY CommitEffects
<1> HIDE DEF after
<1>2. RowEffects(db, request, after)
  BY <1>1 DEF Effects
<1>3. Consistent(after)
  BY <1>1, <1>2, CommandsStayUnique, PublishedStaysValid,
     HistoryStaysContiguous, RevisionsStayCounted, ReceiptsStayMatched,
     EvaluationsStayExplained
  DEF Consistent
<1>4. QED
  BY <1>1, <1>3, TablesStayTyped DEF Sound, after

-----------------------------------------------------------------------------
(* The constraints of the schema.                                          *)

\* The receipts of a command whose key is not recorded are new.
LEMMA ReceiptsFresh ==
    ASSUME NEW db, NEW request, Admissible(db, request),
           NEW new \in NewReceipts(db, request), NEW row \in db.receipts
    PROVE  <<new.principal, new.operation, new.evaluation_id, new.flag>> #
           <<row.principal, row.operation, row.evaluation_id, row.flag>>
<1>1. PICK i : new = ReceiptOf(request, EvaluationsOf(db, request)[i], i)
  BY DEF NewReceipts, ReceiptsOf
<1>2. ReceiptsMatch(db)
  BY DEF Admissible, Sound, Consistent
<1>3. PICK command \in db.commands :
        row \in ReceiptsOf(command.request, command.response.evaluations)
  BY <1>2 DEF ReceiptsMatch
<1>4. PICK j : row = ReceiptOf(command.request,
                              command.response.evaluations[j], j)
  BY <1>3 DEF ReceiptsOf
<1>5. CommandId(command.request) # CommandId(request)
  BY NewCommandNew
<1>6. /\ new.principal = request.principal
      /\ new.operation = request.operation
      /\ new.evaluation_id.key = request.key
  BY <1>1 DEF ReceiptOf, EvaluationIdOf
<1>7. /\ row.principal = command.request.principal
      /\ row.operation = command.request.operation
      /\ row.evaluation_id.key = command.request.key
  BY <1>4 DEF ReceiptOf, EvaluationIdOf
<1>8. QED
  BY <1>5, <1>6, <1>7 DEF CommandId

\* On sound tables, what a command plans satisfies every constraint.
LEMMA PlansFit ==
    ASSUME NEW db, NEW request, Admissible(db, request)
    PROVE  Fits(db, request, Plan(db, request))
<1>1. ~Recorded(db, request)
  BY DEF Admissible
<1>2. request.operation = "create_flag" => db.flags[request.flag].revision = 0
  <2>1. request.operation = "create_flag" => request \in CreateFlag
    BY RequestFields
    DEF Admissible, CreateFlag, ChangeFlag, PutEnvironment, PublishRuleset,
        Evaluate
  <2>2. QED
    BY <2>1, CreateFlagWrites
<1>3. ASSUME NEW new \in Plan(db, request).rulesets
      PROVE  /\ \A row \in Published(db, new.flag, new.environment) :
                  row.revision # new.revision
             /\ db.flags[new.flag].revision # 0
             /\ db.environments[new.environment].revision # 0
  <2>1. /\ new = NewRuleset(db, request)
        /\ request.operation = "publish_ruleset"
    BY <1>3, PlanRows DEF NewRulesets
  <2>2. /\ request \in PublishRuleset
        /\ db.flags[request.flag].revision # 0
        /\ db.environments[request.environment].revision # 0
    BY <2>1, CommitEffects DEF Effects, ResponseEffects
  <2> DEFINE history == Published(db, request.flag, request.environment)
             n       == Cardinality(history)
  <2>3. /\ new.flag = request.flag
        /\ new.environment = request.environment
        /\ new.revision = n + 1
    BY <2>1 DEF NewRuleset
  <2>4. IsFiniteSet(history) /\ n \in Nat
    <3>1. history \subseteq db.rulesets
      BY DEF Published
    <3>2. QED
      BY <3>1, FS_Subset, FS_CardinalityType DEF Admissible, Sound
  <2>5. {row.revision : row \in history} = 1 .. n
    BY <2>2
    DEF PublishRuleset, Admissible, Sound, Consistent, HistoryContiguous
  <2> HIDE DEF history, n
  <2>6. \A row \in history : row.revision # n + 1
    <3>1. n + 1 \notin 1 .. n
      BY <2>4
    <3>2. QED
      BY <2>5, <3>1
  <2>7. QED
    BY <2>2, <2>3, <2>6 DEF history
<1>4. \A new \in Plan(db, request).receipts, row \in db.receipts :
        <<new.principal, new.operation, new.evaluation_id, new.flag>> #
        <<row.principal, row.operation, row.evaluation_id, row.flag>>
  BY PlanRows, ReceiptsFresh
<1>5. QED
  BY <1>1, <1>2, <1>3, <1>4 DEF Fits

-----------------------------------------------------------------------------
(* Plans.                                                                  *)

\* The failures a plan is refused with.
PlanFailures ==
    {"NotFound", "FlagNotFound", "EnvironmentNotFound", "NoPublishedRuleset",
     "Archived", "RevisionConflict", "AlreadyExists", "TypeMismatch",
     "InvalidRuleset"}

LEMMA VerdictStatus ==
    ASSUME NEW db, NEW request, NEW flag
    PROVE  EvaluationVerdict(db, request, flag) \in PlanFailures \union {"Chosen"}
<1>1. Choice(db, request, flag).status \in {"Chosen", "InvalidRuleset"}
  BY DEF Choice, ChooseVariant, Serve, NoChoice
<1>2. QED
  BY <1>1 DEF EvaluationVerdict, ValidateRuleset, PlanFailures

LEMMA EvaluatePlanStatus ==
    ASSUME NEW db, NEW request \in Evaluate
    PROVE  PlanEvaluate(db, request).status \in PlanFailures \union {"Planned"}
<1> DEFINE verdict(i)  == EvaluationVerdict(db, request, request.flags[i])
           failing     == {i \in DOMAIN request.flags : verdict(i) # "Chosen"}
           evaluations == [i \in DOMAIN request.flags |->
                             Evaluation(db, request, request.flags[i])]
<1>1. PlanEvaluate(db, request) =
        IF failing # {} THEN Refused(verdict(Min(failing)))
        ELSE Planned([evaluations |-> evaluations], NoRows, NoRows, {},
                     ReceiptsOf(request, evaluations))
  BY DEF PlanEvaluate
<1>2. CASE failing = {}
  BY <1>1, <1>2 DEF Planned
<1>3. CASE failing # {}
  <2>1. verdict(Min(failing)) \in PlanFailures \union {"Chosen"}
    BY VerdictStatus
  <2>2. Min(failing) \in failing
    <3>1. request.flags \in Seq(FlagKeys)
      BY DEF Evaluate
    <3>2. failing \in SUBSET Nat
      BY <3>1
    <3>3. QED
      BY <1>3, <3>2, MinOfNaturals
  <2>3. QED
    BY <1>1, <1>3, <2>1, <2>2 DEF Refused
<1>4. QED
  BY <1>2, <1>3

LEMMA PlanStatus ==
    ASSUME NEW db, NEW request \in Requests
    PROVE  Plan(db, request).status \in PlanFailures \union {"Planned"}
<1>1. PlanCreateFlag(db, request).status \in PlanFailures \union {"Planned"}
  BY DEF PlanCreateFlag, Refused, Planned, PlanFailures
<1>2. PlanChangeFlag(db, request).status \in PlanFailures \union {"Planned"}
  BY DEF PlanChangeFlag, FlagVerdict, Refused, Planned, PlanFailures
<1>3. PlanPutEnvironment(db, request).status \in PlanFailures \union {"Planned"}
  BY DEF PlanPutEnvironment, Refused, Planned, PlanFailures
<1>4. PlanPublishRuleset(db, request).status \in PlanFailures \union {"Planned"}
  BY DEF PlanPublishRuleset, FlagVerdict, ValidateRuleset, Refused, Planned,
         PlanFailures
<1>5. request.operation \in {"evaluate", "evaluate_batch"} =>
        PlanEvaluate(db, request).status \in PlanFailures \union {"Planned"}
  BY RequestFields, EvaluatePlanStatus
  DEF CreateFlag, ChangeFlag, PutEnvironment, PublishRuleset, Evaluate
<1>6. request.operation \in
        {"create_flag", "update_flag", "archive_flag", "put_environment",
         "publish_ruleset", "evaluate", "evaluate_batch"}
  BY RequestFields
  DEF CreateFlag, ChangeFlag, PutEnvironment, PublishRuleset, Evaluate
<1>7. QED
  BY <1>1, <1>2, <1>3, <1>4, <1>5, <1>6 DEF Plan

-----------------------------------------------------------------------------
(* What a reply says of the tables.                                        *)

\* What a definite reply points at.
Justified(state, db) ==
    /\ state.status = "done" =>
         \E row \in db.commands :
             /\ row.request = state.request
             /\ row.response = state.response
    /\ (state.status = "refused" /\ state.failure = "IdempotencyConflict") =>
         \E row \in CommandRows(db, state.request) :
             row.request # state.request

\* Rows that are only added justify no less.
LEMMA JustifiedKept ==
    ASSUME NEW state, NEW db, NEW after, Justified(state, db),
           db.commands \subseteq after.commands
    PROVE  Justified(state, after)
BY DEF Justified, CommandRows

-----------------------------------------------------------------------------
(* What no commit does to the tables.                                      *)

EvidenceKept(db, after) ==
    /\ db.commands \subseteq after.commands
    /\ db.rulesets \subseteq after.rulesets
    /\ db.receipts \subseteq after.receipts
    /\ \A flag \in FlagKeys :
         db.flags[flag].revision =< after.flags[flag].revision

ArchivedKept(db, after) ==
    \A flag \in FlagKeys :
        db.flags[flag].archived =>
          /\ after.flags[flag] = db.flags[flag]
          /\ \A receipt \in after.receipts \ db.receipts : receipt.flag # flag
          /\ \A row \in after.rulesets \ db.rulesets : row.flag # flag

EvaluatedLatest(db, after) ==
    \A receipt \in after.receipts \ db.receipts :
        \A row \in Published(db, receipt.flag, receipt.environment) :
            row.revision =< receipt.ruleset_revision

\* It rewrites no evidence.
LEMMA CommitKeepsEvidence ==
    ASSUME NEW db, NEW request, Admissible(db, request)
    PROVE  EvidenceKept(db, Committed(db, request))
<1>1. Effects(db, request, Committed(db, request))
  BY CommitEffects
<1>2. \A flag \in FlagKeys :
        /\ db.flags[flag].revision \in Nat
        /\ FlagStep(request, flag) \in {0, 1}
  BY DEF Admissible, Sound, Database, FlagRecord, FlagStep
<1>3. \A flag \in FlagKeys :
        db.flags[flag].revision =< Committed(db, request).flags[flag].revision
  BY <1>1, <1>2 DEF Effects, FlagEffects
<1>4. QED
  BY <1>1, <1>3 DEF Effects, RowEffects, EvidenceKept

\* The receipts a commit adds, read off the evaluations of its request.
LEMMA AddedReceipts ==
    ASSUME NEW db, NEW request, Admissible(db, request),
           NEW receipt \in Committed(db, request).receipts \ db.receipts
    PROVE  /\ request \in Evaluate
           /\ \E i \in DOMAIN request.flags :
                /\ receipt.flag = request.flags[i]
                /\ receipt.environment = request.environment
                /\ receipt.ruleset_revision =
                     Latest(db, request.flags[i], request.environment).revision
                /\ ~db.flags[request.flags[i]].archived
<1>1. Effects(db, request, Committed(db, request))
  BY CommitEffects
<1>2. receipt \in NewReceipts(db, request)
  BY <1>1 DEF Effects, RowEffects
<1>3. request.operation \in EvaluateOperations
  BY <1>2 DEF NewReceipts
<1>4. request \in Evaluate
  BY <1>3, RequestFields
  DEF Admissible, EvaluateOperations, CreateFlag, ChangeFlag, PutEnvironment,
      PublishRuleset, Evaluate
<1>5. PICK i \in DOMAIN EvaluationsOf(db, request) :
        receipt = ReceiptOf(request, EvaluationsOf(db, request)[i], i)
  BY <1>2, <1>3 DEF NewReceipts, ReceiptsOf
<1> DEFINE result == EvaluationsOf(db, request)[i]
<1>6. /\ i \in DOMAIN request.flags
      /\ result.flag = request.flags[i]
      /\ result.ruleset_revision =
           Latest(db, request.flags[i], request.environment).revision
      /\ ~db.flags[request.flags[i]].archived
  BY <1>1, <1>3, <1>5 DEF Effects, ResponseEffects
<1> HIDE DEF result
<1>7. receipt.flag = result.flag
      /\ receipt.environment = request.environment
      /\ receipt.ruleset_revision = result.ruleset_revision
  BY <1>5 DEF ReceiptOf, result
<1>8. QED
  BY <1>4, <1>6, <1>7

\* It leaves archived flags alone.
LEMMA CommitKeepsArchived ==
    ASSUME NEW db, NEW request, Admissible(db, request)
    PROVE  ArchivedKept(db, Committed(db, request))
<1> DEFINE after == Committed(db, request)
<1>1. Effects(db, request, after)
  BY CommitEffects
<1>2. ASSUME NEW receipt \in after.receipts \ db.receipts
      PROVE  ~db.flags[receipt.flag].archived
  BY <1>2, AddedReceipts
<1>3. ASSUME NEW row \in after.rulesets \ db.rulesets
      PROVE  ~db.flags[row.flag].archived
  <2>1. row \in NewRulesets(db, request)
    BY <1>1, <1>3 DEF Effects, RowEffects
  <2>2. request.operation = "publish_ruleset" /\ row.flag = request.flag
    BY <2>1 DEF NewRulesets, NewRuleset
  <2>3. QED
    BY <1>1, <2>2 DEF Effects, ResponseEffects
<1>4. ASSUME NEW flag \in FlagKeys, db.flags[flag].archived
      PROVE  after.flags[flag] = db.flags[flag]
  BY <1>1, <1>4 DEF Effects, FlagEffects
<1> HIDE DEF after
<1>5. QED
  BY <1>2, <1>3, <1>4 DEF ArchivedKept, after

\* It evaluates against the latest ruleset of its tables.
LEMMA CommitEvaluatesLatest ==
    ASSUME NEW db, NEW request, Admissible(db, request)
    PROVE  EvaluatedLatest(db, Committed(db, request))
<1> SUFFICES ASSUME NEW receipt \in Committed(db, request).receipts \ db.receipts,
                    NEW row \in Published(db, receipt.flag, receipt.environment)
             PROVE  row.revision =< receipt.ruleset_revision
  BY DEF EvaluatedLatest
<1>1. request \in Evaluate
  BY AddedReceipts
<1>2. PICK i \in DOMAIN request.flags :
        /\ receipt.flag = request.flags[i]
        /\ receipt.environment = request.environment
        /\ receipt.ruleset_revision =
             Latest(db, request.flags[i], request.environment).revision
  BY AddedReceipts
<1>3. /\ request.flags[i] \in FlagKeys
      /\ request.environment \in EnvironmentKeys
  BY <1>1, <1>2 DEF Evaluate
<1>4. Sound(db)
  BY DEF Admissible
<1>5. QED
  BY <1>2, <1>3, <1>4, LatestRow

=============================================================================
