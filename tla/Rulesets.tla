------------------------------ MODULE Rulesets ------------------------------
(***************************************************************************)
(* Rulesets of a feature flag: what publication accepts and which variant  *)
(* an evaluation serves (crates/lenso-feature-flag-core/src/domain.rs).    *)
(*                                                                         *)
(* A value keeps what validation can tell apart: its declared type, the    *)
(* payload slots it fills, and whether the payload of its declared type is *)
(* within its limits.  Texts are model values; what the code computes from *)
(* them (rendering a JSON attribute, the substring test) are constants.    *)
(***************************************************************************)
EXTENDS Integers, Sequences, FiniteSets, SequencesExt, FiniteSetsExt

CONSTANTS
    ValueTypes,        \* "boolean", "string", "integer", "double", "json"
    VariantKeys,
    RuleIds,
    Attributes,        \* names of context attributes
    AttributeValues,   \* JSON values of context attributes
    Texts,             \* comparison values and rendered attributes
    Rendered,          \* the text an attribute value is compared as
    Containing,        \* <<text, needle>>: the text contains the needle
    BasisPoints,       \* buckets of a percentage rollout, 10_000 in the code
    MaxInteger         \* i64::MAX

ASSUME RenderedAssumption == Rendered \in [AttributeValues -> Texts]

ASSUME ContainingAssumption ==
    /\ Containing \subseteq Texts \X Texts
    /\ \A text \in Texts : <<text, text>> \in Containing

ASSUME BasisPointsAssumption ==
    /\ BasisPoints \in Nat \ {0}
    /\ MaxInteger \in Nat
    /\ BasisPoints =< MaxInteger

-----------------------------------------------------------------------------

Operators == {"equals", "not_equals", "contains", "one_of"}

ValueRecord ==
    [value_type: ValueTypes, present: SUBSET ValueTypes, fits: BOOLEAN]

VariantRecord == [variant_key: VariantKeys, value: ValueRecord]

TargetingRuleRecord ==
    [rule_id: RuleIds, attribute: Attributes, operator: Operators,
     comparison_values: Seq(Texts), variant_key: VariantKeys]

Integer64 == (-MaxInteger - 1) .. MaxInteger

RolloutRecord == [variant_key: VariantKeys, basis_points: Integer64]

RulesetDefinition ==
    [variants: Seq(VariantRecord),
     targeting_rules: Seq(TargetingRuleRecord),
     percentage_rollout: Seq(RolloutRecord),
     fallthrough_variant: VariantKeys]

\* The attributes of an evaluation context; an attribute may be missing.
Context == UNION {[names -> AttributeValues] : names \in SUBSET Attributes}

Buckets == 0 .. BasisPoints - 1

-----------------------------------------------------------------------------
(* Publication: validate_ruleset.                                          *)

VariantKeysOf(definition) ==
    {variant.variant_key : variant \in ToSet(definition.variants)}

\* An addition of i64 wraps around in the release build.
Wrapped(n) ==
    ((n + MaxInteger + 1) % (2 * (MaxInteger + 1))) - (MaxInteger + 1)

\* The basis points of the first n entries of a rollout.
Upper(rollout, n) ==
    LET upper[k \in 0 .. Len(rollout)] ==
          IF k = 0 THEN 0 ELSE upper[k - 1] + rollout[k].basis_points
    IN  upper[n]

RolloutTotal(rollout) == Wrapped(Upper(rollout, Len(rollout)))

ValidValue(expected_type, value) ==
    /\ value.present = {expected_type}
    /\ value.value_type = expected_type
    /\ value.fits

NamesVariants(definition) ==
    /\ definition.variants # <<>>
    /\ \A i, j \in DOMAIN definition.variants :
         definition.variants[i].variant_key = definition.variants[j].variant_key
           => i = j
    /\ definition.fallthrough_variant \in VariantKeysOf(definition)

ValuesTyped(value_type, definition) ==
    \A variant \in ToSet(definition.variants) :
        ValidValue(value_type, variant.value)

RulesSound(definition) ==
    LET rules == definition.targeting_rules IN
    /\ \A i, j \in DOMAIN rules : rules[i].rule_id = rules[j].rule_id => i = j
    /\ \A rule \in ToSet(rules) :
         /\ rule.variant_key \in VariantKeysOf(definition)
         /\ \/ /\ rule.operator \in {"equals", "not_equals", "contains"}
               /\ Len(rule.comparison_values) = 1
            \/ /\ rule.operator = "one_of"
               /\ rule.comparison_values # <<>>

\* A mistake to detect: the variants of the rollout are not looked up.
RolloutOfAnyVariant(definition) ==
    LET rollout == definition.percentage_rollout IN
    /\ \A i, j \in DOMAIN rollout :
         rollout[i].variant_key = rollout[j].variant_key => i = j
    /\ RolloutTotal(rollout) =< BasisPoints
    /\ \A item \in ToSet(rollout) : item.basis_points > 0

RolloutSound(definition) ==
    LET rollout == definition.percentage_rollout IN
    /\ \A i, j \in DOMAIN rollout :
         rollout[i].variant_key = rollout[j].variant_key => i = j
    /\ RolloutTotal(rollout) =< BasisPoints
    /\ \A item \in ToSet(rollout) :
         /\ item.basis_points > 0
         /\ item.variant_key \in VariantKeysOf(definition)

ValidateRuleset(value_type, definition) ==
    IF ~NamesVariants(definition) THEN "InvalidRuleset"
    ELSE IF ~ValuesTyped(value_type, definition) THEN "TypeMismatch"
    ELSE IF ~(RulesSound(definition) /\ RolloutSound(definition))
         THEN "InvalidRuleset"
    ELSE "Valid"

Valid(value_type, definition) ==
    ValidateRuleset(value_type, definition) = "Valid"

-----------------------------------------------------------------------------
(* Evaluation: choose_variant.                                             *)

RuleMatches(value, rule) ==
    LET text   == Rendered[value]
        values == rule.comparison_values
        first  == IF values = <<>> THEN {} ELSE {Head(values)}
    IN  \/ rule.operator = "equals" /\ text \in first
        \/ rule.operator = "not_equals" /\ text \notin first
        \/ /\ rule.operator = "contains"
           /\ \E needle \in first : <<text, needle>> \in Containing
        \/ rule.operator = "one_of" /\ text \in ToSet(values)

NoChoice == [status |-> "InvalidRuleset"]

\* fn variant: the variant of that key, served for the reason given.
Serve(definition, key, reason) ==
    LET i == SelectInSeq(definition.variants, LAMBDA v : v.variant_key = key)
    IN  IF i = 0 THEN NoChoice
        ELSE [status |-> "Chosen", variant |-> definition.variants[i],
              reason |-> reason]

\* A mistake to detect: a missing attribute matches not_equals.
MissingDiffers(attributes, definition) ==
    {i \in DOMAIN definition.targeting_rules :
        LET rule == definition.targeting_rules[i] IN
        IF rule.attribute \in DOMAIN attributes
        THEN RuleMatches(attributes[rule.attribute], rule)
        ELSE rule.operator = "not_equals"}

\* A mistake to detect: the last rule that matches decides.
LastMatchingRule(attributes, definition) ==
    LET rules      == definition.targeting_rules
        matches(i) ==
          /\ rules[i].attribute \in DOMAIN attributes
          /\ RuleMatches(attributes[rules[i].attribute], rules[i])
    IN  {i \in DOMAIN rules :
            matches(i) /\ \A j \in DOMAIN rules : matches(j) => j =< i}

\* A missing attribute matches no rule, not even a not_equals one.
MatchingRules(attributes, definition) ==
    {i \in DOMAIN definition.targeting_rules :
        LET rule == definition.targeting_rules[i] IN
        /\ rule.attribute \in DOMAIN attributes
        /\ RuleMatches(attributes[rule.attribute], rule)}

\* A mistake to detect: a bucket equal to the upper bound is covered.
RolloutStopsLate(bucket, rollout) ==
    {i \in DOMAIN rollout :
        rollout[i].basis_points < 0 \/ bucket =< Upper(rollout, i)}

\* Where the scan of the rollout stops: at an entry that covers the bucket, or
\* at one whose basis points do not convert to an unsigned integer.
RolloutStops(bucket, rollout) ==
    {i \in DOMAIN rollout :
        rollout[i].basis_points < 0 \/ bucket < Upper(rollout, i)}

ChooseVariant(attributes, bucket, definition) ==
    LET matching == MatchingRules(attributes, definition)
        rollout  == definition.percentage_rollout
        stops    == RolloutStops(bucket, rollout)
    IN  IF matching # {}
        THEN Serve(definition,
                   definition.targeting_rules[Min(matching)].variant_key,
                   "target_match")
        ELSE IF stops = {}
        THEN Serve(definition, definition.fallthrough_variant, "fallthrough")
        ELSE IF rollout[Min(stops)].basis_points < 0 THEN NoChoice
        ELSE Serve(definition, rollout[Min(stops)].variant_key,
                   "percentage_rollout")

=============================================================================
