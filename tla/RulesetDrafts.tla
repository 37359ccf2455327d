---------------------------- MODULE RulesetDrafts ---------------------------
(***************************************************************************)
(* An administrator drafts a ruleset one entry at a time; each draft could *)
(* be published.  The steps enumerate the inputs of validate_ruleset and   *)
(* choose_variant, and relate the answers of a draft to those of the draft *)
(* it grew from.                                                           *)
(***************************************************************************)
EXTENDS Rulesets

CONSTANTS
    Values, Rules, Shares,         \* what an entry may carry
    MaxVariants, MaxRules, MaxRollout   \* bounds on the entries of a draft

VARIABLE draft

ASSUME DraftsAssumption ==
    /\ Values \subseteq ValueRecord
    /\ Rules \subseteq TargetingRuleRecord
    /\ Shares \subseteq Integer64
    /\ MaxVariants \in Nat /\ MaxRules \in Nat /\ MaxRollout \in Nat

TypeOK == draft \in RulesetDefinition

Init ==
    \E key \in VariantKeys :
        draft = [variants |-> <<>>, targeting_rules |-> <<>>,
                 percentage_rollout |-> <<>>, fallthrough_variant |-> key]

AddVariant ==
    /\ Len(draft.variants) < MaxVariants
    /\ \E key \in VariantKeys, value \in Values :
         draft' = [draft EXCEPT !.variants =
                     Append(@, [variant_key |-> key, value |-> value])]

AddRule ==
    /\ Len(draft.targeting_rules) < MaxRules
    /\ \E rule \in Rules :
         draft' = [draft EXCEPT !.targeting_rules = Append(@, rule)]

AddRollout ==
    /\ Len(draft.percentage_rollout) < MaxRollout
    /\ \E key \in VariantKeys, share \in Shares :
         draft' = [draft EXCEPT !.percentage_rollout =
                     Append(@, [variant_key |-> key, basis_points |-> share])]

Next == AddVariant \/ AddRule \/ AddRollout

Spec == Init /\ [][Next]_draft

-----------------------------------------------------------------------------

\* A published ruleset always serves a variant, and one whose value has the
\* type of the flag: evaluate never fails on what publish_ruleset accepted.
ValidRulesetsServe ==
    \A type \in ValueTypes :
        Valid(type, draft) =>
            \A attributes \in Context, bucket \in Buckets :
                LET choice == ChooseVariant(attributes, bucket, draft) IN
                /\ choice.status = "Chosen"
                /\ choice.variant \in ToSet(draft.variants)
                /\ ValidValue(type, choice.variant.value)

\* The bucket ranges of a rollout are disjoint: of the contexts no rule
\* matches, each entry is served to exactly its share of the buckets, and the
\* fallthrough variant to the rest.
RolloutShares ==
    \A type \in ValueTypes, attributes \in Context :
        Valid(type, draft) /\ MatchingRules(attributes, draft) = {} =>
            \A item \in ToSet(draft.percentage_rollout) :
                Cardinality({bucket \in Buckets :
                    LET choice == ChooseVariant(attributes, bucket, draft) IN
                    /\ choice.reason = "percentage_rollout"
                    /\ choice.variant.variant_key = item.variant_key})
                = item.basis_points

\* The rules that ask for an attribute the context has, in their order.
Asking(attributes, rules) ==
    LET asking[k \in 0 .. Len(rules)] ==
          IF k = 0 THEN <<>>
          ELSE IF rules[k].attribute \in DOMAIN attributes
          THEN Append(asking[k - 1], rules[k])
          ELSE asking[k - 1]
    IN  asking[Len(rules)]

\* A rule that asks for a missing attribute decides nothing, whatever its
\* operator: a context is served as if such rules were not there.
MissingAttributesDecideNothing ==
    \A type \in ValueTypes, attributes \in Context, bucket \in Buckets :
        Valid(type, draft) =>
            ChooseVariant(attributes, bucket, draft) =
            ChooseVariant(attributes, bucket,
                [draft EXCEPT !.targeting_rules = Asking(attributes, @)])

\* Growing a ruleset at its end is stable: a context a rule decides keeps its
\* variant, and one the rollout decides keeps it unless a rule is added.
EarlierEntriesDecide ==
    [][\A type \in ValueTypes, attributes \in Context, bucket \in Buckets :
         LET before == ChooseVariant(attributes, bucket, draft)
             after  == ChooseVariant(attributes, bucket, draft')
         IN  (/\ Valid(type, draft) /\ Valid(type, draft')
              /\ \/ before.reason = "target_match"
                 \/ /\ before.reason = "percentage_rollout"
                    /\ draft'.targeting_rules = draft.targeting_rules)
             => after = before
      ]_draft

\* What the request schema promises of a published rollout: every share is at
\* most all the buckets, and the shares together too.
RolloutWithinBuckets ==
    \A type \in ValueTypes :
        Valid(type, draft) =>
            /\ \A item \in ToSet(draft.percentage_rollout) :
                 item.basis_points \in 1 .. BasisPoints
            /\ Upper(draft.percentage_rollout,
                     Len(draft.percentage_rollout)) =< BasisPoints

=============================================================================
