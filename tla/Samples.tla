------------------------------- MODULE Samples ------------------------------
(***************************************************************************)
(* Values for the constants of the store modules: a boolean flag, one      *)
(* environment, two rulesets, and the requests the runs draw from.         *)
(***************************************************************************)
EXTENDS StoreCalls

SampleTypes       == {"boolean", "string"}
SampleVariants    == {"on", "off"}
SampleAttributes  == {"plan"}
SampleTexts       == {"pro", "free"}
SampleRendered    == [value \in SampleTexts |-> value]
SampleContaining  == {<<text, text>> : text \in SampleTexts}
SampleEnvironment == "production"
SampleContext     == [attribute \in {"plan"} |-> "pro"]

\* Every sample lands in the second of two buckets, except "ann" on "search".
SampleBucket ==
    [place \in {SampleEnvironment} \X FlagKeys \X TargetingKeys |->
        IF place[2] = "search" THEN 0 ELSE 1]

Boolean(fits) ==
    [value_type |-> "boolean", present |-> {"boolean"}, fits |-> fits]

OnAndOff ==
    <<[variant_key |-> "on", value |-> Boolean(TRUE)],
      [variant_key |-> "off", value |-> Boolean(TRUE)]>>

\* Serves "on" to the first bucket and "off" to the second.
HalfOn ==
    [variants |-> OnAndOff, targeting_rules |-> <<>>,
     percentage_rollout |-> <<[variant_key |-> "on", basis_points |-> 1]>>,
     fallthrough_variant |-> "off"]

\* Serves "on" to the pro plan.
ProOn ==
    [variants |-> OnAndOff,
     targeting_rules |->
       <<[rule_id |-> "pro", attribute |-> "plan", operator |-> "equals",
          comparison_values |-> <<"pro">>, variant_key |-> "on"]>>,
     percentage_rollout |-> <<>>, fallthrough_variant |-> "off"]

\* The fallthrough variant is not a variant of the ruleset.
NoFallthrough == [HalfOn EXCEPT !.variants = <<OnAndOff[1]>>]

Create(key, flag, type) ==
    [operation |-> "create_flag", principal |-> "ann", key |-> key,
     flag |-> flag, value_type |-> type]

Change(operation, key, flag, expected) ==
    [operation |-> operation, principal |-> "ann", key |-> key,
     flag |-> flag, expected |-> expected]

Put(key, expected) ==
    [operation |-> "put_environment", principal |-> "ann", key |-> key,
     environment |-> SampleEnvironment, expected |-> expected]

Publish(key, flag, expected, expected_environment, definition) ==
    [operation |-> "publish_ruleset", principal |-> "ann", key |-> key,
     flag |-> flag, environment |-> SampleEnvironment,
     expected |-> expected, expected_environment |-> expected_environment,
     definition |-> definition]

Evaluation1(key, flag) ==
    [operation |-> "evaluate", principal |-> "ann", key |-> key,
     environment |-> SampleEnvironment, flags |-> <<flag>>,
     targeting_key |-> "user", attributes |-> SampleContext]

EvaluationBatch(key, flags) ==
    [Evaluation1(key, "checkout") EXCEPT
        !.operation = "evaluate_batch", !.flags = flags]

\* The database a sequence of commands, each of which succeeds, leaves.
After(requests) ==
    FoldLeft(LAMBDA db, request : Commit(db, request, Plan(db, request)),
             EmptyDatabase, requests)

=============================================================================
