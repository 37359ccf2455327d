-------------------------- MODULE MCRulesetDrafts ---------------------------
EXTENDS RulesetDrafts

MCTypes      == {"boolean", "string"}
MCTexts      == {"true", "rue", "free"}
\* The string "true" and the JSON boolean are compared as the same text.
MCAttributeValues == {"string_true", "json_true", "string_free"}
MCRendered   == [value \in MCAttributeValues |->
                    IF value = "string_free" THEN "free" ELSE "true"]
MCContaining == {<<text, text>> : text \in MCTexts} \union {<<"true", "rue">>}

MCValues ==
    {[value_type |-> "boolean", present |-> {"boolean"}, fits |-> TRUE],
     [value_type |-> "boolean", present |-> {"boolean", "string"}, fits |-> TRUE]}

Rule(id, attribute, operator, values, key) ==
    [rule_id |-> id, attribute |-> attribute, operator |-> operator,
     comparison_values |-> values, variant_key |-> key]

MCRules ==
    {Rule("r1", "paid", "equals", <<"true">>, "on"),
     Rule("r2", "paid", "not_equals", <<"true">>, "off"),
     Rule("r1", "paid", "one_of", <<"free", "true">>, "off"),
     Rule("r2", "beta", "contains", <<"rue">>, "on"),
     Rule("r3", "beta", "not_equals", <<>>, "on")}

MCShares == {-1, 1, 3, 4}

\* Two of the greatest integers add up to -2.
MCWideShares == {1, 7}

=============================================================================
