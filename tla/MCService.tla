----------------------------- MODULE MCService ------------------------------
EXTENDS Service, Samples

\* The console administers flags for ann and the application evaluates them.
\* "checkout" is a flag of acme and has no ruleset yet; "search" would be one of
\* globex, where ann is nobody.
Ann(caller) == <<caller, "ann">>

By(principal, request) == [request EXCEPT !.principal = principal]

Setup ==
    <<By(Ann("console"), Create("k0", "checkout", "boolean")),
      By(Ann("console"), Put("k0", 0))>>

MCStored == {After(Setup)}

MCRequests ==
    {By(Ann("console"), request) : request \in
       {Publish("k1", "checkout", 1, 1, HalfOn),
        Publish("k1", "checkout", 1, 1, NoFallthrough),
        Publish("k1", "search", 1, 1, HalfOn)}}
    \union {By(Ann("app"), Evaluation1("k1", "checkout"))}

MCPrincipals == {"console", "app"} \X {"ann"}

MCFacts == {"active", "feature-flags.evaluate", "feature-flags.admin"}
             \X {"acme"} \X {"ann"}

Body(request) ==
    [field \in DOMAIN request \ {"principal"} |-> request[field]]

\* An authentic, valid call for a request.
Asking(request) ==
    [caller |-> request.principal[1],
     assertion |-> [genuine |-> TRUE, operation |-> request.operation,
                    subject |-> request.principal[2]],
     organization |-> "acme", body |-> Body(request), texts |-> "Valid"]

Publication == Asking(By(Ann("console"), Publish("k1", "checkout", 1, 1, HalfOn)))

Accepted ==
    {[Asking(request) EXCEPT
        !.organization = IF request.operation = "publish_ruleset"
                            /\ request.flag = "search"
                         THEN "globex" ELSE "acme"] : request \in MCRequests}

MCArrivals ==
    Accepted
    \union
    {[Publication EXCEPT !.caller = "app"],
     [Publication EXCEPT !.assertion.operation = "get_flag"],
     [Publication EXCEPT !.texts = "InvalidRequest"],
     [Publication EXCEPT !.body.expected = 0],
     [Publication EXCEPT !.body.definition.variants = @ \o @],
     [Publication EXCEPT !.assertion.operation = "get_flag",
                         !.body = [operation |-> "get_flag", flag |-> "search"]],
     [Asking(By(Ann("app"), EvaluationBatch("k1", <<"checkout", "checkout">>)))
        EXCEPT !.assertion.operation = "evaluate_batch"]}

=============================================================================
