---------------------------- MODULE MCAgentTools ----------------------------
EXTENDS AgentTools, Samples

Ann == <<"agent-tools", "ann">>

By(request) == [request EXCEPT !.principal = Ann]

\* "checkout" has no ruleset yet.
Setup == <<By(Create("k0", "checkout", "boolean")), By(Put("k0", 0))>>

MCStored == {After(Setup)}

\* A publication, and an archival that rules it out or comes too late.
MCRequests ==
    {By(Publish("k1", "checkout", 1, 1, HalfOn)),
     By(Change("archive_flag", "k1", "checkout", 1))}

Symmetry == Permutations(Clients)

MCPrincipals == {Ann}

MCFacts == {<<"active", "acme", "ann">>, <<"feature-flags.admin", "acme", "ann">>}

Body(request) ==
    [field \in DOMAIN request \ {"principal"} |-> request[field]]

Calling(body) ==
    [name |-> body.operation, arguments |-> body,
     context |-> [assertion |-> [genuine |-> TRUE, subject |-> "ann",
                                 operation |-> body.operation],
                  organization |-> "acme", texts |-> "Valid"]]

Publication == Calling(Body(By(Publish("k1", "checkout", 1, 1, HalfOn))))

MCToolCalls ==
    {Calling(Body(request)) : request \in MCRequests}
    \union
    {[Publication EXCEPT !.arguments = Undecodable],
     [Publication EXCEPT !.name = "evaluate"]}

MCArrivals ==
    {Forwarded(tool_call) : tool_call \in {t \in MCToolCalls : ~AnsweredHere(t)}}

=============================================================================
