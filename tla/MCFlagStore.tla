----------------------------- MODULE MCFlagStore ----------------------------
EXTENDS FlagStore, Samples

\* "search" serves "on" to the sampled user; "checkout" has no ruleset yet, so
\* a batch that names both is refused until one is published.
Setup ==
    <<Create("k0", "checkout", "boolean"), Create("k1", "search", "boolean"),
      Put("k0", 0), Publish("k0", "search", 1, 1, HalfOn)>>

MCStored == {After(Setup)}

MCRequests ==
    {Change("update_flag", "k1", "checkout", 1),
     Change("update_flag", "k1", "checkout", 2),
     Change("archive_flag", "k1", "checkout", 2),
     Publish("k1", "checkout", 1, 2, HalfOn),
     Publish("k1", "checkout", 1, 2, NoFallthrough),
     Publish("k2", "checkout", 2, 3, ProOn),
     Evaluation1("k1", "checkout"),
     EvaluationBatch("k1", <<"search", "checkout">>)}

=============================================================================
