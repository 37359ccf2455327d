-------------------------- MODULE MCPostgresStore ---------------------------
EXTENDS PostgresStore, Samples

\* Both flags have a ruleset, so the two batches share them in opposite orders.
Setup ==
    <<Create("k0", "checkout", "boolean"), Create("k1", "search", "boolean"),
      Put("k0", 0), Publish("k0", "search", 1, 1, HalfOn),
      Publish("k1", "checkout", 1, 2, HalfOn)>>

\* A fresh migration, and a database in use.
MCStored == {EmptyDatabase, After(Setup)}

InUse == Setup[1] \in {row.request : row \in database.commands}

\* Two clients create the same flag and the same environment, and publish and
\* evaluate before or after they exist.
FreshRequests ==
    {Create("k1", "checkout", "boolean"),
     Create("k2", "checkout", "string"),
     Put("k1", 0),
     Put("k2", 0),
     Publish("k1", "checkout", 1, 1, HalfOn),
     EvaluationBatch("k1", <<"checkout", "search">>)}

UseRequests ==
    {Change("update_flag", "k1", "checkout", 2),
     Change("archive_flag", "k1", "checkout", 3),
     Publish("k2", "checkout", 2, 3, ProOn),
     Publish("k2", "search", 2, 3, NoFallthrough),
     Put("k1", 3),
     EvaluationBatch("k1", <<"search", "checkout">>),
     EvaluationBatch("k2", <<"checkout", "search">>)}

MCRequests == FreshRequests \union UseRequests

\* Bound: each database is asked its own requests.
Suited ==
    \A client \in Clients :
        \/ call[client] = Idle
        \/ call[client].request \in IF InUse THEN UseRequests ELSE FreshRequests

=============================================================================
