----------------------------- MODULE MCD1Store ------------------------------
EXTENDS D1Store, Samples

Setup ==
    <<Create("k0", "checkout", "boolean"), Create("k1", "search", "boolean"),
      Put("k0", 0), Publish("k0", "search", 1, 1, HalfOn)>>

\* A fresh migration, and a database in use.
MCStored == {EmptyDatabase, After(Setup)}

InUse == Setup[1] \in {row.request : row \in database.commands}

\* The flags of the database in use were created in the order of Setup.
MCInit ==
    /\ Init
    /\ InUse => rowSeq = [flag \in FlagKeys |->
                             IF flag = "checkout" THEN 1 ELSE 2]

MCSpec == MCInit /\ [][Next]_vars

\* Two clients create flags and the environment, reuse a key, retry, and publish
\* for a flag that the other client may still create.
FreshRequests ==
    {Create("k1", "checkout", "boolean"),
     Create("k2", "search", "boolean"),
     Create("k2", "checkout", "string"),
     Put("k1", 0),
     Publish("k1", "checkout", 1, 1, HalfOn)}

UseRequests ==
    {Change("update_flag", "k1", "checkout", 1),
     Change("archive_flag", "k1", "checkout", 2),
     Publish("k1", "checkout", 1, 2, HalfOn),
     Publish("k2", "checkout", 2, 3, ProOn),
     Evaluation1("k1", "checkout"),
     EvaluationBatch("k1", <<"search", "checkout">>)}

MCRequests == FreshRequests \union UseRequests

\* Bound: each database is asked its own requests.
Suited ==
    \A client \in Clients :
        \/ call[client] = Idle
        \/ call[client].request \in IF InUse THEN UseRequests ELSE FreshRequests

=============================================================================
