---------------------------- MODULE MCD1Retries -----------------------------
EXTENDS D1Retries, Samples

Setup == <<Create("k0", "checkout", "boolean"), Put("k0", 0)>>

MCStored == {After(Setup)}

MCRequests ==
    {Change("update_flag", "k1", "checkout", 1),
     Publish("k1", "checkout", 1, 1, HalfOn),
     Put("k1", 1)}

=============================================================================
