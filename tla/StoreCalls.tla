----------------------------- MODULE StoreCalls -----------------------------
(***************************************************************************)
(* The calls clients make to a Feature Flag store and the replies they     *)
(* get: a response, a domain failure, or a backend failure that leaves the *)
(* outcome unknown (StorageError in core/src/domain.rs, mapped by          *)
(* map_storage in core/src/lib.rs).                                        *)
(***************************************************************************)
EXTENDS FlagDatabase

CONSTANTS
    Clients,           \* concurrent callers of the store
    Stored             \* the databases earlier generations leave behind

ASSUME StoredAssumption == \A db \in Stored : Sound(db)

Idle == [status |-> "idle"]

Pending(request) == [status |-> "pending", request |-> request]

Done(request, response) ==
    [status |-> "done", request |-> request, response |-> response]

RefusedCall(request, failure) ==
    [status |-> "refused", request |-> request, failure |-> failure]

Failed(request) == [status |-> "failed", request |-> request]

Failures ==
    {"NotFound", "FlagNotFound", "EnvironmentNotFound", "NoPublishedRuleset",
     "Archived", "RevisionConflict", "IdempotencyConflict",
     "OperationInProgress", "AlreadyExists", "TypeMismatch", "InvalidRuleset"}

CallState ==
    {Idle}
      \union [status: {"pending", "failed"}, request: Requests]
      \union [status: {"done"}, request: Requests, response: Response]
      \union [status: {"refused"}, request: Requests, failure: Failures]

=============================================================================
