----------------------------- MODULE D1Lifecycle ----------------------------
(***************************************************************************)
(* Activation and deactivation of the D1 plugin                            *)
(* (crates/lenso-feature-flag-d1-plugin/src/lib.rs) with calls in flight.  *)
(* The flag `prepared` is one cell shared by the clones of the plugin that *)
(* serve its two capabilities and its lifecycle.  A call that begins while *)
(* it is set takes a clone of the binding and keeps it to its end.         *)
(*                                                                         *)
(* The batches of a command are those of D1Store; a read has only the      *)
(* first.  The schema is migrated by an operator, never by the plugin.     *)
(***************************************************************************)
EXTENDS Naturals

CONSTANTS
    Calls,             \* concurrent calls
    Names,             \* names of bindings
    Configured         \* D1Config.binding

ASSUME NamesAssumption == Configured \in Names

VARIABLES
    phase,             \* what has become of the instance
    prepared,          \* the shared cell
    migrated,          \* the schema is the one the plugin expects
    serving,           \* how far each call has come, and whether it is bound
    began              \* auxiliary: the phase in which each call began

pluginVars == <<phase, prepared, migrated, serving, began>>

NotServing == [step |-> "idle", bound |-> FALSE]

InBatch(c) == serving[c].step \in {"snapshot", "write", "reconcile"}

PluginTypeOK ==
    /\ phase \in {"none", "inactive", "verifying", "active"}
    /\ prepared \in BOOLEAN
    /\ migrated \in BOOLEAN
    /\ serving \in [Calls -> [step: {"idle", "authorizing", "snapshot", "write",
                                  "reconcile"},
                           bound: BOOLEAN]]
    /\ began \in [Calls -> {"none", "inactive", "verifying", "active"}]

PluginInit ==
    /\ phase = "none"
    /\ prepared = FALSE
    /\ migrated \in BOOLEAN
    /\ serving = [c \in Calls |-> NotServing]
    /\ began = [c \in Calls |-> "none"]

-----------------------------------------------------------------------------
(* Lifecycle.                                                              *)

\* fn instantiate: a factory of another binding is rejected.
Instantiate(name) ==
    /\ phase = "none"
    /\ name = Configured
    /\ phase' = "inactive"
    /\ UNCHANGED <<prepared, migrated, serving, began>>

\* A mistake to detect: the plugin is prepared while the schema is verified.
ActivateEagerly ==
    /\ phase = "inactive"
    /\ phase' = "verifying"
    /\ prepared' = TRUE
    /\ UNCHANGED <<migrated, serving, began>>

\* activate, up to its await.
Activate ==
    /\ phase = "inactive"
    /\ phase' = "verifying"
    /\ UNCHANGED <<prepared, migrated, serving, began>>

\* The ledger is what schema::plan() expects.
Verified ==
    /\ phase = "verifying"
    /\ migrated
    /\ phase' = "active"
    /\ prepared' = TRUE
    /\ UNCHANGED <<migrated, serving, began>>

\* It is not, or the binding throws or answers nonsense.
Unverified ==
    /\ phase = "verifying"
    /\ phase' = "inactive"
    /\ UNCHANGED <<prepared, migrated, serving, began>>

Deactivate ==
    /\ phase = "active"
    /\ phase' = "inactive"
    /\ prepared' = FALSE
    /\ UNCHANGED <<migrated, serving, began>>

\* The operator runs plan().setup().
Migrate ==
    /\ ~migrated
    /\ migrated' = TRUE
    /\ UNCHANGED <<phase, prepared, serving, began>>

-----------------------------------------------------------------------------
(* Calls.                                                                  *)

GoTo(c, next) ==
    /\ serving' = [serving EXCEPT ![c].step = next]
    /\ UNCHANGED <<phase, prepared, migrated, began>>

Return(c) ==
    /\ serving' = [serving EXCEPT ![c] = NotServing]
    /\ UNCHANGED <<phase, prepared, migrated, began>>

\* fn service: the binding, or one that answers Error::Transport.
Start(c) ==
    /\ phase # "none"
    /\ serving[c].step = "idle"
    /\ serving' = [serving EXCEPT ![c] = [step |-> "authorizing", bound |-> prepared]]
    /\ began' = [began EXCEPT ![c] = phase]
    /\ UNCHANGED <<phase, prepared, migrated>>

\* The call is refused, or its store fails for want of a binding, or its first
\* batch is submitted.
Authorize(c) ==
    /\ serving[c].step = "authorizing"
    /\ Return(c) \/ (serving[c].bound /\ GoTo(c, "snapshot"))

SnapshotBatch(c) ==
    /\ serving[c].step = "snapshot"
    /\ Return(c) \/ GoTo(c, "write")

WriteBatch(c) ==
    /\ serving[c].step = "write"
    /\ Return(c) \/ GoTo(c, "reconcile")

\* A mistake to detect: a write that is not recorded is submitted again.
ReconcileResubmits(c) ==
    /\ serving[c].step = "reconcile"
    /\ Return(c) \/ GoTo(c, "write")

\* The reconciling read decides, whatever it finds.
ReconcileBatch(c) ==
    /\ serving[c].step = "reconcile"
    /\ Return(c)

Progress(c) == Authorize(c) \/ SnapshotBatch(c) \/ WriteBatch(c) \/ ReconcileBatch(c)

PluginNext ==
    \/ \E name \in Names : Instantiate(name)
    \/ Activate \/ Verified \/ Unverified \/ Deactivate \/ Migrate
    \/ \E c \in Calls : Start(c) \/ Progress(c)

\* Batches, and the services asked for authorization, answer or fail.
PluginSpec == PluginInit /\ [][PluginNext]_pluginVars
                         /\ \A c \in Calls : WF_pluginVars(Progress(c))

-----------------------------------------------------------------------------

\* "activate" verifies the schema before any call can reach the tables: a batch
\* in flight is one of a call that began while the plugin was active, over
\* tables that are what the plugin expects, even if the plugin was deactivated
\* since or is being activated again.
BatchesOfActivePlugin ==
    \A c \in Calls : InBatch(c) => began[c] = "active" /\ migrated

\* Deactivation does not wait for the calls in flight and takes their bindings
\* from none of them, yet a plugin that stays deactivated falls silent: the
\* binding, valid only for its event, is not used for ever after.
FallsSilent ==
    <>[](phase = "inactive") => <>[](\A c \in Calls : ~InBatch(c))

=============================================================================
