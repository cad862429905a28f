------------------------- MODULE EnrichmentManager -------------------------
(***************************************************************************)
(* The Home Assistant integration's publisher of registry facts            *)
(* (enrichment_manager.py) and the store it fills in Core                  *)
(* (enrichment/ha.py, api/routes.py).  Everything of the manager runs on   *)
(* one event loop; the two awaits of a pass, for Core's device list and    *)
(* for the answer to the snapshot, are where registry events, timers and   *)
(* Core's own changes come in between.                                     *)
(***************************************************************************)
EXTENDS EnrichmentResolve

CONSTANTS
    Registries,     \* bound: registry contents, sets of devices, and Unavailable
    Unavailable,    \* the registries cannot be read, or hold too much
    Inventories,    \* bound: Core's device rows
    MaxFaults       \* bound: requests that fail, losses of Core's store

ASSUME ManagerAssumption ==
    /\ MaxFaults \in Nat
    /\ \A i \in Inventories: InventoryUsable(i) /\ IsFiniteSet(i)
    /\ \A r \in Registries \ {Unavailable}: IsFiniteSet(r)

VARIABLES
    registry,   \* Home Assistant's registries
    rows,       \* Core's devices
    store,      \* ha_device_enrichment in Core
    contract,   \* coordinator.data.enrichment_contract_state
    life,       \* of the config entry that owns the manager
    phase,      \* of the pass that holds self._lock: "free", "top", "inventory", "publish", "end"
    force,      \* this pass was asked to publish whatever the fingerprint says
    seen,       \* the registry as this pass read it
    resolved,   \* what that pass resolved with Core's devices; only the properties read it
    build,      \* the resolved snapshot this pass is publishing
    pending, pendingForce,
    fingerprint,    \* the last snapshot Core fully accepted
    terminal,   \* the last snapshot Core refused for good
    retry, debounce,    \* the timers that are armed
    diag,       \* diagnostics: sync_state and match_state
    changes,    \* of the registry or of Core's devices, still to come (see HaIntegration)
    faults

coreVars == <<rows, store>>
passVars == <<phase, force, seen, resolved, build, pending, pendingForce>>
memoVars == <<fingerprint, terminal, retry, debounce, diag>>
managerVars == <<registry, coreVars, contract, life, passVars, memoVars, changes, faults>>

Contracts == {"supported", "unsupported", "missing", "malformed", "unavailable"}

Diag(s, m) == [state |-> s, match |-> m]
Failed(s) == Diag(s, "unknown")

NoBuild == [devices |-> {}, submitted |-> 0, unmatched |-> 0, ambiguous |-> 0]

ManagerInit ==
    /\ registry \in Registries \ {Unavailable} /\ rows \in Inventories
    /\ store = {} /\ contract = "unavailable" /\ life = "new"
    /\ phase = "free" /\ force = FALSE /\ seen = Unavailable /\ resolved = None
    /\ build = NoBuild
    /\ pending = FALSE /\ pendingForce = FALSE
    /\ fingerprint = None /\ terminal = None /\ retry = FALSE /\ debounce = FALSE
    /\ diag = Failed("never_attempted")
    /\ faults = 0

ContractDiag ==
    [unsupported |-> "contract_unsupported", missing |-> "contract_missing",
     malformed |-> "contract_malformed", unavailable |-> "failed_contract_unavailable"]

\* The snapshot that a registry and an inventory resolve to
BuildOf(r, i) == CHOOSE b \in {Resolve(s, i): s \in {RegistrySnapshot(r)}}: TRUE

\* None stands for the absence of a snapshot, an empty one included
ASSUME NoSnapshotAssumption ==
    \A r \in Registries \ {Unavailable}, i \in Inventories: BuildOf(r, i).devices # None

\* Listeners and timers are registered from async_start to async_stop
Alive == life \in {"starting", "loading", "running", "unloading"}

\* async_reconcile: take the lock, or leave word for whoever holds it
Mut_Reconcile(f) ==
    IF phase # "free" THEN UNCHANGED passVars
    ELSE phase' = "top" /\ force' = f /\ UNCHANGED <<seen, resolved, build, pending, pendingForce>>

Reconcile(f) ==
    IF phase # "free"
    THEN /\ pending' = TRUE /\ pendingForce' = (pendingForce \/ f)
         /\ UNCHANGED <<phase, force, seen, resolved, build>>
    ELSE /\ phase' = "top" /\ force' = f
         /\ UNCHANGED <<seen, resolved, build, pending, pendingForce>>

\* _async_reconcile_once up to its first await
BeginPass ==
    /\ Alive /\ phase = "top"
    /\ pending' = FALSE /\ pendingForce' = FALSE
    /\ IF contract # "supported"
       THEN /\ fingerprint' = None /\ terminal' = None
            /\ diag' = Failed(ContractDiag[contract])
            /\ retry' = (contract = "unavailable")
            /\ phase' = "end" /\ UNCHANGED seen
       ELSE IF registry = Unavailable
       THEN /\ diag' = Failed("failed_source_unavailable") /\ retry' = TRUE
            /\ phase' = "end" /\ UNCHANGED <<seen, fingerprint, terminal>>
       ELSE /\ seen' = registry /\ phase' = "inventory"
            /\ UNCHANGED <<fingerprint, terminal, diag, retry>>
    /\ UNCHANGED <<registry, coreVars, contract, life, force, resolved, build, debounce, changes,
                   faults>>

\* api.py: how a request ends that brings no usable answer
Endings == {"no_answer", "redirect", "401", "404", "429", "4xx", "5xx", "bad_json"}

ErrorClass(ending) ==
    CASE ending = "401" -> "auth"
      [] ending = "no_answer" -> "connection"
      [] ending = "5xx" -> "server"
      [] ending \in {"404", "429", "4xx"} -> "rejected"
      [] ending \in {"redirect", "bad_json"} -> "invalid"

\* The sync state a failed request leaves, and the failures that are tried again.  An
\* authentication failure also opens Home Assistant's reauthentication dialogue, once.
InventoryState(ending) ==
    [auth |-> "failed_authentication", connection |-> "failed_inventory_unavailable",
     server |-> "failed_server", rejected |-> "failed_request_rejected",
     invalid |-> "failed_invalid_response"][ErrorClass(ending)]

PublishState(ending) ==
    IF ending = "404" THEN "failed_contract_unsupported"
    ELSE [auth |-> "failed_authentication", connection |-> "failed_connection",
          server |-> "failed_server", rejected |-> "failed_request_rejected",
          invalid |-> "failed_invalid_response"][ErrorClass(ending)]

TriedAgain(ending) == ending \in {"no_answer", "5xx", "429"}

PassFails(state, again) ==
    /\ phase' = "end" /\ build' = NoBuild /\ diag' = Failed(state) /\ retry' = again
    /\ UNCHANGED <<registry, rows, contract, life, force, seen, resolved, pending, pendingForce,
                   debounce, changes>>

\* The await for Core's inventory ends in an error; an unusable inventory is asked for again
InventoryFails ==
    /\ phase = "inventory" /\ faults < MaxFaults /\ faults' = faults + 1
    /\ \E ending \in Endings:
           PassFails(InventoryState(ending), TriedAgain(ending) \/ ErrorClass(ending) = "invalid")
    /\ UNCHANGED <<store, fingerprint, terminal>>

\* Core's inventory arrives: resolve, and decide whether there is anything to publish
InventoryArrives ==
    /\ phase = "inventory"
    /\ \E b \in {BuildOf(seen, rows)}:
       /\ resolved' = b.devices
       /\ \/ /\ ~force /\ fingerprint = b.devices     \* Core has accepted all of it already
             /\ diag' = Diag("successful", Outcome(b, CoreResult(b.devices, b.devices)).match)
             /\ phase' = "end" /\ build' = NoBuild
          \/ /\ ~force /\ fingerprint # b.devices /\ terminal = b.devices   \* Core refused it already
             /\ diag' = Failed(diag.state)
             /\ phase' = "end" /\ build' = NoBuild
          \/ /\ force \/ b.devices \notin {fingerprint, terminal}
             /\ build' = b /\ phase' = "publish" /\ UNCHANGED diag
    /\ UNCHANGED <<registry, coreVars, contract, life, force, seen, pending, pendingForce,
                   fingerprint, terminal, retry, debounce, changes, faults>>

\* Core did not store the snapshot, or stored it and the answer was lost or unusable
PublishFails ==
    /\ phase = "publish" /\ faults < MaxFaults /\ faults' = faults + 1
    /\ \E ending \in Endings:
        /\ PassFails(PublishState(ending), TriedAgain(ending))
        /\ terminal' = IF ErrorClass(ending) \in {"rejected", "invalid"} /\ ~TriedAgain(ending)
                       THEN build.devices ELSE terminal
        /\ fingerprint' = IF ErrorClass(ending) = "invalid" THEN None ELSE fingerprint
        /\ \/ UNCHANGED store
           \/ ending \in {"no_answer", "bad_json"} /\ store' = CoreMatches(build.devices, rows)

\* apply_ha_enrichment replaces the store; the counts of its answer end the pass
PublishSucceeds ==
    /\ phase = "publish"
    /\ store' = CoreMatches(build.devices, rows)
    /\ \E o \in {Outcome(build, CoreResult(build.devices, rows))}:
       IF o.raises
       THEN /\ fingerprint' = None /\ terminal' = build.devices /\ retry' = FALSE
            /\ diag' = Failed("failed_invalid_response")
       ELSE /\ terminal' = None
            /\ fingerprint' = IF o.converged THEN build.devices ELSE None
            /\ retry' = ~o.converged
            /\ diag' = Diag(IF o.converged THEN "successful" ELSE "partial_acceptance", o.match)
    /\ phase' = "end" /\ build' = NoBuild
    /\ UNCHANGED <<registry, rows, contract, life, force, seen, resolved, pending, pendingForce,
                   debounce, changes, faults>>

\* The loop of async_reconcile: once more when somebody asked meanwhile, else unlock
EndPass ==
    /\ phase = "end"
    /\ IF pending THEN phase' = "top" /\ force' = pendingForce /\ UNCHANGED life
       ELSE /\ phase' = "free" /\ force' = FALSE
            /\ life' = IF life = "starting" THEN "loading" ELSE life    \* async_start returns
    /\ UNCHANGED <<registry, coreVars, contract, seen, resolved, build, pending, pendingForce, memoVars,
                   changes, faults>>

\* async_request_sync: a registry event or a coordinator update re-arms the debounce timer
RequestSync == retry' = FALSE /\ debounce' = TRUE

\* A registry changes and the event listener asks for a sync
RegistryEvent ==
    /\ changes > 0 /\ changes' = changes - 1
    /\ \E r \in Registries \ {registry}: registry' = r
    /\ IF Alive THEN RequestSync ELSE UNCHANGED <<retry, debounce>>
    /\ UNCHANGED <<coreVars, contract, life, passVars, fingerprint, terminal, diag, faults>>

RunDebounced ==
    /\ Alive /\ debounce /\ debounce' = FALSE /\ Reconcile(FALSE)
    /\ UNCHANGED <<registry, coreVars, contract, life, fingerprint, terminal, retry, diag,
                   changes, faults>>

RunRetry ==
    /\ Alive /\ retry /\ retry' = FALSE /\ Reconcile(TRUE)
    /\ UNCHANGED <<registry, coreVars, contract, life, fingerprint, terminal, debounce, diag,
                   changes, faults>>

Mut_PeriodicReconciliation ==
    /\ Alive /\ Reconcile(FALSE)
    /\ UNCHANGED <<registry, coreVars, contract, life, memoVars, changes, faults>>

\* _handle_periodic_reconciliation, every 15 minutes
PeriodicReconciliation ==
    /\ Alive /\ Reconcile(TRUE)
    /\ UNCHANGED <<registry, coreVars, contract, life, memoVars, changes, faults>>

\* Core finds or loses a device; its enrichment rows are keyed by device, not tied to it
CoreDevicesChange ==
    /\ changes > 0 /\ changes' = changes - 1
    /\ \E r \in Inventories \ {rows}: rows' = r
    /\ UNCHANGED <<registry, store, contract, life, passVars, memoVars, faults>>

\* Somebody clears the enrichment (DELETE /enrichment/homeassistant) or restores a database
CoreForgets ==
    /\ store # {} /\ faults < MaxFaults /\ faults' = faults + 1 /\ store' = {}
    /\ UNCHANGED <<registry, rows, contract, life, passVars, memoVars, changes>>

Pass == BeginPass \/ InventoryFails \/ InventoryArrives \/ PublishFails \/ PublishSucceeds \/ EndPass

Timers == RunDebounced \/ RunRetry \/ PeriodicReconciliation

Surroundings == RegistryEvent \/ CoreDevicesChange \/ CoreForgets

\* What Core should hold for the registries as they are
Current == CoreMatches(BuildOf(registry, rows).devices, rows)
=============================================================================
