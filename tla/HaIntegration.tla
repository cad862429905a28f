--------------------------- MODULE HaIntegration ---------------------------
(***************************************************************************)
(* The Home Assistant integration of one config entry: the polling         *)
(* coordinator (coordinator.py), the repair issues (repairs.py) and the    *)
(* set-up, unloading and removal of the entry (__init__.py), composed with *)
(* the enrichment manager.  A refresh writes nothing before it ends, so it *)
(* is one step; the answers of Core are classified by compatibility.py.    *)
(***************************************************************************)
EXTENDS EnrichmentManager

CONSTANTS
    Replies,        \* bound: what Core's four endpoints say in one refresh
    Budgets         \* bound: how many changes of the registry or of Core's devices, and how
                    \* many refreshes and reloads after the first set-up, a behaviour may have

\* compatibility.py: an answer of Core, each part as it is classified on arrival
Reply ==
    [version: {"compatible", "incompatible", "unknown"},
     capabilities: {"accepted", "unavailable", "malformed"},
     decision: {"supported_exact", "missing", "older", "newer", "malformed",
                "missing_required_capability"},
     payload: {"valid", "missing", "malformed"}, enrichment: Contracts,
     collector: {"up", "down"}, networks: {"none", "silent", "active"}, mock: BOOLEAN]

ASSUME IntegrationAssumption ==
    Budgets \subseteq [changes: Nat, refreshes: Nat] /\ Replies \subseteq Reply /\ None \notin Reply

VARIABLES
    success, authFailed, data,  \* DataUpdateCoordinator
    polling,    \* the next refresh is scheduled
    issues,     \* the issue registry
    refreshes   \* still to come

coordVars == <<success, authFailed, data, polling>>
vars == <<managerVars, coordVars, issues, refreshes>>

\* compatibility.py classify_decision_contract and classify_enrichment_contract, with the
\* capabilities response: accepted, rejected or failed ("unavailable"), or malformed
DecisionContract(r) ==
    CASE r.capabilities = "malformed" -> "malformed"
      [] r.capabilities = "unavailable" -> "missing"
      [] OTHER -> r.decision

EnrichmentContract(r) == IF r.capabilities = "accepted" THEN r.enrichment ELSE r.capabilities

\* coordinator.py _async_update_data: what a completed refresh keeps of the answers
Classify(r) == [r EXCEPT !.decision = DecisionContract(r), !.enrichment = EnrichmentContract(r)]

Compatibility ==
    {"incompatible_version", "core_version_unknown", "contract_older", "contract_newer",
     "contract_malformed", "payload_malformed", "enrichment_unsupported", "enrichment_sync_failed",
     "enrichment_match_incomplete"}

\* repairs.py: the one decision issue of an answer, if any
DecisionIssue(d) ==
    CASE d.version # "compatible" -> {}
      [] d.version = "compatible" /\ d.capabilities = "malformed" -> {"contract_malformed"}
      [] d.version = "compatible" /\ d.capabilities = "accepted" ->
            CASE d.decision \in {"missing", "older", "missing_required_capability"} -> {"contract_older"}
              [] d.decision = "newer" -> {"contract_newer"}
              [] d.decision = "malformed" -> {"contract_malformed"}
              [] d.decision = "supported_exact" /\ d.payload # "valid" -> {"payload_malformed"}
              [] OTHER -> {}
      [] OTHER -> {}

SyncFailed(s) ==
    s \in {"failed_source_unavailable", "failed_inventory_unavailable", "failed_contract_unavailable",
           "failed_connection", "failed_server", "failed_request_rejected", "failed_invalid_response"}

EnrichmentIssues(d, g) ==
    {i \in {"enrichment_unsupported"}:
        /\ d.version = "compatible"
        /\ \/ g.state = "failed_contract_unsupported"
           \/ d.enrichment \in {"missing", "unsupported", "malformed"}}
    \cup {i \in {"enrichment_sync_failed"}: SyncFailed(g.state)}
    \cup {i \in {"enrichment_match_incomplete"}:
        /\ g.match \in {"partial_unmatched", "partial_ambiguous", "no_matches", "no_matches_ambiguous"}
        /\ g.state # "failed_authentication" /\ d.version = "compatible"}

\* The issues about Core's own operation
OperationIssues(d) ==
    {i \in {"collector_disconnected"}: d.collector = "down"}
    \cup {i \in {"no_networks"}: d.networks = "none"}
    \cup {i \in {"no_mqtt_data"}: d.networks = "silent" /\ ~d.mock}
    \cup {i \in {"mock_mode"}: d.mock}

VersionIssue(d) ==
    CASE d.version = "incompatible" -> {"incompatible_version"}
      [] d.version = "unknown" -> {"core_version_unknown"}
      [] OTHER -> {}

\* async_manage_repairs, from the issues that are there.  While Core is not
\* reachable the issues about its operation stay as they were.
ManageRepairs(old, ok, auth, d, g) ==
    CASE auth -> old \ (Compatibility \cup {"core_unreachable"})
      [] ~auth /\ (~ok \/ d = None) -> (old \ Compatibility) \cup {"core_unreachable"}
      [] OTHER -> VersionIssue(d) \cup DecisionIssue(d) \cup EnrichmentIssues(d, g) \cup OperationIssues(d)

Init ==
    /\ ManagerInit
    /\ success = FALSE /\ authFailed = FALSE /\ data = None /\ polling = FALSE /\ issues = {}
    /\ \E b \in Budgets: changes = b.changes /\ refreshes = b.refreshes

\* _handle_enrichment_diagnostics: only for the entry that owns the panel and the issues
DiagnosticsCallback(g) ==
    issues' = IF life = "running" /\ g # diag
              THEN ManageRepairs(issues, success, authFailed, data, g) ELSE issues

\* async_setup_entry up to the manager's first pass.  When the first refresh fails Home
\* Assistant sets the entry up again later, from nothing.
SetupEntry ==
    /\ life = "new"
    /\ \E r \in Replies: data' = Classify(r) /\ contract' = data'.enrichment
    /\ success' = TRUE /\ authFailed' = FALSE /\ life' = "starting" /\ Reconcile(FALSE)
    /\ UNCHANGED <<registry, coreVars, memoVars, changes, faults, polling, issues, refreshes>>

\* The rest of async_setup_entry: listen to the coordinator, own the panel and the issues
FinishSetup ==
    /\ life = "loading" /\ life' = "running" /\ polling' = TRUE
    /\ issues' = ManageRepairs(issues, success, authFailed, data, diag)
    /\ UNCHANGED <<registry, coreVars, contract, passVars, memoVars, changes, faults,
                   success, authFailed, data, refreshes>>

\* A refresh of a loaded entry ends; _handle_coordinator_update runs when listeners are told
Refreshed == life = "running" /\ polling /\ refreshes > 0 /\ refreshes' = refreshes - 1

RefreshSucceeds ==
    /\ Refreshed
    /\ \E r \in Replies: data' = Classify(r) /\ contract' = data'.enrichment
    /\ success' = TRUE /\ authFailed' = FALSE
    /\ RequestSync
    /\ issues' = ManageRepairs(issues, TRUE, FALSE, data', diag)
    /\ UNCHANGED <<registry, coreVars, life, passVars, fingerprint, terminal, diag, changes,
                   faults, polling>>

\* A second failure in a row is not told to the listeners
RefreshFails ==
    /\ Refreshed /\ success' = FALSE /\ authFailed' = FALSE
    /\ IF success THEN RequestSync /\ issues' = ManageRepairs(issues, FALSE, FALSE, data, diag)
                  ELSE UNCHANGED <<retry, debounce, issues>>
    /\ UNCHANGED <<registry, coreVars, contract, life, passVars, fingerprint, terminal, diag,
                   changes, faults, data, polling>>

Mut_RefreshUnauthorized ==
    /\ Refreshed /\ success' = FALSE /\ authFailed' = TRUE /\ polling' = FALSE
    /\ issues' = IF success THEN ManageRepairs(issues, FALSE, TRUE, data, diag) ELSE issues
    /\ UNCHANGED <<registry, coreVars, contract, life, passVars, memoVars, changes, faults, data>>

\* _raise_auth_failed tells the listeners itself when the refresh before had failed too
RefreshUnauthorized ==
    /\ Refreshed /\ success' = FALSE /\ authFailed' = TRUE /\ polling' = FALSE
    /\ issues' = ManageRepairs(issues, FALSE, TRUE, data, diag)
    /\ UNCHANGED <<registry, coreVars, contract, life, passVars, memoVars, changes, faults, data>>

\* async_unload_entry: the runtime and the ownership go first, the manager is stopped after it
UnloadEntry ==
    /\ life = "running" /\ life' = "unloading" /\ issues' = {} /\ polling' = FALSE
    /\ UNCHANGED <<registry, coreVars, contract, passVars, memoVars, changes, faults,
                   success, authFailed, data, refreshes>>

\* async_stop: timers are cancelled and the running pass with them; a snapshot that is on
\* its way may have reached Core.  The coordinator and the manager are dropped after it.
StopManager ==
    /\ life = "unloading" /\ life' = "stopped"
    /\ phase' = "free" /\ build' = NoBuild /\ pending' = FALSE /\ pendingForce' = FALSE
    /\ retry' = FALSE /\ debounce' = FALSE
    /\ data' = None /\ success' = FALSE /\ authFailed' = FALSE /\ contract' = "unavailable"
    /\ seen' = Unavailable /\ resolved' = None /\ fingerprint' = None /\ terminal' = None
    /\ diag' = Failed("never_attempted") /\ force' = FALSE
    /\ \/ UNCHANGED store
       \/ phase = "publish" /\ store' = CoreMatches(build.devices, rows)
    /\ UNCHANGED <<registry, rows, changes, faults, polling, issues, refreshes>>

\* A reload (optionsentication, reconfiguration) builds new objects
Reload ==
    /\ life = "stopped" /\ life' = "new" /\ refreshes > 0 /\ refreshes' = refreshes - 1
    /\ UNCHANGED <<registry, coreVars, contract, passVars, memoVars, changes, faults, coordVars, issues>>

\* async_remove_entry clears Core's store, if Core can be reached
RemoveEntry ==
    /\ life \in {"stopped", "new"} /\ life' = "removed"
    /\ store' = {} \/ UNCHANGED store
    /\ UNCHANGED <<registry, rows, contract, passVars, memoVars, changes, faults, coordVars, issues,
                   refreshes>>

ManagerStep ==
    /\ Pass \/ RunDebounced \/ RunRetry \/ PeriodicReconciliation
    /\ DiagnosticsCallback(diag')
    /\ UNCHANGED <<coordVars, refreshes>>

\* What happens around an entry until it is removed
Environment == life # "removed" /\ Surroundings /\ UNCHANGED <<coordVars, issues, refreshes>>

EntryStep ==
    \/ SetupEntry \/ FinishSetup \/ UnloadEntry \/ StopManager \/ Reload \/ RemoveEntry
    \/ RefreshSucceeds \/ RefreshFails \/ RefreshUnauthorized

Next == ManagerStep \/ Environment \/ EntryStep

Quiet == UNCHANGED <<coordVars, refreshes>>

\* The event loop runs what is ready; a timer that is armed goes off, the periodic one too
Fairness ==
    /\ WF_vars(Pass /\ DiagnosticsCallback(diag') /\ Quiet)
    /\ WF_vars(RunDebounced /\ DiagnosticsCallback(diag') /\ Quiet)
    /\ WF_vars(RunRetry /\ DiagnosticsCallback(diag') /\ Quiet)
    /\ WF_vars(PeriodicReconciliation /\ DiagnosticsCallback(diag') /\ Quiet)
    /\ WF_vars(FinishSetup)

Spec == Init /\ [][Next]_vars /\ Fairness

-----------------------------------------------------------------------------
\* A snapshot on its way to Core names no Core device, registry device or entity twice
\* (enrichment_request_payload would raise, and resolve with it, out of the task), and the
\* candidates add up: posted, unmatched and ambiguous (_completed_outcome would raise).
SnapshotWellFormed ==
    phase = "publish" =>
        /\ ~PayloadRaises(build.devices)
        /\ build.submitted = Cardinality(build.devices) + build.unmatched + build.ambiguous

\* A registry change that arrives during a pass, a debounce wait or a retry is not lost:
\* when the manager rests with a success, its last pass read the registries Home Assistant
\* has, and Core has accepted all of what they resolved to, or has refused exactly that for
\* good before (the success shown then belongs to the snapshot Core accepted in between).
RestsOnTheLatest ==
    Alive /\ phase = "free" /\ ~debounce /\ diag.state = "successful" =>
        /\ seen = registry
        /\ resolved # None /\ resolved \in {fingerprint, terminal}

\* The issues a user sees belong to what the coordinator and the manager last learned:
\* an authentication failure retires the unreachable issue, a failed refresh every issue about
\* compatibility, and an unloaded entry leaves none behind.
RepairsAreCurrent ==
    /\ life \notin {"running"} => issues = {}
    /\ life = "running" =>
        /\ authFailed => "core_unreachable" \notin issues
        /\ authFailed \/ ~success => issues \cap Compatibility = {}
        /\ ~authFailed /\ ~success => "core_unreachable" \in issues
        /\ success => issues = ManageRepairs({}, TRUE, FALSE, data, diag)

\* Once Core keeps supporting the contract, the registries can be read and the entry stays
\* loaded, Core ends up holding what the registries say, whatever answers were lost or
\* whatever Core forgot: the forced periodic pass repairs what fingerprints hide.
CoreCatchesUp ==
    <>[](life = "running" /\ contract = "supported" /\ registry # Unavailable)
    => <>[](registry # Unavailable /\ store = Current)
=============================================================================
