# ZigbeeLens: a TLA+ model of Core and its Home Assistant integration

ZigbeeLens watches Zigbee2MQTT networks. Its Core (`apps/core`, Python) is one process with about half a dozen
kinds of threads, one shared SQLite connection and several timers; a Home Assistant integration and a browser
user interface read from it. The project models the parts of both in which the order of events decides whether
the result is right, and the rules that turn stored rows into statements, checks them with TLC on small
instances, and proves the central safety properties with TLAPS for every instance.

Paths below are relative to `apps/core/src/zigbeelens/` unless they start with `apps/` or `docs/`.

## 1. Inventory of the system

### Threads of the Core process

| thread | started by | does |
|---|---|---|
| MQTT client | `mqtt/client.py` (paho loop) | delivers one message at a time to the collector: topology responses, ingestion, then evaluation |
| dashboard timers | `mqtt/dashboard_scheduler.py` | one `threading.Timer` per arming; builds and broadcasts the dashboard |
| periodic evaluation | `diagnostics/coordinator.py` | a re-arming timer, evaluates the whole estate |
| topology scheduler | `topology/scheduler.py` | startup scan of all networks, then a periodic sweep |
| storage maintenance | `storage/maintenance_scheduler.py` | waits on a condition, runs retention cycles |
| discovery timer | `mqtt_discovery/service.py` | debounced publication of Home Assistant entities |
| API | FastAPI workers (`api/routes.py`) | manual captures, maintenance runs, reads, the event stream |

All of them share the connection of `db/locked_connection.py`.

### Components

| component | state | operations | interacts with | what is hard | what makes it correct |
|---|---|---|---|---|---|
| Dashboard publish scheduler | timer, generation, `publishing`, `pending`, `cancelled`, causes | `schedule`, `flush`, `cancel`, timer thread, `_publish` | every committer; broadcaster; `AppContext.close` | a cancelled timer that already fires, re-arming while publishing, cancel waiting for a publication | one publication at a time; no request lost; after cancel nothing runs; clients never go back |
| Topology capture | `_pending`, rows of `topology_snapshots`, scheduler cursor | `request_capture`, `try_handle_response`, startup scan, sweep, retention, terminalisation | MQTT thread, API, maintenance | responses carry no request id; failures after success; stale slots; restart with pending rows | the active capture is never purged; the slot is released; a stored map stands; rows settle |
| Shared SQLite connection | RLock, thread-local depth and rollback-only mark, physical connection | `transaction`, `execute`, `commit`, `rollback`, cursors, poisoning | everything | implicit transactions of bare writes, nested contexts whose exceptions are caught, failing BEGIN, COMMIT and ROLLBACK | a transaction is all or nothing, invisible to other threads, and the lock is always returned |
| Incident lifecycle | rows of `incidents` | `sync` (open, update, watch, resolve, reopen), purge | coordinator, maintenance | no uniqueness in the schema; two clocks | one active incident per key; resolved only after the whole window; history is final |
| Evaluation coordinator | evaluation lock, cached snapshots, health rows, periodic timer | `evaluate_device`, `evaluate_network`, `evaluate_all`, change detection | ingestion, API, timer, lifecycle, broadcaster | facts are committed during an evaluation; incremental evaluations reuse old results; exceptions half-way | at rest everything agrees with the committed facts and was announced; incidents come from the whole estate |
| Storage maintenance cycle | status row, cutoffs, exclusions, batches | one cycle: terminalise, purge, cap, integrity, status, schedule | topology capture, scheduler, clients | captures start and end between batches; crash between any two commits; one batch of several fails | live rows survive, expired rows go, the status row and the clients learn the truth |
| Storage maintenance scheduler | `stopped`, `running`, `coalesce`, delay, generation, thread | `start`, `stop`, `trigger`, `run_once`, worker | API, `AppContext.close` | lost wake-ups, a stop with a deadline, two workers | no two cycles overlap; every wake is served; stop leaves no thread |
| MQTT client, collector and ingestion | connection flag, topic list, status row, device and bridge rows, unresolved messages | connect callbacks, every message handler, start and stop | evaluation, dashboard | messages before the inventory, ambiguous names, reconnects, two threads at start and stop | the connection is subscribed; parked messages find their device; every change is evaluated; stop is the last word |
| Event broadcaster, browser event stream | subscriber queues of 32, event loop | `publish_sync`, `subscribe`, the stream | all committers; UI | slow clients, several publishing threads | at rest a browser shows the newest dashboard published to it |
| MQTT discovery | debounce timer, `_publishing`, `_pending_update`, `_stopped`, connection | `start`, `schedule_update`, `stop` | broker | same races as the dashboard, lost connections | last state wins; "offline" is the last word |
| Application context | started parts | `bootstrap`, `close` | everything | a part stopped while another still calls it | after `close` nothing runs |
| Authentication and browser sessions | configuration, clock; the cookie is kept by the browser | login, logout, status, authentication, ingress boundary | every route | restart with other credentials, clock set back, a copied cookie | a session is worth what Core's present credentials say; the status page tells the truth |
| Database file, migrations, backup, command line | schema and its version rows, backup files | migrate, integrity gates, backup, offline maintenance | Core and two commands | killed or without power between any two steps | recorded versions are complete; a backup is whole or absent |
| Health classification, incident correlation | none (pure) | rules over device, bridge and transition rows | coordinator | thresholds, windows, suppression | no incident without its trouble, none told twice |
| Decisions, topology evidence, investigations | none (pure) | stories, coverage, comparison, hints, cards | payload builder, pages | several readers of the same rows, cuts at limits | all readers tell one story; cards name what is drawn |
| Dashboard, pages, reports, incident list | none (pure) | composition of many reads, scope plans, cursors | API, Home Assistant | reads of different moments | totals add up, a report keeps to its scope, a walk misses nothing |
| Home Assistant integration | enrichment manager, coordinator, repairs | coalesced, retried publication on one event loop; polling; entry set-up and removal | Core API | awaits between test and use, three timers, stop | Core catches up with the registries; repairs are current |
| Browser pages and authentication (TypeScript), configuration, packaging | | | | answers out of order in the browser | not modelled |

`PROJECT.json` lists every component with its status, and under `hazards` the lines where each of these
difficulties bites.

## 2. Modules

| module | models | extends / composed with |
|---|---|---|
| `DashboardScheduler` | `mqtt/dashboard_scheduler.py` and the post-commit calls of `app/context.py` | – |
| `TopologyCapture` | `topology/service.py`, `topology/scheduler.py`, their rows, count retention, and the topology steps of a maintenance cycle | service, scheduler, MQTT thread, API and maintenance thread in one module |
| `LockedConnection` | `db/locked_connection.py` | – |
| `IncidentPromise` | abstract: what a reader may rely on, per dedup key | – |
| `IncidentLifecycle` | `diagnostics/incidents/lifecycle.py`, the purge of resolved incidents | implements `IncidentPromise` |
| `Installation` | the networks and the absent value | shared by `EvaluationPipeline` and `Ingestion` |
| `EvaluationPipeline` | `diagnostics/coordinator.py`, snapshots and change detection of `diagnostics/service.py`, the callers in `mqtt/ingestion.py` and `services/payload_builder.py` | coordinator, timer, ingestion and API in one module |
| `StorageMaintenance` | `storage/maintenance.py`, the selectors of `storage/access/maintenance.py`, side effects in `app/context.py` | cycle, captures, crash and restart in one module |
| `MaintenanceScheduler` | `storage/maintenance_scheduler.py` | a cycle is two steps; its content is in `StorageMaintenance` |
| `MCMaintenance` | `MaintenanceScheduler` and `StorageMaintenance` side by side | a behaviour is one of the two, chosen at the start |
| `Ingestion` | `mqtt/client.py`, `collector.py`, `topics.py`, `normalizer.py`, `ingestion.py`, their writes in `storage/repository.py` | client thread and starting thread in one module |
| `EnrichmentResolve` | `apps/ha_integration/.../ha_enrichment.py`, `api.py`: registries and inventory to a snapshot, Core's answer | pure |
| `EnrichmentManager` | `enrichment_manager.py`, the store `enrichment/ha.py` of Core | extends `EnrichmentResolve` |
| `HaIntegration` | `coordinator.py`, `compatibility.py`, `repairs.py`, `__init__.py` of the integration | extends `EnrichmentManager` |
| `AccessControl` | `security/ingress.py`, `api/auth.py`, `security/browser_sessions.py`, session routes of `api/routes.py` | – |
| `AppServices` | `app/context.py`, `mqtt/events.py`, the stream of `main.py`, `mqtt_discovery/` | the dashboard scheduler appears by its promise |
| `StorageFiles` | `db/connection.py` (migrations), the gates of `bootstrap`, `storage/backup.py`, `cli_storage.py` | – |
| `MCServices` | `AccessControl`, `AppServices`, `StorageFiles` and `LockedConnection` side by side | a behaviour is one of the four, chosen at the start |
| `Diagnosis` | `diagnostics/device_health.py`, `bridge_health.py`, `network_health.py`, `incidents/correlator.py` | pure |
| `DeviceStory` | `decisions/device_story.py` and its evidence, `services/decision_summary.py` | pure |
| `TopologyEvidence` | `topology/parser.py`, `history.py`, `compare.py`, `device_compare.py`, `decisions/topology_facts.py` | extends `DeviceStory` |
| `Investigations` | `topology/passive_hints.py`, `investigations.py`, router areas, `services/evidence_graph.py`, the edges the browser draws (`apps/ui/src/lib/meshEvidenceLive.ts`) | extends `TopologyEvidence` |
| `Payloads` | `services/payload_builder.py`, dashboard and network composition, Home Assistant's `compatibility.py` | extends `TopologyEvidence` |
| `Reports` | `services/report_scope.py`, `report_composition.py`, `reports.py` | extends `Payloads` |
| `IncidentPaging` | `storage/incident_collection.py`, the collection query of `storage/repository.py`, its route | extends `Payloads` |
| `MCRules` | asks the pure modules questions over bounded inputs | extends `Diagnosis`, `Investigations`, `Reports`, `IncidentPaging` |
| `MC...` | small instances | extend the module of the same name |
| `DashboardSchedulerProofs`, `TopologyCaptureProofs`, `HaIntegrationProofs` | theorems | extend the module of the same name and `TLAPS` |
| `RulesProofs` | theorems | extends `IncidentLifecycle` and `MCRules` |
| `InvestigationsProofs` | theorems | extends `RulesProofs` |
| `EvaluationPipelineProofs` | theorems | extends `EvaluationPipeline` and `Ingestion` |
| `MaintenanceSchedulerProofs` | theorems | extends `MaintenanceScheduler` and `StorageMaintenance` |
| `MCServicesProofs` | theorems | extends `MCServices` |

Conventions. An action is one critical section, one transaction or one call that other threads can fall
between, and contains everything the code does there. `Mut_` definitions are deliberate mistakes of the kind
the code could contain; each property is shown to notice one of them. Time is never a number: a model keeps
the distinctions that the code's comparisons make (a row is young or old, a capture is older than its timeout
or not, an incident's age saturates at the window).

### How the state corresponds to the code

*DashboardScheduler.* `timer`, `timerGeneration`, `publishing`, `pending`, `cancelled`, `causes` and
`hasUnattributed` are the fields of the class. `armed` and `fired` are the timer threads that will run and
that have left `Timer.run` but not yet taken the lock: `cancel()` of a timer only removes it from `armed`.
`inflight` is the thread between the two locked blocks of `_publish`. `committed`, `asked`, `served`,
`dropped`, `shown` and `cancels` are history: versions of the data and the number of calls of `cancel()`, used by
the properties and by `DashboardPromise`, which allows a request to be dropped only where that number grows.

*TopologyCapture.* `status[k]` is the status column of snapshot `k`, `pending` is `self._pending`,
`request[r]` and `response` say where a requesting thread and the MQTT thread are, `phase` and `cursor` are
the program counter of the scheduler thread, `maint` is the plan a maintenance cycle made (exclusions,
reference times), `agedUpTo` is the clock. A response is matched by topic only, so `ResponseArrives` needs no
request. `Restart` loses all memory and keeps the rows.

*LockedConnection.* `owner` and `hold` are the RLock, `depth` and `rollbackOnly` the thread-local state,
`inTx`, `dirty`, `stored` and `poisoned` the physical connection and the file. A unit of work is a
`transaction()` context or a bare write (`execute()` then `commit()` with the lock free in between).

*IncidentLifecycle.* `row[k]` holds the rows with dedup key `k`, `signal[k]` the candidate that the next
evaluation will find, `quiet[k]` (history) for how long no evaluation has found one.

*EvaluationPipeline.* `fact` is what ingestion has committed, `persisted` the health rows, `snapshot` the
cached results, `incidents` the networks with an incident, `work` the evaluation that holds the lock, `job`
what each thread wants evaluated, `told` (history) the results clients were told of.

*StorageMaintenance.* `row` and `snap` are the tables, `cycle` the local variables of a running cycle,
`status` and `next` the status row and the persisted schedule, `stale` (history) the pages that committed
deletions have outdated and of which clients were not told; which deletion outdates what is said once for the
properties (`Outdated`) and once for the code (`affected_invalidation_events`, `maintenance_evidence_changed`).
The rows of the events table are a category of their own, those of the six other telemetry tables are `samples`.

*MaintenanceScheduler.* `stopped`, `running`, `coalesce`, `nextDelay`, `thread` are the fields. The generation
number is only ever compared with an earlier value, so the model keeps the set of threads whose comparison
would fail (`woken`).

*Ingestion.* `connected`, `listed` and `loop` are the client object and where the paho thread is, `heard` says
whether the broker holds the subscriptions, `starter` is the thread of `start_collector` and `stop_collector`,
`status`, `bridge`, `device`, `parked` and `changes` are tables. A payload is what the handlers branch on. A
parked message carries its position in the order of arrival (`at`, taken from `count`), as the primary key of
its row does; the replay reads them in that order (its query has no ORDER BY; SQLite answers it by key). A
message is one transaction and the evaluation after it; the status row is a step of its own.

*EnrichmentManager, HaIntegration.* `phase` is where the pass that holds the lock awaits; `pending`,
`pendingForce`, `fingerprint`, `terminal`, `retry`, `debounce` are the fields of the manager, `store` is the
table in Core, `contract` what the coordinator knows of it, `resolved` (history) the snapshot the last pass
arrived at. `success`, `authFailed`, `data` and `polling` are
the coordinator, `issues` the issue registry, `life` the config entry. A refresh writes nothing before it ends
and is one step.

*AccessControl.* `core` is the security part of the configuration, `jar` the browser's cookie, `issued` and
`grants` (history) every session and the credentials it was given under. A signature is the secret it was made
with.

*AppServices.* `version` stands for the stored facts, a dashboard is the version it was built from. `queues`,
`calls` and `screen` are the subscriber queues, the `_put` callbacks waiting in the event loop (one sequence
per queue) and what a browser shows; `svc`, `link` and `broker` are the discovery service and what the broker
retains.

*StorageFiles.* `db` is the file (statements run, versions recorded, rows), `boot`, `bk` and `cli` are the
program counters of the three processes, `dest` and `first` the backup's destination now and before. The file
may be of a later release (`later`): this release finds all its migrations there. `bk.name` says whether the
directory entry of a backup is on disk. `purged` (history) is who deleted rows, and from which schema.

*Rules.* The pure modules have no variables. In `MCRules` a state is a question: `Init` takes half of an input,
one step completes it. Only a walk through the incident list goes on: each further step is a page, and one
change of the table may come before it. Where the code composes a document of several reads, each read is an
input of its own, so every order of commits between the reads is covered.

## 3. Runs

Each run is checked by TLC in full, without a depth limit.  `services` and `maintenance` put parts that share no
state side by side: a behaviour is a behaviour of one of them, chosen at the start.

| run | instance | shows |
|---|---|---|
| `dashboard` | 1 cause, 1 flusher, 1 canceller, 2 commits, 4 calls | no lost update, clients never go back, every request is served or cancelled |
| `topology` | 1 network, 1 API caller and the startup scan, 3 captures, five kinds of failing writes | the active capture is retained, the slot never sticks to a finished capture, a stored map stands |
| `topology_settles` | 1 network, periodic, bridge comes and goes, failing requests and status writes, 2 captures, 1 restart; nobody has to answer | every row that has lost the slot leaves `pending` |
| `topology_authority` | as `topology`; expected to fail | an error replaces a completed map (section 4) |
| `topology_unanswered` | 1 network, no faults, 2 captures; expected to fail | an unanswered capture is not cleared by its timeout (section 4) |
| `incidents` | 2 keys, 2 payloads, 2 rows per key, window 2 | one active incident per key, quiet keys close, `IncidentPromise` is implemented |
| `evaluation` | 2 networks, 3 devices, three evaluating threads, one evaluation that raises | at rest everything agrees with the facts and was announced; faults heal |
| `maintenance` | scheduler: up to 3 workers; cycles: 1 row of the telemetry tables, 2 snapshots, batch 1, cap 1, one failing step, one crash | wakes are served, stop leaves no worker behind; status settles, clients are told, expired rows go |
| `ingestion` | 1 network, 2 devices, 2 names, 3 messages, 1 lost connection, 1 raising handler, new and used databases | the connection is subscribed, inventories replay parked messages, change records connect, changes are evaluated, stop is final |
| `homeassistant` | 3 registry states (shared entity, shared address, unreadable), 2 inventories, 1 fault; 3 changes, or 1 change and 1 refresh or reload, or 2 of those | snapshots are well formed, no registry change is lost, also when the registries return to a snapshot that Core accepted or refused before, repairs are current, Core catches up |
| `services` | 2 tokens and 2 secrets (symmetric), 2 sessions; 1 browser, queue of 2, 3 versions, 1 lost connection; 2 migrations of 2 statements, 2 kills; connection: 2 threads (symmetric), nesting 2, 2 units of 2 writes, every SQLite call may fail | session status and session worth; last word to browsers and broker, silence after `close`; honest schema, whole backups; transactions are all or nothing and invisible to others, bare writes survive other threads' failures |
| `rules` | about 0.7 million questions and answers: estates of 2 networks, maps of 3 devices, reporting histories of 5, graphs of 4 devices, pages, reports and list walks over 2 networks | incidents are grounded, readers of maps agree, one story, cards are drawn, pages add up |

### Why the bounds are enough

The bounds are the constants commented `bound:`. They were chosen so that the race each property is about fits
twice. Two commits and four calls let a request arrive before, during and after a publication that a cancel
interrupts. Three captures are one that fails late, one that took its slot and one that comes third; two
captures with a restart are one that the restart, a failed write or another thread's failure deprives of the
slot and one that takes it. Two units per thread give a refused or raised unit and one that must still succeed
after it, and nesting depth 2 is the first at which an inner exception can be caught. Window 2 separates "just
gone", "going" and "gone". Two snapshots with cap 1 are the fewest for which age purge, count cap and the count
retention after a capture compete. Three messages and two devices of one name let a message be parked, a second
one arrive and an inventory resolve or confuse them, with a lost connection or a raising handler anywhere
between. One registry change and one fault can fall at either await of a pass; three changes let the registries
leave a snapshot Core refused for good, return to one it accepted and go back to the refused one; the periodic
pass needs no bound. A queue of 2 can lose an event and keep the next. Two scripts of two statements are the
fewest with a kill inside a script, between script and record and between scripts. The rules are given inputs on
both sides of every threshold; limits such as history lengths and card counts are constants, set small so that
they cut. Every mutant of every property is found within these bounds, and the proofs of section 5 need no
bound.

`CHECK_DEADLOCK FALSE` stands where the bounds on calls, captures, messages or units end the behaviour, and in
`rules`, where a question is answered; in `incidents`, `evaluation` and `maintenance` deadlock is
checked.

### Fairness

- Weak fairness of each thread's next step: a started timer fires and a runnable thread runs. No caller is
  ever obliged to call.
- `TopologyCapture`: time passes and the maintenance cycle recurs. Zigbee2MQTT owes nobody an answer.
- `EvaluationPipeline`: strong fairness of acquiring the evaluation lock, that is, no thread is starved for
  ever by others that keep evaluating; each evaluation is short and the API and the timer pause between two.
- `MaintenanceScheduler`: strong fairness of `StopWaited` for the same reason (after the flag is set the
  worker ends and only `run_once` callers could keep a cycle running). Nothing is assumed of the interval
  timeout, so a wake that is served is served by the notification.
- `StorageMaintenance`: the process is restarted after a crash (supervisor or container policy), the worker
  wakes up, captures end.
- `HaIntegration`: the event loop runs what is ready, armed timers go off, the periodic one too. Core owes no
  answer in particular; a bound ends the faults, not an assumption on them.
- `Ingestion`, `AccessControl`, `AppServices`, `StorageFiles`, `LockedConnection` and `MCRules` are checked for
  safety only and assume none.

## 4. Observations

Met while modelling. Two of them contradict a comment of the code directly and have a run that TLC refutes; the
others are no property of a run. Where a property meets one of them it excepts exactly that case and says so.

*Topology capture.* The error path of `request_capture` clears `self._pending` without testing whose capture
it holds (`topology/service.py:178`), so a third capture can start beside a pending one, although
docs/troubleshooting.md:214 says only one capture can be pending; the same path writes `error` over a row that
a response completed (`:172`, against "Completed capture is authoritative" at `:290`; run
`topology_authority`). A stale capture is released only by another request (`:324`), and the scheduler waits
for the slot before it requests, so a capture without an answer keeps the slot until somebody asks for another
one (against "Pending captures with no MQTT response are cleared after this window" at `:33`; run
`topology_unanswered`). A timeout that arrives while the answer is being wound up also turns a stored map into
an error; `FinishedMapStands` allows these two and nothing else.

*Shared connection.* `BEGIN IMMEDIATE` is refused when another thread is between `execute()` and `commit()` of
a bare write (`db/locked_connection.py:243`, against "Serialize SQLite access" at `:73`).

*Maintenance and evaluation.* After a `stop()` that gave up, `start()` creates a second worker (cycles still
never overlap: `CyclesNeverOverlap`). A failed first cycle stores totals although docs/api.md says they stay
null until a successful one. If the settings row cannot be read after a cycle its invalidations are not sent;
if the last status write fails the row says `running` until the next cycle. When correlation raises after the
health rows were written, the next evaluation sees no change and announces none.

*Ingestion.* A parked older message can overwrite newer state when a bridge event names the device first;
replays write no change record (`HistoryConnects` excepts replayed devices); `start()` can write a stale
`connected = FALSE`; a first connection that fails is never retried; when `start()` raises after it has
connected, the client goes on with the topics it has, which may be none (`NoDeafConnection` is about a
`start()` that returned or is under way).

*Browsers and broker.* Every MQTT message broadcasts a collector status without a dashboard, so a browser that
is 32 events behind can lose the last dashboard; the stream reads its first dashboard before it subscribes.
Updates while `start_discovery` runs are not handed over; after a broker reconnect the retained last will
"offline" is not replaced by "online"; a collector that disconnects asks for no discovery update; a failed
publication waits for the next update.

*Files.* Migration scripts with `ALTER TABLE` commit by themselves: a kill between script and version row
makes the next start fail, although `migrate()` says "idempotently" (no version is ever recorded too early:
`FileSchemaIsHonest`). The backup tests for an existing destination before it replaces it, and ignores a
directory it cannot sync, so that a power failure may undo a backup that was reported. A file of a later
release, as after a rollback (docs/upgrades.md), has every migration this release knows: Core starts on it,
passes the gates and applies its own retention; only the maintenance command compares the versions and refuses.

*Home Assistant.* After a lost answer the manager reports success with the old fingerprint until the forced
periodic pass. When Core has accepted one snapshot, refused another for good, and the registries go back to the
first and then to the second again, the manager reports success although Core holds the first
(`RestsOnTheLatest` allows exactly that). A manual refresh that fails after an authentication failure is not
announced; a primary entry whose set-up keeps failing leaves a loaded secondary without an owner; a publication
cancelled by unloading may reach Core after the removal cleared it.

*Diagnosis and decisions.* Two or more devices offline outside one window and below the network-wide
thresholds give no unavailability incident, and the second one going offline removes the first one's; a stale
bridge suppresses network-wide incidents. `improve_data_coverage` ranks above `watch`, so a device without
tracking that also gets a low battery becomes less urgent. A link quality of 0 is read as unknown; a device
whose only link is a self-link is present for the history and absent for the story.

*Pages, reports, lists.* The overview's short lists are cut before network badges are composed, so the overview
may show a network calmer than its own page does. Core passes on what devices and configuration say, and Home
Assistant is stricter: a router at risk whose address is not `0x` and sixteen digits, whose name is blank, whose
`last_seen` has no zone or whose link quality is negative, or a network with a blank name, makes it classify the
whole dashboard as malformed. The incident list filters a network by the incident's devices while counts use its
networks, so a bridge incident without devices is not listed there. An incident report whose incident gains a
device on another network between two reads of its plan raises; a report reads incidents, their devices and
their networks one after the other, and an incident that changes between these reads may be missing from it.
Stories in scoped reports name incidents outside the scope. An incident that is updated during a walk may be
missed.

## 5. Proofs

All theorems hold for every value of the constants that satisfies the named assumptions: any sets of threads,
keys, causes, networks, devices, browsers and rows, any nesting, any bound and any set of faults. The
assumptions are about the sorts of the constants (a marker is none of the values it stands beside, a bound is
a natural number, a queue holds at least one event), with three that relate constants of the code: a device page
reads no fewer snapshots than a history shows (`ReadAssumption`; 50 and 10 in the code) and looks back at one
snapshot at least (`RecentAssumption`; 3 in the code), and the default size of a list page is between one and
the largest one (`LimitAssumption`; 50 and 100 in the code). `PROJECT.json` lists the theorems; each states either a
property of a run, which TLC shows on a small instance and the proof for all, or a fact that the deeper
properties rest on.

**DashboardSchedulerProofs** (`TypeCorrect`, `OnePublisher`, `CoalescingIsLossless`, `CancelIsFinal`,
`ShownMonotone`, `Refinement`). The invariant links the generation of the live timer to the threads that carry
it, the flag to the thread in flight, and each recorded cause to something that will wake up for it.
`ShownMonotone` needs in addition that the version in flight is never older than what is shown. `Refinement`:
every step of the scheduler is a step of `DashboardPromise` or changes nothing the promise speaks of.

**RulesProofs**, first part (`TypeCorrect`, `Uniqueness`, `ResolveWaits`, `HistoryStands`, `Refinement` of
`IncidentLifecycle`). The invariant adds `WatchBounded`: a watched row has been watched for no longer than its
signal has been away. Without it the two clocks are unrelated and `ResolveWaits` is not inductive.
`Refinement` shows that every step of the table is a step of `IncidentPromise` or changes nothing a reader
sees.

**RulesProofs**, second part: the rules. They are functions of their input, so no induction over steps is
needed but a statement about every input: `CorrelationIsGrounded` for any estate and configuration,
`StoriesAgreeAlways` for any non-empty set of devices with any stored reports at any instant. Nothing else is
assumed of the input; what the reports contain may be missing, repeated or contradictory. `AnswersAreGrounded`
and `ReadersTellOneStory` state the properties of the run `rules`: its questions are databases of this kind. The
arguments:
- no two candidates share an identity, because types differ and each type names the network or the devices it
  is about; a candidate names a device only for a flag that the device's health carries, and it is the flag that
  belongs to the candidate's type (`TroubleOf`);
- all three story readers cut the same newest reports out of the same rows; a device is called silent only
  after a silence longer than the intervals of its rhythm. Sorting and filtering are not defined by recursion:
  `InOrder` puts each item at the place that counts the items not after it, `Ascending`, `Kept` and `Sorted`
  are built on it, and that every place is taken by exactly one item (`InOrderFacts`) follows from the
  theorems on finite cardinalities.

**RulesProofs**, third part: pages (`WalksMissNothing`, `DashboardIsOneStatement`, `ReportKeepsToItsScope`,
each with the run's instance of it, and `PagesAlwaysAddUp`, which states the property of the run).
- A walk is a behaviour and has an inductive invariant, `IsWalk`: every page was read from its table, the rows
  climb in the order asked for, and an incident that has matched unchanged so far has been listed or lies
  ahead of the last row (`NothingMissed`). Of the changes between pages it assumes only that an incident is
  never stored with an earlier time than before (`AreTables`); without that an updated row could appear twice
  by recency.
- A dashboard is composed of reads of different moments, so nothing relates the reads to one another but the
  keys of the tables (`AreReads`). Whether Home Assistant takes it is an equivalence: each check of
`compatibility.py` is either met by everything Core computes, or is one of the conditions on stored texts and
numbers that the theorem names. Totals are sums over networks of disjoint sets of rows; that cutting the
  short lists can only make the overview calmer than the page follows because what is kept of a larger list is
  kept of a smaller one.
- A report is made in two steps. `IsPlan` says what a plan may be for a request, `Content` what a report made
  along a plan holds, and each clause of the property follows from the two. A request is refused only when it
  names no target, when the target is absent, when two devices answer to it, or when an incident changed while
  it was planned. That nothing is left out compares it with the full report of the same reads; which warnings
  and priorities an incident report narrows down to, and the events of a timeline, are not compared. The reads
  are what the schema allows: whatever is stored is of a configured network, and ids are unique
  (`AreReportReads`); the incidents of the plan and those of the later reads are unrelated.

**InvestigationsProofs** (`ReadersAgreeAlways`, `MapReadersTellOneStory`, `CardsStandAlways`,
`CardsAlwaysDrawn`). `ReadersAgreeAlways` is about any list of stored maps with distinct ids, and
`MapReadersTellOneStory` about those of the run: the history of a device counts link by link what the comparison
of two maps sums up, because both read the same links of the same snapshot through the same function. The cards
are the last of a long chain of functions, so most lemmas say what one link of the chain hands on: finite sets
of numbered devices, hints about two devices that were offline together in a window that is no storm, cards
whose links are drawn. The graph is read from what the tables can hold (`AreGraphReads`): stored maps that name
a directed link once, device rows, availability events in any order. Three results are computed along a list
(the hints kept under the limits, the devices claimed by routers, the groups of a union-find) and are recursive
functions on `0 .. n`. Nothing is proved by induction over what they compute. Instead `StepsAreTaken` shows once
that n steps from state to state can be taken, by counting up to n; such a run is the recursive function; and
what the property needs of it is again shown by counting along the run: what is kept qualifies (`TakenQualify`),
and two devices of a hint that has been joined have one root from then on, whatever is joined later
(`GroupsAre`); conversely two devices get one root only along hints, so a group is a connected component and not
a union of several. Cards have an order because types have ranks and identities differ within a type
(`AreCardsOfTypes`), so the cut leaves out none that scores more than one it keeps.

**MaintenanceSchedulerProofs** (`TypeCorrect`, `CyclesNeverOverlap`, `StopIsFinal`; `CyclesLeaveTheTruth` of
`StorageMaintenance`). Overlap is excluded by the claim alone. `StopIsFinal` needs that, as long as no
`stop()` gave up, `self._thread` is the only worker there is and none is alive when `start()` makes the next.
For the cycles the invariant says when the status row may say "running" (`RowSettled`: between the first write
and the last, and never once a new process has corrected it) and that whatever clients do not know yet is in
what the cycle has still to announce (`OnlyUnannounced`). The failing steps appear as what they prevent: a row
that could not be written may be wrong.

**TopologyCaptureProofs** (`TypeCorrect`, `ActiveRowStays`, `SlotIsReleased`, `StoredMapStands`). A maintenance
plan is old when it is carried out, so "the plan excludes the active capture" is not an invariant.
`ActiveIsOutOfReach` is: the active capture is excluded by name or younger than every row the plan has seen
(`PlanIsOrdered`); and no thread holds a row that was not created (`ThreadsHoldRows`, `NumberedRows`).
`StoredMapStands` asks of each thread whether it can touch a stored map. It adds that only the thread that stored
a map keeps the slot of it (`StoredIsHeld`), that an answer about to be stored finds no completed row
(`AnswerIsFirst`), and that a plan's cut-offs are in the past (`PlanIsPast`); the transaction that
deletes a row beyond the cap counts the newer finished rows itself.

**EvaluationPipelineProofs**, first part (`TypeCorrect`, `QuietAgreement`, `QuietTelling`). During an
evaluation nothing the coordinator holds need agree with the facts, since ingestion commits without its lock.
What the thread that committed a change has still to evaluate is `Due`; outside of it cached results, results
under construction and health rows agree with the facts at every moment (`ResultsAgree`, `RowsAgree`),
incidents lag behind only until the sync (`IncidentsFollow`), and what was rebuilt without a recorded change
is what clients know (`ChangeIsSeen`). `CoverInv` says that an evaluation covers what it must. All this holds
until an evaluation raises; then types, lock and coverage are claimed, and `FaultsHeal` is left to TLC.

**EvaluationPipelineProofs**, second part, about `Ingestion` (`ConnectionsHear`, `StopIsLast`,
`IngestionTypes`, `ParkedAreReplayed`, `HistoryIsConnected`, `ChangesEvaluated`). The subscriptions are listed
before `start()` reads the flag, and the flag is set before the client reads the list, so the second of the
two sees the other (`HandshakeInv`); without a client thread there is no connection (`LoopInv`). For the
tables, a device keeps the row it has (`HistoryInv`) and parked messages are numbered in the order of arrival
(`ArrivalInv`), so the replay takes them oldest first and leaves none that one device answers to. Which
devices a message may change is bounded handler by handler, the replay it may cause included, and compared
with the scope of the evaluation (`Evaluated`).

**MCServicesProofs**, first part (`StatusIsTrue`, `SessionsAreLive`, `ContextIsQuiet`, `LastWordIsDelivered`,
`SchemaStaysHonest`, `BackupStaysWhole`). Each service has an invariant of its own.
- Sessions (`AccessInv`): they are numbered as they are issued and a cookie says of its session what was in
  force then.
- `close()` (`QuietInv`): every statement leaves something behind that the later ones rely on, since whoever
  could undo it has stopped before.
- Delivery to browsers (`StreamInv`): the newest dashboard is shown, or stands in the queue or among the
  callbacks that wait to fill it (`Coming`), behind no more events than the queue still drops it for
  (`Reaches`). It is the sequence `queues[b] \o calls[b]` that is inductive; neither part is.
- Delivery to the broker (`RetainedInv`): what the service has read or published is as new as the last update
  it took on, unless another is pending, and a pending one has a timer or a publication that will arm one
  (`Owed`).
- The file (`SchemaInv`, `BackupInv`): a recorded script has run to its end, whoever found the schema current
  still has it so, nobody who deletes has found a migration missing, and the destination is replaced once, by
  what was copied whole and synced.

**MCServicesProofs**, second part, about `LockedConnection` (`TypeCorrect`, `LockIsReturned`, `Atomicity`,
`Isolation`, `BareWritesAreKept`).
Atomicity is not inductive: whether COMMIT stores the right writes depends on what was left on the connection
when the transaction began. The invariant therefore says whose writes are uncommitted: those of the open
transaction while a context is open, bare writes otherwise (`DirtyIsOwned`), that whatever is in the file was
put there by a bare write or a whole transaction (`StoredIsDone`), and that lock, depth and current unit
describe the same thread. `LockIsReturned` is the deadlock-freedom of the error paths: no failing BEGIN,
COMMIT or ROLLBACK keeps the RLock.

**HaIntegrationProofs** (`TypeCorrect`, `SnapshotsAreSound`, `NoEventIsLost`, `IssuesAreCurrent`). That a
snapshot names nothing twice follows from the resolution alone, for any registries. That the manager rests on
the latest registries does not: an event the pass under way has missed has left the debounce timer or the word
"pending" (`LatestInv`, with `PassInv`: a pass that ends looks at that word); and a success is that of a pass
whose snapshot Core accepted or had refused for good (`MemoInv`). Issues are current because an
authentication failure stops the polling, so no later failure can pass for an unreachable Core (`CoordInv`).

The theorems on single flight (`OnePublisher`, `CyclesNeverOverlap`), on `cancel` (`CancelIsFinal`), on
returned locks (`LockIsReturned`), on versions shown (`ShownMonotone`), on premature resolution and on history
(`ResolveWaits`, `HistoryStands`) stand on proofs alone; the properties that the runs check rest on them.
`TypeOK` of the other modules is proved where a theorem needs it and documents the state elsewhere.

Only model-checked is liveness (`EveryRequestServed`, `RowsSettle`, `QuietKeysClose`, `FaultsHeal`,
`WakeIsServed`, `ExpiredGoes`, `CoreCatchesUp`): fairness and `ENABLED` are outside the prover's reach. Every
invariant and every action property of a run is a theorem.

## 6. Not modelled

Three limits and conditions of the code are left out where a definition models the rest: the 20 groups of
`MAX_MODEL_PATTERNS`, the float rounding of an offline share, and the numbers that Pydantic refuses, such as a
link quality with a fraction, which make a page raise. `rollback()` outside a context has no caller in Core. The
periodic evaluation's `run_once` has none either.

Message wording, Markdown and report layout, redaction, argument parsing, response headers, the arithmetic of
signatures, entities and config flows of the integration, SQL projections that only copy columns, graph layout
and the TypeScript pages with their own session probes (of the mesh page only the edges it draws).
Configuration is read once; the values that rules compare with are constants. `scripts/validate-docs.py`,
`schemas.py` and the mock fixtures are declarations, fixed data and tooling. Transaction observers are test
instrumentation. SQLite, paho, Home Assistant and the broker are represented by what the code sees of them:
calls that succeed or raise, and messages that may be late, repeated or never come.

## 7. Plan

1. Abstract specifications: a single-slot capture service for `TopologyCapture`, an atomic store for
   `LockedConnection`, and `AppServices`' view of the dashboard scheduler as a specification that
   `DashboardScheduler` implements.
2. Compositions: `Diagnosis` as the source of the signals of `IncidentLifecycle`, and `Ingestion` with
   `EvaluationPipeline`, whose proofs already share a module.
