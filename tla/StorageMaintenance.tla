-------------------------- MODULE StorageMaintenance --------------------------
(***************************************************************************)
(* One retention cycle after another (storage/maintenance.py with the      *)
(* selectors of storage/access/maintenance.py), at startup and from the    *)
(* worker of StorageMaintenanceScheduler, with the topology captures that  *)
(* go on meanwhile, and crashes between any two commits.                   *)
(*                                                                         *)
(* Time is abstracted to what the cutoffs tell apart.  A plain row is      *)
(* young or old; a topology snapshot is new, overdue (older than the       *)
(* capture timeout) or old (older than the retention).  The cutoffs of a   *)
(* cycle are fixed when it begins.  Snapshots are numbered in the order of *)
(* their capture, all of one network.                                      *)
(***************************************************************************)
EXTENDS Naturals, FiniteSets, FiniteSetsExt, Sequences

CONSTANTS
    Plain,      \* rows that only age: telemetry, resolved incidents, reports
    CatOf,      \* the category of each plain row
    MaxSnaps,   \* bound: topology snapshots
    Limit,      \* batch_size
    Cap,        \* topology_max_snapshots_per_network
    None,
    Faults,     \* the steps that may raise
    MaxFaults,  \* bound: steps that raise
    MaxCrashes  \* bound: crashes of the process

ASSUME LimitAssumption == Limit \in Nat \ {0} /\ Cap \in Nat \ {0}
ASSUME CatAssumption == CatOf \in [Plain -> {"samples", "events", "incidents_resolved", "reports"}]
ASSUME FaultAssumption ==
    /\ Faults \subseteq {"begin", "batch", "integrity", "status", "schedule"}
    /\ MaxFaults \in Nat /\ MaxCrashes \in Nat

Snaps == 1..MaxSnaps

VARIABLES
    row,        \* age of each plain row, or gone
    snap,       \* status and age of each topology snapshot
    active,     \* the pending capture TopologyService holds in memory
    cleanup,    \* the active capture is stored, its count retention has yet to run
    process,    \* "down", "starting" (before the startup cycle is over) or "up"
    cycle,      \* the cycle in progress and what its result records
    status,     \* the maintenance row of the settings table
    next,       \* delay before the worker's next cycle
    stale,      \* collections changed since the clients were last told
    failed,     \* the steps that have raised
    crashes

cycleVars == <<row, snap, active, cleanup, process, cycle, status, next, stale, failed, crashes>>

\* The order of _execute_deletes.  Of the seven telemetry tables, "events" comes
\* last, and only it has a collection of its own; "samples" are the other six.
Categories ==
    <<"samples", "events", "abandoned", "topology_snapshots", "topology_count_cap",
      "incidents_resolved", "reports">>

Statuses == {"none", "pending", "terminal", "gone"}
Ages == {"new", "overdue", "old"}

Idle == cycle.step = "idle"
NoCycle ==
    [step |-> "idle", at |-> 1, old |-> {}, overdue |-> {}, seen |-> {}, exclude |-> {},
     ended |-> {}, touched |-> {}, error |-> None, more |-> FALSE]

(***************************************************************************)
(* What a cycle with the cutoffs of plan c would touch                     *)
(***************************************************************************)

PlainOf(cat, c) == {r \in Plain : CatOf[r] = cat /\ r \in c.old /\ row[r] # "gone"}

\* select_abandoned_pending_topology_ids
Mut_NoneAbandoned(c, ex) == {}
Abandoned(c, ex) ==
    {i \in Snaps : snap[i].status = "pending" /\ i \in c.overdue /\ i \notin ex}

\* select_terminal_topology_ids
AgedSnaps(c, ex) ==
    {i \in Snaps : snap[i].status = "terminal" /\ i \in c.old /\ i \notin ex}

\* select_topology_count_cap_ids: snapshots captured after the reference time or
\* already old enough to be purged by age do not compete for a place.
OverCap(c, ex) ==
    LET ranked == {i \in Snaps :
                     snap[i].status = "terminal" /\ i \in c.seen \ (c.old \cup ex)}
    IN {i \in ranked : Cardinality({j \in ranked : j > i}) >= Cap}

Eligible(cat, c, ex) ==
    CASE cat = "abandoned" -> Abandoned(c, ex)
      [] cat = "topology_snapshots" -> AgedSnaps(c, ex)
      [] cat = "topology_count_cap" -> OverCap(c, ex)
      [] OTHER -> PlainOf(cat, c)

Batches(s) == kSubset(IF Cardinality(s) < Limit THEN Cardinality(s) ELSE Limit, s)

\* _any_more_work previews with the exclusions of the plan, which do not hold
\* the captures this cycle ended.
MoreWork ==
    \E k \in DOMAIN Categories : Eligible(Categories[k], cycle, cycle.exclude) # {}

(***************************************************************************)
(* run_storage_maintenance                                                 *)
(***************************************************************************)

Fails(step) ==
    /\ step \in Faults \ failed /\ Cardinality(failed) < MaxFaults
    /\ failed' = failed \cup {step}

\* active_pending_provider is read once, when the plan is made.
Planned ==
    [NoCycle EXCEPT
        !.step = "batch",
        !.old = {r \in Plain : row[r] = "old"}
                  \cup {i \in Snaps : snap[i].status # "none" /\ snap[i].age = "old"},
        !.overdue = {i \in Snaps : snap[i].status # "none" /\ snap[i].age # "new"},
        !.seen = {i \in Snaps : snap[i].status # "none"},
        !.exclude = IF process = "up" /\ active # None THEN {active} ELSE {}]

Begin ==
    /\ process # "down" /\ Idle
    /\ cycle' = Planned
    /\ status' = [status EXCEPT !.running = TRUE, !.error = None]
    /\ UNCHANGED <<row, snap, active, cleanup, process, next, stale, failed, crashes>>

\* The status row cannot be written: no batch is tried, and nothing is finished.
BeginFails ==
    /\ process # "down" /\ Idle /\ Fails("begin")
    /\ cycle' = [NoCycle EXCEPT !.step = "schedule", !.error = "maintenance_failed"]
    /\ UNCHANGED <<row, snap, active, cleanup, process, status, next, stale, crashes>>

Now == Categories[cycle.at]

\* What clients hold that is out of date once rows of a category have changed: the
\* collection that lists them, and the dashboard, which is made of all but reports.
Outdated(cat) ==
    CASE cat = "samples" -> {"dashboard"}
      [] cat = "events" -> {"timeline", "dashboard"}
      [] cat = "incidents_resolved" -> {"incidents", "dashboard"}
      [] cat = "reports" -> {"reports"}
      [] OTHER -> {"topology", "dashboard"}

\* One transaction.  A full batch is followed by another, except that pending
\* captures are ended in at most one batch per cycle.
Batch ==
    LET ex == cycle.exclude \cup cycle.ended
        all == Eligible(Now, cycle, ex)
        again == Cardinality(all) >= Limit /\ Now # "abandoned"
    IN
    /\ cycle.step = "batch"
    /\ \E b \in Batches(all) :
          /\ row' = [r \in Plain |-> IF r \in b THEN "gone" ELSE row[r]]
          /\ snap' = [i \in Snaps |->
                IF i \notin b THEN snap[i]
                ELSE [snap[i] EXCEPT !.status = IF Now = "abandoned" THEN "terminal" ELSE "gone"]]
          /\ stale' = IF b = {} THEN stale ELSE stale \cup Outdated(Now)
          /\ cycle' = [cycle EXCEPT
                !.at = IF again \/ cycle.at = Len(Categories) THEN cycle.at ELSE cycle.at + 1,
                !.step = IF again \/ cycle.at < Len(Categories) THEN "batch" ELSE "check",
                !.ended = IF Now = "abandoned" THEN b ELSE cycle.ended,
                !.touched = IF b = {} THEN cycle.touched ELSE cycle.touched \cup {Now}]
    /\ UNCHANGED <<active, cleanup, process, status, next, failed, crashes>>

\* The transaction is rolled back and the cycle ends there.
BatchFails ==
    /\ cycle.step = "batch" /\ Fails("batch")
    /\ cycle' = [cycle EXCEPT !.step = "status", !.more = TRUE, !.error = "maintenance_failed"]
    /\ UNCHANGED <<row, snap, active, cleanup, process, status, next, stale, crashes>>

\* What is left, then foreign_key_check.
Check ==
    /\ cycle.step = "check"
    /\ cycle' = [cycle EXCEPT !.step = "status", !.more = MoreWork]
    /\ UNCHANGED <<row, snap, active, cleanup, process, status, next, stale, failed, crashes>>

CheckFails ==
    /\ cycle.step = "check" /\ Fails("integrity")
    /\ cycle' = [cycle EXCEPT !.step = "status", !.more = TRUE,
                              !.error = "integrity_check_failed"]
    /\ UNCHANGED <<row, snap, active, cleanup, process, status, next, stale, crashes>>

\* The finally branch.
WriteStatus ==
    /\ cycle.step = "status"
    /\ cycle' = [cycle EXCEPT !.step = "schedule"]
    /\ status' = [running |-> FALSE, totals |-> TRUE,
                  succeeded |-> status.succeeded \/ cycle.error = None,
                  error |-> cycle.error]
    /\ UNCHANGED <<row, snap, active, cleanup, process, next, stale, failed, crashes>>

WriteStatusFails ==
    /\ cycle.step = "status" /\ Fails("status")
    /\ cycle' = [cycle EXCEPT !.step = "schedule"]
    /\ UNCHANGED <<row, snap, active, cleanup, process, status, next, stale, crashes>>

(***************************************************************************)
(* What follows a cycle: bootstrap() or _run_claimed()                     *)
(***************************************************************************)

Over == cycle' = [cycle EXCEPT !.step = "idle"]

\* affected_invalidation_events, from the counts of the result
affected_invalidation_events ==
    {IF c = "incidents_resolved" THEN "incidents"
     ELSE IF c = "reports" THEN "reports"
     ELSE IF c = "events" THEN "timeline" ELSE "topology" :
       c \in cycle.touched \ {"samples"}}

maintenance_evidence_changed == cycle.touched \ {"reports"} # {}

\* publish_maintenance_side_effects
Mut_Announced == IF cycle.error = None THEN affected_invalidation_events ELSE {}
Announced ==
    affected_invalidation_events
        \cup (IF maintenance_evidence_changed THEN {"dashboard"} ELSE {})

\* more_work_pending brings the next cycle forward.
Pace == IF cycle.more THEN "soon" ELSE "interval"

\* bootstrap() starts the scheduler, unless the integrity check failed.  There
\* are no clients yet.
EndStartup ==
    /\ cycle.step = "schedule" /\ process = "starting"
    /\ cycle.error # "integrity_check_failed"
    /\ process' = "up" /\ next' = Pace /\ stale' = {} /\ Over
    /\ UNCHANGED <<row, snap, active, cleanup, status, failed, crashes>>

RefuseStartup ==
    /\ cycle.step = "schedule" /\ process = "starting"
    /\ cycle.error = "integrity_check_failed"
    /\ process' = "down" /\ cycle' = NoCycle
    /\ UNCHANGED <<row, snap, active, cleanup, status, next, stale, failed, crashes>>

\* persist_next_scheduled_at, then on_result tells the clients.
EndScheduled ==
    /\ cycle.step = "schedule" /\ process = "up"
    /\ next' = Pace /\ stale' = stale \ Announced /\ Over
    /\ UNCHANGED <<row, snap, active, cleanup, process, status, failed, crashes>>

\* Reading the settings row raises: neither the delay nor the clients are served.
EndScheduledFails ==
    /\ cycle.step = "schedule" /\ process = "up" /\ Fails("schedule")
    /\ next' = "interval" /\ Over
    /\ UNCHANGED <<row, snap, active, cleanup, process, status, stale, crashes>>

(***************************************************************************)
(* The rest of the process                                                 *)
(***************************************************************************)

StartCapture(i) ==
    /\ process = "up" /\ active = None
    /\ snap[i].status = "none" /\ \A j \in 1..(i - 1) : snap[j].status # "none"
    /\ snap' = [snap EXCEPT ![i].status = "pending"]
    /\ active' = i
    /\ UNCHANGED <<row, cleanup, process, cycle, status, next, stale, failed, crashes>>

\* The response is stored.  The capture is released after the count retention.
StoreCapture ==
    /\ process = "up" /\ active # None /\ ~cleanup
    /\ snap' = [snap EXCEPT ![active].status = "terminal"]
    /\ cleanup' = TRUE
    /\ UNCHANGED <<row, active, process, cycle, status, next, stale, failed, crashes>>

\* The capture is given up; marking the row may fail too.
FailCapture ==
    /\ process = "up" /\ active # None /\ ~cleanup
    /\ \E st \in {"pending", "terminal"} : snap' = [snap EXCEPT ![active].status = st]
    /\ active' = None
    /\ UNCHANGED <<row, cleanup, process, cycle, status, next, stale, failed, crashes>>

\* enforce_topology_count_retention: every terminal snapshot competes.
OverCapNow ==
    LET ranked == {i \in Snaps : snap[i].status = "terminal"}
    IN {i \in ranked : Cardinality({j \in ranked : j > i}) >= Cap}

EnforceCount ==
    /\ process = "up" /\ cleanup
    /\ snap' = [i \in Snaps |-> IF i \in OverCapNow THEN [snap[i] EXCEPT !.status = "gone"]
                                                    ELSE snap[i]]
    /\ cleanup' = FALSE /\ active' = None
    /\ UNCHANGED <<row, process, cycle, status, next, stale, failed, crashes>>

AgeRow(r) ==
    /\ row[r] = "young"
    /\ row' = [row EXCEPT ![r] = "old"]
    /\ UNCHANGED <<snap, active, cleanup, process, cycle, status, next, stale, failed, crashes>>

\* Earlier captures are older.
AgeSnap(i) ==
    /\ snap[i].status \in {"pending", "terminal"} /\ snap[i].age # "old"
    /\ \A j \in 1..(i - 1) : snap[j].age = "old" \/ snap[j].status = "gone" \/
                             (snap[i].age = "new" /\ snap[j].age = "overdue")
    /\ snap' = [snap EXCEPT ![i].age = IF snap[i].age = "new" THEN "overdue" ELSE "old"]
    /\ UNCHANGED <<row, active, cleanup, process, cycle, status, next, stale, failed, crashes>>

Crash ==
    /\ process # "down" /\ crashes < MaxCrashes
    /\ crashes' = crashes + 1
    /\ process' = "down" /\ cycle' = NoCycle /\ active' = None /\ cleanup' = FALSE
    /\ UNCHANGED <<row, snap, status, next, stale, failed>>

\* mark_interrupted_maintenance_status
Mut_Interrupted == status
Interrupted ==
    IF status.running
      THEN [status EXCEPT !.running = FALSE,
                          !.error = IF status.error = None THEN "interrupted" ELSE status.error]
      ELSE status

Restart ==
    /\ process = "down"
    /\ process' = "starting" /\ status' = Interrupted
    /\ UNCHANGED <<row, snap, active, cleanup, cycle, next, stale, failed, crashes>>

CyclesInit ==
    /\ row = [r \in Plain |-> "young"]
    /\ snap = [i \in Snaps |-> [status |-> "none", age |-> "new"]]
    /\ active = None /\ cleanup = FALSE
    /\ process = "down" /\ cycle = NoCycle
    /\ status = [running |-> FALSE, totals |-> FALSE, succeeded |-> FALSE, error |-> None]
    /\ next = "interval" /\ stale = {}
    /\ failed = {} /\ crashes = 0

Cycle ==
    \/ Begin \/ BeginFails \/ Batch \/ BatchFails \/ Check \/ CheckFails
    \/ WriteStatus \/ WriteStatusFails
    \/ EndStartup \/ RefuseStartup \/ EndScheduled \/ EndScheduledFails

Capture == (\E i \in Snaps : StartCapture(i)) \/ StoreCapture \/ FailCapture \/ EnforceCount
Ageing == (\E r \in Plain : AgeRow(r)) \/ (\E i \in Snaps : AgeSnap(i))

CyclesNext == Cycle \/ Capture \/ Ageing \/ Crash \/ Restart

\* A supervisor restarts the process, the worker wakes up, captures end.
CyclesFairness ==
    /\ WF_cycleVars(Restart) /\ WF_cycleVars(Cycle)
    /\ WF_cycleVars(StoreCapture \/ FailCapture) /\ WF_cycleVars(EnforceCount)

CyclesSpec == CyclesInit /\ [][CyclesNext]_cycleVars /\ CyclesFairness

(***************************************************************************)
(* Properties                                                              *)
(***************************************************************************)

\* Types: rows, the cycle and the status row (StorageMaintenanceResult).
CyclesTypeOK ==
    /\ row \in [Plain -> {"young", "old", "gone"}]
    /\ snap \in [Snaps -> [status : Statuses, age : Ages]]
    /\ active \in Snaps \cup {None} /\ cleanup \in BOOLEAN
    /\ process \in {"down", "starting", "up"}
    /\ cycle.step \in {"idle", "batch", "check", "status", "schedule"}
    /\ cycle.at \in DOMAIN Categories
    /\ cycle.old \subseteq Plain \cup Snaps
    /\ cycle.touched \subseteq {Categories[k] : k \in DOMAIN Categories}
    /\ cycle.overdue \cup cycle.seen \cup cycle.exclude \cup cycle.ended \subseteq Snaps
    /\ status.running \in BOOLEAN /\ status.totals \in BOOLEAN
    /\ next \in {"soon", "interval"}
    /\ stale \subseteq {"dashboard", "topology", "timeline", "incidents", "reports"}
    /\ failed \subseteq Faults /\ crashes \in 0..MaxCrashes

\* Once the program is up and no cycle runs, the status row does not say that one
\* is running, whatever crashed or failed, the last write of the cycle excepted
\* (mark_interrupted_maintenance_status).
StatusSettles == process = "up" /\ Idle /\ "status" \notin failed => ~status.running

\* After a cycle, failed or not, clients have been told of every collection it
\* changed, and a new dashboard is due when it rests on what was deleted
\* (publish_maintenance_side_effects), as long as the settings row can be read.
ClientsAreTold == process = "up" /\ Idle /\ "schedule" \notin failed => stale = {}

\* A cycle that is over has left the truth behind, in the status row and with the
\* clients, whichever of its steps failed and wherever a process before this one died.
CyclesSettle == StatusSettles /\ ClientsAreTold

\* Everything that has expired is deleted in the end, captures that a crash left
\* pending included.
Expired ==
    \/ \E r \in Plain : row[r] = "old"
    \/ \E i \in Snaps : snap[i].age = "old" /\ snap[i].status \in {"pending", "terminal"}
ExpiredGoes == []<>(~Expired)
=============================================================================
