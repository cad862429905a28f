---------------------------- MODULE TopologyCapture ----------------------------
(***************************************************************************)
(* TopologyService and TopologyScheduler (topology/service.py,             *)
(* topology/scheduler.py) with the rows of topology_snapshots they write   *)
(* and the storage maintenance cycle that terminalizes and purges them.    *)
(*                                                                         *)
(* A capture is a row plus the in-memory self._pending slot.  Threads: the *)
(* callers of request_capture, the scheduler thread, the MQTT thread that  *)
(* runs try_handle_response, and the maintenance thread.  A response is    *)
(* matched by its topic alone, so one may arrive at any time: late, twice, *)
(* or because somebody else asked Zigbee2MQTT for a map.                   *)
(*                                                                         *)
(* Snapshots are numbered in the order they were created.  Time is the     *)
(* number agedUpTo: snapshots 1..agedUpTo are older than                   *)
(* PENDING_CAPTURE_TIMEOUT_SECONDS.                                        *)
(***************************************************************************)
EXTENDS Integers, Sequences, FiniteSets

CONSTANTS
    Nets,          \* configured networks, in configuration order
    Callers,       \* threads that call request_capture (API)
    Scheduler,     \* the topology-scheduler thread
    None,
    MaxSnapshots,  \* topology.max_snapshots_per_network
    Periodic,      \* a refresh interval is configured
    Faults,        \* which steps may fail, of the six below
    MaxCaptures,   \* bound: snapshots ever created
    MaxRestarts    \* bound: process restarts

ASSUME CapAssumption == MaxSnapshots \in Nat /\ MaxSnapshots >= 1
ASSUME BoundAssumption == MaxCaptures \in Nat /\ MaxRestarts \in Nat
ASSUME ThreadAssumption == Scheduler \notin Callers /\ None \notin Nat
ASSUME FaultsAssumption ==
    Faults \subseteq {"insert", "publish", "store", "status", "retain", "bridge"}

VARIABLES
    \* topology_snapshots
    status, netOf, created, agedUpTo,
    \* TopologyService
    pending,       \* snapshot id of self._pending, or None
    lastError,     \* self._status.last_capture_error is set
    request,       \* per requesting thread: its step and its snapshot
    response,      \* the MQTT thread inside try_handle_response
    \* TopologyScheduler
    phase,         \* what the scheduler thread does
    cursor,        \* index into Nets of its next network
    stable,        \* self._stable_since is not None
    ready,         \* collector connected and every bridge online
    \* storage maintenance
    maint,
    \* process
    restarts

table == <<status, netOf, created>>
sched == <<phase, cursor, stable>>
vars == <<table, agedUpTo, pending, lastError, request, response, sched,
          ready, maint, restarts>>

Ids == 1..MaxCaptures
Networks == {Nets[i] : i \in DOMAIN Nets}

\* The scheduler only runs when a network is configured.
ASSUME NetsAssumption == Nets \in Seq(Networks) /\ Len(Nets) >= 1

Requesters == Callers \cup {Scheduler}
Terminal == {"complete", "error"}

IdleRequest == [step |-> "idle", id |-> None]
IdleResponse == [step |-> "idle", id |-> None]
IdleMaint == [step |-> "idle", exclude |-> {}, seen |-> 0, ref |-> 0, cut |-> 0]

(***************************************************************************)
(* topology_snapshots (storage/repository.py, storage/access/maintenance)  *)
(***************************************************************************)

\* UPDATE ... WHERE snapshot_id = ?: nothing happens to a deleted row.
UpdateStatus(id, s) ==
    IF status[id] = "deleted" THEN status ELSE [status EXCEPT ![id] = s]

\* The terminal rows in the window that compete for the slots of the count cap.
Competing(nets, lo, hi, exclude) ==
    {k \in lo + 1 .. hi :
        status[k] \in Terminal /\ netOf[k] \in nets /\ k \notin exclude}

\* select_topology_count_cap_ids: all but the newest MaxSnapshots per network.
Mut_BeyondCap(rows) ==
    {k \in rows :
        Cardinality({j \in rows : j > k /\ netOf[j] = netOf[k]}) >= MaxSnapshots - 1}
BeyondCap(rows) ==
    {k \in rows :
        Cardinality({j \in rows : j > k /\ netOf[j] = netOf[k]}) >= MaxSnapshots}

Delete(ids) == [k \in Ids |-> IF k \in ids THEN "deleted" ELSE status[k]]

(***************************************************************************)
(* request_capture, request_system_capture                                 *)
(***************************************************************************)

\* _clear_stale_pending_unlocked
Stale == pending # None /\ pending <= agedUpTo

\* The locked block: time out a stale capture, refuse while one is pending,
\* else insert the row and take the slot.
BeginCapture(r, net) ==
    /\ pending = None \/ Stale
    /\ created < MaxCaptures
    /\ created' = created + 1
    /\ status' = [(IF Stale THEN UpdateStatus(pending, "error") ELSE status)
                    EXCEPT ![created + 1] = "pending"]
    /\ netOf' = [netOf EXCEPT ![created + 1] = net]
    /\ pending' = created + 1
    /\ lastError' = (lastError \/ Stale)
    /\ request' = [request EXCEPT ![r] = [step |-> "publish", id |-> created + 1]]
    /\ UNCHANGED <<agedUpTo, response, ready, maint, restarts>>

\* The insert of the new row raises, and the stale capture is timed out already;
\* or timing it out raises, and it keeps the slot.
BeginFails ==
    /\ pending = None \/ Stale
    /\ \/ /\ "insert" \in Faults
          /\ status' = IF Stale THEN UpdateStatus(pending, "error") ELSE status
          /\ pending' = None
          /\ lastError' = (lastError \/ Stale)
       \/ /\ "status" \in Faults /\ Stale
          /\ UNCHANGED <<status, pending, lastError>>
    /\ UNCHANGED <<netOf, created, agedUpTo, request, response, ready, maint,
                   restarts>>

\* RuntimeError("Topology capture already in progress")
Refused ==
    /\ pending # None /\ ~Stale
    /\ UNCHANGED <<table, agedUpTo, pending, lastError, request, response,
                   ready, maint, restarts>>

PublishOk(r) ==
    /\ request[r].step = "publish"
    /\ request' = [request EXCEPT ![r] = IdleRequest]
    /\ lastError' = FALSE
    /\ UNCHANGED <<table, agedUpTo, pending, response, ready, maint,
                   restarts>>

\* connect() or publish raised; the error status is written, or that raises too
\* and the exception leaves the slot taken.
PublishFail(r) ==
    /\ "publish" \in Faults
    /\ request[r].step = "publish"
    /\ \/ /\ status' = UpdateStatus(request[r].id, "error")
          /\ request' = [request EXCEPT ![r].step = "release"]
       \/ /\ "status" \in Faults
          /\ request' = [request EXCEPT ![r] = IdleRequest]
          /\ UNCHANGED status
    /\ UNCHANGED <<netOf, created, agedUpTo, pending, lastError, response,
                   ready, maint, restarts>>

\* with self._lock: self._pending = None, whatever is pending by now.
PublishRelease(r) ==
    /\ request[r].step = "release"
    /\ pending' = None
    /\ lastError' = TRUE
    /\ request' = [request EXCEPT ![r] = IdleRequest]
    /\ UNCHANGED <<table, agedUpTo, response, ready, maint, restarts>>

ManualCapture(r) ==
    /\ phase # "boot"
    /\ request[r].step = "idle"
    /\ BeginFails \/ \E net \in Networks : BeginCapture(r, net)
    /\ UNCHANGED sched

(***************************************************************************)
(* try_handle_response                                                     *)
(***************************************************************************)

ResponseArrives(net) ==
    /\ response.step = "idle"
    /\ pending # None
    /\ netOf[pending] = net
    /\ response' = [step |-> "store", id |-> pending]
    /\ UNCHANGED <<table, agedUpTo, pending, lastError, request, sched,
                   ready, maint, restarts>>

\* store_topology_parsed, one transaction.  Its node rows reference the
\* snapshot row, so it fails for one that has been purged.
StoreOk ==
    /\ response.step = "store"
    /\ status[response.id] # "deleted"
    /\ status' = [status EXCEPT ![response.id] = "complete"]
    /\ lastError' = FALSE
    /\ response' = [response EXCEPT !.step = "retain"]
    /\ UNCHANGED <<netOf, created, agedUpTo, pending, request, sched, ready,
                   maint, restarts>>

\* A payload that does not parse or a store that fails; the error status may
\* not be written either, and the slot is released all the same.
StoreFail ==
    /\ response.step = "store"
    /\ "store" \in Faults \/ status[response.id] = "deleted"
    /\ \/ status' = UpdateStatus(response.id, "error")
       \/ "status" \in Faults /\ UNCHANGED status
    /\ lastError' = TRUE
    /\ response' = [response EXCEPT !.step = "failed"]
    /\ UNCHANGED <<netOf, created, agedUpTo, pending, request, sched, ready,
                   maint, restarts>>

\* Count retention, best-effort.
Retain ==
    /\ response.step = "retain"
    /\ \/ status' = Delete(BeyondCap(Competing({netOf[response.id]}, 0, created, {})))
       \/ "retain" \in Faults /\ UNCHANGED status
    /\ response' = [response EXCEPT !.step = "refresh"]
    /\ UNCHANGED <<netOf, created, agedUpTo, pending, lastError, request,
                   sched, ready, maint, restarts>>

\* evaluation.evaluate_all(), best-effort.
Refresh ==
    /\ response.step = "refresh"
    /\ UNCHANGED lastError \/ ("retain" \in Faults /\ lastError' = TRUE)
    /\ response' = [response EXCEPT !.step = "clear"]
    /\ UNCHANGED <<table, agedUpTo, pending, request, sched, ready, maint,
                   restarts>>

\* _clear_matching_pending
Mut_ClearMatching == UNCHANGED pending
ClearMatching == pending' = IF pending = response.id THEN None ELSE pending

ResponseDone ==
    /\ response.step \in {"failed", "clear"}
    /\ ClearMatching
    /\ response' = IdleResponse
    /\ UNCHANGED <<table, agedUpTo, lastError, request, sched, ready, maint,
                   restarts>>

(***************************************************************************)
(* TopologyScheduler._run                                                  *)
(***************************************************************************)

\* _advance_startup up to the unlocked capture_in_progress test.
StartupPoll ==
    /\ phase = "startup"
    /\ \/ ~ready /\ stable' = FALSE /\ UNCHANGED <<phase, cursor>>
       \/ ready /\ ~stable /\ stable' = TRUE /\ UNCHANGED <<phase, cursor>>
       \/ /\ ready /\ stable /\ pending = None
          /\ phase' = "startup_request" /\ UNCHANGED <<cursor, stable>>
    /\ UNCHANGED <<table, agedUpTo, pending, lastError, request, response,
                   ready, maint, restarts>>

\* request_system_capture(requested_by="startup_scan"): any exception keeps
\* the network for the next poll.
StartupRequest ==
    /\ phase = "startup_request"
    /\ \/ /\ BeginCapture(Scheduler, Nets[cursor])
          /\ phase' = "startup_publish"
       \/ (Refused \/ BeginFails) /\ phase' = "startup"
    /\ UNCHANGED <<cursor, stable>>

StartupPublish ==
    /\ phase = "startup_publish"
    /\ \/ /\ PublishOk(Scheduler)
          /\ cursor' = cursor + 1
          /\ phase' = IF cursor = Len(Nets) THEN "wait" ELSE "startup"
       \/ /\ PublishFail(Scheduler)
          /\ phase' = IF request'[Scheduler].step = "idle"
                        THEN "startup" ELSE "startup_publish"
          /\ UNCHANGED cursor
       \/ /\ PublishRelease(Scheduler)
          /\ phase' = "startup"
          /\ UNCHANGED cursor
    /\ UNCHANGED stable

\* The refresh interval elapsed; a sweep starts only when everything is ready.
SweepBegin ==
    /\ phase = "wait"
    /\ Periodic /\ ready
    /\ phase' = "sweep" /\ cursor' = 1
    /\ UNCHANGED <<table, agedUpTo, pending, lastError, request, response,
                   stable, ready, maint, restarts>>

\* _capture_all_networks: wait while a capture is in progress, then request;
\* an exception skips the network.
SweepRequest ==
    /\ phase = "sweep"
    /\ \/ /\ cursor > Len(Nets)
          /\ phase' = "wait"
          /\ UNCHANGED <<table, agedUpTo, pending, lastError, request,
                         response, cursor, stable, ready, maint,
                         restarts>>
       \/ /\ cursor <= Len(Nets) /\ pending = None
          /\ phase' = "sweep_request"
          /\ UNCHANGED <<table, agedUpTo, pending, lastError, request,
                         response, cursor, stable, ready, maint,
                         restarts>>

SweepCapture ==
    /\ phase = "sweep_request"
    /\ \/ /\ BeginCapture(Scheduler, Nets[cursor])
          /\ phase' = "sweep_publish"
          /\ UNCHANGED <<cursor, stable>>
       \/ /\ Refused \/ BeginFails
          /\ phase' = "sweep" /\ cursor' = cursor + 1 /\ UNCHANGED stable

SweepPublish ==
    /\ phase = "sweep_publish"
    /\ \/ PublishOk(Scheduler)
       \/ PublishFail(Scheduler)
       \/ PublishRelease(Scheduler)
    /\ IF request'[Scheduler].step = "idle"
         THEN phase' = "sweep" /\ cursor' = cursor + 1
         ELSE UNCHANGED <<phase, cursor>>
    /\ UNCHANGED stable

(***************************************************************************)
(* One maintenance cycle: plan, terminalize, purge by age, purge by count  *)
(***************************************************************************)

\* reference_now and the active capture are read once, at the start; cut is
\* how far the telemetry cut-off reaches, always further back than ref.
Plan(exclude, cut) ==
    [step |-> "terminalize", exclude |-> exclude, seen |-> created,
     ref |-> agedUpTo, cut |-> cut]

ActivePending == IF pending = None THEN {} ELSE {pending}

\* The scheduler of later cycles starts at the end of bootstrap().
MaintPlan ==
    /\ maint.step = "idle" /\ phase # "boot"
    /\ \E cut \in 0..agedUpTo : maint' = Plan(ActivePending, cut)
    /\ UNCHANGED <<table, agedUpTo, pending, lastError, request, response,
                   sched, ready, restarts>>

\* terminalize_abandoned_topology_captures
Mut_AbandonedFinished ==
    {k \in 1..maint.ref : status[k] # "deleted" /\ k \notin maint.exclude}
Mut_AbandonedCutoff ==
    {k \in 1..maint.cut : status[k] = "pending" /\ k \notin maint.exclude}
Abandoned ==
    {k \in 1..maint.ref : status[k] = "pending" /\ k \notin maint.exclude}

MaintTerminalize ==
    /\ maint.step = "terminalize"
    /\ status' = [k \in Ids |-> IF k \in Abandoned THEN "error" ELSE status[k]]
    /\ maint' = [maint EXCEPT !.step = "purge",
                              !.exclude = maint.exclude \cup Abandoned]
    /\ UNCHANGED <<netOf, created, agedUpTo, pending, lastError, request,
                   response, sched, ready, restarts>>

\* purge_topology_age_batch
MaintPurgeAge ==
    /\ maint.step = "purge"
    /\ status' = Delete({k \in 1..maint.cut :
                           status[k] \in Terminal /\ k \notin maint.exclude})
    /\ maint' = [maint EXCEPT !.step = "cap"]
    /\ UNCHANGED <<netOf, created, agedUpTo, pending, lastError, request,
                   response, sched, ready, restarts>>

\* purge_topology_count_cap_batch: rows younger than the cut-off that existed
\* at reference_now compete for the slots.
MaintPurgeCap ==
    /\ maint.step = "cap"
    /\ status' = Delete(BeyondCap(Competing(Networks, maint.cut, maint.seen, maint.exclude)))
    /\ maint' = IdleMaint
    /\ UNCHANGED <<netOf, created, agedUpTo, pending, lastError, request,
                   response, sched, ready, restarts>>

(***************************************************************************)
(* Environment and the whole system                                        *)
(***************************************************************************)

Age ==
    /\ agedUpTo < created
    /\ agedUpTo' = agedUpTo + 1
    /\ UNCHANGED <<table, pending, lastError, request, response, sched,
                   ready, maint, restarts>>

ReadyChanges ==
    /\ "bridge" \in Faults
    /\ ready' = ~ready
    /\ UNCHANGED <<table, agedUpTo, pending, lastError, request, response,
                   sched, maint, restarts>>

\* The process dies and bootstraps again: only the table survives, and a
\* maintenance cycle with no active capture runs before anything else.
Restart ==
    /\ restarts < MaxRestarts
    /\ restarts' = restarts + 1
    /\ pending' = None
    /\ lastError' = FALSE
    /\ request' = [r \in Requesters |-> IdleRequest]
    /\ response' = IdleResponse
    /\ phase' = "boot" /\ cursor' = 1 /\ stable' = FALSE
    /\ \E cut \in 0..agedUpTo : maint' = Plan({}, cut)
    /\ UNCHANGED <<table, agedUpTo, ready>>

BootDone ==
    /\ phase = "boot"
    /\ maint.step = "idle"
    /\ phase' = "startup"
    /\ UNCHANGED <<table, agedUpTo, pending, lastError, request, response,
                   cursor, stable, ready, maint, restarts>>

Init ==
    /\ status = [k \in Ids |-> "none"]
    /\ netOf = [k \in Ids |-> None]
    /\ created = 0 /\ agedUpTo = 0
    /\ pending = None /\ lastError = FALSE
    /\ request = [r \in Requesters |-> IdleRequest]
    /\ response = IdleResponse
    /\ phase = "startup" /\ cursor = 1 /\ stable = FALSE
    /\ ready = TRUE
    /\ maint = IdleMaint
    /\ restarts = 0

ManualPublish(r) ==
    (PublishOk(r) \/ PublishFail(r) \/ PublishRelease(r)) /\ UNCHANGED sched

SchedulerThread ==
    \/ BootDone \/ StartupPoll \/ StartupRequest \/ StartupPublish
    \/ SweepBegin \/ SweepRequest \/ SweepCapture \/ SweepPublish

ResponseThread == StoreOk \/ StoreFail \/ Retain \/ Refresh \/ ResponseDone

MaintThread == MaintTerminalize \/ MaintPurgeAge \/ MaintPurgeCap

Next ==
    \/ \E r \in Callers : ManualCapture(r) \/ ManualPublish(r)
    \/ SchedulerThread
    \/ \E net \in Networks : ResponseArrives(net)
    \/ ResponseThread
    \/ MaintPlan \/ MaintThread
    \/ Age \/ ReadyChanges \/ Restart

\* Runnable threads run and time passes; Zigbee2MQTT owes nobody an answer.
Fairness ==
    /\ WF_vars(SchedulerThread) /\ WF_vars(ResponseThread)
    /\ WF_vars(MaintPlan) /\ WF_vars(MaintThread) /\ WF_vars(Age)
    /\ \A r \in Callers : WF_vars(ManualPublish(r))

Spec == Init /\ [][Next]_vars /\ Fairness

(***************************************************************************)
(* Properties                                                              *)
(***************************************************************************)

\* Types: rows, the pending slot and where each thread is; a cycle or a request
\* only refers to snapshots that exist (topology_snapshots).
TypeOK ==
    /\ status \in [Ids -> {"none", "pending", "deleted"} \cup Terminal]
    /\ netOf \in [Ids -> Networks \cup {None}]
    /\ created \in 0..MaxCaptures /\ agedUpTo \in 0..created
    /\ pending \in Ids \cup {None}
    /\ lastError \in BOOLEAN /\ stable \in BOOLEAN /\ ready \in BOOLEAN
    /\ request \in [Requesters -> [step : {"idle", "publish", "release"},
                                   id : Ids \cup {None}]]
    /\ response \in [step : {"idle", "store", "retain", "refresh", "clear", "failed"},
                     id : Ids \cup {None}]
    /\ phase \in {"boot", "startup", "startup_request", "startup_publish",
                  "wait", "sweep", "sweep_request", "sweep_publish"}
    /\ cursor \in 1..Len(Nets) + 1
    /\ maint \in [step : {"idle", "terminalize", "purge", "cap"},
                  exclude : SUBSET Ids, seen : 0..MaxCaptures,
                  ref : 0..MaxCaptures, cut : 0..MaxCaptures]
    /\ restarts \in 0..MaxRestarts

\* The row of the active capture is the newest row and is never purged, neither
\* by the retention of a slow response nor by a maintenance cycle that planned
\* before the capture began.
ActiveCaptureRetained ==
    pending # None => pending = created /\ status[pending] # "deleted"

\* capture_in_progress never sticks to a finished capture: if the row is
\* terminal, the thread that finished it is still on its way to release it.
NoStuckSlot ==
    pending # None /\ status[pending] \in Terminal =>
        \/ response.id = pending
        \/ \E r \in Requesters :
              request[r].step = "release" /\ request[r].id = pending

\* The finished rows of its network that are newer than a row.
NewerFinished(k) ==
    {j \in k + 1 .. created : status[j] \in Terminal /\ netOf[j] = netOf[k]}

\* The thread that asked for the map is still in publish, or the map came within the
\* timeout and the thread that stored it has not released the slot when that runs out.
RequestMayFail(k) == \E r \in Requesters : request[r] = [step |-> "publish", id |-> k]
MayTimeOut(k) == pending = k /\ response.id = k /\ k <= agedUpTo

\* A stored map stands against every other thread: nothing reopens its row; it turns
\* into an error only when its own request fails after its answer came, or times out
\* while the answer is still being wound up; and it is deleted only when it is old or
\* MaxSnapshots newer captures of its network have finished, however old the plan of
\* the maintenance cycle or the response that deletes it is.
FinishedMapStands ==
    [][\A k \in Ids : status[k] = "complete" /\ status'[k] # "complete" =>
          \/ status'[k] = "error" /\ (RequestMayFail(k) \/ MayTimeOut(k))
          \/ /\ status'[k] = "deleted"
             /\ k <= agedUpTo \/ Cardinality(NewerFinished(k)) >= MaxSnapshots]_vars

\* No row that has lost the slot stays "pending" for ever: after a restart, a failed
\* request of another thread or a failed write of its own, the maintenance cycle ends
\* it.  Nobody has to answer for that.
RowsSettle ==
    \A k \in Ids : status[k] = "pending" /\ pending # k ~> status[k] # "pending"

(***************************************************************************)
(* What the comments of topology/service.py say and the code does not do   *)
(***************************************************************************)

\* "Completed capture is authoritative": no error status replaces a stored map.
CompletedIsAuthoritative ==
    [][\A k \in Ids : status[k] = "complete" => status'[k] # "error"]_vars

\* "Pending captures with no MQTT response are cleared after this window."
PendingIsCleared == \A k \in Ids : pending = k ~> pending # k
=============================================================================
