------------------------- MODULE TopologyCaptureProofs -------------------------
(***************************************************************************)
(* Proofs about TopologyCapture, for every list of networks, every number  *)
(* of request threads, every count cap and every choice of the steps that  *)
(* may fail.                                                               *)
(*                                                                         *)
(* A maintenance cycle works with a plan that is old by the time it is     *)
(* carried out.  The capture that is active then was either active when    *)
(* the plan was made, and so is excluded by name, or is younger than every *)
(* row the plan has seen: ActiveIsOutOfReach says so, and it is what makes *)
(* the retention of the active row inductive.                              *)
(***************************************************************************)
EXTENDS TopologyCapture, FiniteSetTheorems, TLAPS

\* The rows of the table are numbered without a gap.
NumberedRows == \A k \in Ids : status[k] = "none" <=> k > created

\* A thread inside a request or a response works on a row that was created.
ThreadsHoldRows ==
    /\ \A r \in Requesters : request[r].step # "idle" => request[r].id \in 1..created
    /\ response.step # "idle" => response.id \in 1..created

\* A plan is about rows that exist, the older the further back its cut-off.
PlanIsOrdered ==
    maint.seen <= created /\ maint.ref <= maint.seen /\ maint.cut <= maint.ref

\* The active capture is excluded from the plan in progress or newer than it.
ActiveIsOutOfReach ==
    maint.step # "idle" /\ pending # None =>
        pending \in maint.exclude \/ pending > maint.seen

\* The types of all variables but those of the scheduler thread.
CaptureTypes ==
    /\ status \in [Ids -> {"none", "pending", "deleted"} \cup Terminal]
    /\ netOf \in [Ids -> Networks \cup {None}]
    /\ created \in 0..MaxCaptures /\ agedUpTo \in 0..created
    /\ pending \in Ids \cup {None}
    /\ lastError \in BOOLEAN /\ ready \in BOOLEAN
    /\ request \in [Requesters -> [step : {"idle", "publish", "release"},
                                   id : Ids \cup {None}]]
    /\ response \in [step : {"idle", "store", "retain", "refresh", "clear", "failed"},
                     id : Ids \cup {None}]
    /\ maint \in [step : {"idle", "terminalize", "purge", "cap"},
                  exclude : SUBSET Ids, seen : 0..MaxCaptures,
                  ref : 0..MaxCaptures, cut : 0..MaxCaptures]
    /\ restarts \in 0..MaxRestarts

\* What the capture, the response and the maintenance keep between them.
CaptureInv ==
    /\ CaptureTypes /\ NumberedRows /\ ThreadsHoldRows /\ PlanIsOrdered
    /\ ActiveIsOutOfReach /\ ActiveCaptureRetained /\ NoStuckSlot

\* The scheduler stands on a network, except between two rounds.
SchedInv ==
    /\ phase \in {"boot", "startup", "startup_request", "startup_publish",
                  "wait", "sweep", "sweep_request", "sweep_publish"}
    /\ cursor \in 1..Len(Nets) + 1
    /\ stable \in BOOLEAN
    /\ phase \notin {"wait", "sweep"} => cursor <= Len(Nets)

IInv == CaptureInv /\ SchedInv

(***************************************************************************)
(* Rows                                                                    *)
(***************************************************************************)

\* The networks of the configuration, by position.
LEMMA NetworkAt ==
    /\ Len(Nets) \in Nat /\ Len(Nets) >= 1
    /\ \A i \in 1..Len(Nets) : Nets[i] \in Networks
  <1>1. DOMAIN Nets = 1..Len(Nets) /\ Len(Nets) \in Nat /\ Len(Nets) >= 1
    BY NetsAssumption
  <1> QED
    BY <1>1 DEF Networks

\* The count cap keeps the newest row of every network: nothing that competes is
\* newer (select_topology_count_cap_ids).
LEMMA NewestIsKept ==
    ASSUME NEW rows, NEW k, \A j \in rows : ~(j > k)
    PROVE  k \notin BeyondCap(rows)
  <1>1. {j \in rows : j > k /\ netOf[j] = netOf[k]} = {}
    OBVIOUS
  <1>2. ~(Cardinality({j \in rows : j > k /\ netOf[j] = netOf[k]}) >= MaxSnapshots)
    BY <1>1, FS_EmptySet, CapAssumption
  <1> QED
    BY <1>2 DEF BeyondCap

\* The count cap only takes rows that compete for its slots.
LEMMA CapTakesCompetitors ==
    ASSUME NEW nets, NEW lo, NEW hi, NEW exclude
    PROVE  BeyondCap(Competing(nets, lo, hi, exclude)) \subseteq
              {k \in lo + 1 .. hi : status[k] \in Terminal /\ k \notin exclude}
  BY DEF BeyondCap, Competing

\* Deleting finished rows other than the active one keeps the invariant, whatever
\* becomes of the response and the plan that asked for it.
LEMMA DeleteKeeps ==
    ASSUME CaptureInv, NEW ids \in SUBSET Ids,
           \A k \in ids : status[k] \in Terminal /\ k # pending,
           status' = Delete(ids), UNCHANGED <<netOf, created, agedUpTo, pending, lastError,
                                              request, ready, restarts>>,
           CaptureTypes', response'.id = response.id,
           response'.step # "idle" => response.step # "idle",
           PlanIsOrdered', ActiveIsOutOfReach'
    PROVE  CaptureInv'
  <1> USE DEF CaptureInv, CaptureTypes
  <1>1. NumberedRows'
    BY DEF NumberedRows, Delete, Terminal
  <1>2. ThreadsHoldRows'
    BY DEF ThreadsHoldRows
  <1>3. ActiveCaptureRetained' /\ NoStuckSlot'
    BY DEF ActiveCaptureRetained, NoStuckSlot, Delete
  <1> QED
    BY <1>1, <1>2, <1>3

\* The error status of a row changes nothing but a row that was created, and
\* never brings back a purged one (update_topology_snapshot_status).
LEMMA UpdateStatusRow ==
    ASSUME CaptureInv, NEW id \in 1..created
    PROVE  /\ UpdateStatus(id, "error") \in
                 [Ids -> {"none", "pending", "deleted"} \cup Terminal]
           /\ \A k \in Ids \ {id} : UpdateStatus(id, "error")[k] = status[k]
           /\ UpdateStatus(id, "error")[id] \in {"error", "deleted"}
           /\ status[id] = "deleted" <=> UpdateStatus(id, "error")[id] = "deleted"
           /\ id \in Ids /\ status[id] # "none"
  <1>1. id \in Ids /\ ~(id > created)
    BY BoundAssumption DEF CaptureInv, CaptureTypes, Ids
  <1> QED
    BY <1>1 DEF UpdateStatus, Terminal, CaptureInv, CaptureTypes, NumberedRows

(***************************************************************************)
(* Requests                                                                *)
(***************************************************************************)

\* A new capture takes the slot with the newest row: every plan is older.
LEMMA BeginCaptureKeeps ==
    ASSUME CaptureInv, NEW r \in Requesters, NEW net \in Networks, BeginCapture(r, net)
    PROVE  CaptureInv'
  <1> USE DEF CaptureInv
  <1> DEFINE old == IF Stale THEN UpdateStatus(pending, "error") ELSE status
  <1>1. /\ created \in 0..MaxCaptures /\ created + 1 \in Ids /\ created' = created + 1
        /\ created' \in 0..MaxCaptures
    BY BoundAssumption DEF CaptureTypes, BeginCapture, Ids
  <1>2. /\ old \in [Ids -> {"none", "pending", "deleted"} \cup Terminal]
        /\ \A k \in Ids : old[k] = "none" <=> k > created
    <2>1. CASE Stale
      <3>1. pending \in 1..created
        BY <2>1, BoundAssumption DEF Stale, ActiveCaptureRetained, CaptureTypes, Ids
      <3> QED
        BY <2>1, <3>1, UpdateStatusRow, <1>1 DEF NumberedRows, CaptureTypes
    <2>2. CASE ~Stale
      BY <2>2 DEF NumberedRows, CaptureTypes
    <2> QED
      BY <2>1, <2>2
  <1>3. status' = [old EXCEPT ![created + 1] = "pending"]
    BY DEF BeginCapture
  <1> HIDE DEF old
  <1>4. /\ request' \in [Requesters -> [step : {"idle", "publish", "release"},
                                       id : Ids \cup {None}]]
        /\ request'[r].id = created + 1
        /\ \A q \in Requesters : q # r => request'[q] = request[q]
    BY <1>1 DEF BeginCapture, CaptureTypes
  <1>5. CaptureTypes'
    <2>1. status' \in [Ids -> {"none", "pending", "deleted"} \cup Terminal]
      BY <1>2, <1>3
    <2>2. netOf' \in [Ids -> Networks \cup {None}]
      BY DEF BeginCapture, CaptureTypes
    <2>3. agedUpTo' \in 0..created' /\ pending' \in Ids /\ lastError' \in BOOLEAN
      BY <1>1 DEF BeginCapture, CaptureTypes, Stale
    <2> QED
      BY <1>1, <1>4, <2>1, <2>2, <2>3 DEF BeginCapture, CaptureTypes
  <1>6. NumberedRows'
    BY <1>1, <1>2, <1>3 DEF NumberedRows, Ids
  <1>7. ThreadsHoldRows'
    BY <1>1, <1>4 DEF ThreadsHoldRows, BeginCapture
  <1>8. PlanIsOrdered' /\ ActiveIsOutOfReach'
    BY <1>1 DEF PlanIsOrdered, ActiveIsOutOfReach, BeginCapture, CaptureTypes
  <1>9. ActiveCaptureRetained' /\ NoStuckSlot'
    BY <1>1, <1>2, <1>3 DEF ActiveCaptureRetained, NoStuckSlot, BeginCapture, Terminal
  <1> QED
    BY <1>5, <1>6, <1>7, <1>8, <1>9

\* A capture whose insert raises frees the slot.
LEMMA BeginFailsKeeps == ASSUME CaptureInv, BeginFails PROVE CaptureInv'
  <1> USE DEF CaptureInv
  <1>1. /\ status' \in [Ids -> {"none", "pending", "deleted"} \cup Terminal]
        /\ \A k \in Ids : status'[k] = "none" <=> k > created
    <2>1. CASE Stale
      <3>1. pending \in 1..created
        BY <2>1, BoundAssumption DEF Stale, ActiveCaptureRetained, CaptureTypes, Ids
      <3> QED
        BY <2>1, <3>1, UpdateStatusRow DEF BeginFails, NumberedRows, CaptureTypes
    <2>2. CASE ~Stale
      BY <2>2 DEF BeginFails, NumberedRows, CaptureTypes
    <2> QED
      BY <2>1, <2>2
  <1>2. lastError' \in BOOLEAN
    BY DEF BeginFails, CaptureTypes, Stale
  <1>3. CaptureTypes' /\ NumberedRows'
    BY <1>1, <1>2 DEF BeginFails, CaptureTypes, NumberedRows
  <1>4. ThreadsHoldRows' /\ PlanIsOrdered' /\ ActiveIsOutOfReach'
    BY DEF BeginFails, ThreadsHoldRows, PlanIsOrdered, ActiveIsOutOfReach
  <1>5. ActiveCaptureRetained' /\ NoStuckSlot'
    BY DEF BeginFails, ActiveCaptureRetained, NoStuckSlot
  <1> QED
    BY <1>3, <1>4, <1>5

\* A request that ends leaves the rows alone; one that failed frees the slot.
LEMMA PublishKeeps ==
    ASSUME CaptureInv, NEW r \in Requesters,
           PublishOk(r) \/ PublishFail(r) \/ PublishRelease(r)
    PROVE  CaptureInv'
  <1> USE DEF CaptureInv, table
  <1>1. CASE PublishOk(r)
    <2>1. CaptureTypes'
      BY <1>1 DEF PublishOk, CaptureTypes, IdleRequest
    <2>2. ThreadsHoldRows'
      BY <1>1 DEF PublishOk, ThreadsHoldRows, IdleRequest, CaptureTypes
    <2>3. NoStuckSlot'
      BY <1>1 DEF PublishOk, NoStuckSlot, CaptureTypes
    <2> QED
      BY <1>1, <2>1, <2>2, <2>3
         DEF PublishOk, NumberedRows, PlanIsOrdered, ActiveIsOutOfReach, ActiveCaptureRetained
  <1>2. CASE PublishRelease(r)
    <2>1. CaptureTypes'
      BY <1>2 DEF PublishRelease, CaptureTypes, IdleRequest
    <2>2. ThreadsHoldRows'
      BY <1>2 DEF PublishRelease, ThreadsHoldRows, IdleRequest, CaptureTypes
    <2> QED
      BY <1>2, <2>1, <2>2 DEF PublishRelease, NumberedRows, PlanIsOrdered,
         ActiveIsOutOfReach, ActiveCaptureRetained, NoStuckSlot
  <1>3. CASE PublishFail(r)
    <2>1. request[r].id \in 1..created
      BY <1>3 DEF PublishFail, ThreadsHoldRows
    <2>2. CASE status' = UpdateStatus(request[r].id, "error")
                 /\ request' = [request EXCEPT ![r].step = "release"]
      <3>1. CaptureTypes'
        BY <1>3, <2>1, <2>2, UpdateStatusRow DEF PublishFail, CaptureTypes
      <3>2. ThreadsHoldRows' /\ NumberedRows'
        BY <1>3, <2>1, <2>2, UpdateStatusRow
           DEF PublishFail, ThreadsHoldRows, NumberedRows, CaptureTypes
      <3>3. ActiveCaptureRetained' /\ NoStuckSlot'
        BY <1>3, <2>1, <2>2, UpdateStatusRow
           DEF PublishFail, ActiveCaptureRetained, NoStuckSlot, CaptureTypes
      <3> QED
        BY <1>3, <3>1, <3>2, <3>3 DEF PublishFail, PlanIsOrdered, ActiveIsOutOfReach
    <2>3. CASE UNCHANGED status /\ request' = [request EXCEPT ![r] = IdleRequest]
      <3>1. CaptureTypes'
        BY <1>3, <2>3 DEF PublishFail, CaptureTypes, IdleRequest
      <3>2. ThreadsHoldRows' /\ NoStuckSlot'
        BY <1>3, <2>3 DEF PublishFail, ThreadsHoldRows, NoStuckSlot, IdleRequest, CaptureTypes
      <3> QED
        BY <1>3, <2>3, <3>1, <3>2
           DEF PublishFail, NumberedRows, PlanIsOrdered, ActiveIsOutOfReach, ActiveCaptureRetained
    <2> QED
      BY <1>3, <2>2, <2>3 DEF PublishFail
  <1> QED
    BY <1>1, <1>2, <1>3

(***************************************************************************)
(* The response                                                            *)
(***************************************************************************)

\* The thread that finishes a row still holds it when the row becomes terminal.
LEMMA ResponseKeeps ==
    ASSUME CaptureInv,
           StoreOk \/ StoreFail \/ Refresh \/ \E net \in Networks : ResponseArrives(net)
    PROVE  CaptureInv'
  <1> USE DEF CaptureInv
  <1>1. CASE \E net \in Networks : ResponseArrives(net)
    <2>1. CaptureTypes'
      BY <1>1 DEF ResponseArrives, CaptureTypes, table, sched
    <2>2. pending \in 1..created
      BY <1>1, BoundAssumption DEF ResponseArrives, ActiveCaptureRetained, CaptureTypes, Ids
    <2> QED
      BY <1>1, <2>1, <2>2 DEF ResponseArrives, table, ThreadsHoldRows, NumberedRows,
         PlanIsOrdered, ActiveIsOutOfReach, ActiveCaptureRetained, NoStuckSlot
  <1>2. CASE StoreOk
    <2>1. response.id \in 1..created /\ response.id \in Ids /\ ~(response.id > created)
      BY <1>2, BoundAssumption DEF StoreOk, ThreadsHoldRows, CaptureTypes, Ids
    <2>2. CaptureTypes'
      BY <1>2, <2>1 DEF StoreOk, CaptureTypes, Terminal
    <2>3. NumberedRows' /\ ThreadsHoldRows'
      BY <1>2, <2>1 DEF StoreOk, NumberedRows, ThreadsHoldRows, CaptureTypes
    <2>4. ActiveCaptureRetained' /\ NoStuckSlot'
      BY <1>2, <2>1 DEF StoreOk, ActiveCaptureRetained, NoStuckSlot, CaptureTypes
    <2> QED
      BY <1>2, <2>2, <2>3, <2>4 DEF StoreOk, PlanIsOrdered, ActiveIsOutOfReach
  <1>3. CASE StoreFail
    <2>1. response.id \in 1..created
      BY <1>3 DEF StoreFail, ThreadsHoldRows
    <2>2. /\ status' \in [Ids -> {"none", "pending", "deleted"} \cup Terminal]
          /\ \A k \in Ids : status'[k] = "none" <=> status[k] = "none"
          /\ \A k \in Ids : status'[k] = "deleted" <=> status[k] = "deleted"
          /\ \A k \in Ids : k # response.id => status'[k] = status[k]
      BY <1>3, <2>1, UpdateStatusRow DEF StoreFail, CaptureTypes
    <2>3. CaptureTypes'
      BY <1>3, <2>2 DEF StoreFail, CaptureTypes
    <2>4. NumberedRows' /\ ThreadsHoldRows'
      BY <1>3, <2>1, <2>2 DEF StoreFail, NumberedRows, ThreadsHoldRows, CaptureTypes
    <2>5. ActiveCaptureRetained' /\ NoStuckSlot'
      BY <1>3, <2>2 DEF StoreFail, ActiveCaptureRetained, NoStuckSlot, CaptureTypes
    <2> QED
      BY <1>3, <2>3, <2>4, <2>5 DEF StoreFail, PlanIsOrdered, ActiveIsOutOfReach
  <1>4. CASE Refresh
    <2>1. CaptureTypes'
      BY <1>4 DEF Refresh, CaptureTypes, table, sched
    <2> QED
      BY <1>4, <2>1 DEF Refresh, table, ThreadsHoldRows, NumberedRows, PlanIsOrdered,
         ActiveIsOutOfReach, ActiveCaptureRetained, NoStuckSlot, CaptureTypes
  <1> QED
    BY <1>1, <1>2, <1>3, <1>4

\* The retention of a slow response spares the capture that is active by now.
LEMMA RetainKeeps == ASSUME CaptureInv, Retain PROVE CaptureInv'
  <1> USE DEF CaptureInv
  <1>1. response.step = "retain" /\ response' = [response EXCEPT !.step = "refresh"]
    BY DEF Retain
  <1>2. PlanIsOrdered' /\ ActiveIsOutOfReach' /\ response'.id = response.id
    BY <1>1 DEF Retain, PlanIsOrdered, ActiveIsOutOfReach, CaptureTypes
  <1>3. CASE UNCHANGED status
    <2>1. CaptureTypes' /\ ThreadsHoldRows' /\ NoStuckSlot'
      BY <1>1, <1>3 DEF Retain, CaptureTypes, ThreadsHoldRows, NoStuckSlot
    <2> QED
      BY <1>2, <1>3, <2>1 DEF Retain, NumberedRows, ActiveCaptureRetained
  <1>4. CASE status' = Delete(BeyondCap(Competing({netOf[response.id]}, 0, created, {})))
    <2> DEFINE rows == Competing({netOf[response.id]}, 0, created, {})
    <2>1. BeyondCap(rows) \subseteq {k \in Ids : status[k] \in Terminal}
      BY CapTakesCompetitors, BoundAssumption DEF CaptureTypes, Ids
    <2>2. pending \notin BeyondCap(rows)
      <3>1. CASE pending = None
        BY <3>1, ThreadAssumption, <2>1 DEF Ids
      <3>2. CASE pending # None
        <4>1. \A j \in rows : ~(j > pending)
          BY <3>2, BoundAssumption DEF ActiveCaptureRetained, Competing, CaptureTypes
        <4> QED
          BY <4>1, NewestIsKept
      <3> QED
        BY <3>1, <3>2
    <2> HIDE DEF rows
    <2>3. CaptureTypes'
      BY <1>1, <1>4, <2>1 DEF Retain, CaptureTypes, Delete
    <2>4. \A k \in BeyondCap(rows) : status[k] \in Terminal /\ k # pending
      BY <2>1, <2>2
    <2>5. BeyondCap(rows) \in SUBSET Ids /\ status' = Delete(BeyondCap(rows))
      BY <1>4, <2>1 DEF rows
    <2> QED
      BY <1>1, <1>2, <2>3, <2>4, <2>5, DeleteKeeps DEF Retain
  <1> QED
    BY <1>3, <1>4 DEF Retain

\* _clear_matching_pending frees the slot exactly of the row the thread finished.
LEMMA ResponseDoneKeeps == ASSUME CaptureInv, ResponseDone PROVE CaptureInv'
  <1> USE DEF CaptureInv
  <1>1. CaptureTypes'
    BY DEF ResponseDone, CaptureTypes, ClearMatching, IdleResponse, table, sched
  <1>2. NumberedRows' /\ ThreadsHoldRows' /\ PlanIsOrdered'
    BY DEF ResponseDone, IdleResponse, table, NumberedRows, ThreadsHoldRows, PlanIsOrdered
  <1>3. ActiveIsOutOfReach' /\ ActiveCaptureRetained'
    BY DEF ResponseDone, ClearMatching, table, ActiveIsOutOfReach, ActiveCaptureRetained
  <1>4. NoStuckSlot'
    BY DEF ResponseDone, ClearMatching, table, NoStuckSlot
  <1> QED
    BY <1>1, <1>2, <1>3, <1>4

(***************************************************************************)
(* The maintenance cycle                                                   *)
(***************************************************************************)

\* A plan excludes the capture that is active when it is made, and knows the rows
\* that exist then.
LEMMA PlanKeeps ==
    ASSUME CaptureInv, NEW cut \in 0..agedUpTo, maint' = Plan(ActivePending', cut),
           UNCHANGED <<table, agedUpTo, ready>>, restarts' \in 0..MaxRestarts,
           lastError' \in BOOLEAN,
           \/ UNCHANGED <<pending, request, response>>
           \/ pending' = None /\ response' = IdleResponse
                /\ request' = [r \in Requesters |-> IdleRequest]
    PROVE  CaptureInv'
  <1> USE DEF CaptureInv, table
  <1>1. /\ maint' \in [step : {"idle", "terminalize", "purge", "cap"},
                       exclude : SUBSET Ids, seen : 0..MaxCaptures,
                       ref : 0..MaxCaptures, cut : 0..MaxCaptures]
        /\ PlanIsOrdered'
    BY BoundAssumption DEF CaptureTypes, Plan, ActivePending, PlanIsOrdered
  <1>2. CaptureTypes'
    BY <1>1 DEF CaptureTypes, IdleResponse, IdleRequest
  <1>3. ThreadsHoldRows' /\ NumberedRows'
    BY DEF ThreadsHoldRows, NumberedRows, IdleResponse, IdleRequest
  <1>4. ActiveIsOutOfReach'
    BY DEF ActiveIsOutOfReach, Plan, ActivePending
  <1>5. ActiveCaptureRetained' /\ NoStuckSlot'
    BY DEF ActiveCaptureRetained, NoStuckSlot
  <1> QED
    BY <1>1, <1>2, <1>3, <1>4, <1>5

\* The cycle starts with a plan.
LEMMA MaintPlanKeeps == ASSUME CaptureInv, MaintPlan PROVE CaptureInv'
  <1>1. PICK cut \in 0..agedUpTo : maint' = Plan(ActivePending, cut)
    BY DEF MaintPlan
  <1>2. ActivePending' = ActivePending
    BY DEF MaintPlan, ActivePending
  <1> QED
    BY <1>1, <1>2, PlanKeeps DEF MaintPlan, CaptureInv, CaptureTypes, table

\* A restart begins with a plan that excludes nothing, and no capture is active.
LEMMA RestartKeeps == ASSUME CaptureInv, Restart PROVE CaptureInv'
  <1>1. PICK cut \in 0..agedUpTo : maint' = Plan({}, cut)
    BY DEF Restart
  <1>2. ActivePending' = {}
    BY DEF Restart, ActivePending
  <1>3. restarts' \in 0..MaxRestarts
    BY BoundAssumption DEF Restart, CaptureInv, CaptureTypes
  <1>4. lastError' \in BOOLEAN
    BY Zenon DEF Restart
  <1> QED
    BY <1>1, <1>2, <1>3, <1>4, PlanKeeps DEF Restart

\* An abandoned capture is never the active one: that one is excluded or newer.
LEMMA MaintTerminalizeKeeps == ASSUME CaptureInv, MaintTerminalize PROVE CaptureInv'
  <1> USE DEF CaptureInv
  <1>1. Abandoned \subseteq {k \in 1..created : status[k] = "pending" /\ k # pending}
    BY ThreadAssumption
       DEF Abandoned, MaintTerminalize, ActiveIsOutOfReach, PlanIsOrdered, CaptureTypes
  <1>2. Abandoned \subseteq Ids
    BY <1>1, BoundAssumption DEF CaptureTypes, Ids
  <1>3. /\ status' \in [Ids -> {"none", "pending", "deleted"} \cup Terminal]
        /\ pending # None => status'[pending] = status[pending]
        /\ \A k \in Ids : status'[k] \in {"none", "deleted"} \/ status[k] \in {"none", "deleted"}
                             => status'[k] = status[k]
    BY <1>1, <1>2 DEF MaintTerminalize, CaptureTypes, Terminal
  <1>4. CaptureTypes'
    BY <1>2, <1>3 DEF MaintTerminalize, CaptureTypes
  <1>5. NumberedRows' /\ ThreadsHoldRows'
    BY <1>3 DEF MaintTerminalize, NumberedRows, ThreadsHoldRows
  <1>6. PlanIsOrdered' /\ ActiveIsOutOfReach'
    BY DEF MaintTerminalize, PlanIsOrdered, ActiveIsOutOfReach, CaptureTypes
  <1>7. ActiveCaptureRetained' /\ NoStuckSlot'
    BY <1>3 DEF MaintTerminalize, ActiveCaptureRetained, NoStuckSlot, CaptureTypes
  <1> QED
    BY <1>4, <1>5, <1>6, <1>7

\* The age purge takes finished rows the plan knows, so never the active one.
LEMMA MaintPurgeAgeKeeps == ASSUME CaptureInv, MaintPurgeAge PROVE CaptureInv'
  <1> USE DEF CaptureInv
  <1> DEFINE ids == {k \in 1..maint.cut : status[k] \in Terminal /\ k \notin maint.exclude}
  <1>1. ids \subseteq Ids
    BY BoundAssumption DEF CaptureTypes, Ids
  <1>2. \A k \in ids : status[k] \in Terminal /\ k # pending
    BY ThreadAssumption DEF MaintPurgeAge, ActiveIsOutOfReach, PlanIsOrdered, CaptureTypes
  <1>3. status' = Delete(ids)
    BY DEF MaintPurgeAge
  <1> HIDE DEF ids
  <1>4. CaptureTypes'
    BY <1>1, <1>3 DEF MaintPurgeAge, CaptureTypes, Delete, sched
  <1>5. PlanIsOrdered' /\ ActiveIsOutOfReach'
    BY DEF MaintPurgeAge, PlanIsOrdered, ActiveIsOutOfReach, CaptureTypes
  <1> QED
    BY <1>1, <1>2, <1>3, <1>4, <1>5, DeleteKeeps DEF MaintPurgeAge

\* The count cap too: what the plan has not seen does not compete.
LEMMA MaintPurgeCapKeeps == ASSUME CaptureInv, MaintPurgeCap PROVE CaptureInv'
  <1> USE DEF CaptureInv
  <1> DEFINE ids == BeyondCap(Competing(Networks, maint.cut, maint.seen, maint.exclude))
  <1>1. \A k \in ids : k \in maint.cut + 1 .. maint.seen /\ status[k] \in Terminal
                          /\ k \notin maint.exclude
    BY CapTakesCompetitors
  <1>2. status' = Delete(ids)
    BY DEF MaintPurgeCap
  <1> HIDE DEF ids
  <1>3. ids \subseteq Ids
    BY <1>1, BoundAssumption DEF CaptureTypes, Ids
  <1>4. \A k \in ids : status[k] \in Terminal /\ k # pending
    BY <1>1, ThreadAssumption DEF MaintPurgeCap, ActiveIsOutOfReach, CaptureTypes
  <1>5. CaptureTypes'
    BY <1>2, <1>3, BoundAssumption DEF MaintPurgeCap, CaptureTypes, Delete, IdleMaint, sched
  <1>6. PlanIsOrdered' /\ ActiveIsOutOfReach'
    BY DEF MaintPurgeCap, PlanIsOrdered, ActiveIsOutOfReach, IdleMaint, CaptureTypes
  <1> QED
    BY <1>2, <1>3, <1>4, <1>5, <1>6, DeleteKeeps DEF MaintPurgeCap

(***************************************************************************)
(* The scheduler thread                                                    *)
(***************************************************************************)

\* What a step of the scheduler does to the captures is a step of a request; the
\* rest moves between the phases and the networks.
LEMMA SchedulerKeeps == ASSUME IInv, SchedulerThread PROVE IInv'
  <1> USE DEF IInv
  <1>1. Scheduler \in Requesters
    BY DEF Requesters
  <1>2. phase \notin {"wait", "sweep"} => Nets[cursor] \in Networks
    BY NetworkAt DEF SchedInv
  <1>3. Refused => CaptureInv'
    BY DEF Refused, CaptureInv, CaptureTypes, table, NumberedRows, ThreadsHoldRows,
       PlanIsOrdered, ActiveIsOutOfReach, ActiveCaptureRetained, NoStuckSlot
  <1>4. CASE BootDone \/ StartupPoll \/ SweepBegin \/ SweepRequest
    <2>1. UNCHANGED <<table, agedUpTo, pending, lastError, request, response, ready,
                      maint, restarts>>
      BY <1>4 DEF BootDone, StartupPoll, SweepBegin, SweepRequest
    <2>2. CaptureInv'
      BY <2>1 DEF CaptureInv, CaptureTypes, table, NumberedRows, ThreadsHoldRows,
         PlanIsOrdered, ActiveIsOutOfReach, ActiveCaptureRetained, NoStuckSlot
    <2>3. SchedInv'
      <3>1. stable' \in BOOLEAN
        BY <1>4, Zenon DEF SchedInv, BootDone, StartupPoll, SweepBegin, SweepRequest
      <3> QED
        BY <1>4, <3>1, NetworkAt DEF SchedInv, BootDone, StartupPoll, SweepBegin, SweepRequest
    <2> QED
      BY <2>2, <2>3
  <1>5. CASE StartupRequest \/ SweepCapture
    <2>1. BeginCapture(Scheduler, Nets[cursor]) \/ Refused \/ BeginFails
      BY <1>5 DEF StartupRequest, SweepCapture
    <2>2. Nets[cursor] \in Networks
      BY <1>2, <1>5 DEF StartupRequest, SweepCapture
    <2>3. CaptureInv'
      BY <1>1, <1>3, <2>1, <2>2, BeginCaptureKeeps, BeginFailsKeeps
    <2>4. SchedInv'
      BY <1>5, NetworkAt DEF SchedInv, StartupRequest, SweepCapture
    <2> QED
      BY <2>3, <2>4
  <1>6. CASE StartupPublish \/ SweepPublish
    <2>1. PublishOk(Scheduler) \/ PublishFail(Scheduler) \/ PublishRelease(Scheduler)
      BY <1>6 DEF StartupPublish, SweepPublish
    <2>2. CaptureInv'
      BY <1>1, <2>1, PublishKeeps
    <2>3. SchedInv'
      BY <1>6, NetworkAt DEF SchedInv, StartupPublish, SweepPublish
    <2> QED
      BY <2>2, <2>3
  <1> QED
    BY <1>4, <1>5, <1>6 DEF SchedulerThread

(***************************************************************************)
(* The theorems                                                            *)
(***************************************************************************)

\* An empty table, an empty slot and no plan.
LEMMA InitIInv == Init => IInv
  <1> SUFFICES ASSUME Init PROVE IInv
    OBVIOUS
  <1>1. CaptureTypes
    <2>1. lastError \in BOOLEAN /\ ready \in BOOLEAN
      BY Zenon DEF Init
    <2>2. maint \in [step : {"idle", "terminalize", "purge", "cap"},
                    exclude : SUBSET Ids, seen : 0..MaxCaptures,
                    ref : 0..MaxCaptures, cut : 0..MaxCaptures]
      BY BoundAssumption DEF Init, IdleMaint
    <2> QED
      BY <2>1, <2>2, BoundAssumption
         DEF Init, CaptureTypes, IdleRequest, IdleResponse, Ids, Terminal
  <1>2. NumberedRows /\ ThreadsHoldRows /\ PlanIsOrdered /\ ActiveIsOutOfReach
    BY DEF Init, NumberedRows, ThreadsHoldRows, PlanIsOrdered, ActiveIsOutOfReach, Ids,
       IdleRequest, IdleResponse, IdleMaint
  <1>3. ActiveCaptureRetained /\ NoStuckSlot
    BY DEF Init, ActiveCaptureRetained, NoStuckSlot
  <1>4. SchedInv
    <2>1. stable \in BOOLEAN
      BY Zenon DEF Init
    <2> QED
      BY <2>1, NetworkAt DEF Init, SchedInv
  <1> QED
    BY <1>1, <1>2, <1>3, <1>4 DEF IInv, CaptureInv

\* Every step keeps the invariant.
LEMMA NextIInv == IInv /\ [Next]_vars => IInv'
  <1> SUFFICES ASSUME IInv, [Next]_vars PROVE IInv'
    OBVIOUS
  <1> USE DEF IInv
  <1>1. UNCHANGED sched => SchedInv'
    BY DEF sched, SchedInv
  <1>2. UNCHANGED <<table, agedUpTo, pending, lastError, request, response, maint, restarts>>
          /\ ready' \in BOOLEAN => CaptureInv'
    BY DEF CaptureInv, CaptureTypes, table, NumberedRows, ThreadsHoldRows,
       PlanIsOrdered, ActiveIsOutOfReach, ActiveCaptureRetained, NoStuckSlot
  <1>3. CASE UNCHANGED vars
    BY <1>1, <1>2, <1>3 DEF vars, CaptureInv, CaptureTypes
  <1>4. ASSUME NEW r \in Callers, ManualCapture(r) \/ ManualPublish(r) PROVE IInv'
    <2>1. r \in Requesters /\ UNCHANGED sched
      BY <1>4 DEF Requesters, ManualCapture, ManualPublish
    <2> QED
      BY <1>1, <1>4, <2>1, BeginCaptureKeeps, BeginFailsKeeps, PublishKeeps
         DEF ManualCapture, ManualPublish
  <1>5. CASE SchedulerThread
    BY <1>5, SchedulerKeeps
  <1>6. CASE \E net \in Networks : ResponseArrives(net)
    BY <1>1, <1>6, ResponseKeeps DEF ResponseArrives
  <1>7. CASE ResponseThread
    <2>1. UNCHANGED sched
      BY <1>7 DEF ResponseThread, StoreOk, StoreFail, Retain, Refresh, ResponseDone
    <2> QED
      BY <1>1, <1>7, <2>1, ResponseKeeps, RetainKeeps, ResponseDoneKeeps DEF ResponseThread
  <1>8. CASE MaintPlan \/ MaintThread
    <2>1. UNCHANGED sched
      BY <1>8 DEF MaintPlan, MaintThread, MaintTerminalize, MaintPurgeAge, MaintPurgeCap
    <2> QED
      BY <1>1, <1>8, <2>1, MaintPlanKeeps, MaintTerminalizeKeeps, MaintPurgeAgeKeeps,
         MaintPurgeCapKeeps DEF MaintThread
  <1>9. CASE Age
    <2>1. CaptureInv'
      BY <1>9 DEF Age, CaptureInv, CaptureTypes, table, NumberedRows, ThreadsHoldRows,
         PlanIsOrdered, ActiveIsOutOfReach, ActiveCaptureRetained, NoStuckSlot
    <2> QED
      BY <1>1, <1>9, <2>1 DEF Age
  <1>10. CASE ReadyChanges
    BY <1>1, <1>2, <1>10 DEF ReadyChanges, CaptureInv, CaptureTypes
  <1>11. CASE Restart
    <2>1. SchedInv'
      <3>1. stable' \in BOOLEAN
        BY <1>11, Zenon DEF Restart
      <3> QED
        BY <1>11, <3>1, NetworkAt DEF Restart, SchedInv
    <2> QED
      BY <1>11, <2>1, RestartKeeps
  <1> QED
    BY <1>3, <1>4, <1>5, <1>6, <1>7, <1>8, <1>9, <1>10, <1>11 DEF Next

\* The invariant holds in every reachable state.
THEOREM Invariance == Spec => []IInv
  BY InitIInv, NextIInv, PTL DEF Spec

\* The rows, the pending slot, the threads and the plan keep their types.
THEOREM TypeCorrect == Spec => []TypeOK
  <1>1. IInv => TypeOK
    BY DEF IInv, CaptureInv, CaptureTypes, SchedInv, TypeOK
  <1> QED
    BY <1>1, Invariance, PTL

\* The row of the active capture is the newest and is never purged, however long
\* ago the retention of a response or a maintenance cycle chose what to purge.
THEOREM ActiveRowStays == Spec => []ActiveCaptureRetained
  <1>1. IInv => ActiveCaptureRetained
    BY DEF IInv, CaptureInv
  <1> QED
    BY <1>1, Invariance, PTL

\* The slot of a finished capture has a thread on its way to release it, so
\* capture_in_progress does not stick to it.
THEOREM SlotIsReleased == Spec => []NoStuckSlot
  <1>1. IInv => NoStuckSlot
    BY DEF IInv, CaptureInv
  <1> QED
    BY <1>1, Invariance, PTL

(***************************************************************************)
(* A stored map stands                                                     *)
(***************************************************************************)

\* Only the thread that stored a map keeps the slot of a completed capture; an answer
\* that is to be stored finds no completed row; and a plan is about the past.
StoredIsHeld == pending # None /\ status[pending] = "complete" => response.id = pending
AnswerIsFirst ==
    /\ response.step = "idle" => response.id = None
    /\ response.step = "store" => status[response.id] # "complete"
PlanIsPast == maint.cut <= agedUpTo /\ maint.ref <= agedUpTo
HoldInv == StoredIsHeld /\ AnswerIsFirst /\ PlanIsPast

\* A step that completes no row, moves no slot and makes no plan keeps the three.
LEMMA HoldQuiet ==
    ASSUME CaptureInv, HoldInv, CaptureTypes',
           \A k \in Ids : status'[k] = "complete" => status[k] = "complete",
           UNCHANGED pending \/ pending' = None,
           response'.id = response.id,
           response'.step \in {"idle", "store"} => response'.step = response.step,
           agedUpTo' >= agedUpTo, maint'.cut <= maint.cut, maint'.ref <= maint.ref
    PROVE  HoldInv'
  <1> USE DEF CaptureInv, CaptureTypes, HoldInv
  <1>1. StoredIsHeld'
    BY DEF StoredIsHeld
  <1>2. AnswerIsFirst'
    <2>1. CASE response'.step = "store"
      <3>1. response.step = "store" /\ response.id \in 1..created
        BY <2>1 DEF ThreadsHoldRows
      <3>2. response.id \in Ids
        BY <3>1, BoundAssumption DEF Ids
      <3> QED
        BY <2>1, <3>1, <3>2 DEF AnswerIsFirst
    <2> QED
      BY <2>1 DEF AnswerIsFirst
  <1>3. PlanIsPast'
    BY DEF PlanIsPast
  <1> QED
    BY <1>1, <1>2, <1>3

\* An error status completes no row.
LEMMA UpdateCompletesNothing ==
    ASSUME CaptureInv, NEW id \in 1..created
    PROVE  \A k \in Ids : UpdateStatus(id, "error")[k] = "complete" => status[k] = "complete"
  BY UpdateStatusRow

\* A request that begins times out the stale capture and takes a fresh row.
LEMMA BeginHolds ==
    ASSUME CaptureInv, HoldInv, CaptureInv', NEW r, NEW net, BeginCapture(r, net) \/ BeginFails
    PROVE  HoldInv'
  <1> USE DEF CaptureInv, HoldInv
  <1> DEFINE old == IF Stale THEN UpdateStatus(pending, "error") ELSE status
  <1>1. \A k \in Ids : old[k] = "complete" => status[k] = "complete"
    <2>1. Stale => pending \in 1..created
      BY BoundAssumption DEF Stale, ActiveCaptureRetained, CaptureTypes, Ids
    <2> QED
      BY <2>1, UpdateCompletesNothing
  <1>2. CASE BeginFails
    <2>1. \A k \in Ids : status'[k] = "complete" => status[k] = "complete"
      BY <1>1, <1>2 DEF BeginFails
    <2> QED
      BY <1>2, <2>1, HoldQuiet DEF BeginFails, CaptureTypes
  <1>3. CASE BeginCapture(r, net)
    <2>1. status' = [old EXCEPT ![created + 1] = "pending"] /\ pending' = created + 1
          /\ UNCHANGED <<agedUpTo, response, maint>>
      BY <1>3 DEF BeginCapture
    <2>2. DOMAIN old = Ids /\ created + 1 \in Ids
      BY <1>3, BoundAssumption DEF BeginCapture, UpdateStatus, CaptureTypes, Ids
    <2> HIDE DEF old
    <2>3. status'[created + 1] = "pending"
          /\ \A k \in Ids : status'[k] = "complete" => status[k] = "complete"
      BY <1>1, <2>1, <2>2
    <2>4. StoredIsHeld'
      BY <2>1, <2>3 DEF StoredIsHeld
    <2>5. AnswerIsFirst'
      <3>1. response.step = "store" => response.id \in Ids
        BY BoundAssumption DEF ThreadsHoldRows, CaptureTypes, Ids
      <3> QED
        BY <2>1, <2>3, <3>1 DEF AnswerIsFirst
    <2>6. PlanIsPast'
      BY <2>1 DEF PlanIsPast
    <2> QED
      BY <2>4, <2>5, <2>6
  <1> QED
    BY <1>2, <1>3

\* So does a request that ends, well or not.
LEMMA PublishHolds ==
    ASSUME CaptureInv, HoldInv, CaptureInv', NEW r \in Requesters,
           PublishOk(r) \/ PublishFail(r) \/ PublishRelease(r)
    PROVE  HoldInv'
  <1> USE DEF CaptureInv, table
  <1>1. \A k \in Ids : status'[k] = "complete" => status[k] = "complete"
    <2>1. CASE PublishFail(r)
      <3>1. request[r].id \in 1..created
        BY <2>1 DEF PublishFail, ThreadsHoldRows
      <3> QED
        BY <2>1, <3>1, UpdateCompletesNothing DEF PublishFail
    <2> QED
      BY <2>1 DEF PublishOk, PublishRelease
  <1> QED
    BY <1>1, HoldQuiet DEF PublishOk, PublishFail, PublishRelease, CaptureTypes

\* Deleting rows and ending abandoned ones complete nothing either.
LEMMA CleaningHolds ==
    ASSUME CaptureInv, HoldInv, CaptureInv',
           Retain \/ MaintTerminalize \/ MaintPurgeAge \/ MaintPurgeCap
    PROVE  HoldInv'
  <1> USE DEF CaptureInv
  <1>1. ASSUME NEW ids, status' = Delete(ids)
        PROVE  \A k \in Ids : status'[k] = "complete" => status[k] = "complete"
    BY <1>1 DEF Delete
  <1>2. \A k \in Ids : status'[k] = "complete" => status[k] = "complete"
    BY <1>1 DEF Retain, MaintTerminalize, MaintPurgeAge, MaintPurgeCap
  <1>3. maint'.cut <= maint.cut /\ maint'.ref <= maint.ref
    <2>1. maint.cut \in Nat /\ maint.ref \in Nat
      BY DEF CaptureTypes
    <2>2. maint'.cut \in {0, maint.cut} /\ maint'.ref \in {0, maint.ref}
      <3>1. CASE MaintPurgeCap
        BY <3>1 DEF MaintPurgeCap, IdleMaint
      <3>2. CASE Retain
        BY <3>2 DEF Retain
      <3>3. CASE MaintTerminalize
        BY <3>3 DEF MaintTerminalize, CaptureTypes
      <3>4. CASE MaintPurgeAge
        BY <3>4 DEF MaintPurgeAge, CaptureTypes
      <3> QED
        BY <3>1, <3>2, <3>3, <3>4
    <2> QED
      BY <2>1, <2>2
  <1>4. response'.id = response.id
        /\ (response'.step \in {"idle", "store"} => response'.step = response.step)
    BY DEF Retain, MaintTerminalize, MaintPurgeAge, MaintPurgeCap, CaptureTypes
  <1> QED
    BY <1>2, <1>3, <1>4, HoldQuiet
       DEF Retain, MaintTerminalize, MaintPurgeAge, MaintPurgeCap, CaptureTypes

\* The response thread holds the slot from the answer until it has released it.
LEMMA ResponseHolds ==
    ASSUME CaptureInv, HoldInv, CaptureInv',
           \/ \E net \in Networks : ResponseArrives(net)
           \/ StoreOk \/ StoreFail \/ Refresh \/ ResponseDone
    PROVE  HoldInv'
  <1> USE DEF CaptureInv, table
  <1>1. CASE \E net \in Networks : ResponseArrives(net)
    BY <1>1, ThreadAssumption
       DEF ResponseArrives, HoldInv, StoredIsHeld, AnswerIsFirst, PlanIsPast, CaptureTypes, Ids
  <1>2. CASE StoreOk
    <2>1. response.id \in Ids
      BY <1>2, BoundAssumption DEF StoreOk, ThreadsHoldRows, CaptureTypes, Ids
    <2> QED
      BY <1>2, <2>1
         DEF StoreOk, HoldInv, StoredIsHeld, AnswerIsFirst, PlanIsPast, CaptureTypes
  <1>3. CASE StoreFail
    <2>1. response.id \in 1..created
      BY <1>3 DEF StoreFail, ThreadsHoldRows
    <2>2. \A k \in Ids : status'[k] = "complete" => status[k] = "complete"
      BY <1>3, <2>1, UpdateCompletesNothing DEF StoreFail
    <2> QED
      BY <1>3, <2>2, HoldQuiet DEF StoreFail, CaptureTypes
  <1>4. CASE Refresh
    BY <1>4, HoldQuiet DEF Refresh, CaptureTypes
  <1>5. CASE ResponseDone
    BY <1>5 DEF ResponseDone, ClearMatching, IdleResponse, HoldInv, StoredIsHeld,
       AnswerIsFirst, PlanIsPast, CaptureTypes
  <1> QED
    BY <1>1, <1>2, <1>3, <1>4, <1>5

\* Every step keeps the three.
LEMMA HoldStep == IInv /\ HoldInv /\ [Next]_vars => HoldInv'
  <1> SUFFICES ASSUME IInv, HoldInv, [Next]_vars PROVE HoldInv'
    OBVIOUS
  <1>1. CaptureInv /\ CaptureInv' /\ CaptureTypes /\ CaptureTypes'
    BY NextIInv DEF IInv, CaptureInv
  <1>2. UNCHANGED <<status, pending, response, agedUpTo, maint>> => HoldInv'
    BY DEF HoldInv, StoredIsHeld, AnswerIsFirst, PlanIsPast
  <1>3. ASSUME NEW r \in Callers, ManualCapture(r) \/ ManualPublish(r) PROVE HoldInv'
    BY <1>1, <1>3, BeginHolds, PublishHolds DEF ManualCapture, ManualPublish, Requesters
  <1>4. CASE SchedulerThread
    <2>1. CASE StartupRequest \/ SweepCapture
      <3>1. BeginCapture(Scheduler, Nets[cursor]) \/ BeginFails \/ Refused
        BY <2>1 DEF StartupRequest, SweepCapture
      <3> QED
        BY <1>1, <1>2, <3>1, BeginHolds DEF Refused, table
    <2>2. CASE StartupPublish \/ SweepPublish
      BY <1>1, <2>2, PublishHolds DEF StartupPublish, SweepPublish, Requesters
    <2>3. CASE BootDone \/ StartupPoll \/ SweepBegin \/ SweepRequest
      BY <1>2, <2>3 DEF BootDone, StartupPoll, SweepBegin, SweepRequest, table
    <2> QED
      BY <1>4, <2>1, <2>2, <2>3 DEF SchedulerThread
  <1>5. CASE (\E net \in Networks : ResponseArrives(net)) \/ ResponseThread
    BY <1>1, <1>5, ResponseHolds, CleaningHolds DEF ResponseThread
  <1>6. CASE MaintThread
    BY <1>1, <1>6, CleaningHolds DEF MaintThread
  <1>7. CASE MaintPlan
    BY <1>1, <1>7
       DEF MaintPlan, Plan, HoldInv, StoredIsHeld, AnswerIsFirst, PlanIsPast, table, CaptureTypes
  <1>8. CASE Age
    BY <1>1, <1>8
       DEF Age, HoldInv, StoredIsHeld, AnswerIsFirst, PlanIsPast, table, CaptureTypes
  <1>9. CASE Restart
    BY <1>1, <1>9 DEF Restart, Plan, HoldInv, StoredIsHeld, AnswerIsFirst, PlanIsPast,
       IdleResponse, CaptureTypes
  <1>10. CASE ReadyChanges \/ UNCHANGED vars
    BY <1>2, <1>10 DEF ReadyChanges, vars, table
  <1> QED
    BY <1>3, <1>4, <1>5, <1>6, <1>7, <1>8, <1>9, <1>10 DEF Next

\* A row that leaves "complete" does so in one of the ways FinishedMapStands names.
MapFalls(k) ==
    \/ status'[k] = "error" /\ (RequestMayFail(k) \/ MayTimeOut(k))
    \/ /\ status'[k] = "deleted"
       /\ k <= agedUpTo \/ Cardinality(NewerFinished(k)) >= MaxSnapshots

\* A row beyond the count cap has MaxSnapshots newer finished rows of its network.
LEMMA BeyondCapIsOld ==
    ASSUME CaptureInv, NEW nets, NEW lo, NEW hi \in 0..created, NEW exclude,
           NEW k \in Ids, k \in BeyondCap(Competing(nets, lo, hi, exclude))
    PROVE  Cardinality(NewerFinished(k)) >= MaxSnapshots
  <1> DEFINE rows == Competing(nets, lo, hi, exclude)
             newer == {j \in rows : j > k /\ netOf[j] = netOf[k]}
  <1>1. Cardinality(newer) >= MaxSnapshots
    BY DEF BeyondCap
  <1>2. k \in Int /\ created \in Int /\ hi \in Int /\ hi <= created
    BY DEF Ids, CaptureInv, CaptureTypes
  <1>3. newer \subseteq NewerFinished(k)
    <2> SUFFICES ASSUME NEW j \in newer PROVE j \in NewerFinished(k)
      OBVIOUS
    <2>1. j \in lo + 1 .. hi /\ status[j] \in Terminal /\ j > k /\ netOf[j] = netOf[k]
      BY DEF Competing
    <2>2. j \in k + 1 .. created
      BY <1>2, <2>1
    <2> QED
      BY <2>1, <2>2 DEF NewerFinished
  <1>4. IsFiniteSet(NewerFinished(k)) /\ Cardinality(NewerFinished(k)) \in Nat
    <2>1. IsFiniteSet(k + 1 .. created)
      BY <1>2, FS_Interval
    <2>2. NewerFinished(k) \subseteq k + 1 .. created
      BY DEF NewerFinished
    <2> QED
      BY <2>1, <2>2, FS_Subset, FS_CardinalityType
  <1>5. Cardinality(newer) \in Nat /\ Cardinality(newer) <= Cardinality(NewerFinished(k))
    BY <1>3, <1>4, FS_Subset, FS_CardinalityType
  <1> HIDE DEF newer, rows
  <1> QED
    BY <1>1, <1>4, <1>5, CapAssumption

\* The failure of a request and the timeout of a slot hit the map they are about.
LEMMA RequestFells ==
    ASSUME CaptureInv, HoldInv, NEW k \in Ids, status[k] = "complete", status'[k] # "complete",
           \/ BeginFails \/ \E r \in Requesters, net \in Networks : BeginCapture(r, net)
           \/ \E r \in Requesters : PublishOk(r) \/ PublishFail(r) \/ PublishRelease(r)
    PROVE  MapFalls(k)
  <1> USE DEF CaptureInv, HoldInv, table
  <1>1. CASE BeginFails \/ \E r \in Requesters, net \in Networks : BeginCapture(r, net)
    <2> DEFINE old == IF Stale THEN UpdateStatus(pending, "error") ELSE status
    <2>1. \/ status' = old \/ UNCHANGED status
          \/ status' = [old EXCEPT ![created + 1] = "pending"]
      BY <1>1 DEF BeginCapture, BeginFails
    <2>2. k # created + 1
      BY DEF NumberedRows, CaptureTypes, Ids
    <2>3. old[k] # "complete" /\ status'[k] = old[k]
      <3>1. status'[k] = old[k] \/ status'[k] = status[k]
        <4>1. DOMAIN old = Ids
          BY DEF UpdateStatus, CaptureTypes
        <4> HIDE DEF old
        <4> QED
          BY <2>1, <2>2, <4>1
      <3> QED
        BY <3>1
    <2>4. Stale /\ k = pending /\ old[k] = "error"
      BY <2>3 DEF UpdateStatus, CaptureTypes
    <2>5. response.id = pending /\ pending <= agedUpTo /\ pending # None
      BY <2>4 DEF Stale, StoredIsHeld
    <2> QED
      BY <2>3, <2>4, <2>5 DEF MapFalls, MayTimeOut
  <1>2. ASSUME NEW r \in Requesters, PublishOk(r) \/ PublishFail(r) \/ PublishRelease(r)
        PROVE  MapFalls(k)
    <2>1. PublishFail(r) /\ status' = UpdateStatus(request[r].id, "error")
      BY <1>2 DEF PublishOk, PublishFail, PublishRelease
    <2>2. request[r].step = "publish" /\ k = request[r].id /\ status'[k] = "error"
      BY <2>1 DEF PublishFail, UpdateStatus, CaptureTypes
    <2>3. request[r] = [step |-> "publish", id |-> k]
      BY <2>2 DEF CaptureTypes
    <2> QED
      BY <2>2, <2>3 DEF MapFalls, RequestMayFail
  <1> QED
    BY <1>1, <1>2

\* What deletes a map, and that nothing else ends one.
LEMMA CleaningFells ==
    ASSUME CaptureInv, HoldInv, NEW k \in Ids, status[k] = "complete", status'[k] # "complete",
           StoreOk \/ StoreFail \/ Retain \/ MaintTerminalize \/ MaintPurgeAge \/ MaintPurgeCap
    PROVE  MapFalls(k)
  <1> USE DEF CaptureInv, HoldInv
  <1>1. CASE StoreOk \/ StoreFail
    BY <1>1 DEF StoreOk, StoreFail, UpdateStatus, AnswerIsFirst, CaptureTypes
  <1>2. CASE MaintTerminalize
    BY <1>2 DEF MaintTerminalize, Abandoned
  <1>3. CASE Retain
    <2>1. k \in BeyondCap(Competing({netOf[response.id]}, 0, created, {}))
          /\ status'[k] = "deleted"
      BY <1>3 DEF Retain, Delete
    <2>2. created \in 0..created
      BY DEF CaptureTypes
    <2> QED
      BY <2>1, <2>2, BeyondCapIsOld DEF MapFalls
  <1>4. CASE MaintPurgeAge
    <2>1. k \in 1..maint.cut /\ status'[k] = "deleted"
      BY <1>4 DEF MaintPurgeAge, Delete
    <2> QED
      BY <2>1 DEF MapFalls, PlanIsPast, CaptureTypes
  <1>5. CASE MaintPurgeCap
    <2>1. k \in BeyondCap(Competing(Networks, maint.cut, maint.seen, maint.exclude))
          /\ status'[k] = "deleted"
      BY <1>5 DEF MaintPurgeCap, Delete
    <2>2. maint.seen \in 0..created
      BY DEF PlanIsOrdered, CaptureTypes
    <2> QED
      BY <2>1, <2>2, BeyondCapIsOld DEF MapFalls
  <1> QED
    BY <1>1, <1>2, <1>3, <1>4, <1>5

\* No step ends a stored map in another way.
LEMMA StepFells ==
    IInv /\ HoldInv /\ [Next]_vars =>
        \A k \in Ids : status[k] = "complete" /\ status'[k] # "complete" => MapFalls(k)
  <1> SUFFICES ASSUME IInv, HoldInv, [Next]_vars, NEW k \in Ids, status[k] = "complete",
                      status'[k] # "complete"
               PROVE  MapFalls(k)
    OBVIOUS
  <1>1. CaptureInv /\ ~UNCHANGED status
    BY DEF IInv
  <1>2. ASSUME NEW r \in Callers, ManualCapture(r) \/ ManualPublish(r) PROVE MapFalls(k)
    BY <1>1, <1>2, RequestFells DEF ManualCapture, ManualPublish, Requesters
  <1>3. CASE SchedulerThread
    <2>1. phase \notin {"wait", "sweep"} => Nets[cursor] \in Networks
      BY NetworkAt DEF IInv, SchedInv
    <2>2. CASE StartupRequest \/ SweepCapture
      BY <1>1, <2>1, <2>2, RequestFells
         DEF StartupRequest, SweepCapture, Refused, table, Requesters
    <2>3. CASE StartupPublish \/ SweepPublish
      BY <1>1, <2>3, RequestFells DEF StartupPublish, SweepPublish, Requesters
    <2>4. ~(BootDone \/ StartupPoll \/ SweepBegin \/ SweepRequest)
      BY <1>1 DEF BootDone, StartupPoll, SweepBegin, SweepRequest, table
    <2> QED
      BY <1>3, <2>2, <2>3, <2>4 DEF SchedulerThread
  <1>4. CASE ResponseThread \/ MaintThread
    BY <1>1, <1>4, CleaningFells DEF ResponseThread, MaintThread, Refresh, ResponseDone, table
  <1>5. ~(UNCHANGED vars \/ (\E net \in Networks : ResponseArrives(net)) \/ MaintPlan \/ Age
            \/ ReadyChanges \/ Restart)
    BY <1>1 DEF vars, table, ResponseArrives, MaintPlan, Age, ReadyChanges, Restart
  <1> QED
    BY <1>2, <1>3, <1>4, <1>5 DEF Next

\* A stored map stands until it is old, MaxSnapshots newer captures have finished, or
\* its own request or slot fails it: no thread with an old plan, a late answer or
\* another capture's failure touches it.
THEOREM StoredMapStands == Spec => FinishedMapStands
  <1>1. Init => HoldInv
    BY DEF Init, HoldInv, StoredIsHeld, AnswerIsFirst, PlanIsPast, IdleResponse, IdleMaint
  <1>2. IInv /\ HoldInv /\ [Next]_vars => HoldInv'
    BY HoldStep
  <1>3. IInv /\ HoldInv /\ [Next]_vars =>
          [\A k \in Ids : status[k] = "complete" /\ status'[k] # "complete" =>
             \/ status'[k] = "error" /\ (RequestMayFail(k) \/ MayTimeOut(k))
             \/ /\ status'[k] = "deleted"
                /\ k <= agedUpTo \/ Cardinality(NewerFinished(k)) >= MaxSnapshots]_vars
    BY StepFells DEF MapFalls
  <1> QED
    BY <1>1, <1>2, <1>3, Invariance, PTL DEF Spec, FinishedMapStands
=============================================================================
