----------------------- MODULE MaintenanceSchedulerProofs -----------------------
(***************************************************************************)
(* Proofs about MaintenanceScheduler, for any number of start() calls, and *)
(* about the cycles it runs, which are those of StorageMaintenance.        *)
(*                                                                         *)
(* That cycles never overlap is inductive with the types.  That stop()     *)
(* leaves no thread behind is not: it needs that, as long as no stop()     *)
(* gave up, self._thread is the only thread there can be, and that there   *)
(* is none when start() makes the next one.                                *)
(*                                                                         *)
(* That a cycle settles needs what the status row and the clients know     *)
(* while it has still to be written down or announced, and in the startup  *)
(* of a process that takes over from one that died.                        *)
(***************************************************************************)
EXTENDS MaintenanceScheduler, StorageMaintenance, TLAPS

\* Without a stop() that gave up there is at most one worker, known to stop().
OneWorker ==
    ~gaveUp => /\ Alive \subseteq {thread}
               /\ stopped /\ owner = "idle" => Alive = {}

\* stop() waits only after it has set the flag.
StopIsFlagged == owner # "idle" => stopped

IInv == TypeOK /\ SingleFlight /\ OneWorker /\ StopIsFlagged

\* A fresh scheduler satisfies the invariant.
LEMMA InitIInv == Init => IInv
  BY DEF Init, IInv, TypeOK, SingleFlight, OneWorker, StopIsFlagged, InCycle, Alive

\* The calls of other threads keep it.
LEMMA CallsKeep ==
    ASSUME IInv, StopWaited \/ StopJoined \/ StopGivesUp \/ Trigger \/ RunOnce \/ EndRunOnce \/ Stop
    PROVE  IInv'
  <1> USE DEF IInv
  <1>1. CASE Stop
    <2>1. TypeOK'
      BY <1>1 DEF Stop, Bump, Waiting, TypeOK
    <2>2. SingleFlight'
      BY <1>1 DEF Stop, SingleFlight, InCycle, TypeOK
    <2>3. OneWorker' /\ StopIsFlagged'
      BY <1>1 DEF Stop, OneWorker, StopIsFlagged, Alive, TypeOK
    <2> QED
      BY <2>1, <2>2, <2>3
  <1>2. CASE StopWaited
    <2>1. TypeOK'
      BY <1>2 DEF StopWaited, TypeOK
    <2>2. SingleFlight'
      BY <1>2 DEF StopWaited, SingleFlight, InCycle, TypeOK
    <2>3. OneWorker' /\ StopIsFlagged'
      BY <1>2 DEF StopWaited, OneWorker, StopIsFlagged, Alive, TypeOK
    <2> QED
      BY <2>1, <2>2, <2>3
  <1>3. CASE StopJoined
    <2>1. TypeOK'
      BY <1>3 DEF StopJoined, TypeOK
    <2>2. SingleFlight'
      BY <1>3 DEF StopJoined, SingleFlight, InCycle, TypeOK
    <2>3. OneWorker' /\ StopIsFlagged'
      BY <1>3 DEF StopJoined, OneWorker, StopIsFlagged, Alive, TypeOK
    <2> QED
      BY <2>1, <2>2, <2>3
  <1>4. CASE StopGivesUp
    <2>1. TypeOK'
      BY <1>4 DEF StopGivesUp, TypeOK
    <2>2. SingleFlight'
      BY <1>4 DEF StopGivesUp, SingleFlight, InCycle, TypeOK
    <2>3. OneWorker' /\ StopIsFlagged'
      BY <1>4 DEF StopGivesUp, OneWorker, StopIsFlagged, Alive, TypeOK
    <2> QED
      BY <2>1, <2>2, <2>3
  <1>5. CASE Trigger
    <2>1. TypeOK'
      BY <1>5 DEF Trigger, Wake, Bump, Waiting, TypeOK
    <2>2. SingleFlight'
      BY <1>5 DEF Trigger, SingleFlight, InCycle, TypeOK
    <2>3. OneWorker' /\ StopIsFlagged'
      BY <1>5 DEF Trigger, OneWorker, StopIsFlagged, Alive, TypeOK
    <2> QED
      BY <2>1, <2>2, <2>3
  <1>6. CASE RunOnce
    <2>1. TypeOK'
      BY <1>6 DEF RunOnce, MayClaim, TypeOK
    <2>2. SingleFlight'
      BY <1>6 DEF RunOnce, MayClaim, SingleFlight, InCycle, TypeOK
    <2>3. OneWorker' /\ StopIsFlagged'
      BY <1>6 DEF RunOnce, OneWorker, StopIsFlagged, Alive, TypeOK
    <2> QED
      BY <2>1, <2>2, <2>3
  <1>7. CASE EndRunOnce
    <2>1. TypeOK'
      BY <1>7 DEF EndRunOnce, Finish, Wake, Bump, Waiting, TypeOK
    <2>2. SingleFlight'
      BY <1>7 DEF EndRunOnce, Finish, SingleFlight, InCycle, TypeOK
    <2>3. OneWorker' /\ StopIsFlagged'
      BY <1>7 DEF EndRunOnce, OneWorker, StopIsFlagged, Alive, TypeOK
    <2> QED
      BY <2>1, <2>2, <2>3
  <1> QED
    BY <1>1, <1>2, <1>3, <1>4, <1>5, <1>6, <1>7

\* start() and the steps of a worker keep it.
LEMMA WorkerKeeps ==
    ASSUME IInv, NEW w \in Workers,
           Start(w) \/ Loop(w) \/ WakeUp(w) \/ TimeOut(w) \/ Reschedule(w) \/ EndCycle(w)
    PROVE  IInv'
  <1> USE DEF IInv
  <1>1. CASE Start(w)
    <2>1. TypeOK'
      BY <1>1 DEF Start, Bump, Waiting, TypeOK
    <2>2. SingleFlight'
      BY <1>1 DEF Start, Bump, Waiting, SingleFlight, InCycle, TypeOK
    <2>3. OneWorker' /\ StopIsFlagged'
      BY <1>1 DEF Start, Bump, Waiting, OneWorker, StopIsFlagged, Alive, TypeOK
    <2> QED
      BY <2>1, <2>2, <2>3
  <1>2. CASE Loop(w)
    <2>1. TypeOK'
      BY <1>2 DEF Loop, Claim, MayClaim, TypeOK
    <2>2. SingleFlight'
      BY <1>2 DEF Loop, Claim, MayClaim, SingleFlight, InCycle, TypeOK
    <2>3. OneWorker' /\ StopIsFlagged'
      BY <1>2 DEF Loop, Claim, MayClaim, OneWorker, StopIsFlagged, Alive, TypeOK
    <2> QED
      BY <2>1, <2>2, <2>3
  <1>3. CASE WakeUp(w) \/ TimeOut(w)
    <2>1. TypeOK'
      BY <1>3 DEF WakeUp, TimeOut, EndWait, Claim, MayClaim, TypeOK
    <2>2. SingleFlight'
      BY <1>3 DEF WakeUp, TimeOut, EndWait, Claim, MayClaim, SingleFlight, InCycle, TypeOK
    <2>3. OneWorker' /\ StopIsFlagged'
      BY <1>3 DEF WakeUp, TimeOut, EndWait, Claim, MayClaim, OneWorker, StopIsFlagged, Alive, TypeOK
    <2> QED
      BY <2>1, <2>2, <2>3
  <1>4. CASE Reschedule(w)
    <2>1. TypeOK'
      BY <1>4 DEF Reschedule, TypeOK
    <2>2. SingleFlight'
      BY <1>4 DEF Reschedule, SingleFlight, InCycle, TypeOK
    <2>3. OneWorker' /\ StopIsFlagged'
      BY <1>4 DEF Reschedule, OneWorker, StopIsFlagged, Alive, TypeOK
    <2> QED
      BY <2>1, <2>2, <2>3
  <1>5. CASE EndCycle(w)
    <2>1. TypeOK'
      BY <1>5 DEF EndCycle, Finish, Wake, Bump, Waiting, TypeOK
    <2>2. SingleFlight'
      BY <1>5 DEF EndCycle, Finish, Wake, Bump, Waiting, SingleFlight, InCycle, TypeOK
    <2>3. OneWorker' /\ StopIsFlagged'
      BY <1>5 DEF EndCycle, Finish, Wake, Bump, Waiting, OneWorker, StopIsFlagged, Alive, TypeOK
    <2> QED
      BY <2>1, <2>2, <2>3
  <1> QED
    BY <1>1, <1>2, <1>3, <1>4, <1>5

(***************************************************************************)
(* The theorems                                                            *)
(***************************************************************************)

\* Every step keeps the invariant.
LEMMA NextIInv == IInv /\ [Next]_vars => IInv'
  <1> SUFFICES ASSUME IInv, [Next]_vars PROVE IInv'
    OBVIOUS
  <1>1. CASE UNCHANGED vars
    BY <1>1 DEF vars, IInv, TypeOK, SingleFlight, OneWorker, StopIsFlagged, InCycle, Alive
  <1>2. CASE Next
    BY <1>2, CallsKeep, WorkerKeeps DEF Next, Step
  <1> QED
    BY <1>1, <1>2

\* The invariant holds in every reachable state.
THEOREM Invariance == Spec => []IInv
  BY InitIInv, NextIInv, PTL DEF Spec

\* The fields and threads of the scheduler keep their types.
THEOREM TypeCorrect == Spec => []TypeOK
  <1>1. IInv => TypeOK
    BY DEF IInv
  <1> QED
    BY <1>1, Invariance, PTL

\* The claim under self._idle keeps cycles apart, however many workers start()
\* made and whoever else calls run_once.
THEOREM CyclesNeverOverlap == Spec => []SingleFlight
  <1>1. IInv => SingleFlight
    BY DEF IInv
  <1> QED
    BY <1>1, Invariance, PTL

\* A stop() that returns before its deadline leaves no thread behind.
THEOREM StopIsFinal == Spec => StopQuiesces
  <1>1. IInv /\ [Next]_vars =>
          [owner # "idle" /\ owner' = "idle" /\ ~gaveUp' => Alive = {}]_vars
    <2> SUFFICES ASSUME IInv, Next, owner # "idle", owner' = "idle", ~gaveUp'
                 PROVE  Alive = {}
      OBVIOUS
    <2>1. StopJoined
      BY DEF Next, Step, Start, Loop, WakeUp, TimeOut, EndWait, Reschedule, EndCycle,
         Stop, StopWaited, StopGivesUp, Trigger, RunOnce, EndRunOnce
    <2>2. ~gaveUp /\ thread \notin Alive
      BY <2>1 DEF StopJoined
    <2> QED
      BY <2>2 DEF IInv, OneWorker
  <1> QED
    BY <1>1, Invariance, PTL DEF Spec, StopQuiesces

(***************************************************************************)
(* The cycles                                                              *)
(***************************************************************************)

\* The fields of a cycle and of the status row.
CycleShape ==
    /\ cycle = [step |-> cycle.step, at |-> cycle.at, old |-> cycle.old,
                overdue |-> cycle.overdue, seen |-> cycle.seen, exclude |-> cycle.exclude,
                ended |-> cycle.ended, touched |-> cycle.touched, error |-> cycle.error,
                more |-> cycle.more]
    /\ status = [running |-> status.running, totals |-> status.totals,
                 succeeded |-> status.succeeded, error |-> status.error]
    /\ status.running \in BOOLEAN

\* The status row may say that a cycle runs only while it does, from the write at
\* its beginning to the one at its end; a process that starts has corrected it.
RowSettled ==
    process # "down" /\ cycle.step \in {"idle", "schedule"} /\ "status" \notin failed
        => ~status.running

\* What clients do not know yet is what the cycle under way will announce.
OnlyUnannounced ==
    process = "up" /\ "schedule" \notin failed
        => /\ stale \subseteq Announced
           /\ cycle.step = "idle" => stale = {}

CyclesInv ==
    /\ CycleShape /\ RowSettled /\ OnlyUnannounced
    /\ process = "down" => cycle = NoCycle

\* A step that fails is remembered.
LEMMA FailsGrows ==
    ASSUME NEW step, Fails(step)
    PROVE  failed \subseteq failed' /\ step \in failed'
  BY DEF Fails

\* A database without a process satisfies the invariant.
LEMMA InitCycles == CyclesInit => CyclesInv
  BY DEF CyclesInit, NoCycle, CyclesInv, CycleShape, RowSettled, OnlyUnannounced

\* A committed batch is announced with the cycle, and so is nothing else.
LEMMA BatchKeeps == CyclesInv /\ Batch => CyclesInv'
  <1> SUFFICES ASSUME CyclesInv, Batch PROVE CyclesInv'
    OBVIOUS
  <1> USE DEF CyclesInv
  <1>1. PICK b, at, step, ended :
          /\ stale' = IF b = {} THEN stale ELSE stale \cup Outdated(Now)
          /\ step \in {"batch", "check"}
          /\ cycle' = [cycle EXCEPT !.at = at, !.step = step, !.ended = ended,
                          !.touched = IF b = {} THEN cycle.touched
                                      ELSE cycle.touched \cup {Now}]
    <2> DEFINE all == Eligible(Now, cycle, cycle.exclude \cup cycle.ended)
               again == Cardinality(all) >= Limit /\ Now # "abandoned"
    <2>1. PICK b \in Batches(all) :
            /\ stale' = IF b = {} THEN stale ELSE stale \cup Outdated(Now)
            /\ cycle' = [cycle EXCEPT
                  !.at = IF again \/ cycle.at = Len(Categories)
                           THEN cycle.at ELSE cycle.at + 1,
                  !.step = IF again \/ cycle.at < Len(Categories)
                             THEN "batch" ELSE "check",
                  !.ended = IF Now = "abandoned" THEN b ELSE cycle.ended,
                  !.touched = IF b = {} THEN cycle.touched
                              ELSE cycle.touched \cup {Now}]
      BY Zenon DEF Batch
    <2> HIDE DEF again
    <2> QED
      BY <2>1
  <1>2. /\ cycle' = [step |-> step, at |-> at, old |-> cycle.old,
                     overdue |-> cycle.overdue, seen |-> cycle.seen,
                     exclude |-> cycle.exclude, ended |-> ended,
                     touched |-> IF b = {} THEN cycle.touched
                                 ELSE cycle.touched \cup {Now},
                     error |-> cycle.error, more |-> cycle.more]
    BY <1>1 DEF CycleShape
  <1>3. UNCHANGED <<process, status, failed>> /\ process # "down"
    BY DEF Batch, NoCycle
  <1>4. CycleShape' /\ RowSettled'
    BY <1>1, <1>2, <1>3 DEF CycleShape, RowSettled
  <1>5. b # {} => Outdated(Now) \subseteq Announced' /\ Announced \subseteq Announced'
    BY <1>2 DEF Outdated, Announced, affected_invalidation_events,
       maintenance_evidence_changed
  <1>6. OnlyUnannounced'
    <2>1. CASE b = {}
      BY <1>1, <1>2, <1>3, <2>1 DEF OnlyUnannounced, Announced,
         affected_invalidation_events, maintenance_evidence_changed
    <2>2. CASE b # {}
      BY <1>1, <1>2, <1>3, <1>5, <2>2 DEF OnlyUnannounced
    <2> QED
      BY <2>1, <2>2
  <1> QED
    BY <1>3, <1>4, <1>6

\* The other steps of a cycle, up to its last write.
LEMMA CycleKeeps ==
    ASSUME CyclesInv,
           \/ Begin \/ BeginFails \/ BatchFails \/ Check
           \/ CheckFails \/ WriteStatus \/ WriteStatusFails
    PROVE  CyclesInv'
  <1> USE DEF CyclesInv
  <1>1. CASE Begin
    <2>1. /\ cycle'.step = "batch" /\ cycle'.touched = {}
          /\ CycleShape' /\ UNCHANGED <<process, stale, failed>> /\ process # "down"
      BY <1>1 DEF Begin, Planned, NoCycle, CycleShape
    <2>2. process = "up" /\ "schedule" \notin failed => stale = {}
      BY <1>1 DEF Begin, Idle, OnlyUnannounced
    <2> QED
      BY <2>1, <2>2 DEF RowSettled, OnlyUnannounced
  <1>2. CASE BeginFails
    <2>1. /\ cycle'.step = "schedule" /\ CycleShape'
          /\ UNCHANGED <<process, status, stale>> /\ process # "down"
      BY <1>2 DEF BeginFails, NoCycle, CycleShape
    <2>2. failed \subseteq failed' /\ cycle.step = "idle"
      BY <1>2, FailsGrows DEF BeginFails, Idle
    <2> QED
      BY <2>1, <2>2 DEF RowSettled, OnlyUnannounced
  <1>3. CASE BatchFails \/ Check \/ CheckFails
    <2>1. \E more, error : cycle' =
            [step |-> "status", at |-> cycle.at, old |-> cycle.old,
             overdue |-> cycle.overdue, seen |-> cycle.seen, exclude |-> cycle.exclude,
             ended |-> cycle.ended, touched |-> cycle.touched, error |-> error,
             more |-> more]
      BY <1>3 DEF BatchFails, Check, CheckFails, CycleShape
    <2>2. /\ cycle'.step = "status" /\ cycle'.touched = cycle.touched /\ CycleShape'
          /\ UNCHANGED <<process, status, stale>>
      BY <1>3, <2>1 DEF BatchFails, Check, CheckFails, CycleShape
    <2>3. failed \subseteq failed' /\ process # "down"
      BY <1>3, FailsGrows DEF BatchFails, Check, CheckFails, NoCycle
    <2> QED
      BY <2>2, <2>3 DEF RowSettled, OnlyUnannounced, Announced,
         affected_invalidation_events, maintenance_evidence_changed
  <1>4. CASE WriteStatus \/ WriteStatusFails
    <2>0. cycle' =
            [step |-> "schedule", at |-> cycle.at, old |-> cycle.old,
             overdue |-> cycle.overdue, seen |-> cycle.seen, exclude |-> cycle.exclude,
             ended |-> cycle.ended, touched |-> cycle.touched, error |-> cycle.error,
             more |-> cycle.more]
      BY <1>4 DEF WriteStatus, WriteStatusFails, CycleShape
    <2>1. /\ cycle'.step = "schedule" /\ cycle'.touched = cycle.touched
          /\ UNCHANGED <<process, stale>> /\ process # "down"
      BY <1>4, <2>0 DEF WriteStatus, WriteStatusFails, NoCycle
    <2>3. CycleShape'
      <3>1. CASE WriteStatus
        BY <2>0, <3>1 DEF WriteStatus, CycleShape
      <3>2. CASE WriteStatusFails
        BY <2>0, <3>2 DEF WriteStatusFails, CycleShape
      <3> QED
        BY <1>4, <3>1, <3>2
    <2>2. /\ failed \subseteq failed'
          /\ "status" \in failed' \/ ~status'.running
      BY <1>4, FailsGrows DEF WriteStatus, WriteStatusFails
    <2> QED
      BY <2>1, <2>2, <2>3 DEF RowSettled, OnlyUnannounced, Announced,
         affected_invalidation_events, maintenance_evidence_changed
  <1> QED
    BY <1>1, <1>2, <1>3, <1>4

\* What follows a cycle: the scheduler goes on, the clients are told, or the
\* program does not start.
LEMMA EndKeeps ==
    ASSUME CyclesInv,
           \/ EndStartup \/ RefuseStartup
           \/ EndScheduled \/ EndScheduledFails
    PROVE  CyclesInv'
  <1> USE DEF CyclesInv
  <1>1. CASE RefuseStartup
    BY <1>1 DEF RefuseStartup, NoCycle, CycleShape, RowSettled, OnlyUnannounced
  <1>2. CASE EndStartup \/ EndScheduled \/ EndScheduledFails
    <2>1. /\ cycle'.step = "idle" /\ CycleShape' /\ process' = "up"
          /\ UNCHANGED status /\ process # "down" /\ cycle.step = "schedule"
      BY <1>2 DEF EndStartup, EndScheduled, EndScheduledFails,
         Over, CycleShape
    <2>2. /\ failed \subseteq failed'
          /\ "schedule" \in failed' \/ stale' = {}
      BY <1>2, FailsGrows DEF EndStartup, EndScheduled,
         EndScheduledFails, OnlyUnannounced
    <2> QED
      BY <2>1, <2>2 DEF RowSettled, OnlyUnannounced
  <1> QED
    BY <1>1, <1>2

\* Captures and the passing of time are not the cycle's.
LEMMA CaptureKeeps == CyclesInv /\ (Capture \/ Ageing) => CyclesInv'
  <1> SUFFICES ASSUME CyclesInv, Capture \/ Ageing PROVE CyclesInv'
    OBVIOUS
  <1>1. UNCHANGED <<process, cycle, status, stale, failed>>
    BY DEF Capture, Ageing, StartCapture, StoreCapture,
       FailCapture, EnforceCount, AgeRow, AgeSnap
  <1> QED
    BY <1>1 DEF CyclesInv, CycleShape, RowSettled, OnlyUnannounced, Announced,
         affected_invalidation_events, maintenance_evidence_changed

\* A process dies, and the next one finds the row of the cycle it died in.
LEMMA ProcessKeeps == CyclesInv /\ (Crash \/ Restart) => CyclesInv'
  <1> SUFFICES ASSUME CyclesInv, Crash \/ Restart PROVE CyclesInv'
    OBVIOUS
  <1> USE DEF CyclesInv
  <1>1. CASE Crash
    BY <1>1 DEF Crash, NoCycle, CycleShape, RowSettled, OnlyUnannounced
  <1>2. CASE Restart
    <2>1. ~status'.running /\ CycleShape'
      BY <1>2 DEF Restart, Interrupted, CycleShape
    <2> QED
      BY <1>2, <2>1 DEF Restart, RowSettled, OnlyUnannounced
  <1> QED
    BY <1>1, <1>2

\* Every step keeps the invariant of the cycles.
LEMMA NextCycles == CyclesInv /\ [CyclesNext]_cycleVars => CyclesInv'
  <1> SUFFICES ASSUME CyclesInv, [CyclesNext]_cycleVars PROVE CyclesInv'
    OBVIOUS
  <1>1. CASE UNCHANGED cycleVars
    BY <1>1 DEF cycleVars, CyclesInv, CycleShape, RowSettled, OnlyUnannounced,
       Announced, affected_invalidation_events, maintenance_evidence_changed
  <1>2. CASE CyclesNext
    BY <1>2, BatchKeeps, CycleKeeps, EndKeeps, CaptureKeeps, ProcessKeeps
       DEF CyclesNext, Cycle
  <1> QED
    BY <1>1, <1>2

\* Whichever of its steps failed and wherever a process died before, a cycle
\* that is over leaves a true status row and clients that know what it changed.
THEOREM CyclesLeaveTheTruth == CyclesSpec => []CyclesSettle
  <1>1. CyclesInv => CyclesSettle
    BY DEF CyclesInv, RowSettled, OnlyUnannounced, CyclesSettle,
       StatusSettles, ClientsAreTold, Idle
  <1> QED
    BY <1>1, InitCycles, NextCycles, PTL DEF CyclesSpec
=============================================================================
