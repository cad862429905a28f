---------------------------- MODULE MCMaintenance ----------------------------
(***************************************************************************)
(* The scheduler's threads and the cycles they run, checked in one run: a  *)
(* behaviour is a behaviour of one of the two, chosen at the start, while  *)
(* the other rests in a state that none of its steps leaves.               *)
(***************************************************************************)
EXTENDS MaintenanceScheduler, StorageMaintenance

CONSTANTS t1, t2, t3, sample
MCWorkers == {t1, t2, t3}
MCPlain == {sample}
MCCatOf == [r \in MCPlain |-> "samples"]

VARIABLE part

schedulerIdle ==
    /\ stopped = TRUE /\ running = FALSE /\ coalesce = FALSE /\ nextDelay = "interval"
    /\ thread = NoThread /\ worker = [w \in Workers |-> "done"] /\ woken = {}
    /\ caller = "idle" /\ owner = "idle" /\ asked = FALSE /\ gaveUp = FALSE

cyclesIdle ==
    /\ row = [r \in Plain |-> "young"]
    /\ snap = [i \in Snaps |-> [status |-> "none", age |-> "new"]]
    /\ active = None /\ cleanup = FALSE /\ process = None /\ cycle = [NoCycle EXCEPT !.step = None]
    /\ status = None /\ next = None /\ stale = {} /\ failed = {} /\ crashes = 0

MCInit == \/ part = "scheduler" /\ Init /\ cyclesIdle
          \/ part = "cycles" /\ CyclesInit /\ schedulerIdle

MCNext == \/ part = "scheduler" /\ Next /\ UNCHANGED <<part, cycleVars>>
          \/ part = "cycles" /\ CyclesNext /\ UNCHANGED <<part, vars>>

\* No fair action of either is enabled while it rests.
MCSpec == MCInit /\ [][MCNext]_<<part, vars, cycleVars>> /\ Fairness /\ CyclesFairness
=============================================================================
