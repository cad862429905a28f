------------------------- MODULE MaintenanceScheduler -------------------------
(***************************************************************************)
(* StorageMaintenanceScheduler (storage/maintenance_scheduler.py): one     *)
(* worker thread that waits on a condition variable between cycles, and    *)
(* start, stop, trigger and run_once from other threads.  Each action is   *)
(* one critical section of self._idle.  The generation counter is only     *)
(* compared for equality with a value read before a wait, so it is kept as *)
(* a mark on the threads it would wake.  What a cycle does is in module    *)
(* StorageMaintenance.                                                     *)
(***************************************************************************)
EXTENDS Naturals

CONSTANTS
    Workers,      \* bound: threads that start() creates, one per call
    NoThread

VARIABLES
    stopped, running, coalesce,
    nextDelay,    \* "zero", "soon" or "interval"
    thread,       \* self._thread
    worker,       \* per worker thread: where it is
    woken,        \* worker threads whose wait ends early
    caller,       \* the thread inside run_once: "idle", "cycle"
    owner,        \* the thread that starts and stops: "idle", "waiting", "joining"
    asked,        \* a wake was accepted and no cycle has begun since
    gaveUp        \* a stop() with a timeout returned before its worker ended

vars == <<stopped, running, coalesce, nextDelay, thread, worker, woken, caller, owner, asked, gaveUp>>

Alive == {w \in Workers : worker[w] \notin {"none", "done"}}
Waiting == {w \in Workers : worker[w] = "waiting"}

\* self._generation += 1; self._idle.notify_all()
Bump == woken' = Waiting

\* _next_delay = 0 and a new generation
Wake == nextDelay' = "zero" /\ Bump

(***************************************************************************)
(* start, stop, trigger and run_once                                       *)
(***************************************************************************)

Start(w) ==
    /\ owner = "idle" /\ stopped /\ worker[w] = "none"
    /\ stopped' = FALSE
    /\ \E d \in {"zero", "soon", "interval"} : nextDelay' = d
    /\ Bump
    /\ thread' = w
    /\ worker' = [worker EXCEPT ![w] = "loop"]
    /\ UNCHANGED <<running, coalesce, caller, owner, asked, gaveUp>>

Stop ==
    /\ owner = "idle" /\ ~stopped
    /\ stopped' = TRUE /\ Bump /\ asked' = FALSE
    /\ owner' = "waiting"
    /\ UNCHANGED <<running, coalesce, nextDelay, thread, worker, caller, gaveUp>>

\* The loop that waits while a cycle is running.
StopWaited ==
    /\ owner = "waiting"
    /\ ~running
    /\ owner' = "joining"
    /\ UNCHANGED <<stopped, running, coalesce, nextDelay, thread, worker, woken, caller, asked, gaveUp>>

\* thread.join, then the reference is dropped if the thread has ended.
Mut_StopJoined ==
    /\ owner = "joining"
    /\ owner' = "idle" /\ thread' = NoThread
    /\ UNCHANGED <<stopped, running, coalesce, nextDelay, worker, woken, caller, asked, gaveUp>>
StopJoined ==
    /\ owner = "joining"
    /\ thread \notin Alive
    /\ owner' = "idle" /\ thread' = NoThread
    /\ UNCHANGED <<stopped, running, coalesce, nextDelay, worker, woken, caller, asked, gaveUp>>

\* The deadline passes during either wait; a thread still alive is kept.
StopGivesUp ==
    /\ owner # "idle"
    /\ running \/ thread \in Alive
    /\ owner' = "idle" /\ gaveUp' = TRUE
    /\ thread' = IF thread \in Alive THEN thread ELSE NoThread
    /\ UNCHANGED <<stopped, running, coalesce, nextDelay, worker, woken, caller, asked>>

Trigger ==
    /\ ~stopped
    /\ asked' = TRUE
    /\ \/ running /\ coalesce' = TRUE /\ UNCHANGED <<nextDelay, woken>>
       \/ ~running /\ Wake /\ UNCHANGED coalesce
    /\ UNCHANGED <<stopped, running, thread, worker, caller, owner, gaveUp>>

\* The test and the claim are one critical section.
MayClaim == ~running

RunOnce ==
    /\ caller = "idle"
    /\ \/ /\ MayClaim
          /\ running' = TRUE /\ caller' = "cycle" /\ asked' = FALSE
          /\ UNCHANGED coalesce
       \/ /\ ~MayClaim
          /\ coalesce' = TRUE /\ asked' = (asked \/ ~stopped)
          /\ UNCHANGED <<running, caller>>
    /\ UNCHANGED <<stopped, nextDelay, thread, worker, woken, owner, gaveUp>>

(***************************************************************************)
(* The worker                                                              *)
(***************************************************************************)

\* From the end of the wait to the claim.
Claim(w) ==
    \/ /\ stopped
       /\ worker' = [worker EXCEPT ![w] = "done"]
       /\ UNCHANGED <<running, coalesce, asked>>
    \/ /\ ~stopped /\ ~MayClaim
       /\ coalesce' = TRUE /\ worker' = [worker EXCEPT ![w] = "loop"]
       /\ UNCHANGED <<running, asked>>
    \/ /\ ~stopped /\ MayClaim
       /\ running' = TRUE /\ asked' = FALSE
       /\ worker' = [worker EXCEPT ![w] = "cycle"]
       /\ UNCHANGED coalesce

Loop(w) ==
    /\ worker[w] = "loop"
    /\ nextDelay' = IF stopped THEN nextDelay ELSE "interval"
    /\ \/ /\ ~stopped /\ nextDelay # "zero"
          /\ worker' = [worker EXCEPT ![w] = "waiting"]
          /\ UNCHANGED <<running, coalesce, asked>>
       \/ /\ stopped \/ nextDelay = "zero"
          /\ Claim(w)
    /\ UNCHANGED <<stopped, thread, woken, caller, owner, gaveUp>>

EndWait(w) ==
    /\ Claim(w)
    /\ woken' = woken \ {w}
    /\ UNCHANGED <<stopped, nextDelay, thread, caller, owner, gaveUp>>

WakeUp(w) == worker[w] = "waiting" /\ w \in woken /\ EndWait(w)
TimeOut(w) == worker[w] = "waiting" /\ w \notin woken /\ EndWait(w)

\* After run_storage_maintenance: the delay is set, unless something raised.
Reschedule(w) ==
    /\ worker[w] = "cycle"
    /\ worker' = [worker EXCEPT ![w] = "ending"]
    /\ \/ \E d \in {"soon", "interval"} : nextDelay' = IF stopped THEN nextDelay ELSE d
       \/ UNCHANGED nextDelay
    /\ UNCHANGED <<stopped, running, coalesce, thread, woken, caller, owner, asked, gaveUp>>

\* The finally branch of _run_claimed.
Mut_Finish ==
    /\ running' = FALSE /\ coalesce' = FALSE
    /\ UNCHANGED <<nextDelay, woken>>
Finish ==
    /\ running' = FALSE /\ coalesce' = FALSE
    /\ IF coalesce /\ ~stopped THEN Wake ELSE UNCHANGED <<nextDelay, woken>>

EndCycle(w) ==
    /\ worker[w] = "ending"
    /\ Finish
    /\ worker' = [worker EXCEPT ![w] = "loop"]
    /\ UNCHANGED <<stopped, thread, caller, owner, asked, gaveUp>>

EndRunOnce ==
    /\ caller = "cycle"
    /\ Finish
    /\ caller' = "idle"
    /\ UNCHANGED <<stopped, thread, worker, owner, asked, gaveUp>>

(***************************************************************************)
(* The specification                                                       *)
(***************************************************************************)

Init ==
    /\ stopped = TRUE /\ running = FALSE /\ coalesce = FALSE
    /\ nextDelay = "interval" /\ thread = NoThread
    /\ worker = [w \in Workers |-> "none"] /\ woken = {}
    /\ caller = "idle" /\ owner = "idle" /\ asked = FALSE /\ gaveUp = FALSE

Step(w) == Loop(w) \/ WakeUp(w) \/ Reschedule(w) \/ EndCycle(w)

Next ==
    \/ \E w \in Workers : Start(w) \/ Step(w) \/ TimeOut(w)
    \/ Stop \/ StopWaited \/ StopJoined \/ StopGivesUp \/ Trigger \/ RunOnce \/ EndRunOnce

\* Threads run and cycles end; nothing is assumed of the interval, so that a wake
\* that is served is served by the notification.
Fairness ==
    /\ \A w \in Workers : WF_vars(Step(w))
    /\ SF_vars(StopWaited) /\ WF_vars(StopJoined) /\ WF_vars(EndRunOnce)

Spec == Init /\ [][Next]_vars /\ Fairness

(***************************************************************************)
(* Properties                                                              *)
(***************************************************************************)

\* Types: the scheduler and its threads; the delay is always one that
\* _worker can wait for.
TypeOK ==
    /\ stopped \in BOOLEAN /\ running \in BOOLEAN /\ coalesce \in BOOLEAN
    /\ nextDelay \in {"zero", "soon", "interval"}
    /\ thread \in Workers \cup {NoThread}
    /\ worker \in [Workers -> {"none", "loop", "waiting", "cycle", "ending", "done"}]
    /\ woken \subseteq Workers
    /\ caller \in {"idle", "cycle"} /\ owner \in {"idle", "waiting", "joining"}
    /\ asked \in BOOLEAN /\ gaveUp \in BOOLEAN

InCycle == {w \in Workers : worker[w] \in {"cycle", "ending"}}

\* Cycles never overlap, whoever starts them: the worker, run_once or a second
\* worker that start() made while the first had not ended.
SingleFlight ==
    /\ \A v, w \in InCycle : v = w
    /\ caller = "cycle" => InCycle = {}
    /\ running <=> InCycle # {} \/ caller = "cycle"

\* A wake that trigger or run_once accepted is followed by a cycle that begins
\* after it, or by stop; it is not lost between the worker's test and its wait,
\* nor while a cycle runs.
WakeIsServed == asked ~> ~asked

\* When stop() returns and no deadline passed, no thread is left that could run
\* another cycle against the closing database, and there was only one.
StopQuiesces ==
    [][owner # "idle" /\ owner' = "idle" /\ ~gaveUp' => Alive = {}]_vars
=============================================================================
