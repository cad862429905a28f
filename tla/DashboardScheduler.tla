-------------------------- MODULE DashboardScheduler --------------------------
(***************************************************************************)
(* DashboardPublishScheduler (mqtt/dashboard_scheduler.py): requests to    *)
(* rebuild the dashboard are coalesced by a debounce timer into a single   *)
(* publication.  Threads: the callers of schedule, flush and cancel, and   *)
(* one threading.Timer thread per arming, named by the generation it was   *)
(* armed with.  Every block under self._idle is one step; the build and    *)
(* the broadcast of a dashboard run outside the lock and are steps of      *)
(* their own.                                                              *)
(***************************************************************************)
EXTENDS Integers, FiniteSets

CONSTANTS
    Causes,       \* event vocabulary a request can be attributed to
    NoCause,      \* schedule(cause=None)
    Flushers,     \* threads that may be inside flush()
    Cancellers,   \* threads that may be inside cancel()
    MaxCommits,   \* bound: committed mutations
    MaxCalls      \* bound: calls of schedule, flush and cancel together

ASSUME CauseAssumption == NoCause \notin Causes
ASSUME BoundAssumption == MaxCommits \in Nat /\ MaxCalls \in Nat

VARIABLES
    \* the fields of the object, guarded by self._idle
    timer,             \* generation of self._timer, NoTimer for None
    timerGeneration,   \* self._timer_generation
    publishing, pending, cancelled,
    causes, hasUnattributed,
    \* threads
    armed,             \* timer threads still in their debounce wait
    fired,             \* timer threads past the wait, not yet in _publish
    flushing,          \* threads between the two halves of flush()
    waiting,           \* threads blocked in cancel()
    inflight,          \* threads between the two locked blocks of _publish
    \* what the callers and the clients see
    committed,         \* version of the committed data
    asked,             \* newest version some schedule() call asked to show
    served,            \* newest version a publication was attempted for
    dropped,           \* newest asked version that a cancel() discarded
    shown,             \* version of the last dashboard that was broadcast
    calls,
    cancels            \* how often cancel() was called; only the promise reads it

fields == <<timer, timerGeneration, publishing, pending, cancelled,
            causes, hasUnattributed>>
threads == <<armed, fired, flushing, waiting, inflight>>
outside == <<committed, asked, served, dropped, shown, calls, cancels>>
vars == <<fields, threads, outside>>

NoTimer == 0

\* A thread in _publish: what it took under the lock, how far it is and the
\* version of the data its dashboard was built from.
Publication == [by : Nat \cup Flushers, step : {"build", "send", "done"},
                causes : SUBSET Causes, generic : BOOLEAN, snap : Nat]

(***************************************************************************)
(* schedule, flush, cancel                                                 *)
(***************************************************************************)

\* _schedule_locked: a new timer under a new generation.  It does not cancel
\* the one it replaces; a caller that does passes what stays armed.
Mut_ScheduleLocked(stillArmed) ==
    /\ timerGeneration' = timerGeneration + 1
    /\ timer' = timerGeneration + 1
    /\ armed' = stillArmed
ScheduleLocked(stillArmed) ==
    /\ timerGeneration' = timerGeneration + 1
    /\ timer' = timerGeneration + 1
    /\ armed' = stillArmed \cup {timerGeneration + 1}

\* Timer.cancel() only stops a thread that is still in its wait.
ArmedAfterCancel == armed \ {timer}

Call == calls < MaxCalls /\ calls' = calls + 1

RecordRequest(cause) ==
    IF cause = NoCause
      THEN hasUnattributed' = TRUE /\ UNCHANGED causes
      ELSE causes' = causes \cup {cause} /\ UNCHANGED hasUnattributed

\* The publication in flight re-arms, or else the timer is restarted.
RequestWakeup ==
    IF publishing
      THEN pending' = TRUE /\ UNCHANGED <<timer, timerGeneration, armed>>
      ELSE UNCHANGED pending /\ ScheduleLocked(ArmedAfterCancel)

Schedule(cause) ==
    /\ Call
    /\ cancelled' = FALSE
    /\ RecordRequest(cause)
    /\ asked' = committed
    /\ RequestWakeup
    /\ UNCHANGED <<publishing, fired, flushing, waiting, inflight,
                   committed, served, dropped, shown, cancels>>

\* flush(), up to the release of the lock.
FlushBegin(f) ==
    /\ f \notin flushing
    /\ Call
    /\ IF timer # NoTimer
         THEN /\ armed' = ArmedAfterCancel
              /\ timer' = NoTimer
              /\ timerGeneration' = timerGeneration + 1
         ELSE UNCHANGED <<armed, timer, timerGeneration>>
    /\ cancelled' = FALSE
    /\ pending' = FALSE
    /\ flushing' = flushing \cup {f}
    /\ UNCHANGED <<publishing, causes, hasUnattributed, fired, waiting,
                   inflight, committed, asked, served, dropped, shown, cancels>>

\* cancel(wait=True, timeout=None), as AppContext.close calls it: blocked
\* while a publication is in flight.
Cancel(c) ==
    /\ c \notin waiting
    /\ Call
    /\ cancelled' = TRUE
    /\ pending' = FALSE
    /\ causes' = {}
    /\ hasUnattributed' = FALSE
    /\ armed' = ArmedAfterCancel
    /\ timer' = NoTimer
    /\ timerGeneration' = timerGeneration + 1
    /\ waiting' = IF publishing THEN waiting \cup {c} ELSE waiting
    /\ dropped' = asked
    /\ cancels' = cancels + 1
    /\ UNCHANGED <<publishing, fired, flushing, inflight,
                   committed, asked, served, shown>>

\* wait_for: the predicate is evaluated again under the lock.
CancelReturn(c) ==
    /\ c \in waiting
    /\ ~publishing
    /\ waiting' = waiting \ {c}
    /\ UNCHANGED <<fields, armed, fired, flushing, inflight, outside>>

(***************************************************************************)
(* _publish                                                                *)
(***************************************************************************)

Fire(g) ==
    /\ g \in armed
    /\ armed' = armed \ {g}
    /\ fired' = fired \cup {g}
    /\ UNCHANGED <<fields, flushing, waiting, inflight, outside>>

Take(thread) ==
    /\ publishing' = TRUE
    /\ inflight' = inflight \cup
         {[by |-> thread, step |-> "build", causes |-> causes,
           generic |-> hasUnattributed \/ causes = {}, snap |-> 0]}
    /\ causes' = {}
    /\ hasUnattributed' = FALSE
    /\ UNCHANGED pending

\* The first locked block once the generation test has passed.
Mut_ClaimBusy(thread) ==
    /\ IF cancelled \/ publishing
         THEN UNCHANGED <<pending, publishing, causes, hasUnattributed, inflight>>
         ELSE Take(thread)
    /\ UNCHANGED <<timerGeneration, cancelled, armed, waiting, outside>>
Claim(thread) ==
    /\ \/ /\ cancelled
          /\ UNCHANGED <<pending, publishing, causes, hasUnattributed, inflight>>
       \/ /\ ~cancelled /\ publishing
          /\ pending' = TRUE
          /\ UNCHANGED <<publishing, causes, hasUnattributed, inflight>>
       \/ /\ ~cancelled /\ ~publishing
          /\ Take(thread)
    /\ UNCHANGED <<timerGeneration, cancelled, armed, waiting, outside>>

TimerPublish(g) ==
    /\ g \in fired
    /\ fired' = fired \ {g}
    /\ IF g # timerGeneration
         THEN UNCHANGED <<fields, armed, waiting, inflight, outside>>
         ELSE timer' = NoTimer /\ Claim(g)
    /\ UNCHANGED flushing

FlushPublish(f) ==
    /\ f \in flushing
    /\ flushing' = flushing \ {f}
    /\ Claim(f)
    /\ UNCHANGED <<timer, fired>>

Advance(p, q) == inflight' = (inflight \ {p}) \cup {q}

\* ctx.data.dashboard() reads the committed data, or raises.
Build(p) ==
    /\ p \in inflight /\ p.step = "build"
    /\ \/ Advance(p, [p EXCEPT !.step = "send", !.snap = committed])
       \/ Advance(p, [p EXCEPT !.step = "done"])
    /\ served' = committed
    /\ UNCHANGED <<fields, armed, fired, flushing, waiting,
                   committed, asked, dropped, shown, calls, cancels>>

\* publish_dashboard_update hands the dashboard to the event loop, or raises.
Send(p) ==
    /\ p \in inflight /\ p.step = "send"
    /\ Advance(p, [p EXCEPT !.step = "done"])
    /\ shown' \in {p.snap, shown}
    /\ UNCHANGED <<fields, armed, fired, flushing, waiting,
                   committed, asked, served, dropped, calls, cancels>>

Mut_Rearm ==
    pending' = FALSE /\ UNCHANGED <<timer, timerGeneration, armed>>
Rearm ==
    IF pending /\ ~cancelled
      THEN pending' = FALSE /\ ScheduleLocked(armed)
      ELSE UNCHANGED <<pending, timer, timerGeneration, armed>>

\* The finally block.
Finish(p) ==
    /\ p \in inflight /\ p.step = "done"
    /\ inflight' = inflight \ {p}
    /\ publishing' = FALSE
    /\ Rearm
    /\ UNCHANGED <<cancelled, causes, hasUnattributed, fired, flushing,
                   waiting, outside>>

(***************************************************************************)
(* The callers' mutations and the whole system                             *)
(***************************************************************************)

\* A mutation owner commits; it calls schedule() afterwards.
Commit ==
    /\ committed < MaxCommits
    /\ committed' = committed + 1
    /\ UNCHANGED <<fields, threads, asked, served, dropped, shown, calls, cancels>>

Init ==
    /\ timer = NoTimer /\ timerGeneration = 0
    /\ publishing = FALSE /\ pending = FALSE /\ cancelled = FALSE
    /\ causes = {} /\ hasUnattributed = FALSE
    /\ armed = {} /\ fired = {} /\ flushing = {} /\ waiting = {}
    /\ inflight = {}
    /\ committed = 0 /\ asked = 0 /\ served = 0 /\ dropped = 0 /\ shown = 0
    /\ calls = 0 /\ cancels = 0

TimerThread == \E g \in armed \cup fired : Fire(g) \/ TimerPublish(g)
FlushThread == \E f \in Flushers : FlushPublish(f)
Publisher == \E p \in inflight : Build(p) \/ Send(p) \/ Finish(p)
CancelThread == \E c \in Cancellers : CancelReturn(c)

Next ==
    \/ Commit
    \/ \E cause \in Causes \cup {NoCause} : Schedule(cause)
    \/ \E f \in Flushers : FlushBegin(f)
    \/ \E c \in Cancellers : Cancel(c)
    \/ TimerThread \/ FlushThread \/ Publisher \/ CancelThread

\* A started timer fires and a runnable thread runs; nobody has to call.
Fairness ==
    WF_vars(TimerThread) /\ WF_vars(FlushThread)
      /\ WF_vars(Publisher) /\ WF_vars(CancelThread)

Spec == Init /\ [][Next]_vars /\ Fairness

(***************************************************************************)
(* Properties                                                              *)
(***************************************************************************)

\* Types: the fields of the scheduler and what its threads carry; a request is
\* recorded under a known cause or as unattributed (schedule).
TypeOK ==
    /\ timer \in Nat /\ timerGeneration \in Nat
    /\ publishing \in BOOLEAN /\ pending \in BOOLEAN /\ cancelled \in BOOLEAN
    /\ causes \in SUBSET Causes /\ hasUnattributed \in BOOLEAN
    /\ armed \in SUBSET Nat /\ fired \in SUBSET Nat
    /\ flushing \in SUBSET Flushers /\ waiting \in SUBSET Cancellers
    /\ inflight \in SUBSET Publication
    /\ committed \in Nat /\ asked \in Nat /\ served \in Nat
    /\ dropped \in Nat /\ shown \in Nat /\ calls \in Nat
    /\ cancels \in Nat

\* Something will still start a publication: a timer thread of the current
\* generation, a publisher that will re-arm, or a flush on its way.
WakeupDue ==
    \/ timerGeneration \in armed \cup fired /\ timer = timerGeneration
    \/ publishing /\ pending
    \/ flushing # {}

\* At most one thread builds and broadcasts at a time, whatever timers,
\* flushes and re-armings race for it, and the flag says so exactly.
SingleFlight ==
    /\ publishing <=> inflight # {}
    /\ \A p, q \in inflight : p = q

\* No recorded request is stranded: while a cause (or an unattributed request)
\* is recorded, something is bound to pick it up.
NoStrandedRequest ==
    causes # {} \/ hasUnattributed => WakeupDue

\* A version somebody asked to show has been attempted, was cancelled, is about
\* to be read by the publication in flight, or still has a wake-up due.
NoLostUpdate ==
    asked > served /\ asked > dropped =>
        WakeupDue \/ \E p \in inflight : p.step = "build"

\* Once every cancel() has returned and nobody has called since, no thread is
\* inside _publish: AppContext.close may close the database.
CancelQuiesces ==
    cancelled /\ waiting = {} => inflight = {}

\* The dashboards clients receive never go back to older data.
ShownNeverRegresses == [][shown' >= shown]_vars

\* The publication that is under way.
Working ==
    IF inflight = {} THEN [step |-> "idle", snap |-> 0]
    ELSE LET p == CHOOSE p \in inflight : TRUE IN [step |-> p.step, snap |-> p.snap]

Promise == INSTANCE DashboardPromise WITH due <- ~cancelled /\ WakeupDue, work <- Working

\* Whatever timers, flushes, re-armings and cancels race, the scheduler keeps the
\* promise of DashboardPromise: what is due stays due until a publication begins or
\* somebody calls cancel() (cancels counts those calls, and no other step may drop a
\* request), one publication runs at a time on data read after it began, and clients
\* never go back.
KeepsPromise == Promise!PSpec

\* Every request is eventually attempted, unless a cancel discards it.
EveryRequestServed ==
    \A v \in 1..MaxCommits :
        asked >= v ~> served >= v \/ dropped >= v
=============================================================================
