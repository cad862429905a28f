----------------------- MODULE DashboardSchedulerProofs -----------------------
(***************************************************************************)
(* The safety of DashboardScheduler for every set of causes and threads    *)
(* and every bound.                                                        *)
(***************************************************************************)
EXTENDS DashboardScheduler, TLAPS

\* self._timer is the timer of the current generation and its thread lives.
TimerCurrent ==
    timer # NoTimer => timer = timerGeneration /\ timer \in armed \cup fired

\* A re-arming is only promised by a publication that will honour it.
PendingHonoured == pending => publishing /\ ~cancelled

\* Cancelling leaves no request behind.
CancelledIsEmpty ==
    cancelled => causes = {} /\ ~hasUnattributed /\ asked <= dropped

\* Versions never exceed what was committed, and a dashboard about to be
\* broadcast is at least as new as the last one.
VersionOrder ==
    /\ asked <= committed /\ shown <= committed
    /\ \A p \in inflight : p.step = "send" => shown <= p.snap /\ p.snap <= committed

IInv ==
    /\ TypeOK /\ SingleFlight /\ TimerCurrent /\ PendingHonoured
    /\ CancelledIsEmpty /\ VersionOrder
    /\ NoStrandedRequest /\ NoLostUpdate /\ CancelQuiesces

USE DEF NoTimer

\* The invariant holds of a scheduler nobody has used yet.
LEMMA InitIInv == Init => IInv
<1> SUFFICES ASSUME Init PROVE IInv
  OBVIOUS
<1>1. TypeOK
  BY DEF Init, TypeOK
<1>2. SingleFlight /\ TimerCurrent /\ VersionOrder
  BY DEF Init, SingleFlight, TimerCurrent, VersionOrder
<1>3. PendingHonoured /\ CancelledIsEmpty /\ CancelQuiesces
  BY DEF Init, PendingHonoured, CancelledIsEmpty, CancelQuiesces
<1>4. NoStrandedRequest /\ NoLostUpdate
  BY DEF Init, NoStrandedRequest, NoLostUpdate
<1> QED BY <1>1, <1>2, <1>3, <1>4 DEF IInv

\* A new timer keeps the types and is the current one.
LEMMA ScheduleLockedStep ==
  ASSUME TypeOK, NEW S \in SUBSET Nat, ScheduleLocked(S)
  PROVE  /\ timer' \in Nat /\ timerGeneration' \in Nat /\ armed' \in SUBSET Nat
         /\ timer' = timerGeneration' /\ timer' \in armed'
         /\ timer' # NoTimer
  BY DEF TypeOK, ScheduleLocked

\* A commit raises the version only, so it keeps the invariant.
LEMMA CommitStep == IInv /\ Commit => IInv'
  BY BoundAssumption DEF IInv, Commit, TypeOK, SingleFlight, TimerCurrent,
     PendingHonoured, CancelledIsEmpty, VersionOrder, NoStrandedRequest,
     NoLostUpdate, CancelQuiesces, WakeupDue, Publication, fields, threads

\* schedule keeps the invariant: the request is armed, or pending behind the publisher.
LEMMA ScheduleStep ==
  ASSUME IInv, NEW cause \in Causes \cup {NoCause}, Schedule(cause)
  PROVE  IInv'
<1> USE DEF IInv, Schedule
<1>1. TypeOK'
  <2>1. causes' \in SUBSET Causes /\ hasUnattributed' \in BOOLEAN
    BY CauseAssumption DEF RecordRequest, TypeOK
  <2>2. ArmedAfterCancel \in SUBSET Nat
    BY DEF ArmedAfterCancel, TypeOK
  <2>3. /\ timer' \in Nat /\ timerGeneration' \in Nat /\ armed' \in SUBSET Nat
        /\ pending' \in BOOLEAN
    BY <2>2, ScheduleLockedStep DEF RequestWakeup, TypeOK
  <2>4. calls' \in Nat /\ asked' \in Nat
    BY DEF TypeOK, Call
  <2> QED BY <2>1, <2>3, <2>4 DEF TypeOK
<1>2. SingleFlight' /\ PendingHonoured' /\ CancelledIsEmpty' /\ CancelQuiesces'
  BY DEF SingleFlight, PendingHonoured, CancelledIsEmpty, CancelQuiesces,
     RequestWakeup
<1>3. TimerCurrent' /\ WakeupDue'
  <2>1. CASE publishing
    BY <2>1 DEF RequestWakeup, TimerCurrent, WakeupDue
  <2>2. CASE ~publishing
    <3>1. ArmedAfterCancel \in SUBSET Nat
      BY DEF ArmedAfterCancel, TypeOK
    <3> QED BY <2>2, <3>1, ScheduleLockedStep
            DEF RequestWakeup, TimerCurrent, WakeupDue
  <2> QED BY <2>1, <2>2 DEF TypeOK
<1>4. VersionOrder'
  BY DEF VersionOrder, TypeOK
<1> QED BY <1>1, <1>2, <1>3, <1>4 DEF NoStrandedRequest, NoLostUpdate

\* The first half of flush keeps the invariant: it stops the timer and will claim the publication.
LEMMA FlushBeginStep ==
  ASSUME IInv, NEW f \in Flushers, FlushBegin(f)
  PROVE  IInv'
<1> USE DEF IInv, FlushBegin
<1>1. TypeOK'
  <2>1. calls' \in Nat
    BY DEF TypeOK, Call
  <2>2. timer' \in Nat /\ timerGeneration' \in Nat
    BY DEF TypeOK
  <2>3. armed' \in SUBSET Nat
    BY DEF TypeOK, ArmedAfterCancel
  <2>4. flushing' \in SUBSET Flushers
    BY DEF TypeOK
  <2> QED BY <2>1, <2>2, <2>3, <2>4 DEF TypeOK
<1>2. SingleFlight' /\ PendingHonoured' /\ CancelledIsEmpty' /\ CancelQuiesces'
  BY DEF SingleFlight, PendingHonoured, CancelledIsEmpty, CancelQuiesces
<1>3. TimerCurrent' /\ WakeupDue'
  BY DEF TimerCurrent, WakeupDue, TypeOK
<1>4. VersionOrder'
  BY DEF VersionOrder
<1> QED BY <1>1, <1>2, <1>3, <1>4 DEF NoStrandedRequest, NoLostUpdate

\* cancel keeps the invariant: the timer, the causes and the pending mark go together.
LEMMA CancelStep ==
  ASSUME IInv, NEW c \in Cancellers, Cancel(c)
  PROVE  IInv'
<1> USE DEF IInv, Cancel
<1>1. TypeOK'
  <2>1. calls' \in Nat
    BY DEF TypeOK, Call
  <2>2. /\ timer' \in Nat /\ timerGeneration' \in Nat /\ armed' \in SUBSET Nat
        /\ waiting' \in SUBSET Cancellers /\ causes' \in SUBSET Causes
        /\ dropped' \in Nat /\ cancels' \in Nat
    BY DEF TypeOK, ArmedAfterCancel
  <2> QED BY <2>1, <2>2 DEF TypeOK
<1>2. SingleFlight' /\ PendingHonoured' /\ CancelledIsEmpty'
  BY DEF SingleFlight, PendingHonoured, CancelledIsEmpty, TypeOK
<1>3. CancelQuiesces'
  BY DEF CancelQuiesces, SingleFlight
<1>4. TimerCurrent' /\ VersionOrder'
  BY DEF TimerCurrent, VersionOrder
<1>5. NoStrandedRequest' /\ NoLostUpdate'
  BY DEF NoStrandedRequest, NoLostUpdate, TypeOK
<1> QED BY <1>1, <1>2, <1>3, <1>4, <1>5

\* The return of cancel keeps the invariant: it waits for the publication to end.
LEMMA CancelReturnStep ==
  ASSUME IInv, NEW c \in Cancellers, CancelReturn(c)
  PROVE  IInv'
  BY DEF CancelReturn, IInv, TypeOK, SingleFlight, TimerCurrent,
     PendingHonoured, CancelledIsEmpty, VersionOrder, NoStrandedRequest,
     NoLostUpdate, CancelQuiesces, WakeupDue, fields, outside

\* A timer thread that starts keeps the invariant: it only begins to look at its generation.
LEMMA FireStep ==
  ASSUME IInv, NEW g, Fire(g)
  PROVE  IInv'
<1> USE DEF IInv, Fire, fields, outside
<1>1. TypeOK'
  BY DEF TypeOK
<1>2. armed' \cup fired' = armed \cup fired
  OBVIOUS
<1>3. WakeupDue' <=> WakeupDue
  BY <1>2 DEF WakeupDue
<1>4. SingleFlight' /\ PendingHonoured' /\ CancelledIsEmpty' /\ VersionOrder'
      /\ TimerCurrent' /\ CancelQuiesces'
  BY <1>2 DEF SingleFlight, PendingHonoured, CancelledIsEmpty, VersionOrder,
     TimerCurrent, CancelQuiesces
<1>5. NoStrandedRequest' /\ NoLostUpdate'
  BY <1>3 DEF NoStrandedRequest, NoLostUpdate
<1> QED BY <1>1, <1>4, <1>5

\* The part of the invariant that the first locked block of _publish keeps,
\* for a timer thread and for a flushing thread alike, and what it leaves due.
LEMMA ClaimStep ==
  ASSUME IInv, NEW t \in Nat \cup Flushers, Claim(t)
  PROVE  /\ pending' \in BOOLEAN /\ publishing' \in BOOLEAN
         /\ causes' \in SUBSET Causes /\ hasUnattributed' \in BOOLEAN
         /\ inflight' \in SUBSET Publication
         /\ SingleFlight' /\ PendingHonoured' /\ CancelledIsEmpty'
         /\ VersionOrder' /\ CancelQuiesces'
         /\ NoStrandedRequest' /\ NoLostUpdate'
<1> USE DEF IInv, outside
<1>1. CASE cancelled /\ UNCHANGED <<pending, publishing, causes, hasUnattributed, inflight>>
  <2>1. UNCHANGED <<cancelled, waiting, outside>>
    BY DEF Claim
  <2>2. SingleFlight' /\ PendingHonoured' /\ CancelledIsEmpty' /\ VersionOrder'
        /\ CancelQuiesces'
    BY <1>1, <2>1 DEF SingleFlight, PendingHonoured, CancelledIsEmpty,
       VersionOrder, CancelQuiesces
  <2>3. NoStrandedRequest' /\ NoLostUpdate'
    BY <1>1, <2>1 DEF NoStrandedRequest, NoLostUpdate, CancelledIsEmpty, TypeOK
  <2> QED BY <1>1, <2>2, <2>3 DEF TypeOK
<1>2. CASE /\ ~cancelled /\ publishing /\ pending' = TRUE
           /\ UNCHANGED <<publishing, causes, hasUnattributed, inflight>>
  <2>1. UNCHANGED <<cancelled, waiting, outside>>
    BY DEF Claim
  <2>2. SingleFlight' /\ PendingHonoured' /\ CancelledIsEmpty' /\ VersionOrder'
        /\ CancelQuiesces'
    BY <1>2, <2>1 DEF SingleFlight, PendingHonoured, CancelledIsEmpty,
       VersionOrder, CancelQuiesces
  <2>3. WakeupDue'
    BY <1>2 DEF WakeupDue
  <2> QED BY <1>2, <2>2, <2>3 DEF TypeOK, NoStrandedRequest, NoLostUpdate
<1>3. CASE ~cancelled /\ ~publishing /\ Take(t)
  <2>1. UNCHANGED <<cancelled, waiting, outside>>
    BY DEF Claim
  <2> DEFINE p == [by |-> t, step |-> "build", causes |-> causes,
                   generic |-> hasUnattributed \/ causes = {}, snap |-> 0]
  <2>2. inflight' = {p}
    BY <1>3 DEF Take, SingleFlight
  <2>3. p \in Publication
    BY DEF TypeOK, Publication
  <2>4. p.step = "build"
    OBVIOUS
  <2> HIDE DEF p
  <2>5. SingleFlight' /\ PendingHonoured' /\ CancelledIsEmpty' /\ CancelQuiesces'
    BY <1>3, <2>1, <2>2 DEF Take, SingleFlight, PendingHonoured,
       CancelledIsEmpty, CancelQuiesces
  <2>6. VersionOrder'
    BY <2>1, <2>2, <2>4 DEF VersionOrder
  <2>7. NoStrandedRequest' /\ NoLostUpdate'
    BY <1>3, <2>2, <2>4 DEF Take, NoStrandedRequest, NoLostUpdate
  <2>8. /\ pending' \in BOOLEAN /\ publishing' \in BOOLEAN
        /\ causes' \in SUBSET Causes /\ hasUnattributed' \in BOOLEAN
        /\ inflight' \in SUBSET Publication
    BY <1>3, <2>2, <2>3 DEF Take, TypeOK
  <2> QED BY <2>5, <2>6, <2>7, <2>8
<1> QED BY <1>1, <1>2, <1>3 DEF Claim

\* A timer thread that claims the publication, or finds itself stale, keeps the invariant.
LEMMA TimerPublishStep ==
  ASSUME IInv, NEW g \in fired, TimerPublish(g)
  PROVE  IInv'
<1> USE DEF IInv, TimerPublish
<1>1. CASE g # timerGeneration
  <2>1. /\ fired' = fired \ {g}
        /\ UNCHANGED <<fields, armed, waiting, inflight, outside, flushing>>
    BY <1>1
  <2>2. WakeupDue' <=> WakeupDue
    BY <1>1, <2>1 DEF WakeupDue, fields
  <2>3. TypeOK' /\ SingleFlight' /\ TimerCurrent' /\ PendingHonoured'
        /\ CancelledIsEmpty' /\ VersionOrder' /\ CancelQuiesces'
    BY <1>1, <2>1 DEF TypeOK, SingleFlight, TimerCurrent, PendingHonoured,
       CancelledIsEmpty, VersionOrder, CancelQuiesces, fields, outside
  <2> QED BY <2>1, <2>2, <2>3 DEF NoStrandedRequest, NoLostUpdate, fields, outside
<1>2. CASE g = timerGeneration
  <2>1. timer' = NoTimer /\ Claim(g) /\ fired' = fired \ {g} /\ UNCHANGED flushing
    BY <1>2
  <2>2. g \in Nat \cup Flushers
    BY DEF TypeOK
  <2>3. UNCHANGED <<timerGeneration, cancelled, armed, waiting, outside>>
    BY <2>1 DEF Claim
  <2>4. TypeOK'
    BY <2>1, <2>2, <2>3, ClaimStep DEF TypeOK, outside
  <2>5. TimerCurrent'
    BY <2>1 DEF TimerCurrent
  <2> QED BY <2>1, <2>2, <2>4, <2>5, ClaimStep
<1> QED BY <1>1, <1>2

\* A flush that claims the publication keeps the invariant.
LEMMA FlushPublishStep ==
  ASSUME IInv, NEW f \in Flushers, FlushPublish(f)
  PROVE  IInv'
<1> USE DEF IInv, FlushPublish
<1>1. UNCHANGED <<timerGeneration, cancelled, armed, waiting, outside>>
  BY DEF Claim
<1>2. TypeOK'
  BY <1>1, ClaimStep DEF TypeOK, outside
<1>3. TimerCurrent'
  BY <1>1 DEF TimerCurrent
<1> QED BY <1>2, <1>3, ClaimStep

\* The build keeps the invariant: what it read is what had been committed.
LEMMA BuildStep ==
  ASSUME IInv, NEW p \in inflight, Build(p)
  PROVE  IInv'
<1> USE DEF IInv, Build
<1>1. PICK q : /\ inflight' = (inflight \ {p}) \cup {q}
               /\ \/ q = [p EXCEPT !.step = "send", !.snap = committed]
                  \/ q = [p EXCEPT !.step = "done"]
  BY DEF Advance
<1>2. p \in Publication /\ committed \in Nat
  BY DEF TypeOK
<1>3. /\ q \in Publication
      /\ \/ q.step = "send" /\ q.snap = committed
         \/ q.step = "done"
  BY <1>1, <1>2 DEF Publication
<1>4. inflight' = {q} /\ publishing
  BY <1>1 DEF SingleFlight
<1>5. TypeOK'
  BY <1>3, <1>4 DEF TypeOK, fields
<1>6. SingleFlight' /\ TimerCurrent' /\ PendingHonoured' /\ CancelledIsEmpty'
      /\ CancelQuiesces'
  BY <1>4 DEF SingleFlight, TimerCurrent, PendingHonoured, CancelledIsEmpty,
     CancelQuiesces, fields
<1>7. VersionOrder'
  BY <1>2, <1>3, <1>4 DEF VersionOrder, TypeOK
<1>8. NoStrandedRequest' /\ NoLostUpdate'
  BY DEF NoStrandedRequest, NoLostUpdate, WakeupDue, VersionOrder, TypeOK, fields
<1> QED BY <1>5, <1>6, <1>7, <1>8

\* The broadcast keeps the invariant: clients move to the version that was built.
LEMMA SendStep ==
  ASSUME IInv, NEW p \in inflight, Send(p)
  PROVE  IInv' /\ shown' >= shown
<1> USE DEF IInv, Send
<1> DEFINE q == [p EXCEPT !.step = "done"]
<1>1. p \in Publication /\ p.step = "send"
  BY DEF TypeOK
<1>2. q \in Publication /\ q.step = "done"
  BY <1>1 DEF Publication
<1>3. inflight' = (inflight \ {p}) \cup {q}
  BY DEF Advance
<1> HIDE DEF q
<1>4. inflight' = {q} /\ publishing /\ \A r \in inflight : r = p
  BY <1>3 DEF SingleFlight
<1>5. shown' \in Nat /\ shown' >= shown /\ shown' <= committed
  BY <1>1 DEF VersionOrder, TypeOK, Publication
<1>6. TypeOK'
  BY <1>2, <1>4, <1>5 DEF TypeOK, fields
<1>7. SingleFlight' /\ TimerCurrent' /\ PendingHonoured' /\ CancelledIsEmpty'
      /\ CancelQuiesces'
  BY <1>4 DEF SingleFlight, TimerCurrent, PendingHonoured, CancelledIsEmpty,
     CancelQuiesces, fields
<1>8. VersionOrder'
  BY <1>2, <1>4, <1>5 DEF VersionOrder
<1>9. NoStrandedRequest' /\ NoLostUpdate'
  BY <1>1, <1>4 DEF NoStrandedRequest, NoLostUpdate, WakeupDue, fields
<1> QED BY <1>5, <1>6, <1>7, <1>8, <1>9

\* The end of a publication keeps the invariant: a pending request is armed again.
LEMMA FinishStep ==
  ASSUME IInv, NEW p \in inflight, Finish(p)
  PROVE  IInv'
<1> USE DEF IInv, Finish
<1>1. inflight' = {} /\ publishing /\ \A r \in inflight : r = p
  BY DEF SingleFlight
<1>2. armed \in SUBSET Nat
  BY DEF TypeOK
<1>3. TypeOK'
  BY <1>1, <1>2, ScheduleLockedStep DEF TypeOK, Rearm, outside
<1>4. SingleFlight' /\ PendingHonoured' /\ CancelledIsEmpty' /\ CancelQuiesces'
      /\ VersionOrder'
  BY <1>1 DEF SingleFlight, PendingHonoured, CancelledIsEmpty, CancelQuiesces,
     VersionOrder, Rearm, outside
<1>5. TimerCurrent'
  BY <1>2, ScheduleLockedStep DEF TimerCurrent, Rearm
<1>6. WakeupDue => WakeupDue'
  BY <1>2, ScheduleLockedStep DEF WakeupDue, Rearm, PendingHonoured
<1>7. NoStrandedRequest' /\ NoLostUpdate'
  BY <1>1, <1>6 DEF NoStrandedRequest, NoLostUpdate, outside
<1> QED BY <1>3, <1>4, <1>5, <1>7

\* Every step keeps the invariant.
LEMMA NextIInv == IInv /\ [Next]_vars => IInv'
<1> SUFFICES ASSUME IInv, [Next]_vars PROVE IInv'
  OBVIOUS
<1>1. CASE UNCHANGED vars
  BY <1>1 DEF vars, fields, threads, outside, IInv, TypeOK, SingleFlight,
     TimerCurrent, PendingHonoured, CancelledIsEmpty, VersionOrder,
     NoStrandedRequest, NoLostUpdate, CancelQuiesces, WakeupDue
<1>2. CASE Commit
  BY <1>2, CommitStep
<1>3. CASE \E cause \in Causes \cup {NoCause} : Schedule(cause)
  BY <1>3, ScheduleStep
<1>4. CASE \E f \in Flushers : FlushBegin(f)
  BY <1>4, FlushBeginStep
<1>5. CASE \E c \in Cancellers : Cancel(c)
  BY <1>5, CancelStep
<1>6. CASE TimerThread
  <2>1. PICK g \in armed \cup fired : Fire(g) \/ TimerPublish(g)
    BY <1>6 DEF TimerThread
  <2>2. TimerPublish(g) => g \in fired
    BY DEF TimerPublish
  <2> QED BY <2>1, <2>2, FireStep, TimerPublishStep
<1>7. CASE FlushThread
  BY <1>7, FlushPublishStep DEF FlushThread
<1>8. CASE Publisher
  BY <1>8, BuildStep, SendStep, FinishStep DEF Publisher
<1>9. CASE CancelThread
  BY <1>9, CancelReturnStep DEF CancelThread
<1> QED BY <1>1, <1>2, <1>3, <1>4, <1>5, <1>6, <1>7, <1>8, <1>9 DEF Next

\* The inductive invariant holds in every reachable state.
THEOREM Safety == Spec => []IInv
<1>1. Init => IInv
  BY InitIInv
<1>2. IInv /\ [Next]_vars => IInv'
  BY NextIInv
<1> QED BY <1>1, <1>2, PTL DEF Spec

\* The fields and the threads of the scheduler keep their types.
THEOREM TypeCorrect == Spec => []TypeOK
<1>1. IInv => TypeOK
  BY DEF IInv
<1> QED BY <1>1, Safety, PTL

\* However many timers, flushes and re-armings race, one thread publishes.
THEOREM OnePublisher == Spec => []SingleFlight
<1>1. IInv => SingleFlight
  BY DEF IInv
<1> QED BY <1>1, Safety, PTL

\* Neither a recorded request nor a version asked for is left without a
\* wake-up: coalescing loses nothing.
THEOREM CoalescingIsLossless == Spec => [](NoStrandedRequest /\ NoLostUpdate)
<1>1. IInv => NoStrandedRequest /\ NoLostUpdate
  BY DEF IInv
<1> QED BY <1>1, Safety, PTL

\* After cancel() returned nothing publishes until somebody asks again.
THEOREM CancelIsFinal == Spec => []CancelQuiesces
<1>1. IInv => CancelQuiesces
  BY DEF IInv
<1> QED BY <1>1, Safety, PTL

\* Clients never receive an older dashboard after a newer one.
THEOREM ShownMonotone == Spec => ShownNeverRegresses
<1>1. IInv /\ [Next]_vars => [shown' >= shown]_vars
  <2> SUFFICES ASSUME IInv, Next PROVE shown' >= shown
    BY DEF vars
  <2>1. CASE \E p \in inflight : Send(p)
    BY <2>1, SendStep
  <2>2. CASE UNCHANGED shown
    BY <2>2 DEF IInv, TypeOK
  <2>3. Next => (\E p \in inflight : Send(p)) \/ UNCHANGED shown
    BY DEF Next, Commit, Schedule, FlushBegin, Cancel, TimerThread, Fire,
       TimerPublish, Claim, FlushThread, FlushPublish, Publisher, Build,
       Finish, CancelThread, CancelReturn, outside
  <2> QED BY <2>1, <2>2, <2>3
<1> QED BY <1>1, Safety, PTL DEF Spec, ShownNeverRegresses

(***************************************************************************)
(* Refinement                                                              *)
(***************************************************************************)

\* The threads of timers that were armed: each has one place, none is of a
\* generation to come, and one of the present generation is the timer.
TimersKnown ==
    /\ armed \cap fired = {}
    /\ \A g \in armed \cup fired : g <= timerGeneration
    /\ timerGeneration \in armed \cup fired => timer = timerGeneration

\* Timers are armed under new generations only.
LEMMA TimersStep == IInv /\ TimersKnown /\ [Next]_vars => TimersKnown'
<1> SUFFICES ASSUME IInv, TimersKnown, [Next]_vars PROVE TimersKnown'
  OBVIOUS
<1> USE DEF TimersKnown
<1>0. TypeOK BY DEF IInv
<1>1. CASE UNCHANGED <<timer, timerGeneration, armed, fired>>
  BY <1>1
<1>2. ASSUME NEW S \in SUBSET armed, ScheduleLocked(S), UNCHANGED fired
      PROVE  TimersKnown'
  BY <1>0, <1>2 DEF ScheduleLocked, TypeOK
<1>3. ASSUME armed' \subseteq armed, timerGeneration' = timerGeneration + 1, UNCHANGED fired
      PROVE  TimersKnown'
  BY <1>0, <1>3 DEF TypeOK
<1>4. CASE \E cause \in Causes \cup {NoCause} : Schedule(cause)
  <2>1. UNCHANGED fired /\ RequestWakeup BY <1>4 DEF Schedule
  <2>2. CASE publishing BY <1>1, <2>1, <2>2 DEF RequestWakeup
  <2>3. CASE ~publishing
    <3>1. ScheduleLocked(ArmedAfterCancel) BY <2>1, <2>3 DEF RequestWakeup
    <3> QED BY <1>2, <2>1, <3>1 DEF ArmedAfterCancel
  <2> QED BY <2>2, <2>3
<1>5. CASE \E f \in Flushers : FlushBegin(f)
  <2>1. CASE timer # NoTimer BY <1>3, <1>5, <2>1 DEF FlushBegin, ArmedAfterCancel
  <2>2. CASE timer = NoTimer BY <1>1, <1>5, <2>2 DEF FlushBegin
  <2> QED BY <2>1, <2>2
<1>6. CASE \E c \in Cancellers : Cancel(c)
  BY <1>3, <1>6 DEF Cancel, ArmedAfterCancel
<1>7. CASE TimerThread
  <2>1. PICK g \in armed \cup fired : Fire(g) \/ TimerPublish(g)
    BY <1>7 DEF TimerThread
  <2>2. CASE Fire(g) BY <2>2 DEF Fire, fields
  <2>3. CASE TimerPublish(g) /\ g # timerGeneration
    BY <2>3 DEF TimerPublish, fields
  <2>4. CASE TimerPublish(g) /\ g = timerGeneration
    BY <2>4 DEF TimerPublish, Claim
  <2> QED BY <2>1, <2>2, <2>3, <2>4
<1>8. CASE FlushThread
  BY <1>1, <1>8 DEF FlushThread, FlushPublish, Claim
<1>9. CASE Publisher
  <2>1. PICK p \in inflight : Build(p) \/ Send(p) \/ Finish(p) BY <1>9 DEF Publisher
  <2>2. CASE Build(p) \/ Send(p) BY <1>1, <2>2 DEF Build, Send, fields
  <2>3. CASE Finish(p) /\ pending /\ ~cancelled
    BY <1>2, <2>3 DEF Finish, Rearm
  <2>4. CASE Finish(p) /\ ~(pending /\ ~cancelled)
    BY <1>1, <2>4 DEF Finish, Rearm
  <2> QED BY <2>1, <2>2, <2>3, <2>4
<1>10. CASE CancelThread \/ Commit \/ UNCHANGED vars
  BY <1>1, <1>10 DEF CancelThread, CancelReturn, Commit, vars, fields, threads
<1> QED BY <1>4, <1>5, <1>6, <1>7, <1>8, <1>9, <1>10 DEF Next

\* Due as the promise sees it.
Due == ~cancelled /\ WakeupDue

\* What a reader sees of the publication, with its one thread or without.
LEMMA WorkingIs ==
    /\ inflight = {} => Working = [step |-> "idle", snap |-> 0]
    /\ \A p : inflight = {p} => Working = [step |-> p.step, snap |-> p.snap]
BY DEF Working

\* The same of the next state.
LEMMA WorkingIsNext ==
    /\ inflight' = {} => Working' = [step |-> "idle", snap |-> 0]
    /\ \A p : inflight' = {p} => Working' = [step |-> p.step, snap |-> p.snap]
BY DEF Working

\* The first locked block of _publish begins a publication that is due, or
\* leaves everything as it is for a reader.
LEMMA ClaimKeepsPromise ==
    ASSUME IInv, NEW t \in Nat \cup Flushers, Claim(t), ~cancelled => WakeupDue
    PROVE  [Promise!PNext]_<<committed, shown, Due, cancels, Working>>
<1> USE DEF IInv
<1>1. UNCHANGED <<cancelled, committed, shown, cancels>> BY DEF Claim, outside
<1>2. CASE cancelled /\ UNCHANGED <<pending, publishing, causes, hasUnattributed, inflight>>
  <2>1. Due' = Due BY <1>1, <1>2 DEF Due
  <2>2. Working' = Working BY <1>2 DEF Working
  <2> QED BY <1>1, <2>1, <2>2
<1>3. CASE /\ ~cancelled /\ publishing /\ pending' = TRUE
           /\ UNCHANGED <<publishing, causes, hasUnattributed, inflight>>
  <2>1. Due BY <1>3 DEF Due
  <2>2. Due' BY <1>1, <1>3 DEF Due, WakeupDue
  <2>3. Working' = Working BY <1>3 DEF Working
  <2>4. Due' = Due BY <2>1, <2>2 DEF Due
  <2> QED BY <1>1, <2>3, <2>4
<1>4. CASE ~cancelled /\ ~publishing /\ Take(t)
  <2>1. Due BY <1>4 DEF Due
  <2>2. inflight = {} BY <1>4 DEF SingleFlight
  <2> DEFINE p == [by |-> t, step |-> "build", causes |-> causes,
                   generic |-> hasUnattributed \/ causes = {}, snap |-> 0]
  <2>3. inflight' = {p} /\ p.step = "build" /\ p.snap = 0 BY <1>4, <2>2 DEF Take
  <2> HIDE DEF p
  <2>4. Working = [step |-> "idle", snap |-> 0] BY <2>2, WorkingIs
  <2>5. Working' = [step |-> "build", snap |-> 0] BY <2>3, WorkingIsNext
  <2>6. Due' \in BOOLEAN BY DEF Due, WakeupDue
  <2>7. Promise!Begins
    BY <1>1, <2>1, <2>4, <2>5, <2>6 DEF Promise!Begins, Promise!Idle, Due
  <2> QED BY <2>7 DEF Promise!PNext
<1> QED BY <1>2, <1>3, <1>4 DEF Claim

\* A step that a reader of the promise does not notice.
LEMMA Unnoticed ==
    ASSUME UNCHANGED <<committed, shown, cancels, inflight>>, Due' = Due
    PROVE  UNCHANGED <<committed, shown, Due, cancels, Working>>
<1>1. Working' = Working BY DEF Working
<1> QED BY <1>1

\* Each step of the scheduler is a step of the promise or none at all.
LEMMA PromiseStep ==
    IInv /\ TimersKnown /\ [Next]_vars => [Promise!PNext]_(Promise!pvars)
<1> SUFFICES ASSUME IInv, TimersKnown, [Next]_vars
             PROVE  [Promise!PNext]_<<committed, shown, Due, cancels, Working>>
  BY DEF Promise!pvars, Due
<1> USE DEF IInv
<1>0. Due \in BOOLEAN /\ Due' \in BOOLEAN BY DEF Due
<1>1. CASE UNCHANGED vars
  <2>1. Due' = Due BY <1>1 DEF vars, fields, threads, Due, WakeupDue
  <2> QED BY <1>1, <2>1, Unnoticed DEF vars, threads, outside
<1>2. CASE Commit
  <2>1. Due' = Due BY <1>2 DEF Commit, fields, threads, Due, WakeupDue
  <2>2. Working' = Working BY <1>2 DEF Commit, threads, Working
  <2>3. Promise!Commits BY <1>2, <2>1, <2>2 DEF Commit, Promise!Commits, Due
  <2> QED BY <2>3 DEF Promise!PNext
<1>3. CASE \E cause \in Causes \cup {NoCause} : Schedule(cause)
  <2>1. PICK cause \in Causes \cup {NoCause} : Schedule(cause) BY <1>3
  <2>2. causes' # {} \/ hasUnattributed' BY <2>1 DEF Schedule, RecordRequest
  <2>3. NoStrandedRequest' BY <2>1, ScheduleStep
  <2>4. Due' = TRUE BY <2>1, <2>2, <2>3 DEF Schedule, NoStrandedRequest, Due
  <2>5. Working' = Working /\ UNCHANGED <<committed, shown, cancels>>
    BY <2>1 DEF Schedule, Working
  <2>6. Promise!Asks BY <2>4, <2>5 DEF Promise!Asks, Due
  <2> QED BY <2>6 DEF Promise!PNext
<1>4. CASE \E f \in Flushers : FlushBegin(f)
  <2>1. PICK f \in Flushers : FlushBegin(f) BY <1>4
  <2>2. Due' = TRUE BY <2>1 DEF FlushBegin, Due, WakeupDue
  <2>3. Working' = Working /\ UNCHANGED <<committed, shown, cancels>>
    BY <2>1 DEF FlushBegin, Working
  <2>4. Promise!Asks BY <2>2, <2>3 DEF Promise!Asks, Due
  <2> QED BY <2>4 DEF Promise!PNext
<1>5. CASE \E c \in Cancellers : Cancel(c)
  <2>1. PICK c \in Cancellers : Cancel(c) BY <1>5
  <2>2. Due' = FALSE BY <2>1 DEF Cancel, Due
  <2>3. Working' = Working /\ UNCHANGED <<committed, shown>> /\ cancels' = cancels + 1
    BY <2>1 DEF Cancel, Working
  <2>4. Promise!Cancels BY <2>2, <2>3 DEF Promise!Cancels, Due
  <2> QED BY <2>4 DEF Promise!PNext
<1>6. CASE CancelThread
  <2>1. UNCHANGED <<fields, armed, fired, flushing, inflight, outside>>
    BY <1>6 DEF CancelThread, CancelReturn
  <2>2. Due' = Due BY <2>1 DEF fields, Due, WakeupDue
  <2> QED BY <2>1, <2>2, Unnoticed DEF outside
<1>7. CASE TimerThread
  <2>1. PICK g \in armed \cup fired : Fire(g) \/ TimerPublish(g)
    BY <1>7 DEF TimerThread
  <2>2. CASE Fire(g)
    <3>1. armed' \cup fired' = armed \cup fired BY <2>2 DEF Fire
    <3>2. Due' = Due BY <2>2, <3>1 DEF Fire, fields, Due, WakeupDue
    <3> QED BY <2>2, <3>2, Unnoticed DEF Fire, outside
  <2>3. CASE TimerPublish(g) /\ g # timerGeneration
    <3>1. /\ fired' = fired \ {g}
          /\ UNCHANGED <<fields, armed, inflight, outside, flushing>>
      BY <2>3 DEF TimerPublish
    <3>2. Due' = Due BY <2>3, <3>1 DEF fields, Due, WakeupDue
    <3> QED BY <3>1, <3>2, Unnoticed DEF outside
  <2>4. CASE TimerPublish(g) /\ g = timerGeneration
    <3>1. Claim(g) /\ g \in fired BY <2>4 DEF TimerPublish
    <3>2. g \in Nat \cup Flushers BY <3>1 DEF TypeOK
    <3>3. WakeupDue BY <2>4, <3>1 DEF TimersKnown, WakeupDue
    <3> QED BY <3>1, <3>2, <3>3, ClaimKeepsPromise
  <2> QED BY <2>1, <2>2, <2>3, <2>4
<1>8. CASE FlushThread
  <2>1. PICK f \in Flushers : FlushPublish(f) BY <1>8 DEF FlushThread
  <2>2. Claim(f) /\ WakeupDue BY <2>1 DEF FlushPublish, WakeupDue
  <2> QED BY <2>2, ClaimKeepsPromise
<1>9. CASE Publisher
  <2>1. PICK p \in inflight : Build(p) \/ Send(p) \/ Finish(p) BY <1>9 DEF Publisher
  <2>2. inflight = {p} /\ publishing BY <2>1 DEF SingleFlight
  <2>3. Working = [step |-> p.step, snap |-> p.snap] BY <2>2, WorkingIs
  <2>4. p \in Publication BY <2>1 DEF TypeOK
  <2>5. CASE Build(p)
    <3>1. PICK q : /\ inflight' = {q}
                   /\ \/ q = [p EXCEPT !.step = "send", !.snap = committed]
                      \/ q = [p EXCEPT !.step = "done"]
      BY <2>2, <2>5 DEF Build, Advance
    <3>2. \/ q.step = "send" /\ q.snap = committed
          \/ q.step = "done" /\ q.snap = p.snap
      BY <2>4, <3>1 DEF Publication
    <3>3. Working' = [step |-> q.step, snap |-> q.snap] BY <3>1, WorkingIsNext
    <3>4. UNCHANGED <<committed, shown, cancels>> BY <2>5 DEF Build
    <3>5. Due' = Due BY <2>5 DEF Build, fields, Due, WakeupDue
    <3>6. p.step = "build" BY <2>5 DEF Build
    <3>7. Working.step = "build" /\ Working.snap = p.snap BY <2>3, <3>6
    <3>8. Working' \in {[step |-> "send", snap |-> committed],
                        [step |-> "done", snap |-> Working.snap]}
      BY <3>2, <3>3, <3>7
    <3>9. Promise!Builds BY <3>4, <3>5, <3>7, <3>8 DEF Promise!Builds, Due
    <3> QED BY <3>9 DEF Promise!PNext
  <2>6. CASE Send(p)
    <3> DEFINE q == [p EXCEPT !.step = "done"]
    <3>1. inflight' = {q} BY <2>2, <2>6 DEF Send, Advance
    <3>2. q.step = "done" /\ q.snap = p.snap BY <2>4 DEF Publication
    <3> HIDE DEF q
    <3>3. Working' = [step |-> "done", snap |-> p.snap]
      BY <3>1, <3>2, WorkingIsNext
    <3>4. p.step = "send" /\ shown' \in {p.snap, shown} /\ UNCHANGED <<committed, cancels>>
      BY <2>6 DEF Send
    <3>5. p.snap >= shown BY <2>2, <2>4, <3>4 DEF VersionOrder, Publication, TypeOK
    <3>6. Due' = Due BY <2>6 DEF Send, fields, Due, WakeupDue
    <3>7. Working.step = "send" /\ Working.snap = p.snap BY <2>3, <3>4
    <3>8. Promise!Sends BY <3>3, <3>4, <3>5, <3>6, <3>7 DEF Promise!Sends, Due
    <3> QED BY <3>8 DEF Promise!PNext
  <2>7. CASE Finish(p)
    <3>1. inflight' = {} BY <2>2, <2>7 DEF Finish
    <3>2. Working' = [step |-> "idle", snap |-> 0] BY <3>1, WorkingIsNext
    <3>3. Working.step = "done" BY <2>3, <2>7 DEF Finish
    <3>4. UNCHANGED <<committed, shown, cancels>> BY <2>7 DEF Finish, outside
    <3>5. Due' = Due
      <4>1. CASE pending
        <5>1. ~cancelled /\ ScheduleLocked(armed) /\ UNCHANGED cancelled
          BY <2>7, <4>1 DEF PendingHonoured, Finish, Rearm
        <5>2. Due' BY <5>1 DEF ScheduleLocked, Due, WakeupDue
        <5>3. Due BY <2>2, <4>1, <5>1 DEF Due, WakeupDue
        <5> QED BY <5>2, <5>3, <1>0
      <4>2. CASE ~pending
        <5>1. UNCHANGED <<pending, timer, timerGeneration, armed, fired, flushing, cancelled>>
          BY <2>7, <4>2 DEF Finish, Rearm
        <5> QED BY <4>2, <5>1 DEF Due, WakeupDue
      <4> QED BY <4>1, <4>2
    <3>6. Promise!Ends BY <3>2, <3>3, <3>4, <3>5 DEF Promise!Ends, Promise!Idle, Due
    <3> QED BY <3>6 DEF Promise!PNext
  <2> QED BY <2>1, <2>5, <2>6, <2>7
<1> QED BY <1>1, <1>2, <1>3, <1>4, <1>5, <1>6, <1>7, <1>8, <1>9 DEF Next

\* The scheduler, with its generations, threads and flags, implements the promise
\* it makes to those who schedule, flush and cancel.
THEOREM Refinement == Spec => KeepsPromise
<1>1. Init => Promise!PInit
  <2> SUFFICES ASSUME Init PROVE Promise!PInit
    OBVIOUS
  <2>1. Working = [step |-> "idle", snap |-> 0] BY WorkingIs DEF Init
  <2>2. (~cancelled /\ WakeupDue) = FALSE BY DEF Init, WakeupDue
  <2> QED BY <2>1, <2>2 DEF Init, Promise!PInit, Promise!Idle
<1>2. Init => TimersKnown BY DEF Init, TimersKnown
<1>3. IInv /\ TimersKnown /\ [Next]_vars => TimersKnown' BY TimersStep
<1>4. IInv /\ TimersKnown /\ [Next]_vars => [Promise!PNext]_(Promise!pvars)
  BY PromiseStep
<1> QED BY <1>1, <1>2, <1>3, <1>4, Safety, PTL DEF Spec, KeepsPromise, Promise!PSpec
=============================================================================
