--------------------------- MODULE DashboardPromise ---------------------------
(***************************************************************************)
(* What the dashboard scheduler promises to those who ask it: their        *)
(* requests are merged into a single duty to publish, which only a         *)
(* publication that begins afterwards or a cancellation takes away.  One   *)
(* dashboard at a time is built, from data committed after it began, and   *)
(* clients see no dashboard that is older than one they have seen.  Which  *)
(* threads and timers that takes is the scheduler's business.              *)
(***************************************************************************)
EXTENDS Naturals

VARIABLES
    committed,  \* version of the data
    shown,      \* version of the last dashboard that was broadcast
    due,        \* a publication is to begin
    cancels,    \* calls of cancel()
    work        \* the publication in progress, and the version it was built from

pvars == <<committed, shown, due, cancels, work>>

Idle == [step |-> "idle", snap |-> 0]

Commits == committed' = committed + 1 /\ UNCHANGED <<shown, due, cancels, work>>

\* A request, or a flush
Asks == due' = TRUE /\ UNCHANGED <<committed, shown, cancels, work>>

\* Only a call of cancel() takes the duty away without publishing
Cancels ==
    /\ due' = FALSE /\ cancels' = cancels + 1
    /\ UNCHANGED <<committed, shown, work>>

\* Another duty may stay behind, never one that was not there
Begins ==
    /\ due /\ work = Idle
    /\ work' = [step |-> "build", snap |-> 0] /\ due' \in BOOLEAN
    /\ UNCHANGED <<committed, shown, cancels>>

\* Building and broadcasting may fail; the publication ends all the same
Builds ==
    /\ work.step = "build"
    /\ work' \in {[step |-> "send", snap |-> committed], [step |-> "done", snap |-> work.snap]}
    /\ UNCHANGED <<committed, shown, due, cancels>>

Sends ==
    /\ work.step = "send" /\ work.snap >= shown
    /\ work' = [step |-> "done", snap |-> work.snap] /\ shown' \in {work.snap, shown}
    /\ UNCHANGED <<committed, due, cancels>>

Ends == work.step = "done" /\ work' = Idle /\ UNCHANGED <<committed, shown, due, cancels>>

PInit == committed = 0 /\ shown = 0 /\ due = FALSE /\ cancels = 0 /\ work = Idle

PNext == Commits \/ Asks \/ Cancels \/ Begins \/ Builds \/ Sends \/ Ends

PSpec == PInit /\ [][PNext]_pvars
=============================================================================
