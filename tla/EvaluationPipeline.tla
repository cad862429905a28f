-------------------------- MODULE EvaluationPipeline --------------------------
(***************************************************************************)
(* EvaluationCoordinator and PeriodicEvaluationScheduler                   *)
(* (diagnostics/coordinator.py), the snapshots of HealthDiagnosticService  *)
(* (diagnostics/service.py) and the callers that start an evaluation: MQTT *)
(* ingestion after its commit, the periodic timer and the payload builder. *)
(*                                                                         *)
(* One lock serialises evaluations, but not the commits of ingestion: the  *)
(* facts may change between the read and the end of an evaluation.  A      *)
(* device is classified from its committed fact; the candidates that       *)
(* correlation finds are abstracted to the networks with a bad device in   *)
(* the snapshots it is given.                                              *)
(***************************************************************************)
EXTENDS Naturals, FiniteSets, Installation

CONSTANTS
    Devices, NetOf,             \* NetOf[d] is the network of device d
    Mqtt, Timer, Api,           \* the threads that evaluate
    Faults,                     \* which steps may raise
    MaxFaults                   \* bound: evaluations that raise

ASSUME NetOfAssumption == NetOf \in [Devices -> Networks]
ASSUME FaultsAssumption == Faults \subseteq {"persist", "sync"} /\ MaxFaults \in Nat

VARIABLES
    fact,       \* committed facts: Absent (not in devices) or what they amount to
    persisted,  \* latest health_snapshots row of each device
    snapshot,   \* coordinator: results by device of each network, or None
    incidents,  \* the candidates of the last sync()
    told,       \* what clients first read, or were last told to read again
    lock,       \* holder of the coordinator lock
    job,        \* per thread: the evaluation it asked for
    work,       \* the evaluation in progress
    ticker,     \* the periodic timer: armed or running
    faults

vars == <<fact, persisted, snapshot, incidents, told, lock, job, work, ticker, faults>>

Absent == "absent"
Values == {"fine", "bad"}
Evaluators == {Mqtt, Timer, Api}

Members(n) == {d \in Devices : NetOf[d] = n}
Results == [Devices -> Values \cup {Absent}]

ASSUME NoneAssumption == None \notin Results \cup Networks \cup Devices \cup Evaluators
ASSUME ThreadsAssumption == Mqtt \notin {Timer, Api} /\ Timer # Api

NoJob == [scope |-> "none", net |-> None, dev |-> None]
All == [scope |-> "all", net |-> None, dev |-> None]
Network(n) == [scope |-> "network", net |-> n, dev |-> None]
Device(d) == [scope |-> "device", net |-> NetOf[d], dev |-> d]

NoWork ==
    [step |-> "none", todo |-> {}, dev |-> None, read |-> None,
     built |-> [n \in Networks |-> None], changed |-> FALSE]

(***************************************************************************)
(* Who asks for an evaluation                                              *)
(***************************************************************************)

\* Payload, availability and interview events are evaluated one device at a
\* time.  An interview event may be the first the program hears of the device.
IngestDevice(d, v) ==
    /\ job[Mqtt] = NoJob
    /\ fact' = [fact EXCEPT ![d] = v]
    /\ job' = [job EXCEPT ![Mqtt] = Device(d)]
    /\ UNCHANGED <<persisted, snapshot, incidents, told, lock, work, ticker, faults>>

\* Inventory and membership events re-evaluate the network.
IngestMembership(d, v) ==
    /\ job[Mqtt] = NoJob
    /\ fact' = [fact EXCEPT ![d] = v]
    /\ job' = [job EXCEPT ![Mqtt] = Network(NetOf[d])]
    /\ UNCHANGED <<persisted, snapshot, incidents, told, lock, work, ticker, faults>>

\* The timer is armed again only when the evaluation it started has ended, so its
\* test of _running could only meet run_once(), which Core does not call.
Tick ==
    /\ ticker = "armed"
    /\ ticker' = "running"
    /\ job' = [job EXCEPT ![Timer] = All]
    /\ UNCHANGED <<fact, persisted, snapshot, incidents, told, lock, work, faults>>

Cached(d) == snapshot[NetOf[d]] # None /\ snapshot[NetOf[d]][d] # Absent

\* _ensure_health, then _ensure_device_health_for_rows
ApiRead ==
    /\ job[Api] = NoJob
    /\ \/ /\ \E n \in Networks : snapshot[n] = None
          /\ job' = [job EXCEPT ![Api] = All]
       \/ /\ \A n \in Networks : snapshot[n] # None
          /\ \E d \in Devices :
                /\ fact[d] # Absent /\ ~Cached(d)
                /\ job' = [job EXCEPT ![Api] = Network(NetOf[d])]
    /\ UNCHANGED <<fact, persisted, snapshot, incidents, told, lock, work, ticker, faults>>

(***************************************************************************)
(* One evaluation, under the coordinator lock                              *)
(***************************************************************************)

\* _snapshot_universe_matches
UniverseMatches(n) == \A m \in Networks : snapshot[m] # None

\* The networks to rebuild, and the device when only it is reclassified.
Planned(j) ==
    LET incremental ==
          j.scope = "device" /\ UniverseMatches(j.net)
            /\ fact[j.dev] # Absent /\ Cached(j.dev)
    IN [NoWork EXCEPT
          !.step = "build",
          !.todo = IF j.scope = "all" \/ ~UniverseMatches(j.net)
                     THEN Networks ELSE {j.net},
          !.dev = IF incremental THEN j.dev ELSE None]

Acquire(e) ==
    /\ job[e] # NoJob /\ lock = None
    /\ lock' = e
    /\ work' = Planned(job[e])
    /\ UNCHANGED <<fact, persisted, snapshot, incidents, told, job, ticker, faults>>

\* The facts of one network are read at once; an incremental evaluation reads
\* its device and keeps the other results of the cached snapshot.
Mut_Read(n) ==
    IF work.dev # None
      THEN [snapshot[n] EXCEPT ![work.dev] = persisted[work.dev]]
      ELSE [d \in Devices |-> IF d \in Members(n) THEN fact[d] ELSE Absent]
Read(n) ==
    IF work.dev # None
      THEN [snapshot[n] EXCEPT ![work.dev] = fact[work.dev]]
      ELSE [d \in Devices |-> IF d \in Members(n) THEN fact[d] ELSE Absent]

Build(n) ==
    /\ work.step = "build" /\ n \in work.todo
    /\ work' = [work EXCEPT !.step = "persist", !.read = n, !.built[n] = Read(n)]
    /\ UNCHANGED <<fact, persisted, snapshot, incidents, told, lock, job, ticker, faults>>

\* The results written by this evaluation, and those that differ from the
\* latest row.  The network and bridge rows follow from these and are left out.
Written(n) ==
    IF work.dev # None THEN {work.dev}
    ELSE {d \in Members(n) : work.built[n][d] # Absent}
Mut_Differs(n) == {d \in Written(n) : persisted[d] = Absent}
Differs(n) == {d \in Written(n) : persisted[d] # work.built[n][d]}

\* Only a successful evaluation replaces the snapshots.  An estate evaluation
\* publishes all of them together.
Persist ==
    LET n == work.read
        left == work.todo \ {n}
        done == [m \in Networks |-> IF work.built[m] # None THEN work.built[m] ELSE snapshot[m]]
    IN
    /\ work.step = "persist"
    /\ persisted' = [d \in Devices |->
                       IF d \in Differs(n) THEN work.built[n][d] ELSE persisted[d]]
    /\ work' = [work EXCEPT
                  !.step = IF left = {} THEN "sync" ELSE "build",
                  !.todo = left, !.read = None,
                  !.changed = work.changed \/ Differs(n) # {}]
    /\ snapshot' = IF left = {} THEN done ELSE snapshot
    /\ told' = [m \in Networks |-> IF told[m] = None THEN snapshot'[m] ELSE told[m]]
    /\ UNCHANGED <<fact, incidents, lock, job, ticker, faults>>

\* correlate_and_sync over every snapshot the coordinator has.
Candidates ==
    {n \in Networks : snapshot[n] # None /\ \E d \in Members(n) : snapshot[n][d] = "bad"}

Sync ==
    /\ work.step = "sync"
    /\ incidents' = Candidates
    /\ work' = [work EXCEPT !.step = "announce",
                            !.changed = work.changed \/ Candidates # incidents]
    /\ UNCHANGED <<fact, persisted, snapshot, told, lock, job, ticker, faults>>

\* The finally branch of _run_claimed; ingestion and the API just return.
Mut_Rearmed(e) == UNCHANGED ticker
Rearmed(e) == ticker' = IF e = Timer THEN "armed" ELSE ticker

Leave(e) ==
    /\ lock' = None /\ work' = NoWork
    /\ job' = [job EXCEPT ![e] = NoJob]

Announce ==
    /\ work.step = "announce"
    /\ told' = IF work.changed THEN snapshot ELSE told
    /\ Leave(lock) /\ Rearmed(lock)
    /\ UNCHANGED <<fact, persisted, snapshot, incidents, faults>>

\* An insert raises after some of the rows are committed.
PersistRaises ==
    /\ "persist" \in Faults /\ faults < MaxFaults
    /\ work.step = "persist"
    /\ \E part \in SUBSET Differs(work.read) :
          persisted' = [d \in Devices |->
             IF d \in part THEN work.built[work.read][d] ELSE persisted[d]]
    /\ faults' = faults + 1
    /\ Leave(lock) /\ Rearmed(lock)
    /\ UNCHANGED <<fact, snapshot, incidents, told>>

\* The transaction of sync() is rolled back.
SyncRaises ==
    /\ "sync" \in Faults /\ faults < MaxFaults
    /\ work.step = "sync"
    /\ faults' = faults + 1
    /\ Leave(lock) /\ Rearmed(lock)
    /\ UNCHANGED <<fact, persisted, snapshot, incidents, told>>

(***************************************************************************)
(* The specification                                                       *)
(***************************************************************************)

\* A start with the inventory and the health rows of an earlier process and no
\* cache; only devices of the inventory have rows.
Init ==
    /\ fact \in [Devices -> {Absent, "fine"}]
    /\ persisted \in Results
    /\ \A d \in Devices : fact[d] = Absent => persisted[d] = Absent
    /\ snapshot = [n \in Networks |-> None]
    /\ incidents = {}
    /\ told = snapshot
    /\ lock = None
    /\ job = [e \in Evaluators |-> NoJob]
    /\ work = NoWork
    /\ ticker = "armed"
    /\ faults = 0

Evaluate ==
    \/ \E e \in Evaluators : Acquire(e)
    \/ \E n \in Networks : Build(n)
    \/ Persist \/ Sync \/ Announce \/ PersistRaises \/ SyncRaises

Next ==
    \/ \E d \in Devices, v \in Values : IngestDevice(d, v) \/ IngestMembership(d, v)
    \/ Tick \/ ApiRead
    \/ Evaluate

\* The timer fires, the threads run and the lock is handed to whoever waits.
Fairness ==
    /\ WF_vars(Tick) /\ WF_vars(Evaluate)
    /\ \A e \in Evaluators : SF_vars(Acquire(e))

Spec == Init /\ [][Next]_vars /\ Fairness

(***************************************************************************)
(* Properties                                                              *)
(***************************************************************************)

\* Types: results of networks and devices, and the evaluation that holds the lock
\* (EvaluationCoordinator).
TypeOK ==
    /\ fact \in Results /\ persisted \in Results
    /\ snapshot \in [Networks -> Results \cup {None}]
    /\ told \in [Networks -> Results \cup {None}]
    /\ incidents \subseteq Networks
    /\ lock \in Evaluators \cup {None}
    /\ job \in [Evaluators -> {NoJob, All} \cup {Network(n) : n \in Networks}
                                \cup {Device(d) : d \in Devices}]
    /\ work \in [step : {"none", "build", "persist", "sync", "announce"},
                 todo : SUBSET Networks, dev : Devices \cup {None},
                 read : Networks \cup {None},
                 built : [Networks -> Results \cup {None}], changed : BOOLEAN]
    /\ ticker \in {"armed", "running"}
    /\ faults \in 0..MaxFaults

Quiet == \A e \in Evaluators : job[e] = NoJob

\* What the coordinator holds agrees with what is committed.
Current ==
    \A n \in Networks :
        /\ snapshot[n] # None => \A d \in Members(n) : snapshot[n][d] = fact[d]
        /\ n \in incidents <=> snapshot[n] # None /\ \E d \in Members(n) : fact[d] = "bad"

\* When no evaluation is under way or has raised, snapshots, health rows and incidents agree
\* with the committed facts, although each evaluation read them before others
\* were committed and most reclassify a single device.
QuietIsCurrent ==
    Quiet /\ faults = 0 /\ (\E n \in Networks : snapshot[n] # None) =>
        /\ Current
        /\ \A d \in Devices : fact[d] # Absent => persisted[d] = fact[d]

\* When no evaluation is under way or has raised, clients have been told of every change in the
\* results they could have read, although a change is recognised by the health
\* rows and not by the cached results (_persist_device_health).
QuietIsTold == Quiet /\ faults = 0 => told = snapshot

\* However late an evaluation raised half-way and whatever results or incidents that
\* left behind: once the committed facts rest, the periodic evaluation brings the
\* snapshots of all networks and the incidents to them for good.
FaultsHeal ==
    <>[][FALSE]_fact => <>[](Current /\ \A n \in Networks : snapshot[n] # None)
=============================================================================
