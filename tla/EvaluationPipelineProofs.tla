----------------------- MODULE EvaluationPipelineProofs -----------------------
(***************************************************************************)
(* Proofs about EvaluationPipeline, for every set of networks and devices. *)
(*                                                                         *)
(* Ingestion commits facts without the coordinator lock, so during an      *)
(* evaluation nothing the coordinator holds need agree with the facts.     *)
(* What saves it is that the thread that committed a change evaluates it   *)
(* afterwards: Due is what that thread has still to evaluate, and outside  *)
(* of it cached results, results under construction and health rows agree  *)
(* with the facts at every moment.                                         *)
(*                                                                         *)
(* The sections after it are about the thread that brings the facts        *)
(* (module Ingestion): what the MQTT client and the thread that starts and *)
(* stops it keep between them, and what the messages leave in the tables,  *)
(* the parked messages that an inventory replays among them.               *)
(***************************************************************************)
EXTENDS EvaluationPipeline, Ingestion, FiniteSetTheorems, WellFoundedInduction, TLAPS

\* What the MQTT thread has committed and not yet evaluated.
Due ==
    {d \in Devices :
        /\ job[Mqtt] # NoJob
        /\ NetOf[d] = job[Mqtt].net
        /\ job[Mqtt].dev \in {None, d}}

Building == work.step \in {"build", "persist"}

\* The results of a network have been written as health rows.
Done(m) == work.built[m] # None /\ m # work.read

\* The lock, the job of its holder and the evaluation in progress belong together.
LockInv ==
    /\ lock = None <=> work.step = "none"
    /\ lock = None => work = NoWork
    /\ lock # None => job[lock] # NoJob
    /\ job[Mqtt].scope # "all"
    /\ \A e \in Evaluators : job[e].scope = "device" => e = Mqtt
    /\ work.dev # None => lock = Mqtt /\ job[Mqtt] = Device(work.dev)

\* An evaluation covers what it must: everything as long as there is no cache,
\* and the network of the change.
CoverInv ==
    /\ Building => \A m \in Networks :
          m \in work.todo \/ work.built[m] # None \/ snapshot[m] # None
    /\ Building /\ lock = Mqtt =>
          job[Mqtt].net \in work.todo \/ work.built[job[Mqtt].net] # None
    /\ work.step = "persist" => work.read \in work.todo /\ work.built[work.read] # None
    /\ work.step # "persist" => work.read = None
    /\ \A m \in work.todo : work.built[m] # None => m = work.read
    /\ work.dev # None /\ Building => \A m \in Networks :
          /\ snapshot[m] # None
          /\ work.built[m] # None => \A d \in Devices \ {work.dev} :
                work.built[m][d] = snapshot[m][d]
    /\ work.dev # None => \A m \in Networks :
          m \in work.todo \/ work.built[m] # None => m = NetOf[work.dev]
    /\ work.step \in {"sync", "announce"} => \A m \in Networks :
          snapshot[m] # None /\ (work.built[m] # None => snapshot[m] = work.built[m])
    /\ \A m, k \in Networks : snapshot[m] # None => snapshot[k] # None

\* Only devices that are committed have results or rows, each in its own network.
PresenceInv ==
    /\ \A d \in Devices : fact[d] = Absent => persisted[d] = Absent
    /\ work.dev # None =>
          /\ fact[work.dev] # Absent
          /\ \A m \in Networks : work.built[m] # None => work.built[m][work.dev] # Absent
    /\ \A m \in Networks, d \in Devices :
          /\ snapshot[m] # None /\ (d \notin Members(m) \/ fact[d] = Absent)
                => snapshot[m][d] = Absent
          /\ work.built[m] # None /\ (d \notin Members(m) \/ fact[d] = Absent)
                => work.built[m][d] = Absent

\* Cached results and results under construction agree with the facts, except
\* for what the MQTT thread has still to evaluate.
ResultsAgree ==
    \A m \in Networks : \A d \in Members(m) :
        /\ snapshot[m] # None
             /\ (d \notin Due \/ (lock = Mqtt /\ work.step \in {"sync", "announce"}))
             => snapshot[m][d] = fact[d]
        /\ work.built[m] # None /\ (d \notin Due \/ lock = Mqtt)
             => work.built[m][d] = fact[d]

\* The health rows agree with the results they were written from: the new ones
\* for the networks already written, the cached ones for all others.
RowsAgree ==
    \A m \in Networks : \A d \in Members(m) :
        /\ Done(m) => persisted[d] = work.built[m][d]
        /\ ~Done(m) /\ snapshot[m] # None => persisted[d] = snapshot[m][d]
        /\ work.read = m /\ work.built[m][d] = Absent => persisted[d] = Absent

\* An evaluation that has recorded no change rebuilt what was cached, and what is
\* cached is what clients were told.
ChangeIsSeen ==
    /\ Building /\ ~work.changed => \A m \in Networks :
          Done(m) /\ snapshot[m] # None => work.built[m] = snapshot[m]
    /\ work.step \notin {"sync", "announce"} \/ ~work.changed => told = snapshot

\* Incidents lag behind the cached results only until the sync that follows.
IncidentsFollow == work.step # "sync" => incidents = Candidates

Agreement == ResultsAgree /\ RowsAgree /\ ChangeIsSeen /\ IncidentsFollow

IInv == TypeOK /\ LockInv /\ CoverInv /\ PresenceInv /\ (faults = 0 => Agreement)

(***************************************************************************)
(* Jobs and work                                                           *)
(***************************************************************************)

Jobs == {NoJob, All} \cup {Network(n) : n \in Networks} \cup {Device(d) : d \in Devices}

\* A job names a network unless it is for the whole estate, and a device only in
\* its own network.
LEMMA JobParts ==
    /\ NoJob.scope = "none" /\ NoJob.dev = None /\ All.scope = "all" /\ All.dev = None
    /\ \A n \in Networks : /\ Network(n).scope = "network" /\ Network(n).net = n
                           /\ Network(n).dev = None
    /\ \A d \in Devices : /\ Device(d).scope = "device" /\ Device(d).net = NetOf[d]
                          /\ Device(d).dev = d
    /\ \A j \in Jobs :
          /\ j # NoJob <=> j.scope # "none"
          /\ j.scope \in {"none", "all", "network", "device"}
          /\ j.scope = "network" => j.net \in Networks /\ j.dev = None
          /\ j.scope = "device" =>
                j.dev \in Devices /\ j.net = NetOf[j.dev] /\ j.net \in Networks
                  /\ j = Device(j.dev)
  BY NetOfAssumption DEF Jobs, NoJob, All, Network, Device

\* None stands for the absence of results.
LEMMA ResultParts == \A f \in Results : f # None
  BY NoneAssumption

\* The threads are three, and none of them is None.
LEMMA Threads ==
    /\ Mqtt \in Evaluators /\ Timer \in Evaluators /\ Api \in Evaluators
    /\ Mqtt # Timer /\ Mqtt # Api
    /\ \A e \in Evaluators : e # None
  BY ThreadsAssumption, NoneAssumption DEF Evaluators

\* The types of an evaluation in progress.
WorkTypes ==
    [step : {"none", "build", "persist", "sync", "announce"},
     todo : SUBSET Networks, dev : Devices \cup {None},
     read : Networks \cup {None},
     built : [Networks -> Results \cup {None}], changed : BOOLEAN]

\* No evaluation is an evaluation in which nothing has been done.
LEMMA NoWorkParts ==
    /\ NoWork \in WorkTypes
    /\ NoWork.step = "none" /\ NoWork.todo = {} /\ NoWork.dev = None /\ NoWork.read = None
    /\ NoWork.changed = FALSE /\ \A m \in Networks : NoWork.built[m] = None
  BY DEF NoWork, WorkTypes

(***************************************************************************)
(* Ingestion, the timer and the API ask for evaluations                    *)
(***************************************************************************)

\* A committed change is due from then on, and nothing else is disturbed.
LEMMA IngestKeeps ==
    ASSUME IInv, NEW d \in Devices, NEW v \in Values,
           IngestDevice(d, v) \/ IngestMembership(d, v)
    PROVE  IInv'
  <1> USE DEF IInv
  <1>1. /\ job[Mqtt] = NoJob /\ fact' = [fact EXCEPT ![d] = v]
        /\ job' \in [Evaluators -> Jobs]
        /\ job'[Mqtt] # NoJob /\ job'[Mqtt].scope # "all"
        /\ job'[Mqtt].net = NetOf[d] /\ job'[Mqtt].dev \in {None, d}
        /\ \A e \in Evaluators : e # Mqtt => job'[e] = job[e]
        /\ UNCHANGED <<persisted, snapshot, incidents, told, lock, work, ticker, faults>>
    BY JobParts, Threads, NetOfAssumption
       DEF IngestDevice, IngestMembership, TypeOK, Jobs
  <1>2. TypeOK'
    BY <1>1 DEF TypeOK, Results, Values, Jobs
  <1>3. Due = {} /\ d \in Due'
    BY <1>1 DEF Due
  <1>4. lock # Mqtt /\ work.dev = None
    BY <1>1, JobParts, Threads DEF LockInv
  <1>5. LockInv'
    BY <1>1, <1>4, Threads DEF LockInv, TypeOK
  <1>6. CoverInv'
    BY <1>1, <1>4 DEF CoverInv, Building
  <1>7. PresenceInv'
    BY <1>1, <1>4 DEF PresenceInv, TypeOK, Results, Values, Absent
  <1>8. ASSUME faults' = 0 PROVE Agreement'
    <2>1. Agreement
      BY <1>1, <1>8
    <2>2. ResultsAgree'
      BY <1>1, <1>3, <1>4, <2>1 DEF Agreement, ResultsAgree, TypeOK, Results, Members
    <2> QED
      BY <1>1, <2>1, <2>2 DEF Agreement, RowsAgree, ChangeIsSeen, IncidentsFollow, Done,
         Building, Candidates
  <1> QED
    BY <1>2, <1>5, <1>6, <1>7, <1>8

\* The timer and the API only ask.
LEMMA AskKeeps == ASSUME IInv, Tick \/ ApiRead PROVE IInv'
  <1> USE DEF IInv
  <1>1. /\ UNCHANGED <<fact, persisted, snapshot, incidents, told, lock, work, faults>>
        /\ job' \in [Evaluators -> Jobs]
        /\ job'[Mqtt] = job[Mqtt] /\ ticker' \in {"armed", "running"}
    BY Threads, NetOfAssumption DEF Tick, ApiRead, TypeOK, Jobs
  <1>2. \A e \in Evaluators : job[e] # NoJob => job'[e] # NoJob
    BY Threads, NetOfAssumption, JobParts DEF Tick, ApiRead, TypeOK, Jobs
  <1>3. TypeOK'
    BY <1>1 DEF TypeOK, Jobs
  <1>4. LockInv'
    <2>1. \A e \in Evaluators : job'[e].scope = "device" => job[e].scope = "device"
      BY Threads, NetOfAssumption, JobParts DEF Tick, ApiRead, TypeOK, Jobs
    <2> QED
      BY <1>1, <1>2, <2>1 DEF LockInv, TypeOK
  <1>5. CoverInv' /\ PresenceInv'
    BY <1>1 DEF CoverInv, PresenceInv, Building
  <1>6. Agreement => Agreement'
    BY <1>1 DEF Agreement, ResultsAgree, RowsAgree, ChangeIsSeen, IncidentsFollow, Done, Due,
       Building, Candidates
  <1> QED
    BY <1>1, <1>3, <1>4, <1>5, <1>6

(***************************************************************************)
(* One evaluation                                                          *)
(***************************************************************************)

\* What the plan of a job covers: everything without a cache, the network of the
\* change, and one device only if a cache and a committed device exist.
LEMMA PlannedParts ==
    ASSUME TypeOK, NEW j \in Jobs, j # NoJob
    PROVE  /\ Planned(j) \in WorkTypes
           /\ Planned(j).step = "build" /\ Planned(j).read = None
           /\ Planned(j).changed = FALSE /\ \A m \in Networks : Planned(j).built[m] = None
           /\ \A m \in Networks : m \in Planned(j).todo
                 \/ (snapshot[m] # None /\ m # j.net /\ j.scope # "all")
           /\ Planned(j).dev # None =>
                 /\ j = Device(Planned(j).dev) /\ Planned(j).todo = {j.net}
                 /\ fact[j.dev] # Absent
                 /\ \A m \in Networks : snapshot[m] # None
  <1> DEFINE incremental == j.scope = "device" /\ UniverseMatches(j.net)
                              /\ fact[j.dev] # Absent /\ Cached(j.dev)
             todo == IF j.scope = "all" \/ ~UniverseMatches(j.net) THEN Networks ELSE {j.net}
             dev == IF incremental THEN j.dev ELSE None
  <1>1. Planned(j) = [NoWork EXCEPT !.step = "build", !.todo = todo, !.dev = dev]
    BY DEF Planned
  <1>2. j.scope # "all" => j.net \in Networks
    BY JobParts
  <1>3. todo \in SUBSET Networks /\ dev \in Devices \cup {None}
    BY <1>2, JobParts
  <1>4. dev # None => j = Device(dev) /\ todo = {j.net} /\ fact[j.dev] # Absent
                        /\ \A m \in Networks : snapshot[m] # None
    BY JobParts DEF UniverseMatches
  <1>5. \A m \in Networks : m \in todo \/ (snapshot[m] # None /\ m # j.net /\ j.scope # "all")
    BY DEF UniverseMatches
  <1> HIDE DEF todo, dev
  <1>6. Planned(j) \in WorkTypes
    BY <1>1, <1>3, NoWorkParts DEF WorkTypes
  <1>7. /\ Planned(j).step = "build" /\ Planned(j).todo = todo /\ Planned(j).dev = dev
        /\ Planned(j).read = None /\ Planned(j).changed = FALSE
        /\ \A m \in Networks : Planned(j).built[m] = None
    BY <1>1, NoWorkParts DEF WorkTypes
  <1> QED
    BY <1>4, <1>5, <1>6, <1>7

\* The holder of the lock starts from nothing, and covers what is due from it.
LEMMA AcquireKeeps == ASSUME IInv, NEW e \in Evaluators, Acquire(e) PROVE IInv'
  <1> USE DEF IInv
  <1>1. /\ job[e] \in Jobs /\ job[e] # NoJob /\ lock = None /\ work = NoWork
        /\ lock' = e /\ work' = Planned(job[e])
        /\ UNCHANGED <<fact, persisted, snapshot, incidents, told, job, ticker, faults>>
    BY DEF Acquire, TypeOK, Jobs, LockInv
  <1>2. /\ work' \in WorkTypes /\ work'.step = "build" /\ work'.read = None
        /\ work'.changed = FALSE /\ \A m \in Networks : work'.built[m] = None
        /\ \A m \in Networks : m \in work'.todo
              \/ (snapshot[m] # None /\ m # job[e].net /\ job[e].scope # "all")
        /\ work'.dev # None =>
              /\ job[e] = Device(work'.dev) /\ work'.todo = {job[e].net}
              /\ fact[job[e].dev] # Absent
              /\ \A m \in Networks : snapshot[m] # None
    BY <1>1, PlannedParts
  <1>3. TypeOK'
    BY <1>1, <1>2 DEF TypeOK, WorkTypes
  <1>4. work'.dev # None => e = Mqtt
    BY <1>1, <1>2, JobParts DEF TypeOK, LockInv, WorkTypes
  <1>5. LockInv'
    BY <1>1, <1>2, <1>4, Threads DEF LockInv
  <1>6. CoverInv'
    <2>1. e = Mqtt => job[e].net \in work'.todo
      BY <1>1, <1>2, JobParts DEF LockInv
    <2>2. work'.dev # None => \A m \in work'.todo : m = NetOf[work'.dev]
      BY <1>2, JobParts DEF WorkTypes
    <2> QED
      BY <1>1, <1>2, <2>1, <2>2 DEF CoverInv, Building, WorkTypes
  <1>7. PresenceInv'
    BY <1>1, <1>2, JobParts DEF PresenceInv, WorkTypes
  <1>8. Agreement => Agreement'
    BY <1>1, <1>2, NoWorkParts DEF Agreement, ResultsAgree, RowsAgree, ChangeIsSeen,
       IncidentsFollow, Done, Due, Building, Candidates
  <1> QED
    BY <1>1, <1>3, <1>5, <1>6, <1>7, <1>8

\* A network is read at once: what is built then agrees with the facts, in whole
\* or, for one device, because the cache agrees on all others.
LEMMA BuildKeeps == ASSUME IInv, NEW n \in Networks, Build(n) PROVE IInv'
  <1> USE DEF IInv
  <1>1. /\ work.step = "build" /\ n \in work.todo /\ work.read = None /\ work.built[n] = None
        /\ UNCHANGED <<fact, persisted, snapshot, incidents, told, lock, job, ticker, faults>>
    BY ResultParts, NoneAssumption DEF Build, CoverInv, TypeOK
  <1>2. Read(n) \in Results
    BY DEF Read, TypeOK, Results, CoverInv, Building, Build
  <1>3. /\ work' \in WorkTypes
        /\ work'.step = "persist" /\ work'.read = n /\ work'.built[n] = Read(n)
        /\ work'.todo = work.todo /\ work'.dev = work.dev /\ work'.changed = work.changed
        /\ \A m \in Networks : m # n => work'.built[m] = work.built[m]
    BY <1>2 DEF Build, TypeOK, WorkTypes
  <1>4. Read(n) # None
    BY <1>2, ResultParts
  <1>5. TypeOK'
    BY <1>1, <1>3 DEF TypeOK, WorkTypes
  <1>6. LockInv'
    BY <1>1, <1>3, NoWorkParts DEF LockInv
  <1>7. CoverInv'
    <2>1. \A m \in Networks : work.built[m] # None => work'.built[m] # None
      BY <1>1, <1>3
    <2>2. \A m \in work.todo : work'.built[m] # None => m = n
      BY <1>1, <1>3, NoneAssumption DEF CoverInv, TypeOK
    <2>3. Building' => Building
      BY <1>1 DEF Building
    <2>4. work.dev # None => \A m \in Networks : work'.built[m] # None => m = NetOf[work.dev]
      BY <1>1, <1>3 DEF CoverInv
    <2>5. work.dev # None => \A d \in Devices \ {work.dev} : Read(n)[d] = snapshot[n][d]
      BY <1>1 DEF Read, TypeOK, Results, CoverInv, Building
    <2>6. work.dev # None => \A m \in Networks : work'.built[m] # None =>
             \A d \in Devices \ {work.dev} : work'.built[m][d] = snapshot[m][d]
      BY <1>1, <1>3, <2>5 DEF CoverInv, Building
    <2>7. lock = Mqtt => job[Mqtt].net \in work.todo \/ work'.built[job[Mqtt].net] # None
      <3>1. lock = Mqtt => job[Mqtt].net \in Networks
        BY Threads, JobParts DEF LockInv, TypeOK, Jobs
      <3> QED
        BY <1>1, <1>3, <1>4, <3>1 DEF CoverInv, Building
    <2> QED
      BY <1>1, <1>3, <1>4, <2>1, <2>2, <2>3, <2>4, <2>6, <2>7 DEF CoverInv, Building
  <1>8. work.dev # None => work.dev \in Members(n) /\ snapshot[n] # None
    BY <1>1 DEF CoverInv, Building, TypeOK, Members
  <1>9. PresenceInv'
    <2>1. work.dev # None => Read(n)[work.dev] = fact[work.dev]
      BY <1>8 DEF Read, TypeOK, Results, Members
    <2>2. \A d \in Devices : d \notin Members(n) \/ fact[d] = Absent => Read(n)[d] = Absent
      BY <1>1, <1>8 DEF PresenceInv, Read, TypeOK, Results
    <2> QED
      BY <1>1, <1>3, <2>1, <2>2 DEF PresenceInv
  <1>10. ASSUME Agreement PROVE Agreement'
    <2>1. ASSUME NEW d \in Members(n), d \notin Due \/ lock = Mqtt
          PROVE  Read(n)[d] = fact[d]
      <3>1. CASE work.dev = None
        BY <3>1 DEF Read, Members
      <3>2. CASE work.dev # None
        <4>1. lock = Mqtt /\ Due \subseteq {work.dev}
          BY <3>2, JobParts DEF LockInv, Due, TypeOK
        <4> QED
          BY <1>8, <1>10, <2>1, <3>2, <4>1
             DEF Read, Agreement, ResultsAgree, Members, TypeOK, Results
      <3> QED
        BY <3>1, <3>2
    <2>2. ResultsAgree'
      BY <1>1, <1>3, <1>10, <2>1 DEF Agreement, ResultsAgree, Due, Members
    <2>3. \A d \in Members(n) : Read(n)[d] = Absent => persisted[d] = Absent
      <3>1. CASE work.dev = None
        BY <3>1 DEF Read, Members, PresenceInv
      <3>2. CASE work.dev # None
        BY <1>1, <1>8, <1>10, <3>2 DEF Read, Agreement, RowsAgree, Members, TypeOK, Results,
           PresenceInv, Done
      <3> QED
        BY <3>1, <3>2
    <2>4. \A m \in Networks : Done(m)' <=> Done(m)
      BY <1>1, <1>3, <1>4, NoneAssumption DEF Done, TypeOK
    <2>5. RowsAgree'
      BY <1>1, <1>3, <1>10, <2>3, <2>4 DEF Agreement, RowsAgree, Done, Members, TypeOK
    <2>6. ChangeIsSeen'
      BY <1>1, <1>3, <1>10, <2>4 DEF Agreement, ChangeIsSeen, Building, Done
    <2>7. IncidentsFollow'
      BY <1>1, <1>3, <1>10 DEF Agreement, IncidentsFollow, Candidates
    <2> QED
      BY <2>2, <2>5, <2>6, <2>7 DEF Agreement
  <1> QED
    BY <1>1, <1>5, <1>6, <1>7, <1>9, <1>10

\* The rows of one network follow its results, row by row where they differ.
WrittenRows ==
    /\ persisted' \in Results
    /\ work.read \in Networks /\ work.built[work.read] \in Results
    /\ \A d \in Devices : d \notin Differs(work.read) => persisted'[d] = persisted[d]
    /\ \A d \in Differs(work.read) :
          persisted'[d] \in {persisted[d], work.built[work.read][d]}
    /\ Differs(work.read) \subseteq Members(work.read)
    /\ \A d \in Differs(work.read) : work.built[work.read][d] # Absent

\* Rows are written only for devices of the network that have results.
LEMMA WritesStayInside ==
    ASSUME IInv, work.step = "persist",
           \E part \in SUBSET Differs(work.read) :
              persisted' = [d \in Devices |->
                 IF d \in part THEN work.built[work.read][d] ELSE persisted[d]]
    PROVE  WrittenRows
  <1> USE DEF IInv
  <1>1. work.read \in Networks /\ work.built[work.read] \in Results
    BY DEF CoverInv, TypeOK
  <1>2. work.dev # None => work.dev \in Members(work.read)
    BY <1>1 DEF CoverInv, Members, TypeOK
  <1>3. work.dev # None => work.built[work.read][work.dev] # Absent
    BY <1>1, ResultParts DEF PresenceInv
  <1>4. Differs(work.read) \subseteq Written(work.read)
    BY DEF Differs
  <1>5. \A d \in Written(work.read) : d \in Members(work.read) /\ work.built[work.read][d] # Absent
    BY <1>2, <1>3 DEF Written
  <1>6. persisted' \in Results
    BY <1>1 DEF TypeOK, Results
  <1> QED
    BY <1>1, <1>4, <1>5, <1>6 DEF WrittenRows, Members

\* Rows inside what the results allow keep the rows of committed devices only.
LEMMA WrittenPresence ==
    ASSUME IInv, WrittenRows, UNCHANGED fact
    PROVE  \A d \in Devices : fact'[d] = Absent => persisted'[d] = Absent
  BY ResultParts DEF IInv, WrittenRows, PresenceInv

\* An evaluation that raises frees the lock; some rows may be ahead of the cache,
\* and from then on agreement is no longer claimed.
LEMMA RaisesKeeps == ASSUME IInv, PersistRaises \/ SyncRaises PROVE IInv'
  <1> USE DEF IInv
  <1>1. /\ lock # None /\ lock \in Evaluators
        /\ lock' = None /\ work' = NoWork /\ job' = [job EXCEPT ![lock] = NoJob]
        /\ faults' = faults + 1 /\ faults' \in 0..MaxFaults /\ faults' # 0
        /\ ticker' \in {"armed", "running"}
        /\ UNCHANGED <<fact, snapshot, incidents, told>>
    BY FaultsAssumption DEF PersistRaises, SyncRaises, Leave, Rearmed, LockInv, TypeOK
  <1>2. persisted' \in Results /\ \A d \in Devices : fact'[d] = Absent => persisted'[d] = Absent
    <2>1. CASE PersistRaises
      BY <1>1, <2>1, WritesStayInside, WrittenPresence DEF PersistRaises, WrittenRows
    <2>2. CASE SyncRaises
      BY <1>1, <2>2 DEF SyncRaises, PresenceInv, TypeOK
    <2> QED
      BY <2>1, <2>2
  <1>3. TypeOK'
    BY <1>1, <1>2, NoWorkParts DEF TypeOK, WorkTypes
  <1>4. LockInv'
    BY <1>1, NoWorkParts, Threads, JobParts DEF LockInv, TypeOK
  <1>5. CoverInv' /\ PresenceInv'
    BY <1>1, <1>2, NoWorkParts DEF CoverInv, PresenceInv, Building
  <1> QED
    BY <1>1, <1>3, <1>4, <1>5

\* The sync brings the incidents up to the cached results.
LEMMA SyncKeeps == ASSUME IInv, Sync PROVE IInv'
  <1> USE DEF IInv
  <1>1. /\ work.step = "sync" /\ incidents' = Candidates /\ work' \in WorkTypes
        /\ work'.step = "announce" /\ work'.todo = work.todo /\ work'.dev = work.dev
        /\ work'.read = work.read /\ work'.built = work.built
        /\ (~work'.changed => ~work.changed)
        /\ UNCHANGED <<fact, persisted, snapshot, told, lock, job, ticker, faults>>
    BY DEF Sync, TypeOK, WorkTypes
  <1>2. TypeOK'
    BY <1>1 DEF TypeOK, WorkTypes, Candidates
  <1>3. LockInv' /\ CoverInv' /\ PresenceInv'
    BY <1>1, NoWorkParts DEF LockInv, CoverInv, PresenceInv, Building
  <1>4. Agreement => Agreement'
    BY <1>1 DEF Agreement, ResultsAgree, RowsAgree, ChangeIsSeen, IncidentsFollow, Done, Due,
       Building, Candidates
  <1> QED
    BY <1>1, <1>2, <1>3, <1>4

\* Whoever announces leaves nothing due of its own and clients told.
LEMMA AnnounceKeeps == ASSUME IInv, Announce PROVE IInv'
  <1> USE DEF IInv
  <1>1. /\ work.step = "announce" /\ lock # None /\ lock \in Evaluators
        /\ lock' = None /\ work' = NoWork /\ job' = [job EXCEPT ![lock] = NoJob]
        /\ told' = IF work.changed THEN snapshot ELSE told
        /\ ticker' \in {"armed", "running"}
        /\ UNCHANGED <<fact, persisted, snapshot, incidents, faults>>
    BY DEF Announce, Leave, Rearmed, LockInv, TypeOK
  <1>2. TypeOK'
    BY <1>1, NoWorkParts DEF TypeOK, WorkTypes
  <1>3. LockInv'
    BY <1>1, NoWorkParts, Threads, JobParts DEF LockInv, TypeOK
  <1>4. CoverInv' /\ PresenceInv'
    BY <1>1, NoWorkParts DEF CoverInv, PresenceInv, Building
  <1>5. ASSUME Agreement PROVE Agreement'
    <2>1. lock # Mqtt => Due' = Due
      BY <1>1, Threads DEF Due, TypeOK
    <2>2. ResultsAgree'
      BY <1>1, <1>5, <2>1, NoWorkParts DEF Agreement, ResultsAgree
    <2>3. RowsAgree'
      BY <1>1, <1>5, NoWorkParts, NoneAssumption
         DEF Agreement, RowsAgree, Done, CoverInv, PresenceInv
    <2>4. ChangeIsSeen' /\ IncidentsFollow'
      BY <1>1, <1>5, NoWorkParts DEF Agreement, ChangeIsSeen, IncidentsFollow, Building,
         Candidates
    <2> QED
      BY <2>2, <2>3, <2>4 DEF Agreement
  <1> QED
    BY <1>1, <1>2, <1>3, <1>4, <1>5

\* What Persist does, part by part; n is the network whose rows it writes.
PersistParts(n, left) ==
    /\ work.step = "persist" /\ n = work.read /\ n \in work.todo /\ left = work.todo \ {n}
    /\ \A d \in Devices :
          persisted'[d] = IF d \in Differs(n) THEN work.built[n][d] ELSE persisted[d]
    /\ work' \in WorkTypes
    /\ work'.step = (IF left = {} THEN "sync" ELSE "build")
    /\ work'.todo = left /\ work'.read = None /\ work'.dev = work.dev
    /\ work'.built = work.built
    /\ ~work'.changed => ~work.changed /\ Differs(n) = {}
    /\ snapshot' \in [Networks -> Results \cup {None}]
    /\ left # {} => snapshot' = snapshot
    /\ left = {} => \A m \in Networks :
          snapshot'[m] = IF work.built[m] # None THEN work.built[m] ELSE snapshot[m]
    /\ told' \in [Networks -> Results \cup {None}]
    /\ \A m \in Networks : told'[m] = IF told[m] = None THEN snapshot'[m] ELSE told[m]
    /\ UNCHANGED <<fact, incidents, lock, job, ticker, faults>>

\* Persist has these parts, and its rows stay inside what the results allow.
LEMMA PersistHasParts ==
    ASSUME IInv, Persist
    PROVE  /\ PersistParts(work.read, work.todo \ {work.read})
           /\ WrittenRows
  <1> USE DEF IInv
  <1> DEFINE n == work.read
             left == work.todo \ {n}
             done == [m \in Networks |->
                        IF work.built[m] # None THEN work.built[m] ELSE snapshot[m]]
  <1>1. /\ work.step = "persist"
        /\ persisted' = [d \in Devices |->
                            IF d \in Differs(n) THEN work.built[n][d] ELSE persisted[d]]
        /\ work' = [work EXCEPT
                      !.step = IF left = {} THEN "sync" ELSE "build",
                      !.todo = left, !.read = None,
                      !.changed = work.changed \/ Differs(n) # {}]
        /\ snapshot' = IF left = {} THEN done ELSE snapshot
        /\ told' = [m \in Networks |-> IF told[m] = None THEN snapshot'[m] ELSE told[m]]
        /\ UNCHANGED <<fact, incidents, lock, job, ticker, faults>>
    BY DEF Persist
  <1>2. WrittenRows
    <2>1. \E part \in SUBSET Differs(n) :
             persisted' = [d \in Devices |-> IF d \in part THEN work.built[n][d] ELSE persisted[d]]
      BY <1>1
    <2> QED
      BY <1>1, <2>1, WritesStayInside
  <1>3. n \in work.todo
    BY <1>1 DEF CoverInv
  <1>4. (work.changed \/ Differs(n) # {}) \in BOOLEAN
    BY Zenon
  <1>5. work' \in WorkTypes
    BY <1>1, <1>4 DEF TypeOK, WorkTypes
  <1>6. /\ work'.step = (IF left = {} THEN "sync" ELSE "build")
        /\ work'.todo = left /\ work'.read = None /\ work'.dev = work.dev
        /\ work'.built = work.built
    BY <1>1 DEF TypeOK, WorkTypes
  <1>7. work'.changed = (work.changed \/ Differs(n) # {})
    BY <1>1 DEF TypeOK, WorkTypes
  <1>8. done \in [Networks -> Results \cup {None}]
    BY DEF TypeOK
  <1>9. snapshot' \in [Networks -> Results \cup {None}]
    BY <1>1, <1>8 DEF TypeOK
  <1>10. told' \in [Networks -> Results \cup {None}]
    BY <1>1, <1>9 DEF TypeOK
  <1> QED
    BY <1>1, <1>2, <1>3, <1>5, <1>6, <1>7, <1>9, <1>10 DEF PersistParts

\* The rows of the network now agree with what was built, and no row of another
\* network has changed.
LEMMA PersistRowsAgree ==
    ASSUME IInv, NEW n \in Networks, NEW left, PersistParts(n, left), WrittenRows, RowsAgree
    PROVE  /\ \A d \in Members(n) : persisted'[d] = work.built[n][d]
           /\ \A m \in Networks : m # n => \A d \in Members(m) : persisted'[d] = persisted[d]
  <1> USE DEF IInv, PersistParts
  <1>1. \A m \in Networks : m # n => \A d \in Members(m) : d \notin Members(n)
    BY DEF Members
  <1>2. ASSUME NEW d \in Members(n), d \notin Differs(n) PROVE persisted[d] = work.built[n][d]
    <2>1. CASE d \in Written(n)
      BY <1>2, <2>1 DEF Differs
    <2>2. CASE d \notin Written(n) /\ work.dev = None
      <3>1. work.built[n][d] = Absent
        BY <2>2 DEF Written
      <3> QED
        BY <3>1 DEF RowsAgree
    <2>3. CASE d \notin Written(n) /\ work.dev # None
      <3>1. work.built[n][d] = snapshot[n][d] /\ snapshot[n] # None /\ ~Done(n)
        BY <2>3 DEF Written, CoverInv, Building, Members, Done
      <3> QED
        BY <3>1 DEF RowsAgree
    <2> QED
      BY <2>1, <2>2, <2>3
  <1> QED
    BY <1>1, <1>2 DEF WrittenRows, Members

\* The cache is replaced when the last network has been written, by results that
\* agree with the facts and with the rows.
LEMMA PersistKeeps == ASSUME IInv, Persist PROVE IInv'
  <1> USE DEF IInv
  <1>1. PICK n, left : n = work.read /\ left = work.todo \ {n} /\ n \in Networks
                         /\ PersistParts(n, left)
    BY PersistHasParts DEF WrittenRows
  <1>2. WrittenRows
    BY PersistHasParts
  <1> USE <1>1 DEF PersistParts
  <1>3. TypeOK'
    BY <1>2 DEF TypeOK, WorkTypes, WrittenRows
  <1>4. LockInv'
    BY DEF LockInv
  <1>5. work.built[n] # None
    BY DEF CoverInv
  <1>6. left = {} => \A m \in Networks : work.built[m] # None \/ snapshot[m] # None
    BY <1>5 DEF CoverInv, Building
  <1>7. \A m \in Networks : snapshot'[m] # None => work.built[m] # None \/ snapshot[m] # None
    OBVIOUS
  <1>8. CoverInv'
    <2>1. CASE left = {}
      <3>1. \A m \in Networks : snapshot'[m] # None
        BY <1>6, <2>1
      <3>2. work'.dev # None => \A m \in Networks : work'.built[m] # None => m = NetOf[work'.dev]
        BY DEF CoverInv
      <3> QED
        BY <2>1, <3>1, <3>2 DEF CoverInv, Building
    <2>2. CASE left # {}
      <3>1. \A m \in left : work'.built[m] = None
        BY DEF CoverInv
      <3>2. \A m \in Networks : m \in left \/ work'.built[m] # None \/ snapshot'[m] # None
        BY <1>5, <2>2 DEF CoverInv, Building
      <3>3. lock' = Mqtt => job'[Mqtt].net \in left \/ work'.built[job'[Mqtt].net] # None
        BY <1>5, <2>2 DEF CoverInv, Building
      <3>4. /\ work'.step = "build" /\ work'.read = None /\ snapshot' = snapshot
            /\ work'.dev = work.dev /\ work'.built = work.built /\ work'.todo = left
            /\ left \subseteq work.todo
        BY <2>2
      <3>5. work'.dev # None => \A m \in Networks :
               m \in work'.todo \/ work'.built[m] # None => m = NetOf[work'.dev]
        BY <3>4 DEF CoverInv
      <3>6. work'.dev # None => \A m \in Networks :
               /\ snapshot'[m] # None
               /\ work'.built[m] # None => \A d \in Devices \ {work'.dev} :
                     work'.built[m][d] = snapshot'[m][d]
        BY <3>4 DEF CoverInv, Building
      <3>7. \A m, k \in Networks : snapshot'[m] # None => snapshot'[k] # None
        BY <3>4 DEF CoverInv
      <3> QED
        BY <3>1, <3>2, <3>3, <3>4, <3>5, <3>6, <3>7 DEF CoverInv, Building
    <2> QED
      BY <2>1, <2>2
  <1>9. PresenceInv'
    <2>1. \A d \in Devices : fact'[d] = Absent => persisted'[d] = Absent
      BY <1>2, WrittenPresence
    <2> QED
      BY <2>1 DEF PresenceInv
  <1>10. ASSUME Agreement PROVE Agreement'
    <2> USE <1>10 DEF Agreement
    <2>1. /\ \A d \in Members(n) : persisted'[d] = work.built[n][d]
          /\ \A m \in Networks : m # n => \A d \in Members(m) : persisted'[d] = persisted[d]
      BY <1>2, PersistRowsAgree
    <2>2. \A m \in Networks : Done(m)' <=> work.built[m] # None
      BY NoneAssumption DEF Done
    <2>3. \A m \in Networks : m # n => (Done(m) <=> work.built[m] # None)
      BY DEF Done
    <2>4. ResultsAgree'
      <3>1. Due' = Due
        BY DEF Due
      <3>2. CASE left # {}
        BY <3>1, <3>2 DEF ResultsAgree
      <3>3. CASE left = {}
        <4>1. lock = Mqtt => \A m \in Networks : work.built[m] = None =>
                \A d \in Members(m) : d \notin Due
          BY <3>3, <1>5 DEF CoverInv, Building, Due, Members
        <4> QED
          BY <1>6, <3>1, <3>3, <4>1 DEF ResultsAgree
      <3> QED
        BY <3>2, <3>3
    <2>5. RowsAgree'
      <3> SUFFICES ASSUME NEW m \in Networks, NEW d \in Members(m)
                   PROVE  /\ Done(m)' => persisted'[d] = work'.built[m][d]
                          /\ ~Done(m)' /\ snapshot'[m] # None => persisted'[d] = snapshot'[m][d]
                          /\ work'.read # m
        BY DEF RowsAgree, Members
      <3>1. work'.read # m
        BY NoneAssumption
      <3>2. Done(m)' => persisted'[d] = work'.built[m][d]
        BY <2>1, <2>2, <2>3 DEF RowsAgree
      <3>3. ~Done(m)' /\ snapshot'[m] # None => persisted'[d] = snapshot'[m][d]
        BY <1>5, <2>1, <2>2, <2>3 DEF RowsAgree
      <3> QED
        BY <3>1, <3>2, <3>3
    <2>6. ~work'.changed /\ snapshot[n] # None => work.built[n] = snapshot[n]
      <3> SUFFICES ASSUME ~work'.changed, snapshot[n] # None
                   PROVE  work.built[n] = snapshot[n]
        OBVIOUS
      <3>1. Differs(n) = {} /\ ~Done(n)
        BY DEF Done
      <3>2. \A d \in Members(n) : work.built[n][d] = snapshot[n][d]
        BY <1>2, <2>1, <3>1 DEF RowsAgree, WrittenRows, Members
      <3>3. \A d \in Devices : d \notin Members(n) => work.built[n][d] = snapshot[n][d]
        BY <1>5 DEF PresenceInv
      <3> QED
        BY <1>5, <3>2, <3>3 DEF TypeOK, Results
    <2>7. ~work'.changed => \A m \in Networks :
             work.built[m] # None /\ snapshot[m] # None => work.built[m] = snapshot[m]
      BY <2>3, <2>6 DEF ChangeIsSeen, Building
    <2>8. told = snapshot
      BY DEF ChangeIsSeen
    <2>9. ChangeIsSeen'
      <3>1. CASE left # {}
        <4>1. told' = told
          BY <2>8, <3>1 DEF TypeOK
        <4> QED
          BY <2>2, <2>7, <2>8, <3>1, <4>1 DEF ChangeIsSeen, Building
      <3>2. CASE left = {}
        <4>1. ~work'.changed => \A m \in Networks : told'[m] = snapshot'[m]
          BY <2>7, <2>8, <3>2
        <4>2. ~work'.changed => told' = snapshot'
          BY <4>1
        <4> QED
          BY <3>2, <4>2 DEF ChangeIsSeen, Building
      <3> QED
        BY <3>1, <3>2
    <2>10. IncidentsFollow'
      BY DEF IncidentsFollow, Candidates
    <2> QED
      BY <2>4, <2>5, <2>9, <2>10
  <1> QED
    BY <1>3, <1>4, <1>8, <1>9, <1>10

(***************************************************************************)
(* The theorems                                                            *)
(***************************************************************************)

\* Nothing is cached, due or under way, and only committed devices have rows.
LEMMA InitIInv == Init => IInv
  <1> SUFFICES ASSUME Init PROVE IInv
    OBVIOUS
  <1>1. TypeOK
    BY NoWorkParts, FaultsAssumption DEF Init, TypeOK, WorkTypes, Results, Values
  <1>2. LockInv
    BY Threads, NoWorkParts, JobParts DEF Init, LockInv
  <1>3. CoverInv /\ PresenceInv
    BY NoWorkParts DEF Init, CoverInv, PresenceInv, Building
  <1>4. Agreement
    BY NoWorkParts, NoneAssumption DEF Init, Agreement, ResultsAgree, RowsAgree, ChangeIsSeen,
       IncidentsFollow, Candidates, Done, Building
  <1> QED
    BY <1>1, <1>2, <1>3, <1>4 DEF IInv

\* Every step keeps the invariant.
LEMMA NextIInv == IInv /\ [Next]_vars => IInv'
  <1> SUFFICES ASSUME IInv, [Next]_vars PROVE IInv'
    OBVIOUS
  <1>1. CASE UNCHANGED vars
    BY <1>1 DEF vars, IInv, TypeOK, LockInv, CoverInv, PresenceInv, Agreement, ResultsAgree,
       RowsAgree, ChangeIsSeen, IncidentsFollow, Candidates, Done, Due, Building
  <1>2. CASE Next
    BY <1>2, IngestKeeps, AskKeeps, AcquireKeeps, BuildKeeps, PersistKeeps, SyncKeeps,
       AnnounceKeeps, RaisesKeeps DEF Next, Evaluate
  <1> QED
    BY <1>1, <1>2

\* The invariant holds in every reachable state.
THEOREM Invariance == Spec => []IInv
  BY InitIInv, NextIInv, PTL DEF Spec

\* Facts, rows, caches, jobs and the evaluation in progress keep their types.
THEOREM TypeCorrect == Spec => []TypeOK
  <1>1. IInv => TypeOK
    BY DEF IInv
  <1> QED
    BY <1>1, Invariance, PTL

\* Without a job there is no evaluation in progress and nothing is due.
LEMMA QuietParts == ASSUME IInv, Quiet PROVE lock = None /\ work = NoWork /\ Due = {}
  BY Threads DEF IInv, Quiet, LockInv, Due, TypeOK

\* When no evaluation is under way or has raised, snapshots, incidents and health
\* rows agree with the committed facts, although ingestion commits without the lock
\* of the coordinator and most evaluations reclassify one device.
THEOREM QuietAgreement == Spec => []QuietIsCurrent
  <1>1. IInv => QuietIsCurrent
    <2> SUFFICES ASSUME IInv, Quiet, faults = 0, \E n \in Networks : snapshot[n] # None
                 PROVE  /\ Current
                        /\ \A d \in Devices : fact[d] # Absent => persisted[d] = fact[d]
      BY DEF QuietIsCurrent
    <2> USE DEF IInv, Agreement
    <2>1. \A m \in Networks : snapshot[m] # None
      BY DEF CoverInv
    <2>2. \A m \in Networks : \A d \in Members(m) : snapshot[m][d] = fact[d]
      BY <2>1, QuietParts DEF ResultsAgree
    <2>3. incidents = Candidates
      BY QuietParts, NoWorkParts DEF IncidentsFollow
    <2>4. Current
      BY <2>1, <2>2, <2>3 DEF Current, Candidates
    <2>5. \A m \in Networks : \A d \in Members(m) : persisted[d] = fact[d]
      BY <2>1, <2>2, QuietParts, NoWorkParts DEF RowsAgree, Done
    <2>6. \A d \in Devices : NetOf[d] \in Networks /\ d \in Members(NetOf[d])
      BY NetOfAssumption DEF Members
    <2> QED
      BY <2>4, <2>5, <2>6
  <1> QED
    BY <1>1, Invariance, PTL

\* When no evaluation is under way or has raised, clients have been told of every
\* change in the results they read, although a change is recognised by the health
\* rows and not by the cached results.
THEOREM QuietTelling == Spec => []QuietIsTold
  <1>1. IInv => QuietIsTold
    BY QuietParts, NoWorkParts DEF IInv, Agreement, ChangeIsSeen, QuietIsTold
  <1> QED
    BY <1>1, Invariance, PTL

(***************************************************************************)
(* The client and the thread that starts and stops it                      *)
(***************************************************************************)

\* There is a client thread only between a connect that succeeded and loop_stop,
\* and without one there is no connection.
LoopInv ==
    /\ starter \in {"new", "stopping", "stopped"} => loop = "off"
    /\ loop = "off" => ~connected

\* The subscriptions are listed before start() reads the flag, and the flag is set
\* before the client reads the list: the second of the two sees the other.
HandshakeInv ==
    /\ starter \in {"listed", "subscribed", "read", "running"} => listed
    /\ NoDeafConnection

ClientInv == LoopInv /\ HandshakeInv

\* A collector that was not started satisfies the invariant.
LEMMA InitClient == MqInit => ClientInv
  BY DEF MqInit, ClientInv, LoopInv, HandshakeInv, NoDeafConnection

\* The callbacks of the client keep it, whatever a message does to the rows.
LEMMA MqttKeeps == ClientInv /\ MqttThread => ClientInv'
  <1> SUFFICES ASSUME ClientInv, MqttThread PROVE ClientInv'
    OBVIOUS
  <1> USE DEF ClientInv, LoopInv, HandshakeInv, NoDeafConnection
  <1>1. CASE \E m \in Message : HandleMessage(m)
    <2>1. /\ loop = "idle" /\ loop' = "ingested" /\ connected
          /\ UNCHANGED <<starter, connected, listed, heard>>
      BY <1>1 DEF HandleMessage
    <2> QED
      BY <2>1
  <1>2. CASE HandlerRaises
    BY <1>2 DEF HandlerRaises, clientVars
  <1>3. CASE MessageDone
    BY <1>3 DEF MessageDone
  <1>4. CASE OnConnectFlag
    BY <1>4 DEF OnConnectFlag
  <1>5. CASE OnConnectSubscribe
    BY <1>5 DEF OnConnectSubscribe
  <1>6. CASE OnDisconnect
    BY <1>6 DEF OnDisconnect
  <1> QED
    BY <1>1, <1>2, <1>3, <1>4, <1>5, <1>6 DEF MqttThread

\* So do the steps of start() and stop().
LEMMA StarterKeeps == ClientInv /\ StarterThread => ClientInv'
  <1> SUFFICES ASSUME ClientInv, StarterThread PROVE ClientInv'
    OBVIOUS
  <1> USE DEF ClientInv, LoopInv, HandshakeInv, NoDeafConnection
  <1>1. CASE Connect \/ ConnectFails
    BY <1>1 DEF Connect, ConnectFails
  <1>2. CASE SubscribeList
    BY <1>2 DEF SubscribeList
  <1>3. CASE SubscribeNow
    BY <1>3 DEF SubscribeNow
  <1>4. CASE StartReads \/ StartWrites
    BY <1>4 DEF StartReads, StartWrites
  <1>5. CASE StopLoop \/ StopWrites
    BY <1>5 DEF StopLoop, StopWrites
  <1>6. CASE StartRaises
    BY <1>6 DEF StartRaises
  <1> QED
    BY <1>1, <1>2, <1>3, <1>4, <1>5, <1>6 DEF StarterThread

\* Every step keeps the invariant of the client.
LEMMA NextClient == ClientInv /\ [MqNext]_mqVars => ClientInv'
  <1>1. ClientInv /\ UNCHANGED mqVars => ClientInv'
    BY DEF mqVars, clientVars, ClientInv, LoopInv, HandshakeInv,
       NoDeafConnection
  <1> QED
    BY <1>1, MqttKeeps, StarterKeeps DEF MqNext

\* However start(), a connection and a reconnect into a clean session interleave, a
\* connection that start() and the client have finished with is subscribed.
THEOREM ConnectionsHear == MqSpec => []NoDeafConnection
  <1>1. ClientInv => NoDeafConnection
    BY DEF ClientInv, HandshakeInv
  <1> QED
    BY <1>1, InitClient, NextClient, PTL DEF MqSpec

\* After stop() no callback is left that could write the status row or the tables.
THEOREM StopIsLast == MqSpec => StopIsLastWord
  <1>1. ClientInv /\ [MqNext]_mqVars =>
          [starter = "stopped" => UNCHANGED <<status, connected, device, bridge>>]_mqVars
    <2> SUFFICES ASSUME ClientInv, MqNext, starter = "stopped"
                 PROVE  UNCHANGED <<status, connected, device, bridge>>
      OBVIOUS
    <2>1. ~StarterThread
      BY DEF StarterThread, Connect, ConnectFails, SubscribeList,
         SubscribeNow, StartReads, StartWrites, StartRaises, StopLoop,
         StopWrites
    <2>2. loop = "off"
      BY DEF ClientInv, LoopInv
    <2>3. ~MqttThread
      BY <2>2 DEF ClientInv, LoopInv, MqttThread, HandleMessage,
         HandlerRaises, MessageDone, OnConnectFlag,
         OnConnectSubscribe, OnDisconnect
    <2> QED
      BY <2>1, <2>3 DEF MqNext
  <1> QED
    BY <1>1, InitClient, NextClient, PTL DEF MqSpec, StopIsLastWord

(***************************************************************************)
(* The rows a message leaves behind                                        *)
(***************************************************************************)

\* What a normalized event may carry, by its type.
EventOK(e) ==
    /\ e.net \in Networks
    /\ e.type \in {"bridge_state_seen", "device_availability_seen"} => e.body \in Online
    /\ e.type = "device_inventory_seen" => e.body \in Inventories
    /\ e.type \in {"device_payload_seen", "device_availability_seen"} => e.name \in Names
    /\ e.type = "device_payload_seen" => e.body = "fields"
    /\ e.type \in BridgeDeviceEvents =>
         e.ieee \in Ieees \cup {None} /\ e.name \in Names \cup {None}

\* A device keeps the row it has: history is written for devices that have one.
HistoryInv ==
    /\ \A k \in Keys : changes[k] # <<>> => device[k] # None
    /\ HistoryConnects

\* Parked messages are numbered in the order of arrival.
ArrivalInv == \A p \in parked : p.at < count

RowInv == MqTypeOK /\ HistoryInv /\ ArrivalInv

\* The devices a handled event changed are in the scope of the evaluation that follows it.
Evaluated(h, e) ==
    \A k \in Keys : (device'[k] # device[k] \/ bridge'[k[1]] # bridge[k[1]]) =>
        k \in RecalcScope(h.type, e.net, h.ieee)

\* What a step does to the tables keeps their types and the history.
RowTypes ==
    /\ bridge \in [Networks -> Online \cup {"unknown"}]
    /\ device \in [Keys -> DeviceRow \cup {None}]
    /\ parked \subseteq ParkedRow
    /\ changes \in [Keys -> Seq(Online \X Online)]
    /\ replayed \subseteq Keys

RowsKept == RowTypes' /\ HistoryInv' /\ ArrivalInv'

\* The mark of an absent value is no network, address, name, row or availability.
LEMMA NoneIsApart == /\ None \notin Networks /\ None \notin Ieees /\ None \notin Names
                     /\ None \notin DeviceRow /\ None \notin Online
  BY IngestionAssumption

\* Whatever the topic and the payload, the normalizer fills the fields the handler reads.
LEMMA NormalizedEvents ==
    ASSUME NEW m \in Message, NEW e \in Normalize(m)
    PROVE  EventOK(e)
  <1>1. CASE m.kind = "bridge_state"
    <2>1. m.net \in Networks /\ m.body \in Online \cup {"unusable"}
      BY <1>1 DEF Message
    <2>2. e \in BridgeEvents(m)
      BY <1>1 DEF Normalize
    <2>3. e = Event(IF ExtractState(m.body) = None THEN "parse_error" ELSE "bridge_state_seen", m)
      BY <1>1, <2>2 DEF BridgeEvents
    <2>4. CASE ExtractState(m.body) = None
      BY <2>1, <2>3, <2>4 DEF Event, EventOK, BridgeDeviceEvents
    <2>5. CASE ExtractState(m.body) # None
      BY <2>1, <2>3, <2>5 DEF Event, EventOK, BridgeDeviceEvents, ExtractState
    <2> QED
      BY <2>4, <2>5
  <1>2. CASE m.kind = "device_availability"
    <2>1. m.net \in Networks /\ m.body \in Online \cup {"unusable"} /\ m.name \in Names
      BY <1>2 DEF Message
    <2>2. e \in DeviceEvents(m)
      BY <1>2 DEF Normalize
    <2>3. CASE ExtractState(m.body) = None
      BY <1>2, <2>1, <2>2, <2>3 DEF Event, EventOK, BridgeDeviceEvents, DeviceEvents
    <2>4. CASE ExtractState(m.body) # None
      BY <1>2, <2>1, <2>2, <2>4 DEF Event, EventOK, BridgeDeviceEvents, DeviceEvents,
         ExtractState
    <2> QED
      BY <2>3, <2>4
  <1>3. CASE m.kind = "device_payload"
    <2>1. m.net \in Networks /\ m.body \in {"fields", "malformed"} /\ m.name \in Names
      BY <1>3 DEF Message
    <2>2. CASE m.body = "malformed"
      BY <1>3, <2>1, <2>2 DEF Event, EventOK, BridgeDeviceEvents, Normalize
    <2>3. CASE m.body # "malformed"
      BY <1>3, <2>1, <2>3 DEF Event, EventOK, BridgeDeviceEvents, Normalize, DeviceEvents
    <2> QED
      BY <2>2, <2>3
  <1>4. CASE m.kind = "bridge_devices"
    <2>1. m.net \in Networks /\ m.body \in Inventories
      BY <1>4 DEF Message
    <2>2. e = Event("device_inventory_seen", m)
      BY <1>4 DEF Normalize, BridgeEvents
    <2> QED
      BY <2>1, <2>2 DEF Event, EventOK, BridgeDeviceEvents
  <1>5. CASE m.kind = "bridge_event"
    <2>1. /\ m.net \in Networks /\ m.ieee \in Ieees \cup {None} /\ m.name \in Names \cup {None}
          /\ m.body \in {"device_joined", "device_announce", "device_leave", "interview_started",
                         "interview_failed", "interview_successful", "other"}
      BY <1>5 DEF Message
    <2>2. e = [type |-> BridgeEventType(m.body), net |-> m.net, ieee |-> m.ieee,
               name |-> m.name, body |-> m.body]
      BY <1>5 DEF Event, Normalize
    <2>3. BridgeEventType(m.body) \in BridgeDeviceEvents
      BY <2>1 DEF BridgeEventType, BridgeDeviceEvents
    <2> QED
      BY <2>1, <2>2, <2>3 DEF EventOK, BridgeDeviceEvents
  <1>6. CASE m.kind \in {"bridge_info", "bridge_health", "bridge_logging", "ignored", "foreign"}
    <2>1. m.net \in Networks
      BY <1>6 DEF Message
    <2>2. \E type \in {"parse_error", "bridge_info_seen", "bridge_health_seen",
                       "bridge_log_warning"} : e = Event(type, m)
      BY <1>6 DEF Normalize, BridgeEvents, BridgeNotes
    <2> QED
      BY <2>1, <2>2 DEF Event, EventOK, BridgeDeviceEvents
  <1> QED
    BY <1>1, <1>2, <1>3, <1>4, <1>5, <1>6 DEF Message


\* A device is given a row, or another row with the availability it had.
LEMMA RowStep ==
    ASSUME RowInv, NEW k \in Keys, NEW r \in DeviceRow,
           device' = [device EXCEPT ![k] = r],
           device[k] # None => r.availability = device[k].availability,
           UNCHANGED <<bridge, parked, changes, replayed>>, count' = count + 1
    PROVE  RowsKept /\ \A j \in Keys : device'[j] # device[j] => j = k
  <1> USE DEF RowInv, MqTypeOK, HistoryInv
  <1>1. RowTypes'
    BY DEF RowTypes
  <1>2. \A j \in Keys : j # k => device'[j] = device[j]
    OBVIOUS
  <1>3. device'[k] = r /\ r # None
    BY NoneIsApart
  <1>4. \A j \in Keys : changes[j] # <<>> => device'[j] # None
    BY <1>2, <1>3
  <1>5. \A j \in Keys : changes[j] # <<>> => device'[j].availability = device[j].availability
    BY <1>2, <1>3
  <1>6. HistoryConnects'
    BY <1>5 DEF HistoryConnects
  <1>7. ArrivalInv'
    BY DEF ArrivalInv, ParkedRow
  <1> QED
    BY <1>1, <1>2, <1>4, <1>6, <1>7 DEF RowsKept

\* A message is parked, or nothing changes.
LEMMA ParkStep ==
    ASSUME RowInv, parked' \subseteq ParkedRow, \A p \in parked' : p.at < count',
           UNCHANGED <<bridge, device, changes, replayed>>, count' = count + 1
    PROVE  RowsKept
  BY DEF RowInv, MqTypeOK, HistoryInv, RowsKept, RowTypes, HistoryConnects, ArrivalInv

\* What is parked stays numbered while a message is handled.
LEMMA NothingParked ==
    ASSUME RowInv, parked' \subseteq parked, count' = count + 1
    PROVE  parked' \subseteq ParkedRow /\ \A p \in parked' : p.at < count'
  BY DEF RowInv, MqTypeOK, ArrivalInv, ParkedRow

\* The one device of that name, when there is one.
LEMMA TheMatch ==
    ASSUME RowInv, NEW n \in Networks, NEW name, Matches(device, n, name) # {}
    PROVE  LET i == CHOOSE i \in Matches(device, n, name) : TRUE IN
           /\ i \in Ieees /\ <<n, i>> \in Keys
           /\ device[<<n, i>>] \in DeviceRow
  BY DEF RowInv, MqTypeOK, Matches, Keys

\* Events that name a device have it evaluated.
LEMMA DeviceScope ==
    ASSUME NEW n, NEW i \in Ieees,
           NEW type \in {"device_payload_seen", "device_availability_seen",
                         "device_availability_changed", "device_interview_started",
                         "device_interview_success", "device_interview_failed"}
    PROVE  <<n, i>> \in RecalcScope(type, n, i)
  <1>1. i # None
    BY NoneIsApart
  <1>2. RecalcScope(type, n, i) = {<<n, i>>}
    BY <1>1 DEF RecalcScope
  <1> QED
    BY <1>2

\* _handle_device_payload keeps the rows; the device it updated is evaluated.
LEMMA PayloadKeeps ==
    ASSUME RowInv, NEW e, EventOK(e), e.type = "device_payload_seen",
           SetTables(HandlePayload(Tables, e).t), count' = count + 1
    PROVE  RowsKept /\ Evaluated(HandlePayload(Tables, e), e)
  <1> DEFINE m == Matches(device, e.net, e.name)
             i == CHOOSE i \in m : TRUE
             k == <<e.net, i>>
  <1>0. e.net \in Networks /\ e.name \in Names /\ e.body = "fields"
    BY DEF EventOK
  <1>1. CASE m = {}
    <2>1. /\ parked' = parked \cup {[at |-> count, net |-> e.net, name |-> e.name,
                                     kind |-> "device_payload", state |-> e.body]}
          /\ UNCHANGED <<bridge, device, changes, replayed>>
      BY <1>1, FS_EmptySet DEF HandlePayload, SetTables, Tables, Park
    <2>2. parked' \subseteq ParkedRow /\ \A p \in parked' : p.at < count'
      BY <2>1, <1>0 DEF RowInv, MqTypeOK, ParkedRow, ArrivalInv
    <2> QED
      BY <2>1, <2>2, ParkStep DEF Evaluated
  <1>2. CASE m # {} /\ Cardinality(m) > 1
    <2>1. UNCHANGED <<bridge, device, parked, changes, replayed>>
      BY <1>2 DEF HandlePayload, SetTables, Tables
    <2> QED
      BY <2>1, ParkStep, NothingParked DEF Evaluated
  <1>3. CASE m # {} /\ ~(Cardinality(m) > 1)
    <2>1. k \in Keys /\ i \in Ieees /\ device[k] \in DeviceRow
      BY <1>0, <1>3, TheMatch
    <2> DEFINE r == [device[k] EXCEPT !.reported = TRUE]
    <2>2. /\ device' = [device EXCEPT ![k] = r]
          /\ UNCHANGED <<bridge, parked, changes, replayed>>
          /\ HandlePayload(Tables, e).type = "device_payload_seen"
          /\ HandlePayload(Tables, e).ieee = i
      BY <1>3 DEF HandlePayload, SetTables, Tables
    <2>3. r \in DeviceRow /\ r.availability = device[k].availability
      BY <2>1 DEF DeviceRow
    <2>4. RowsKept /\ \A j \in Keys : device'[j] # device[j] => j = k
      BY <2>1, <2>2, <2>3, RowStep
    <2>5. k \in RecalcScope("device_payload_seen", e.net, i)
      BY <2>1, DeviceScope
    <2> QED
      BY <2>2, <2>4, <2>5 DEF Evaluated
  <1> QED
    BY <1>1, <1>2, <1>3

\* _handle_device_availability adds a record when the state changes, from the state it had.
LEMMA AvailabilityKeeps ==
    ASSUME RowInv, NEW e, EventOK(e), e.type = "device_availability_seen",
           SetTables(HandleAvailability(Tables, e).t), count' = count + 1
    PROVE  RowsKept /\ Evaluated(HandleAvailability(Tables, e), e)
  <1> DEFINE m == Matches(device, e.net, e.name)
             i == CHOOSE i \in m : TRUE
             k == <<e.net, i>>
             previous == device[k].availability
             changed == previous # None /\ previous # e.body
             h == HandleAvailability(Tables, e)
  <1>0. e.net \in Networks /\ e.name \in Names /\ e.body \in Online
    BY DEF EventOK
  <1>1. CASE m = {}
    <2>1. /\ parked' = parked \cup {[at |-> count, net |-> e.net, name |-> e.name,
                                     kind |-> "device_availability", state |-> e.body]}
          /\ UNCHANGED <<bridge, device, changes, replayed>>
      <3> HIDE DEF changed, previous
      <3>1. h.t = [Tables EXCEPT !.parked = Park(Tables, e, "device_availability")]
        BY <1>1, FS_EmptySet DEF HandleAvailability, Tables, previous, changed
      <3> QED
        BY <3>1 DEF SetTables, Tables, Park
    <2>2. parked' \subseteq ParkedRow /\ \A p \in parked' : p.at < count'
      BY <2>1, <1>0 DEF RowInv, MqTypeOK, ParkedRow, ArrivalInv
    <2> QED
      BY <2>1, <2>2, ParkStep DEF Evaluated
  <1>2. CASE m # {} /\ Cardinality(m) > 1
    <2>1. UNCHANGED <<bridge, device, parked, changes, replayed>>
      BY <1>2 DEF HandleAvailability, SetTables, Tables
    <2> QED
      BY <2>1, ParkStep, NothingParked DEF Evaluated
  <1>3. CASE m # {} /\ ~(Cardinality(m) > 1)
    <2>1. k \in Keys /\ i \in Ieees /\ device[k] \in DeviceRow
      BY <1>0, <1>3, TheMatch
    <2> DEFINE r == [device[k] EXCEPT !.availability = e.body]
               c == IF changed THEN Append(changes[k], <<previous, e.body>>) ELSE changes[k]
    <2>2. /\ device' = [device EXCEPT ![k] = r]
          /\ changes' = [changes EXCEPT ![k] = c]
          /\ UNCHANGED <<bridge, parked, replayed>>
          /\ h.type = IF changed THEN "device_availability_changed" ELSE "device_availability_seen"
          /\ h.ieee = i
      BY <1>3 DEF HandleAvailability, SetTables, Tables
    <2>3. r \in DeviceRow /\ r.availability = e.body
      BY <1>0, <2>1 DEF DeviceRow
    <2>4. \A j \in Keys : j # k => device'[j] = device[j] /\ changes'[j] = changes[j]
      BY <2>2 DEF RowInv, MqTypeOK
    <2>5. device'[k] = r /\ changes'[k] = c
      BY <2>1, <2>2 DEF RowInv, MqTypeOK
    <2>6. changes[k] \in Seq(Online \X Online)
      BY <2>1 DEF RowInv, MqTypeOK
    <2>7. previous \in Online \cup {None}
      BY <2>1 DEF DeviceRow
    <2>8. c \in Seq(Online \X Online)
      BY <1>0, <2>6, <2>7
    <2>9. RowTypes'
      BY <2>2, <2>3, <2>8 DEF RowTypes, RowInv, MqTypeOK
    <2>10. \A j \in Keys : changes'[j] # <<>> => device'[j] # None
      BY <2>3, <2>4, <2>5, NoneIsApart DEF RowInv, HistoryInv
    <2>11. ASSUME k \notin replayed
           PROVE  /\ \A j \in 1..Len(c) : c[j][1] # c[j][2]
                  /\ \A j \in 1..(Len(c) - 1) : c[j][2] = c[j + 1][1]
                  /\ c # <<>> => r.availability = c[Len(c)][2]
      <3> DEFINE o == changes[k]
      <3>1. /\ \A j \in 1..Len(o) : o[j][1] # o[j][2]
            /\ \A j \in 1..(Len(o) - 1) : o[j][2] = o[j + 1][1]
            /\ o # <<>> => previous = o[Len(o)][2]
        BY <2>1, <2>11 DEF RowInv, HistoryInv, HistoryConnects
      <3>2. CASE changed
        <4>1. c = Append(o, <<previous, e.body>>)
          BY <3>2
        <4>o. o \in Seq(Online \X Online)
          BY <2>6
        <4> DEFINE last == <<previous, e.body>>
        <4>2. Len(o) \in Nat /\ Len(c) = Len(o) + 1
          <5> HIDE DEF o, c, last
          <5> QED
            BY <4>o, <4>1 DEF last
        <4>3. \A j \in 1..Len(o) : c[j] = o[j]
          <5> HIDE DEF o, c, last
          <5> QED
            BY <4>o, <4>1 DEF last
        <4>4. c[Len(c)] = <<previous, e.body>>
          <5>1. <<previous, e.body>> \in Online \X Online
            BY <1>0, <2>7, <3>2
          <5> HIDE DEF o, c, previous
          <5>2. c[Len(o) + 1] = <<previous, e.body>>
            BY <2>6, <4>1, <4>2, <5>1 DEF o
          <5> QED
            BY <4>2, <5>2
        <4>5. Len(o) > 0 => o # <<>>
          BY <2>6
        <4> HIDE DEF o, c, r
        <4>6. \A j \in 1..Len(c) : c[j][1] # c[j][2]
          BY <3>1, <3>2, <4>2, <4>3, <4>4
        <4>7. \A j \in 1..(Len(c) - 1) : c[j][2] = c[j + 1][1]
          <5> SUFFICES ASSUME NEW j \in 1..Len(o) PROVE c[j][2] = c[j + 1][1]
            BY <4>2
          <5>1. CASE j = Len(o)
            <6>1. Len(o) > 0 /\ c[j] = o[j] /\ c[j + 1] = <<previous, e.body>>
              BY <4>2, <4>3, <4>4, <5>1
            <6> QED
              BY <3>1, <4>5, <5>1, <6>1
          <5>2. CASE j # Len(o)
            <6>1. j \in 1..(Len(o) - 1) /\ j + 1 \in 1..Len(o)
              BY <4>2, <5>2
            <6> QED
              BY <3>1, <4>3, <6>1
          <5> QED
            BY <5>1, <5>2
        <4> QED
          BY <2>3, <4>4, <4>6, <4>7
      <3>3. CASE ~changed
        <4>1. c = o
          BY <3>3
        <4>2. o # <<>> => o[Len(o)] \in Online \X Online
          BY <2>6
        <4>3. o # <<>> => previous = e.body
          BY <3>1, <3>3, <4>2, NoneIsApart
        <4> HIDE DEF o, c, r, previous
        <4>4. c # <<>> => r.availability = c[Len(c)][2]
          BY <2>3, <3>1, <4>1, <4>3
        <4> QED
          BY <3>1, <4>1, <4>4
      <3> QED
        BY <3>2, <3>3
    <2>12. HistoryConnects'
      <3> HIDE DEF c, r
      <3> SUFFICES ASSUME NEW q \in Keys, q \notin replayed
                   PROVE  /\ \A j \in 1..Len(changes'[q]) : changes'[q][j][1] # changes'[q][j][2]
                          /\ \A j \in 1..(Len(changes'[q]) - 1) :
                                changes'[q][j][2] = changes'[q][j + 1][1]
                          /\ changes'[q] # <<>> =>
                                device'[q].availability = changes'[q][Len(changes'[q])][2]
        BY <2>2 DEF HistoryConnects
      <3>1. CASE q = k
        BY <2>5, <2>11, <3>1
      <3>2. CASE q # k
        BY <2>4, <3>2 DEF RowInv, HistoryInv, HistoryConnects
      <3> QED
        BY <3>1, <3>2
    <2>14. ArrivalInv'
      BY <2>2, NothingParked DEF ArrivalInv
    <2>13. k \in RecalcScope(h.type, e.net, h.ieee)
      BY <2>1, <2>2, DeviceScope
    <2> QED
      BY <2>2, <2>4, <2>9, <2>10, <2>12, <2>13, <2>14 DEF RowsKept, HistoryInv, Evaluated
  <1> QED
    BY <1>1, <1>2, <1>3


\* The type an event came with, and the one the handler gave it.
LEMMA NetworkScope ==
    ASSUME NEW n, NEW j \in Ieees, NEW i \in Ieees \cup {None},
           NEW type \in {"bridge_state_seen", "bridge_state_changed", "device_inventory_seen",
                         "device_joined", "device_announced", "device_left",
                         "unknown_bridge_event"},
           type = "unknown_bridge_event" => i # None
    PROVE  <<n, j>> \in RecalcScope(type, n, i)
  <1>1. RecalcScope(type, n, i) = {<<n, x>> : x \in Ieees}
    BY DEF RecalcScope
  <1> QED
    BY <1>1

\* _handle_bridge_device_event renames or creates one row.
LEMMA BridgeDeviceKeeps ==
    ASSUME RowInv, NEW e, EventOK(e), e.type \in BridgeDeviceEvents,
           SetTables(HandleBridgeDeviceEvent(Tables, e).t), count' = count + 1
    PROVE  RowsKept /\ Evaluated(HandleBridgeDeviceEvent(Tables, e), e)
  <1> DEFINE k == <<e.net, e.ieee>>
             old == device[k]
             isInterview == InterviewBy(e.type) # "unknown"
             name == IF e.name # None THEN e.name ELSE IF old # None THEN old.name ELSE e.ieee
             interview == IF old # None /\ ~isInterview THEN old.interview ELSE InterviewBy(e.type)
             h == HandleBridgeDeviceEvent(Tables, e)
  <1>0. /\ e.net \in Networks /\ e.ieee \in Ieees \cup {None} /\ e.name \in Names \cup {None}
        /\ h.type = e.type /\ h.ieee = e.ieee
    BY DEF EventOK, HandleBridgeDeviceEvent
  <1>1. CASE e.ieee = None
    <2>1. UNCHANGED <<bridge, device, parked, changes, replayed>>
      BY <1>1 DEF HandleBridgeDeviceEvent, SetTables, Tables
    <2> QED
      BY <2>1, ParkStep, NothingParked DEF Evaluated
  <1>2. CASE e.ieee # None
    <2>1. k \in Keys /\ old \in DeviceRow \cup {None} /\ e.ieee \in Ieees
      BY <1>0, <1>2 DEF Keys, RowInv, MqTypeOK
    <2> DEFINE r == IF old = None
                    THEN [name |-> name, interview |-> interview, availability |-> None,
                          reported |-> FALSE]
                    ELSE [old EXCEPT !.name = name, !.interview = interview]
    <2>2. h.t = [Tables EXCEPT !.device = Upsert(device, k, name, interview)]
      BY <1>2 DEF HandleBridgeDeviceEvent, Tables
    <2>3. InterviewBy(e.type) \in Interview
      BY DEF InterviewBy, Interview
    <2>4. interview \in Interview /\ name \in Names \cup Ieees
      BY <1>0, <2>1, <2>3 DEF DeviceRow
    <2> HIDE DEF name, interview
    <2>5. device' = [device EXCEPT ![k] = r] /\ UNCHANGED <<bridge, parked, changes, replayed>>
      BY <2>1, <2>2 DEF SetTables, Tables, Upsert, RowInv, MqTypeOK
    <2>6. r \in DeviceRow /\ (old # None => r.availability = old.availability)
      BY <2>1, <2>4 DEF DeviceRow
    <2>7. RowsKept /\ \A j \in Keys : device'[j] # device[j] => j = k
      BY <2>1, <2>5, <2>6, RowStep
    <2>8. k \in RecalcScope(h.type, e.net, h.ieee)
      BY <1>0, <2>1, <1>2, DeviceScope, NetworkScope DEF BridgeDeviceEvents
    <2> QED
      BY <2>5, <2>7, <2>8 DEF Evaluated
  <1> QED
    BY <1>1, <1>2

\* _handle_bridge_state: every device of the network is evaluated.
LEMMA BridgeStateKeeps ==
    ASSUME RowInv, NEW e, EventOK(e), e.type = "bridge_state_seen",
           SetTables(HandleBridgeState(Tables, e).t), count' = count + 1
    PROVE  RowsKept /\ Evaluated(HandleBridgeState(Tables, e), e)
  <1> DEFINE h == HandleBridgeState(Tables, e)
  <1>1. e.net \in Networks /\ e.body \in Online
    BY DEF EventOK
  <1>2. /\ bridge' = [bridge EXCEPT ![e.net] = e.body]
        /\ UNCHANGED <<device, parked, changes, replayed>>
        /\ h.type \in {"bridge_state_seen", "bridge_state_changed"} /\ h.ieee = None
    BY DEF HandleBridgeState, SetTables, Tables
  <1>3. RowsKept
    BY <1>1, <1>2, NothingParked DEF RowInv, MqTypeOK, HistoryInv, RowsKept, RowTypes,
       HistoryConnects, ArrivalInv
  <1>4. \A n \in Networks : bridge'[n] # bridge[n] => n = e.net
    BY <1>2 DEF RowInv, MqTypeOK
  <1>5. \A k \in Keys : k[1] = e.net => k \in RecalcScope(h.type, e.net, h.ieee)
    <2> SUFFICES ASSUME NEW j \in Ieees PROVE <<e.net, j>> \in RecalcScope(h.type, e.net, h.ieee)
      BY DEF Keys
    <2> QED
      BY <1>2, NetworkScope
  <1> QED
    BY <1>2, <1>3, <1>4, <1>5 DEF Evaluated, Keys

(***************************************************************************)
(* The inventory                                                           *)
(***************************************************************************)

\* Upserting the entries of an inventory touches the devices of its network, keeps the
\* availability of those that have a row, and takes no row away.
LEMMA UpsertAllParts ==
    ASSUME RowInv, NEW n \in Networks, NEW entries \in Inventories
    PROVE  LET up == UpsertAll(device, n, entries) IN
           /\ up \in [Keys -> DeviceRow \cup {None}]
           /\ \A k \in Keys : up[k] # device[k] => k[1] = n
           /\ \A k \in Keys : device[k] # None =>
                up[k] # None /\ up[k].availability = device[k].availability
  <1> DEFINE up == UpsertAll(device, n, entries)
  <1>1. \A k \in Keys : k[1] = n /\ (\E x \in entries : x.ieee = k[2]) =>
          /\ up[k] \in DeviceRow
          /\ device[k] # None => up[k].availability = device[k].availability
    <2> SUFFICES ASSUME NEW k \in Keys, k[1] = n, \E x \in entries : x.ieee = k[2]
                 PROVE  /\ up[k] \in DeviceRow
                        /\ device[k] # None => up[k].availability = device[k].availability
      OBVIOUS
    <2> DEFINE x == CHOOSE x \in entries : x.ieee = k[2]
    <2>1. up[k] = Upsert(device, k, x.name, x.interview)[k]
      BY DEF UpsertAll
    <2>2. x \in InventoryEntry
      BY IngestionAssumption
    <2>3. x.name \in Names \cup Ieees /\ x.interview \in Interview
      BY <2>2 DEF InventoryEntry
    <2>4. device[k] \in DeviceRow \cup {None}
      BY DEF RowInv, MqTypeOK
    <2> HIDE DEF x, up
    <2>5. CASE device[k] = None
      <3>1. up[k] = [name |-> x.name, interview |-> x.interview, availability |-> None,
                     reported |-> FALSE]
        BY <2>1, <2>5 DEF Upsert, RowInv, MqTypeOK
      <3> QED
        BY <2>3, <2>5, <3>1 DEF DeviceRow
    <2>6. CASE device[k] # None
      <3>1. up[k] = [device[k] EXCEPT !.name = x.name, !.interview = x.interview]
        BY <2>1, <2>6 DEF Upsert, RowInv, MqTypeOK
      <3> QED
        BY <2>3, <2>4, <2>6, <3>1 DEF DeviceRow
    <2> QED
      BY <2>5, <2>6
  <1>2. \A k \in Keys : ~(k[1] = n /\ \E x \in entries : x.ieee = k[2]) => up[k] = device[k]
    BY DEF UpsertAll
  <1>3. \A k \in Keys : up[k] \in DeviceRow \cup {None}
    BY <1>1, <1>2 DEF RowInv, MqTypeOK
  <1>4. up \in [Keys -> DeviceRow \cup {None}]
    <2>1. up = [k \in Keys |-> up[k]]
      BY DEF UpsertAll
    <2> HIDE DEF up
    <2> QED
      BY <1>3, <2>1
  <1> QED
    BY <1>1, <1>2, <1>4, NoneIsApart


\* A set of numbers below a bound has a greatest one, so the last of several parked messages
\* is one of them.
LEMMA LastIsThere ==
    ASSUME NEW S, S # {}, NEW N \in Nat, \A p \in S : p.at \in Nat /\ p.at < N
    PROVE  (CHOOSE p \in S : \A q \in S : q.at <= p.at) \in S
  <1> DEFINE T == {N - p.at : p \in S}
  <1>1. T \in SUBSET Nat /\ T # {}
    OBVIOUS
  <1>2. \E m \in T : \A y \in T : ~(<<y, m>> \in OpToRel(<, Nat))
    BY <1>1, WFMin, NatLessThanWellFounded, Zenon
  <1>3. PICK m \in T : \A y \in T : ~(<<y, m>> \in OpToRel(<, Nat))
    BY <1>2
  <1>4. \A y \in T : y < m => <<y, m>> \in OpToRel(<, Nat)
    BY <1>1 DEF OpToRel
  <1>5. \A y \in T : ~(y < m)
    BY <1>3, <1>4, Zenon
  <1>6. PICK p \in S : m = N - p.at
    BY <1>3
  <1>7. \A q \in S : q.at <= p.at
    <2> SUFFICES ASSUME NEW q \in S PROVE q.at <= p.at
      OBVIOUS
    <2>1. N - q.at \in T
      OBVIOUS
    <2>2. ~(N - q.at < N - p.at)
      BY <1>5, <1>6, <2>1
    <2> HIDE DEF T
    <2> QED
      BY <2>2
  <1> QED
    BY <1>7

\* Replaying what is parked changes devices of that network only, renames none and takes no row
\* away; a device it changes is marked as replayed; what stays parked fits no one device.
LEMMA ReplayParts ==
    ASSUME RowInv, NEW n \in Networks, NEW up \in [Keys -> DeviceRow \cup {None}]
    PROVE  LET r == ReconcileUnresolved([Tables EXCEPT !.device = up], n) IN
           /\ r.bridge = bridge /\ r.changes = changes
           /\ r.parked \subseteq parked
           /\ replayed \subseteq r.replayed /\ r.replayed \subseteq Keys
           /\ r.device \in [Keys -> DeviceRow \cup {None}]
           /\ \A k \in Keys : r.device[k] # up[k] => k[1] = n /\ k \in r.replayed
           /\ \A k \in Keys : up[k] # None => r.device[k] # None
           /\ \A p \in r.parked : p.net = n => Cardinality(Matches(r.device, n, p.name)) # 1
  <1> DEFINE t == [Tables EXCEPT !.device = up]
             resolves == {p \in t.parked : p.net = n /\ Cardinality(Matches(t.device, n, p.name)) = 1}
             Of(k) == {p \in resolves : k[1] = n /\ k[2] \in Matches(t.device, n, p.name)}
             States(k) == {p \in Of(k) : p.kind = "device_availability"}
             Last(k) == CHOOSE p \in States(k) : \A q \in States(k) : q.at <= p.at
             New(k) == IF Of(k) = {} THEN t.device[k]
                       ELSE [t.device[k] EXCEPT
                               !.reported = @ \/ Of(k) # States(k),
                               !.availability = IF States(k) = {} THEN @ ELSE Last(k).state]
             dev == [k \in Keys |-> New(k)]
             r == ReconcileUnresolved(t, n)
  <1>1. /\ t.device = up /\ t.parked = parked /\ t.bridge = bridge /\ t.changes = changes
        /\ t.replayed = replayed
    BY DEF Tables
  <1>2. r = [t EXCEPT !.parked = @ \ resolves, !.device = dev,
                      !.replayed = @ \cup {k \in Keys : Of(k) # {}}]
    BY DEF ReconcileUnresolved
  <1>3. /\ r.bridge = bridge /\ r.changes = changes /\ r.parked = parked \ resolves
        /\ r.device = dev /\ r.replayed = replayed \cup {k \in Keys : Of(k) # {}}
    BY <1>2 DEF Tables
  <1>4. \A k \in Keys : Of(k) # {} => up[k] \in DeviceRow /\ up[k] # None /\ k[1] = n
    <2> SUFFICES ASSUME NEW k \in Keys, NEW p \in Of(k)
                 PROVE  up[k] \in DeviceRow /\ up[k] # None /\ k[1] = n
      OBVIOUS
    <2>1. k[1] = n /\ k[2] \in Matches(up, n, p.name)
      BY <1>1
    <2>2. k = <<n, k[2]>>
      BY <2>1 DEF Keys
    <2> QED
      BY <2>1, <2>2 DEF Matches
  <1>5. \A k \in Keys : States(k) # {} => Last(k).state \in Online
    <2> SUFFICES ASSUME NEW k \in Keys, States(k) # {} PROVE Last(k).state \in Online
      OBVIOUS
    <2>1. \A p \in States(k) : p \in parked /\ p.kind = "device_availability"
      BY <1>1
    <2>2. \A p \in parked : p.at \in Nat /\ p.at < count
      BY DEF RowInv, MqTypeOK, ArrivalInv, ParkedRow
    <2>3. count \in Nat
      BY IngestionAssumption DEF RowInv, MqTypeOK
    <2> HIDE DEF States
    <2>4. Last(k) \in States(k)
      BY <2>1, <2>2, <2>3, LastIsThere
    <2> HIDE DEF Last
    <2> QED
      BY <2>1, <2>4 DEF RowInv, MqTypeOK, ParkedRow
  <1>6. \A k \in Keys : /\ New(k) \in DeviceRow \cup {None}
                        /\ up[k] # None => New(k) # None
                        /\ \A i \in Names \cup Ieees :
                             (New(k) # None /\ New(k).name = i) <=> (up[k] # None /\ up[k].name = i)
    <2> SUFFICES ASSUME NEW k \in Keys
                 PROVE  /\ New(k) \in DeviceRow \cup {None}
                        /\ up[k] # None => New(k) # None
                        /\ \A i \in Names \cup Ieees :
                             (New(k) # None /\ New(k).name = i) <=> (up[k] # None /\ up[k].name = i)
      OBVIOUS
    <2>1. CASE Of(k) = {}
      BY <2>1, <1>1
    <2>2. CASE Of(k) # {}
      <3> DEFINE b == up[k].reported \/ Of(k) # States(k)
                 a == IF States(k) = {} THEN up[k].availability ELSE Last(k).state
      <3>1. New(k) = [up[k] EXCEPT !.reported = b, !.availability = a]
        BY <2>2, <1>1, <1>4 DEF DeviceRow
      <3>2. up[k] \in DeviceRow /\ up[k] # None
        BY <2>2, <1>4
      <3>3. a \in Online \cup {None}
        BY <1>5, <3>2 DEF DeviceRow
      <3>4. b \in BOOLEAN
        OBVIOUS
      <3> HIDE DEF a, b, New
      <3>5. New(k) \in DeviceRow /\ New(k).name = up[k].name
        BY <3>1, <3>2, <3>3, <3>4 DEF DeviceRow
      <3> QED
        BY <3>2, <3>5, NoneIsApart
    <2> QED
      BY <2>1, <2>2
  <1>7. \A k \in Keys : New(k) # up[k] => k[1] = n /\ Of(k) # {}
    BY <1>1, <1>4
  <1>7a. \A p \in parked : p \notin resolves /\ p.net = n => Cardinality(Matches(up, n, p.name)) # 1
    BY <1>1
  <1>7b. replayed \subseteq r.replayed /\ r.replayed \subseteq Keys
    BY <1>3 DEF RowInv, MqTypeOK
  <1> HIDE DEF New, Of, r, resolves
  <1>8. \A p \in parked : Matches(dev, n, p.name) = Matches(up, n, p.name)
    <2> SUFFICES ASSUME NEW p \in parked PROVE Matches(dev, n, p.name) = Matches(up, n, p.name)
      OBVIOUS
    <2>1. p.name \in Names
      BY DEF RowInv, MqTypeOK, ParkedRow
    <2>2. \A i \in Ieees : <<n, i>> \in Keys /\ dev[<<n, i>>] = New(<<n, i>>)
      BY DEF Keys
    <2> QED
      BY <1>6, <2>1, <2>2 DEF Matches
  <1>9. \A p \in r.parked : p.net = n => Cardinality(Matches(r.device, n, p.name)) # 1
    BY <1>3, <1>7a, <1>8
  <1>10. r.device \in [Keys -> DeviceRow \cup {None}]
    BY <1>3, <1>6
  <1>11. /\ \A k \in Keys : r.device[k] # up[k] => k[1] = n /\ k \in r.replayed
         /\ \A k \in Keys : up[k] # None => r.device[k] # None
    BY <1>3, <1>6, <1>7
  <1>12. r.parked \subseteq parked
    BY <1>3
  <1> HIDE DEF dev
  <1> QED
    BY <1>3, <1>7b, <1>9, <1>10, <1>11, <1>12 DEF r


\* _handle_device_inventory: the upserts come before the replay, so that nothing stays parked
\* that fits one device of the new inventory.
LEMMA InventoryKeeps ==
    ASSUME RowInv, NEW e, EventOK(e), e.type = "device_inventory_seen",
           SetTables(HandleInventory(Tables, e).t), count' = count + 1
    PROVE  /\ RowsKept /\ Evaluated(HandleInventory(Tables, e), e)
           /\ \A p \in parked' : p.net = e.net => Cardinality(Matches(device', e.net, p.name)) # 1
  <1> DEFINE up == UpsertAll(device, e.net, e.body)
             r == ReconcileUnresolved([Tables EXCEPT !.device = up], e.net)
             h == HandleInventory(Tables, e)
  <1>1. e.net \in Networks /\ e.body \in Inventories
    BY DEF EventOK
  <1>2. /\ up \in [Keys -> DeviceRow \cup {None}]
        /\ \A k \in Keys : up[k] # device[k] => k[1] = e.net
        /\ \A k \in Keys : device[k] # None =>
             up[k] # None /\ up[k].availability = device[k].availability
    BY <1>1, UpsertAllParts
  <1> HIDE DEF up
  <1>3. /\ r.bridge = bridge /\ r.changes = changes /\ r.parked \subseteq parked
        /\ replayed \subseteq r.replayed /\ r.replayed \subseteq Keys
        /\ r.device \in [Keys -> DeviceRow \cup {None}]
        /\ \A k \in Keys : r.device[k] # up[k] => k[1] = e.net /\ k \in r.replayed
        /\ \A k \in Keys : up[k] # None => r.device[k] # None
        /\ \A p \in r.parked : p.net = e.net => Cardinality(Matches(r.device, e.net, p.name)) # 1
    BY <1>1, <1>2, ReplayParts
  <1>4. h.t = r /\ h.type = "device_inventory_seen" /\ h.ieee = None
    BY DEF HandleInventory, Tables, up
  <1> HIDE DEF r, h
  <1>5. /\ UNCHANGED <<bridge, changes>> /\ parked' = r.parked /\ device' = r.device
        /\ replayed' = r.replayed
    BY <1>3, <1>4 DEF SetTables, h
  <1>6. RowTypes' /\ ArrivalInv'
    BY <1>3, <1>5, NothingParked DEF RowTypes, RowInv, MqTypeOK, ArrivalInv
  <1>7. \A k \in Keys : changes'[k] # <<>> => device'[k] # None
    BY <1>2, <1>3, <1>5 DEF RowInv, HistoryInv
  <1>8. \A k \in Keys \ replayed' : changes[k] # <<>> => device'[k].availability = device[k].availability
    BY <1>2, <1>3, <1>5 DEF RowInv, HistoryInv
  <1>9. HistoryConnects'
    BY <1>3, <1>5, <1>8 DEF RowInv, HistoryInv, HistoryConnects
  <1>10. \A k \in Keys : device'[k] # device[k] => k[1] = e.net
    BY <1>2, <1>3, <1>5
  <1>11. \A k \in Keys : k[1] = e.net => k \in RecalcScope(h.type, e.net, h.ieee)
    <2> SUFFICES ASSUME NEW j \in Ieees PROVE <<e.net, j>> \in RecalcScope(h.type, e.net, h.ieee)
      BY DEF Keys
    <2> QED
      BY <1>4, NetworkScope
  <1>12. Evaluated(h, e)
    BY <1>5, <1>10, <1>11 DEF Evaluated, Keys
  <1> QED
    BY <1>3, <1>5, <1>6, <1>7, <1>9, <1>12 DEF RowsKept, HistoryInv, h

(***************************************************************************)
(* One message                                                             *)
(***************************************************************************)

\* The handler table.
LEMMA Handlers ==
    ASSUME NEW t, NEW e
    PROVE  /\ e.type = "bridge_state_seen" => Handle(t, e) = HandleBridgeState(t, e)
           /\ e.type = "device_inventory_seen" => Handle(t, e) = HandleInventory(t, e)
           /\ e.type = "device_payload_seen" => Handle(t, e) = HandlePayload(t, e)
           /\ e.type = "device_availability_seen" => Handle(t, e) = HandleAvailability(t, e)
           /\ e.type \in BridgeDeviceEvents => Handle(t, e) = HandleBridgeDeviceEvent(t, e)
           /\ ~(\/ e.type \in BridgeDeviceEvents
                \/ e.type \in {"bridge_state_seen", "device_inventory_seen",
                               "device_payload_seen", "device_availability_seen"}) =>
                Handle(t, e) = [t |-> t, type |-> e.type, ieee |-> None]
  BY DEF Handle, BridgeDeviceEvents

\* A handler names a device of Ieees, or none.
LEMMA HandledDevice ==
    ASSUME RowInv, NEW e, EventOK(e)
    PROVE  Handle(Tables, e).ieee \in Ieees \cup {None}
  <1>1. CASE e.type = "bridge_state_seen"
    BY <1>1, Handlers DEF HandleBridgeState
  <1>2. CASE e.type = "device_inventory_seen"
    <2>1. HandleInventory(Tables, e).ieee = None
      BY DEF HandleInventory
    <2> QED
      BY <1>2, <2>1, Handlers
  <1>3. CASE e.type \in BridgeDeviceEvents
    <2>1. Handle(Tables, e) = HandleBridgeDeviceEvent(Tables, e)
      BY <1>3, Handlers
    <2> QED
      BY <1>3, <2>1 DEF HandleBridgeDeviceEvent, EventOK
  <1>4. CASE e.type \in {"device_payload_seen", "device_availability_seen"}
    <2> DEFINE m == Matches(device, e.net, e.name)
    <2>1. m # {} => (CHOOSE i \in m : TRUE) \in Ieees
      BY <1>4, TheMatch DEF EventOK
    <2>2. CASE e.type = "device_payload_seen"
      <3>1. Handle(Tables, e) = HandlePayload(Tables, e)
        BY <2>2, Handlers
      <3>2. CASE m = {}
        BY <3>1, <3>2, FS_EmptySet DEF HandlePayload, Tables
      <3>3. CASE m # {} /\ Cardinality(m) > 1
        BY <3>1, <3>3 DEF HandlePayload, Tables
      <3>4. CASE m # {} /\ ~(Cardinality(m) > 1)
        <4>1. HandlePayload(Tables, e).ieee = CHOOSE i \in m : TRUE
          BY <3>4 DEF HandlePayload, Tables
        <4> QED
          BY <2>1, <3>1, <3>4, <4>1
      <3> QED
        BY <3>2, <3>3, <3>4
    <2>3. CASE e.type = "device_availability_seen"
      <3>1. Handle(Tables, e) = HandleAvailability(Tables, e)
        BY <2>3, Handlers
      <3>2. CASE m = {}
        BY <3>1, <3>2, FS_EmptySet DEF HandleAvailability, Tables
      <3>3. CASE m # {} /\ Cardinality(m) > 1
        BY <3>1, <3>3 DEF HandleAvailability, Tables
      <3>4. CASE m # {} /\ ~(Cardinality(m) > 1)
        <4>1. HandleAvailability(Tables, e).ieee = CHOOSE i \in m : TRUE
          BY <3>4 DEF HandleAvailability, Tables
        <4> QED
          BY <2>1, <3>1, <3>4, <4>1
      <3> QED
        BY <3>2, <3>3, <3>4
    <2> QED
      BY <1>4, <2>2, <2>3
  <1>5. CASE ~(\/ e.type \in BridgeDeviceEvents
               \/ e.type \in {"bridge_state_seen", "device_inventory_seen", "device_payload_seen",
                              "device_availability_seen"})
    BY <1>5, Handlers
  <1> QED
    BY <1>1, <1>2, <1>3, <1>4, <1>5

\* Only devices of the network of the message are evaluated.
LEMMA ScopeType ==
    ASSUME NEW n \in Networks, NEW type, NEW i \in Ieees \cup {None}
    PROVE  RecalcScope(type, n, i) \subseteq Keys
  BY DEF RecalcScope, Keys

\* ingest: whichever handler the event goes to.
LEMMA HandleKeeps ==
    ASSUME RowInv, NEW e, EventOK(e), SetTables(Handle(Tables, e).t), count' = count + 1
    PROVE  /\ RowsKept /\ Evaluated(Handle(Tables, e), e)
           /\ Handle(Tables, e).type = "device_inventory_seen" =>
                \A p \in parked' :
                    p.net = e.net => Cardinality(Matches(device', e.net, p.name)) # 1
  <1> DEFINE h == Handle(Tables, e)
  <1>1. CASE e.type = "bridge_state_seen"
    <2>1. h = HandleBridgeState(Tables, e)
      BY <1>1, Handlers
    <2>2. h.type # "device_inventory_seen"
      BY <1>1, <2>1 DEF HandleBridgeState
    <2> HIDE DEF h
    <2> QED
      BY <1>1, <2>1, <2>2, BridgeStateKeeps DEF h
  <1>2. CASE e.type = "device_inventory_seen"
    <2>1. h = HandleInventory(Tables, e)
      BY <1>2, Handlers
    <2> HIDE DEF h
    <2> QED
      BY <1>2, <2>1, InventoryKeeps DEF h
  <1>3. CASE e.type = "device_payload_seen"
    <2>1. h = HandlePayload(Tables, e)
      BY <1>3, Handlers
    <2>2. h.type # "device_inventory_seen"
      BY <1>3, <2>1, FS_EmptySet DEF HandlePayload
    <2> HIDE DEF h
    <2> QED
      BY <1>3, <2>1, <2>2, PayloadKeeps DEF h
  <1>4. CASE e.type = "device_availability_seen"
    <2>1. h = HandleAvailability(Tables, e)
      BY <1>4, Handlers
    <2> HIDE DEF h
    <2>2. h.type # "device_inventory_seen"
      BY <1>4, <2>1, FS_EmptySet DEF HandleAvailability
    <2> QED
      BY <1>4, <2>1, <2>2, AvailabilityKeeps DEF h
  <1>5. CASE e.type \in BridgeDeviceEvents
    <2>1. h = HandleBridgeDeviceEvent(Tables, e)
      BY <1>5, Handlers
    <2>2. h.type # "device_inventory_seen"
      BY <1>5, <2>1 DEF HandleBridgeDeviceEvent, BridgeDeviceEvents
    <2> HIDE DEF h
    <2> QED
      BY <1>5, <2>1, <2>2, BridgeDeviceKeeps DEF h
  <1>6. CASE ~(\/ e.type \in BridgeDeviceEvents
               \/ e.type \in {"bridge_state_seen", "device_inventory_seen", "device_payload_seen",
                              "device_availability_seen"})
    <2>1. h = [t |-> Tables, type |-> e.type, ieee |-> None]
      BY <1>6, Handlers
    <2>2. UNCHANGED <<bridge, device, parked, changes, replayed>>
      BY <2>1 DEF SetTables, Tables
    <2>3. h.type # "device_inventory_seen"
      BY <1>6, <2>1
    <2> HIDE DEF h
    <2>4. Evaluated(h, e)
      BY <2>2 DEF Evaluated
    <2> QED
      BY <2>2, <2>3, <2>4, ParkStep, NothingParked DEF h
  <1> QED
    BY <1>1, <1>2, <1>3, <1>4, <1>5, <1>6

\* The invariant of the tables: the last inventory has replayed what it could.
TableInv == RowInv /\ InventoryReplays

\* The devices a message changes are the devices it has evaluated.
ChangedAreEvaluated ==
    \A k \in Keys : (device'[k] # device[k] \/ bridge'[k[1]] # bridge[k[1]]) => k \in recalc'

\* A message goes through the normalizer, one handler and the choice of what to evaluate.
LEMMA MessageKeeps ==
    ASSUME TableInv, NEW m \in Message, HandleMessage(m)
    PROVE  TableInv' /\ ChangedAreEvaluated
  <1>0. /\ count' = count + 1 /\ count < MaxMessages /\ loop' = "ingested"
        /\ UNCHANGED <<starter, read, connected, listed, heard, status, drops, raised>>
    BY DEF HandleMessage
  <1>1. CASE Normalize(m) = {}
    <2>1. recalc' = {} /\ UNCHANGED <<bridge, device, parked, changes, replayed, newest>>
      BY <1>1 DEF HandleMessage, rowVars
    <2>2. RowsKept
      BY <1>0, <2>1, ParkStep, NothingParked DEF TableInv
    <2>3. MqTypeOK'
      BY <1>0, <2>1, IngestionAssumption DEF TableInv, RowInv, MqTypeOK
    <2> QED
      BY <2>1, <2>2, <2>3 DEF TableInv, RowInv, RowsKept, InventoryReplays, ChangedAreEvaluated
  <1>2. CASE Normalize(m) # {}
    <2> DEFINE e == CHOOSE e \in Normalize(m) : TRUE
               h == Handle(Tables, e)
    <2>1. e \in Normalize(m)
      BY <1>2
    <2>2. /\ SetTables(h.t)
          /\ newest' = IF h.type = "device_inventory_seen" THEN e.net ELSE None
          /\ recalc' = RecalcScope(h.type, e.net, h.ieee)
      BY <1>2 DEF HandleMessage
    <2> HIDE DEF e
    <2>3. EventOK(e)
      BY <2>1, NormalizedEvents
    <2>4. e.net \in Networks
      BY <2>3 DEF EventOK
    <2>5. /\ RowsKept /\ Evaluated(h, e)
          /\ h.type = "device_inventory_seen" =>
               \A p \in parked' : p.net = e.net => Cardinality(Matches(device', e.net, p.name)) # 1
      BY <1>0, <2>2, <2>3, HandleKeeps DEF TableInv
    <2>6. recalc' \subseteq Keys
      BY <2>2, <2>3, <2>4, HandledDevice, ScopeType DEF TableInv
    <2> HIDE DEF h
    <2>7. newest' \in Networks \cup {None}
      BY <2>2, <2>4
    <2>8. MqTypeOK'
      BY <1>0, <2>5, <2>6, <2>7, IngestionAssumption DEF TableInv, RowInv, MqTypeOK, RowsKept, RowTypes
    <2>9. InventoryReplays'
      <3>1. CASE h.type = "device_inventory_seen"
        BY <2>2, <2>5, <3>1 DEF InventoryReplays
      <3>2. CASE h.type # "device_inventory_seen"
        <4>1. newest' = None /\ \A p \in parked' : p.net \in Networks
          BY <2>2, <2>5, <3>2 DEF RowsKept, RowTypes, ParkedRow
        <4> QED
          BY <4>1, NoneIsApart DEF InventoryReplays
      <3> QED
        BY <3>1, <3>2
    <2> QED
      BY <2>2, <2>5, <2>8, <2>9 DEF TableInv, RowInv, RowsKept, Evaluated, ChangedAreEvaluated
  <1> QED
    BY <1>1, <1>2

\* Every other step leaves the rows alone.
LEMMA OtherStepsKeep ==
    ASSUME TableInv, [MqNext]_mqVars, ~\E m \in Message : HandleMessage(m)
    PROVE  TableInv' /\ UNCHANGED rowVars
  <1> DEFINE clientOK == /\ starter' \in {"new", "connected", "listed", "subscribed", "read",
                                         "running", "failed", "stopping", "stopped"}
                         /\ read' \in BOOLEAN /\ connected' \in BOOLEAN /\ listed' \in BOOLEAN
                         /\ heard' \in BOOLEAN
                         /\ loop' \in {"off", "idle", "connecting", "ingested"}
                         /\ status' \in [enabled: BOOLEAN, connected: BOOLEAN, error: BOOLEAN]
             boundsOK == /\ count' \in {count, count + 1} /\ count' \in 0..MaxMessages
                         /\ drops' \in 0..MaxDrops /\ raised' \in 0..MaxRaised
                         /\ recalc' \in {recalc, {}}
  <1>1. ASSUME clientOK, boundsOK, UNCHANGED rowVars PROVE TableInv'
    <2>1. MqTypeOK'
      BY <1>1 DEF TableInv, RowInv, MqTypeOK, rowVars
    <2>2. HistoryInv' /\ InventoryReplays'
      BY <1>1 DEF TableInv, RowInv, HistoryInv, HistoryConnects, InventoryReplays, rowVars, Matches
    <2>3. ArrivalInv'
      BY <1>1, IngestionAssumption DEF TableInv, RowInv, MqTypeOK, ArrivalInv, rowVars, ParkedRow
    <2> QED
      BY <2>1, <2>2, <2>3 DEF TableInv, RowInv
  <1>2. UNCHANGED rowVars /\ boundsOK
    <2> USE DEF TableInv, RowInv, MqTypeOK
    <2>1. CASE HandlerRaises
      BY <2>1, IngestionAssumption DEF HandlerRaises
    <2>2. CASE MessageDone \/ OnConnectFlag \/ OnConnectSubscribe
      BY <2>2 DEF MessageDone, OnConnectFlag, OnConnectSubscribe
    <2>3. CASE OnDisconnect
      BY <2>3, IngestionAssumption DEF OnDisconnect
    <2>4. CASE Connect \/ ConnectFails \/ SubscribeList \/ SubscribeNow
      BY <2>4 DEF Connect, ConnectFails, SubscribeList, SubscribeNow
    <2>5. CASE StartReads \/ StartWrites \/ StartRaises \/ StopLoop \/ StopWrites
      BY <2>5 DEF StartReads, StartWrites, StartRaises, StopLoop, StopWrites
    <2>6. CASE UNCHANGED mqVars
      BY <2>6 DEF mqVars
    <2> QED
      BY <2>1, <2>2, <2>3, <2>4, <2>5, <2>6 DEF MqNext, MqttThread, StarterThread
  <1>3. clientOK
    <2> USE DEF TableInv, RowInv, MqTypeOK
    <2>1. CASE HandlerRaises \/ UNCHANGED mqVars
      BY <2>1 DEF HandlerRaises, clientVars, mqVars
    <2>2. CASE MessageDone
      BY <2>2 DEF MessageDone
    <2>3. CASE OnConnectFlag
      BY <2>3 DEF OnConnectFlag
    <2>4. CASE OnConnectSubscribe
      BY <2>4 DEF OnConnectSubscribe
    <2>5. CASE OnDisconnect
      BY <2>5 DEF OnDisconnect
    <2>6. CASE Connect
      BY <2>6 DEF Connect
    <2>7. CASE ConnectFails
      BY <2>7 DEF ConnectFails
    <2>8. CASE SubscribeList
      BY <2>8 DEF SubscribeList
    <2>9. CASE SubscribeNow
      BY <2>9 DEF SubscribeNow
    <2>10. CASE StartReads
      BY <2>10 DEF StartReads
    <2>11. CASE StartWrites
      BY <2>11 DEF StartWrites
    <2>12. CASE StopLoop
      BY <2>12 DEF StopLoop
    <2>13. CASE StopWrites
      BY <2>13 DEF StopWrites
    <2>14. CASE StartRaises
      <3>1. CASE status' = status
        BY <2>14, <3>1 DEF StartRaises
      <3>2. CASE status' = [enabled |-> TRUE, connected |-> FALSE, error |-> TRUE]
        BY <2>14, <3>2 DEF StartRaises
      <3> QED
        BY <2>14, <3>1, <3>2 DEF StartRaises
    <2> QED
      BY <2>1, <2>2, <2>3, <2>4, <2>5, <2>6, <2>7,
         <2>8, <2>9, <2>10, <2>11, <2>12, <2>13, <2>14
         DEF MqNext, MqttThread, StarterThread
  <1> QED
    BY <1>1, <1>2, <1>3

\* A new database, or the rows of an earlier process, with nothing parked.
LEMMA InitTables == MqInit => TableInv
  <1> SUFFICES ASSUME MqInit PROVE TableInv
    OBVIOUS
  <1>1. MqTypeOK
    <2>1. device \in [Keys -> DeviceRow \cup {None}]
      BY IngestionAssumption DEF MqInit
    <2>2. status \in [enabled: BOOLEAN, connected: BOOLEAN, error: BOOLEAN]
      BY DEF MqInit
    <2>3. /\ count \in 0..MaxMessages /\ drops \in 0..MaxDrops /\ raised \in 0..MaxRaised
      BY IngestionAssumption DEF MqInit
    <2>4. changes \in [Keys -> Seq(Online \X Online)]
      BY DEF MqInit
    <2> QED
      BY <2>1, <2>2, <2>3, <2>4 DEF MqInit, MqTypeOK
  <1>2. \A k \in Keys : changes[k] = <<>>
    BY DEF MqInit
  <1>3. HistoryInv
    BY <1>2 DEF HistoryInv, HistoryConnects
  <1> QED
    BY <1>1, <1>3 DEF MqInit, TableInv, RowInv, ArrivalInv, InventoryReplays

\* Every step keeps the invariant of the tables.
LEMMA NextTables == TableInv /\ [MqNext]_mqVars => TableInv'
  BY MessageKeeps, OtherStepsKeep

\* The invariant holds in every reachable state.
LEMMA TablesInvariant == MqSpec => []TableInv
  BY InitTables, NextTables, PTL DEF MqSpec

\* Devices, parked messages, history and the state of the client keep their types.
THEOREM IngestionTypes == MqSpec => []MqTypeOK
  <1>1. TableInv => MqTypeOK
    BY DEF TableInv, RowInv
  <1> QED
    BY <1>1, TablesInvariant, PTL

\* Once an inventory has been handled, nothing stays parked whose name has become unique: the
\* replay sees the rows of that very inventory, and it renames no device while it goes on.
THEOREM ParkedAreReplayed == MqSpec => []InventoryReplays
  <1>1. TableInv => InventoryReplays
    BY DEF TableInv
  <1> QED
    BY <1>1, TablesInvariant, PTL

\* The change records of a device that no parked message was replayed to form a chain that ends
\* in the state its row shows, whatever renames, re-joins and new inventories come between.
THEOREM HistoryIsConnected == MqSpec => []HistoryConnects
  <1>1. TableInv => HistoryConnects
    BY DEF TableInv, RowInv, HistoryInv
  <1> QED
    BY <1>1, TablesInvariant, PTL

\* Whatever a message changes about a device or its bridge, the handling of that message has the
\* device evaluated, whichever handler rewrote the type of the event on the way.
THEOREM ChangesEvaluated == MqSpec => ChangesAreEvaluated
  <1>1. TableInv /\ [MqNext]_mqVars => [ChangedAreEvaluated]_mqVars
    <2> SUFFICES ASSUME TableInv, [MqNext]_mqVars PROVE ChangedAreEvaluated
      OBVIOUS
    <2>1. CASE \E m \in Message : HandleMessage(m)
      BY <2>1, MessageKeeps
    <2>2. CASE ~\E m \in Message : HandleMessage(m)
      BY <2>2, OtherStepsKeep DEF rowVars, ChangedAreEvaluated
    <2> QED
      BY <2>1, <2>2
  <1>2. [ChangedAreEvaluated]_mqVars =>
          [\A k \in Keys : (device'[k] # device[k] \/ bridge'[k[1]] # bridge[k[1]]) =>
              k \in recalc']_mqVars
    BY DEF ChangedAreEvaluated
  <1> QED
    BY <1>1, <1>2, InitTables, NextTables, PTL DEF MqSpec, ChangesAreEvaluated
=============================================================================
