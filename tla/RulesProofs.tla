----------------------------- MODULE RulesProofs -----------------------------
(***************************************************************************)
(* Proofs about the rules, for every set of keys, payloads and slots, every *)
(* window and limit, every estate and every database:                      *)
(*   - how incidents are opened, watched and resolved (IncidentLifecycle); *)
(*   - what correlate() selects from the rows (Diagnosis);                 *)
(*   - whether the readers of a device's stored reports agree              *)
(*     (DeviceStory);                                                      *)
(*   - that a walk over pages of a changing incident list misses nothing   *)
(*     (IncidentPaging);                                                   *)
(*   - that a dashboard is one statement and a report keeps to its scope   *)
(*     (Payloads, Reports).                                                *)
(*                                                                         *)
(* The invariant of IncidentLifecycle adds to type correctness and the     *)
(* uniqueness of the active row the link between the two clocks: a watched *)
(* row has been watched for no longer than its signal has been away.       *)
(* The rules themselves are functions of their input: their theorems hold  *)
(* for every input, and the run's properties follow once its questions are *)
(* known to be about databases, stored maps, tables and dashboards.        *)
(***************************************************************************)
EXTENDS IncidentLifecycle, MCRules, FiniteSetTheorems, TLAPS

WatchBounded ==
    \A k \in Keys : \A s \in Slots :
        row[k][s].state = "watching" => row[k][s].age <= quiet[k]

IInv == TypeOK /\ OneActivePerKey /\ WatchBounded

(***************************************************************************)
(* Facts about single rows                                                 *)
(***************************************************************************)

\* A freshly written row is a row.
LEMMA RowIsRow ==
    ASSUME NEW st \in {"none", "open", "watching", "resolved"},
           NEW p \in Payloads \cup {None}
    PROVE  Row(st, p) \in RowType
  BY WindowAssumption DEF Row, RowType

\* _resolve_stale keeps rows rows, activates none, and ends only a watched row
\* whose age has reached the window.
LEMMA QuietedRow ==
    ASSUME NEW r \in RowType
    PROVE  /\ Quieted(r) \in RowType
           /\ Quieted(r).state \in Active => r.state \in Active
           /\ Quieted(r).state # "open"
           /\ Quieted(r).state = "watching" =>
                Quieted(r).age = 0 \/ (r.state = "watching" /\ Quieted(r).age = r.age)
           /\ r.state = "open" => Quieted(r).state = "watching"
           /\ r.state = "watching" /\ Quieted(r).state # "watching" =>
                Quieted(r).state = "resolved" /\ r.age = Window
           /\ r.state \notin Active => Quieted(r) = r
  <1>1. r.age \in 0..Window /\ r.payload \in Payloads \cup {None}
        /\ r.state \in {"none", "open", "watching", "resolved"}
    BY DEF RowType
  <1>2. /\ Row("watching", r.payload) \in RowType
        /\ Row("resolved", r.payload) \in RowType
    BY <1>1, RowIsRow
  <1>3. CASE r.state = "open"
    BY <1>1, <1>2, <1>3, WindowAssumption DEF Quieted, Row, Active
  <1>4. CASE r.state = "watching" /\ Expired(r)
    BY <1>1, <1>2, <1>4, WindowAssumption DEF Quieted, Row, Active, Expired
  <1>5. CASE r.state # "open" /\ ~(r.state = "watching" /\ Expired(r))
    BY <1>1, <1>5, WindowAssumption DEF Quieted, Active
  <1> QED
    BY <1>3, <1>4, <1>5

\* Time keeps a row's state and payload.
LEMMA AgedRow ==
    ASSUME NEW r \in RowType
    PROVE  /\ Aged(r) \in RowType
           /\ Aged(r).state = r.state
           /\ Aged(r).payload = r.payload
           /\ r.state \in Active => Aged(r).age = Older(r.age)
           /\ r.state \notin Active => Aged(r) = r
  BY WindowAssumption DEF Aged, RowType, Older

\* What sync() does to the rows of a key that is a candidate.
LEMMA SignalledRow ==
    ASSUME TypeOK, NEW k \in Keys, NEW n \in Slots, NEW s \in Slots,
           signal[k] # None
    PROVE  /\ Synced(k, n)[s] \in RowType
           /\ Synced(k, n)[s].state \in Active =>
                s \in ActiveSlots(k) \/ (Inserts(k) /\ s = n)
           /\ Synced(k, n)[s].state = "watching" => FALSE
           /\ s \in ActiveSlots(k) => Synced(k, n)[s].state = "open"
           /\ Inserts(k) /\ s = n => Synced(k, n)[s].state = "open"
           /\ row[k][s].state = "resolved" /\ (Inserts(k) => n \in Free(k)) =>
                Synced(k, n)[s] = row[k][s]
  <1>1. row[k][s] \in RowType /\ signal[k] \in Payloads \cup {None}
    BY DEF TypeOK
  <1>2. Row("open", signal[k]) \in RowType /\ Row("open", signal[k]).state = "open"
    BY <1>1, RowIsRow DEF Row
  <1>3. CASE Inserts(k) /\ s = n
    <2>1. Synced(k, n)[s] = Row("open", signal[k])
      BY <1>3 DEF Synced
    <2>2. row[k][s].state = "resolved" => n \notin Free(k)
      BY <1>3 DEF Free
    <2> QED
      BY <2>1, <2>2, <1>2, <1>3
  <1>4. CASE ~(Inserts(k) /\ s = n) /\ s \in ActiveSlots(k)
    <2>1. Synced(k, n)[s] = Signalled(k, s)
      BY <1>4 DEF Synced
    <2>2. row[k][s].state \in Active
      BY <1>4 DEF ActiveSlots
    <2>3. CASE Rewritten(k, s)
      BY <2>1, <2>2, <2>3, <1>2, <1>4 DEF Signalled, Active
    <2>4. CASE ~Rewritten(k, s)
      BY <2>1, <2>2, <2>4, <1>1, <1>4 DEF Signalled, Active, Rewritten
    <2> QED
      BY <2>3, <2>4
  <1>5. CASE ~(Inserts(k) /\ s = n) /\ s \notin ActiveSlots(k)
    <2>1. Synced(k, n)[s] = row[k][s]
      BY <1>5 DEF Synced
    <2>2. row[k][s].state \notin Active
      BY <1>5 DEF ActiveSlots
    <2> QED
      BY <2>1, <2>2, <1>1, <1>5 DEF Active
  <1> QED
    BY <1>3, <1>4, <1>5

(***************************************************************************)
(* The inductive invariant                                                 *)
(***************************************************************************)

\* The invariant holds of an empty incidents table.
LEMMA Initial == Init => IInv
  BY WindowAssumption
  DEF Init, IInv, TypeOK, OneActivePerKey, WatchBounded, NoRow, RowType,
      ActiveSlots, Active

\* A synchronisation keeps the invariant.
LEMMA SyncPreserves == IInv /\ Sync => IInv'
  <1> SUFFICES ASSUME IInv, Sync PROVE IInv'
    OBVIOUS
  <1> USE DEF IInv
  <1>1. PICK at \in [Keys -> Slots] : row' = [k \in Keys |-> Synced(k, at[k])]
    BY DEF Sync
  <1>2. ASSUME NEW k \in Keys, NEW s \in Slots
        PROVE  /\ row'[k][s] \in RowType
               /\ signal[k] = None => row'[k][s] = Quieted(row[k][s])
               /\ signal[k] # None => row'[k][s] = Synced(k, at[k])[s]
               /\ row'[k] = [x \in Slots |-> row'[k][x]]
    <2>1. row'[k] = Synced(k, at[k]) /\ at[k] \in Slots /\ row[k][s] \in RowType
      BY <1>1 DEF TypeOK
    <2>2. signal[k] = None => row'[k][s] = Quieted(row[k][s])
      BY <2>1 DEF Synced
    <2>3. row'[k] = [x \in Slots |-> row'[k][x]]
      BY <2>1 DEF Synced
    <2> QED
      BY <2>1, <2>2, <2>3, QuietedRow, SignalledRow
  <1>3. TypeOK'
    <2>1. row' \in [Keys -> [Slots -> RowType]]
      <3>1. ASSUME NEW k \in Keys PROVE row'[k] \in [Slots -> RowType]
        BY <1>2
      <3> QED
        BY <3>1, <1>1
    <2>2. quiet' \in [Keys -> 0..Window] /\ signal' = signal
      BY WindowAssumption DEF Sync, TypeOK
    <2> QED
      BY <2>1, <2>2 DEF TypeOK
  <1>4. OneActivePerKey'
    <2> SUFFICES ASSUME NEW k \in Keys, NEW s \in Slots, NEW t \in Slots,
                        row'[k][s].state \in Active, row'[k][t].state \in Active
                 PROVE  s = t
      BY DEF OneActivePerKey, ActiveSlots
    <2>1. CASE signal[k] = None
      <3>1. row[k][s] \in RowType /\ row[k][t] \in RowType
        BY DEF TypeOK
      <3>2. row'[k][s] = Quieted(row[k][s]) /\ row'[k][t] = Quieted(row[k][t])
        BY <2>1, <1>2
      <3>3. row[k][s].state \in Active /\ row[k][t].state \in Active
        BY <3>1, <3>2, QuietedRow
      <3> QED
        BY <3>3 DEF OneActivePerKey, ActiveSlots
    <2>2. CASE signal[k] # None
      <3>0. at[k] \in Slots /\ row'[k][s] = Synced(k, at[k])[s]
            /\ row'[k][t] = Synced(k, at[k])[t]
        BY <2>2, <1>2
      <3>1. /\ s \in ActiveSlots(k) \/ (Inserts(k) /\ s = at[k])
            /\ t \in ActiveSlots(k) \/ (Inserts(k) /\ t = at[k])
        BY <2>2, <3>0, SignalledRow
      <3> QED
        BY <3>1 DEF OneActivePerKey, Inserts
    <2> QED
      BY <2>1, <2>2
  <1>5. WatchBounded'
    <2> SUFFICES ASSUME NEW k \in Keys, NEW s \in Slots,
                        row'[k][s].state = "watching"
                 PROVE  row'[k][s].age <= quiet'[k]
      BY DEF WatchBounded
    <2>1. signal[k] = None
      <3> SUFFICES ASSUME signal[k] # None PROVE FALSE
        OBVIOUS
      <3>1. at[k] \in Slots /\ row'[k][s] = Synced(k, at[k])[s]
        BY <1>2
      <3> QED
        BY <3>1, SignalledRow
    <2>2. quiet'[k] = quiet[k] /\ quiet[k] \in 0..Window
      BY <2>1 DEF Sync, TypeOK
    <2>3. row[k][s] \in RowType
      BY DEF TypeOK
    <2>4. \/ row'[k][s].age = 0
          \/ row[k][s].state = "watching" /\ row'[k][s].age = row[k][s].age
      <3>1. row'[k][s] = Quieted(row[k][s])
        BY <2>1, <1>2
      <3> QED
        BY <3>1, <2>3, QuietedRow
    <2> QED
      BY <2>2, <2>4, WindowAssumption DEF WatchBounded
  <1> QED
    BY <1>3, <1>4, <1>5

\* The passing of time keeps the invariant.
LEMMA TickPreserves == IInv /\ Tick => IInv'
  <1> SUFFICES ASSUME IInv, Tick PROVE IInv'
    OBVIOUS
  <1> USE DEF IInv
  <1>1. ASSUME NEW k \in Keys, NEW s \in Slots
        PROVE  row[k][s] \in RowType /\ row'[k][s] = Aged(row[k][s])
    BY DEF TypeOK, Tick
  <1>2. TypeOK'
    <2>1. row' \in [Keys -> [Slots -> RowType]]
      BY <1>1, AgedRow DEF Tick
    <2>2. quiet' \in [Keys -> 0..Window] /\ signal' = signal
      BY WindowAssumption DEF Tick, TypeOK, Older
    <2> QED
      BY <2>1, <2>2 DEF TypeOK
  <1>3. OneActivePerKey'
    BY <1>1, AgedRow DEF OneActivePerKey, ActiveSlots
  <1>4. WatchBounded'
    <2> SUFFICES ASSUME NEW k \in Keys, NEW s \in Slots,
                        row'[k][s].state = "watching"
                 PROVE  row'[k][s].age <= quiet'[k]
      BY DEF WatchBounded
    <2>1. row[k][s].state = "watching" /\ row'[k][s].age = Older(row[k][s].age)
      BY <1>1, AgedRow DEF Active
    <2>2. row[k][s].age <= quiet[k] /\ quiet'[k] = Older(quiet[k])
      BY <2>1 DEF WatchBounded, Tick
    <2>3. row[k][s].age \in 0..Window /\ quiet[k] \in 0..Window
      BY <1>1 DEF TypeOK, RowType
    <2> QED
      BY <2>1, <2>2, <2>3, WindowAssumption DEF Older
  <1> QED
    BY <1>2, <1>3, <1>4

\* A purge of resolved incidents keeps the invariant.
LEMMA PurgePreserves == IInv /\ PurgeSome => IInv'
  <1> SUFFICES ASSUME IInv, NEW k \in Keys, NEW s \in Slots, Purge(k, s)
               PROVE  IInv'
    BY DEF PurgeSome
  <1> USE DEF IInv
  <1>1. NoRow \in RowType /\ NoRow.state = "none"
    BY WindowAssumption DEF NoRow, RowType
  <1>2. TypeOK'
    BY <1>1 DEF Purge, TypeOK
  <1>3. ASSUME NEW j \in Keys, NEW t \in Slots
        PROVE  row'[j][t] = row[j][t] \/ row'[j][t] = NoRow
    BY DEF Purge, TypeOK
  <1>4. OneActivePerKey'
    BY <1>1, <1>3 DEF OneActivePerKey, ActiveSlots, Active
  <1>5. WatchBounded'
    BY <1>1, <1>3 DEF WatchBounded, Purge
  <1> QED
    BY <1>2, <1>4, <1>5

\* Every step keeps the invariant.
LEMMA StepPreserves == IInv /\ [Next]_vars => IInv'
  <1> SUFFICES ASSUME IInv, [Next]_vars PROVE IInv'
    OBVIOUS
  <1>1. CASE Sync
    BY <1>1, SyncPreserves
  <1>2. CASE Tick
    BY <1>2, TickPreserves
  <1>3. CASE PurgeSome
    BY <1>3, PurgePreserves
  <1>4. CASE SignalChanges
    BY <1>4 DEF SignalChanges, IInv, TypeOK, OneActivePerKey, WatchBounded, ActiveSlots
  <1>5. CASE UNCHANGED vars
    BY <1>5 DEF vars, IInv, TypeOK, OneActivePerKey, WatchBounded, ActiveSlots
  <1> QED
    BY <1>1, <1>2, <1>3, <1>4, <1>5 DEF Next

\* IInv holds in every state of every behaviour of the incident store.
THEOREM Safety == Spec => []IInv
  BY Initial, StepPreserves, PTL DEF Spec

\* The columns of incidents keep their types.
THEOREM TypeCorrect == Spec => []TypeOK
  <1>1. IInv => TypeOK
    BY DEF IInv
  <1> QED
    BY <1>1, Safety, PTL

\* sync() alone keeps every dedup key at one active incident, for every window,
\* number of keys and history.
THEOREM Uniqueness == Spec => []OneActivePerKey
  <1>1. IInv => OneActivePerKey
    BY DEF IInv
  <1> QED
    BY <1>1, Safety, PTL

(***************************************************************************)
(* Action properties                                                       *)
(***************************************************************************)

\* How the state of a single row may change in one step.
LEMMA RowStep ==
    ASSUME IInv, [Next]_vars, NEW k \in Keys, NEW s \in Slots
    PROVE  /\ row[k][s].state \in Active /\ row'[k][s].state \notin Active =>
                row'[k][s].state = "resolved" /\ quiet[k] >= Window
           /\ row[k][s].state = "resolved" =>
                row'[k][s] = row[k][s] \/ row'[k][s] = NoRow
  <1> USE DEF IInv
  <1>0. row[k][s] \in RowType /\ quiet[k] \in 0..Window
    BY DEF TypeOK
  <1>1. CASE Sync
    <2>1. PICK at \in [Keys -> Slots] :
             /\ \A j \in Keys : signal[j] # None /\ Inserts(j) => at[j] \in Free(j)
             /\ row' = [j \in Keys |-> Synced(j, at[j])]
      BY <1>1 DEF Sync
    <2>2. row'[k] = Synced(k, at[k]) /\ at[k] \in Slots
      BY <2>1
    <2>3. CASE signal[k] = None
      <3>1. row'[k][s] = Quieted(row[k][s])
        BY <2>2, <2>3 DEF Synced
      <3>2. row[k][s].state = "watching" => row[k][s].age <= quiet[k]
        BY DEF WatchBounded
      <3> QED
        BY <3>1, <3>2, <1>0, QuietedRow, WindowAssumption DEF Active
    <2>4. CASE signal[k] # None
      <3>1. row[k][s].state \in Active => s \in ActiveSlots(k)
        BY DEF ActiveSlots
      <3>2. /\ s \in ActiveSlots(k) => Synced(k, at[k])[s].state = "open"
            /\ row[k][s].state = "resolved" => Synced(k, at[k])[s] = row[k][s]
        BY <2>1, <2>2, <2>4, SignalledRow
      <3> QED
        BY <2>2, <3>1, <3>2 DEF Active
    <2> QED
      BY <2>3, <2>4
  <1>2. CASE Tick
    <2>1. row'[k][s] = Aged(row[k][s])
      BY <1>2 DEF Tick
    <2> QED
      BY <2>1, <1>0, AgedRow DEF Active
  <1>3. CASE PurgeSome
    <2>1. PICK j \in Keys, t \in Slots : Purge(j, t)
      BY <1>3 DEF PurgeSome
    <2>2. CASE j = k /\ t = s
      <3>1. row'[k][s] = NoRow /\ row[k][s].state = "resolved"
        BY <2>1, <2>2 DEF Purge, TypeOK
      <3> QED
        BY <3>1 DEF Active
    <2>3. CASE ~(j = k /\ t = s)
      <3>1. row'[k][s] = row[k][s]
        BY <2>1, <2>3 DEF Purge, TypeOK
      <3> QED
        BY <3>1
    <2> QED
      BY <2>2, <2>3
  <1>4. CASE SignalChanges \/ UNCHANGED vars
    BY <1>4 DEF SignalChanges, vars
  <1> QED
    BY <1>1, <1>2, <1>3, <1>4 DEF Next

\* _resolve_stale never resolves an incident whose signal some evaluation saw
\* less than a window ago.
THEOREM ResolveWaits == Spec => NoPrematureResolve
  <1>1. IInv /\ [Next]_vars =>
          [\A k \in Keys, s \in Slots :
             row[k][s].state \in Active /\ row'[k][s].state \notin Active
                => row'[k][s].state = "resolved" /\ quiet[k] >= Window]_vars
    BY RowStep
  <1> QED
    BY <1>1, Safety, PTL DEF Spec, NoPrematureResolve

\* A resolved incident is history: only the purge touches it.
THEOREM HistoryStands == Spec => ResolvedIsFinal
  <1>1. IInv /\ [Next]_vars =>
          [\A k \in Keys, s \in Slots :
             row[k][s].state = "resolved" =>
                /\ row'[k][s].state \in {"resolved", "none"}
                /\ row'[k][s].payload \in {row[k][s].payload, None}]_vars
    BY RowStep DEF NoRow
  <1> QED
    BY <1>1, Safety, PTL DEF Spec, ResolvedIsFinal

(***************************************************************************)
(* Refinement                                                              *)
(***************************************************************************)

\* One key's phase follows the promise when the candidates are synchronised.
LEMMA PhaseFollows ==
    ASSUME IInv, Sync, NEW k \in Keys
    PROVE  /\ Phase(k)' \in {"closed", "open", "watching"}
           /\ \/ signal[k] # None /\ Phase(k)' = "open"
              \/ signal[k] = None /\ Phase(k) = "open" /\ Phase(k)' = "watching"
              \/ signal[k] = None /\ Phase(k) # "open" /\ Phase(k)' = Phase(k)
              \/ /\ signal[k] = None /\ Phase(k) = "watching"
                 /\ quiet[k] = Window /\ Phase(k)' = "closed"
  <1> USE DEF IInv
  <1>1. PICK at \in [Keys -> Slots] : row' = [j \in Keys |-> Synced(j, at[j])]
    BY DEF Sync
  <1>2. row'[k] = Synced(k, at[k]) /\ at[k] \in Slots
    BY <1>1
  <1>3. /\ Phase(k)' = "open" <=> \E s \in Slots : row'[k][s].state = "open"
        /\ Phase(k)' = "closed" <=> \A s \in Slots : row'[k][s].state \notin Active
        /\ Phase(k)' \in {"closed", "open", "watching"}
        /\ Phase(k) = "open" <=> \E s \in Slots : row[k][s].state = "open"
        /\ Phase(k) = "closed" <=> \A s \in Slots : row[k][s].state \notin Active
        /\ Phase(k) \in {"closed", "open", "watching"}
    BY DEF Phase, ActiveSlots, Active
  <1>4. CASE signal[k] # None
    <2>1. ASSUME NEW s \in Slots
          PROVE  /\ s \in ActiveSlots(k) => row'[k][s].state = "open"
                 /\ Inserts(k) /\ s = at[k] => row'[k][s].state = "open"
      BY <1>2, <1>4, SignalledRow
    <2>2. \E s \in Slots : row'[k][s].state = "open"
      BY <2>1, <1>2 DEF Inserts, ActiveSlots
    <2> QED
      BY <2>2, <1>3, <1>4
  <1>5. CASE signal[k] = None
    <2>1. ASSUME NEW s \in Slots
          PROVE  row'[k][s] = Quieted(row[k][s]) /\ row[k][s] \in RowType
      BY <1>2, <1>5 DEF Synced, TypeOK
    <2>2. ~\E s \in Slots : row'[k][s].state = "open"
      BY <2>1, QuietedRow
    <2>3. CASE Phase(k) = "open"
      <3>1. PICK s \in Slots : row[k][s].state = "open"
        BY <2>3, <1>3
      <3>2. row'[k][s].state = "watching"
        BY <3>1, <2>1, QuietedRow
      <3> QED
        BY <3>2, <2>2, <2>3, <1>3, <1>5 DEF Active
    <2>4. CASE Phase(k) = "watching"
      <3>1. PICK s \in Slots : row[k][s].state = "watching"
        BY <2>4, <1>3 DEF Active
      <3>2. CASE row'[k][s].state = "watching"
        BY <3>2, <2>2, <2>4, <1>3, <1>5 DEF Active
      <3>3. CASE row'[k][s].state # "watching"
        <4>1. row[k][s].age = Window
          BY <3>1, <3>3, <2>1, QuietedRow
        <4>2. row[k][s].age <= quiet[k] /\ quiet[k] \in 0..Window
          BY <3>1 DEF WatchBounded, TypeOK
        <4>3. quiet[k] = Window
          BY <4>1, <4>2, WindowAssumption
        <4> QED
          BY <4>3, <2>2, <2>4, <1>3, <1>5
      <3> QED
        BY <3>2, <3>3
    <2>5. CASE Phase(k) = "closed"
      <3>1. \A s \in Slots : row'[k][s].state \notin Active
        BY <2>5, <1>3, <2>1, QuietedRow
      <3> QED
        BY <3>1, <2>5, <1>3, <1>5
    <2> QED
      BY <2>3, <2>4, <2>5, <1>3
  <1> QED
    BY <1>4, <1>5

\* A step that leaves every row's state alone leaves the phases alone.
LEMMA PhaseStable ==
    ASSUME TypeOK, \A k \in Keys, s \in Slots :
                row'[k][s].state \in Active \/ row[k][s].state \in Active
                   => row'[k][s].state = row[k][s].state
    PROVE  [k \in Keys |-> Phase(k)]' = [k \in Keys |-> Phase(k)]
  <1>1. ASSUME NEW k \in Keys PROVE Phase(k)' = Phase(k)
    <2>1. \A s \in Slots :
             /\ row'[k][s].state = "open" <=> row[k][s].state = "open"
             /\ row'[k][s].state \in Active <=> row[k][s].state \in Active
      BY DEF Active
    <2>2. ActiveSlots(k)' = ActiveSlots(k)
      BY <2>1 DEF ActiveSlots
    <2>3. CASE \E s \in Slots : row[k][s].state = "open"
      <3>1. \E s \in Slots : row'[k][s].state = "open"
        BY <2>1, <2>3
      <3> QED
        BY <3>1, <2>3 DEF Phase
    <2>4. CASE ~\E s \in Slots : row[k][s].state = "open"
      <3>1. ~\E s \in Slots : row'[k][s].state = "open"
        BY <2>1, <2>4
      <3> QED
        BY <3>1, <2>2, <2>4 DEF Phase
    <2> QED
      BY <2>3, <2>4
  <1> QED
    BY <1>1

\* Every step is a step of the promise, or leaves what a reader relies on unchanged.
LEMMA PromiseStep == IInv /\ [Next]_vars => [Promise!PNext]_(Promise!pvars)
  <1> SUFFICES ASSUME IInv, [Next]_vars
               PROVE  Promise!PNext \/ UNCHANGED Promise!pvars
    OBVIOUS
  <1> USE DEF IInv
  <1>1. CASE Sync
    <2>1. Promise!Synchronised
      BY <1>1, PhaseFollows DEF Sync, Promise!Synchronised, Promise!Follows
    <2> QED
      BY <2>1 DEF Promise!PNext
  <1>2. CASE Tick
    <2>1. [k \in Keys |-> Phase(k)]' = [k \in Keys |-> Phase(k)]
      <3>1. ASSUME NEW k \in Keys, NEW s \in Slots
            PROVE  row'[k][s].state = row[k][s].state
        BY <1>2, AgedRow DEF Tick, TypeOK
      <3> QED
        BY <3>1, PhaseStable
    <2>2. Promise!TimePasses
      BY <2>1, <1>2 DEF Tick, Older, Promise!TimePasses
    <2> QED
      BY <2>2 DEF Promise!PNext
  <1>3. CASE PurgeSome
    <2>1. PICK j \in Keys, t \in Slots : Purge(j, t)
      BY <1>3 DEF PurgeSome
    <2>2. ASSUME NEW k \in Keys, NEW s \in Slots
          PROVE  row'[k][s].state \in Active \/ row[k][s].state \in Active
                   => row'[k][s].state = row[k][s].state
      <3>1. row' = [row EXCEPT ![j][t] = NoRow] /\ row[j][t].state = "resolved"
        BY <2>1 DEF Purge
      <3>2. CASE k = j /\ s = t
        <4>1. row'[k][s] = NoRow
          BY <3>1, <3>2 DEF TypeOK
        <4> QED
          BY <4>1, <3>1, <3>2 DEF NoRow, Active
      <3>3. CASE ~(k = j /\ s = t)
        <4>1. row'[k][s] = row[k][s]
          BY <3>1, <3>3 DEF TypeOK
        <4> QED
          BY <4>1
      <3> QED
        BY <3>2, <3>3
    <2>3. [k \in Keys |-> Phase(k)]' = [k \in Keys |-> Phase(k)]
      BY <2>2, PhaseStable
    <2> QED
      BY <2>1, <2>3 DEF Purge, Promise!pvars
  <1>4. CASE SignalChanges
    <2>1. [k \in Keys |-> Phase(k)]' = [k \in Keys |-> Phase(k)]
      BY <1>4, PhaseStable DEF SignalChanges
    <2>2. Promise!SignalChanges
      BY <1>4, <2>1 DEF SignalChanges, Promise!SignalChanges
    <2> QED
      BY <2>2 DEF Promise!PNext
  <1>5. CASE UNCHANGED vars
    <2>1. [k \in Keys |-> Phase(k)]' = [k \in Keys |-> Phase(k)]
      BY <1>5, PhaseStable DEF vars
    <2> QED
      BY <1>5, <2>1 DEF vars, Promise!pvars
  <1> QED
    BY <1>1, <1>2, <1>3, <1>4, <1>5 DEF Next

\* The incidents table, with its rows, ages and purges, implements the promise
\* made for each dedup key.
THEOREM Refinement == Spec => KeepsPromise
  <1>1. Init => Promise!PInit
    BY DEF Init, Promise!PInit, Phase, ActiveSlots, Active, NoRow
  <1> QED
    BY <1>1, PromiseStep, Safety, PTL DEF Spec, KeepsPromise, Promise!PSpec

(***************************************************************************)
(* Health and incidents: what the rules select rests on the rows           *)
(***************************************************************************)

UnavailabilityTypes ==
    {"network_wide_instability", "correlated_device_unavailability", "single_device_unavailable"}

\* The rules about one network.
NetworkRules(i, n, cfg) ==
    network_unavailability_rules(i, n, cfg) \cup router_risk_rules(i, n, cfg)
    \cup cluster_rules(i, n, cfg) \cup unknown_rules(i, n, cfg)

\* Everything correlate() puts in order.
Raw(ns, cfg) ==
    bridge_offline_rules(ns, cfg) \cup multi_network_rules(ns, cfg)
    \cup UNION {NetworkRules(i, ns[i], cfg) : i \in DOMAIN ns}

\* The issues of a device are the flags for which its row gives the reason.
LEMMA IssuesAre ==
    ASSUME NEW d, NEW cfg
    PROVE  /\ Issues(d, cfg) \subseteq {"unavailable", "recently_unstable", "interview_issue",
                                        "stale_reporting", "weak_link", "low_battery"}
           /\ "unavailable" \in Issues(d, cfg) <=> d.availability = "offline"
  BY DEF Issues, check_unavailable

\* A device has one of the flags as its primary one; it is well exactly when it has
\* no other flag than "healthy", and in an incident exactly when it is offline.
LEMMA HealthOfDevice ==
    ASSUME NEW d, NEW cfg
    PROVE  LET h == classify_device(d, cfg) IN
           /\ h.primary \in h.flags
           /\ h.severity = "ok" <=> h.flags = {"healthy"}
           /\ h.severity = "incident" <=> d.availability = "offline"
           /\ "unavailable" \in h.flags <=> d.availability = "offline"
  <1> DEFINE issues == Issues(d, cfg)
             primary == Primary(d, issues)
             flags == issues \cup {f \in {"router_risk"} : check_router_risk(d, issues)}
                             \cup {f \in {"healthy"} : check_healthy(d, issues)}
                             \cup {f \in {"unknown"} : primary = "unknown"}
  <1>1. /\ classify_device(d, cfg).primary = primary
        /\ classify_device(d, cfg).flags = flags
        /\ classify_device(d, cfg).severity = severity_for_primary(primary, flags, d)
    BY DEF classify_device
  <1>2. /\ issues \subseteq {"unavailable", "recently_unstable", "interview_issue",
                             "stale_reporting", "weak_link", "low_battery"}
        /\ "unavailable" \in issues <=> d.availability = "offline"
    BY IssuesAre
  <1> HIDE DEF issues
  <1>3. /\ primary \in issues \cup {"router_risk", "healthy", "unknown"}
        /\ primary = "router_risk" => check_router_risk(d, issues) /\ "unavailable" \notin issues
        /\ primary = "healthy" => check_healthy(d, issues)
        /\ primary = "unavailable" <=> "unavailable" \in issues
        /\ issues = {} /\ check_healthy(d, issues) => primary = "healthy"
    BY <1>2 DEF Primary
  <1>4. check_healthy(d, issues) => issues = {} /\ ~check_router_risk(d, issues)
    BY DEF check_healthy, check_router_risk
  <1> HIDE DEF primary
  <1>5. primary \in flags
    BY <1>3
  <1>6. primary = "healthy" <=> flags = {"healthy"}
    <2>1. ASSUME primary = "healthy" PROVE flags = {"healthy"}
      BY <2>1, <1>3, <1>4
    <2>2. ASSUME flags = {"healthy"} PROVE primary = "healthy"
      <3>1. "healthy" \in flags /\ "healthy" \notin issues
        BY <2>2, <1>2
      <3>2. check_healthy(d, issues)
        BY <3>1
      <3> QED
        BY <3>2, <1>3, <1>4
    <2> QED
      BY <2>1, <2>2
  <1>7. "unavailable" \in flags <=> d.availability = "offline"
    BY <1>2
  <1> HIDE DEF flags
  <1>8. /\ severity_for_primary(primary, flags, d) = "ok" <=> primary = "healthy"
        /\ severity_for_primary(primary, flags, d) = "incident" <=> primary = "unavailable"
    <2>1. primary = "router_risk" => d.availability # "offline"
      BY <1>2, <1>3
    <2>2. primary = "stale_reporting" => "unavailable" \notin flags
      BY <1>2, <1>3, <1>7
    <2> QED
      BY <2>1, <2>2 DEF severity_for_primary
  <1> QED
    BY <1>1, <1>2, <1>3, <1>5, <1>6, <1>7, <1>8

\* A device that is counted as unavailable is offline.
LEMMA Unreachable ==
    ASSUME NEW n, NEW cfg
    PROVE  /\ Flagged(n, cfg, "unavailable") = Offline(n)
           /\ \A a \in DOMAIN n.devices : Health(n, cfg)[a] = classify_device(n.devices[a], cfg)
           /\ offline_cluster(n) \subseteq Offline(n)
  <1>1. \A a \in DOMAIN n.devices : Health(n, cfg)[a] = classify_device(n.devices[a], cfg)
    BY DEF Health
  <1>2. \A a \in DOMAIN n.devices :
            "unavailable" \in Health(n, cfg)[a].flags <=> n.devices[a].availability = "offline"
    BY <1>1, HealthOfDevice
  <1> QED
    BY <1>1, <1>2 DEF Flagged, Offline, offline_cluster

\* A network shows an incident exactly when its bridge or one of its devices is offline.
LEMMA NetworkHealth ==
    ASSUME NEW n, NEW cfg
    PROVE  /\ classify_bridge(n, cfg) = "offline" <=> n.bridge = "offline"
           /\ classify_network(n, cfg) = "incident" <=> (n.bridge = "offline" \/ Offline(n) # {})
  <1>1. classify_bridge(n, cfg) = "offline" <=> n.bridge = "offline"
    BY DEF classify_bridge
  <1> QED
    BY <1>1, Unreachable DEF classify_network

\* What the rules on unavailable devices select: one story, about devices that are offline.
LEMMA UnavailabilityRule ==
    ASSUME NEW i, NEW n, NEW cfg, NEW c \in network_unavailability_rules(i, n, cfg)
    PROVE  /\ network_unavailability_rules(i, n, cfg) = {c}
           /\ c.type \in UnavailabilityTypes /\ c.nets = {i} /\ c.severity = "incident"
           /\ c.devices \subseteq {i} \X Offline(n)
  <1> DEFINE cluster == offline_cluster(n)
  <1>1. PICK type \in UnavailabilityTypes, members \in {cluster, Offline(n)} :
            network_unavailability_rules(i, n, cfg)
                = {Candidate(type, {i}, {i} \X members, "incident")}
    BY Zenon DEF network_unavailability_rules, UnavailabilityTypes
  <1>2. members \subseteq Offline(n)
    BY Unreachable
  <1>3. c = Candidate(type, {i}, {i} \X members, "incident")
    BY <1>1
  <1>4. network_unavailability_rules(i, n, cfg) = {c}
    BY <1>1, <1>3
  <1>5. c.type = type /\ c.nets = {i} /\ c.severity = "incident" /\ c.devices = {i} \X members
    BY <1>3 DEF Candidate
  <1>6. {i} \X members \subseteq {i} \X Offline(n)
    BY <1>2
  <1> QED
    BY <1>4, <1>5, <1>6

\* A router at risk is named alone.
LEMMA RouterRule ==
    ASSUME NEW i, NEW n, NEW cfg, NEW c \in router_risk_rules(i, n, cfg)
    PROVE  /\ c.type = "router_risk" /\ c.nets = {i} /\ c.severity \in {"incident", "watch"}
           /\ \E a \in Flagged(n, cfg, "router_risk") : c.devices = {<<i, a>>}
           /\ \A e \in router_risk_rules(i, n, cfg) : c.devices = e.devices => c = e
  <1> DEFINE Risk(a) == Candidate("router_risk", {i}, {<<i, a>>},
                            IF a \in Flagged(n, cfg, "unavailable") THEN "incident" ELSE "watch")
  <1>1. \A e \in router_risk_rules(i, n, cfg) : \E a \in Flagged(n, cfg, "router_risk") : e = Risk(a)
    BY DEF router_risk_rules
  <1>2. PICK a \in Flagged(n, cfg, "router_risk") : c = Risk(a)
    BY <1>1
  <1>3. c.devices = {<<i, a>>}
    BY <1>2 DEF Candidate
  <1>4. ASSUME NEW e \in router_risk_rules(i, n, cfg), c.devices = e.devices PROVE c = e
    <2>1. PICK b \in Flagged(n, cfg, "router_risk") : e = Risk(b)
      BY <1>1
    <2>2. e.devices = {<<i, b>>}
      BY <2>1 DEF Candidate
    <2>3. <<i, a>> \in {<<i, b>>}
      BY <1>3, <1>4, <2>2
    <2>4. a = b
      BY <2>3
    <2> QED
      BY <1>2, <2>1, <2>4
  <1>5. c.type = "router_risk" /\ c.nets = {i} /\ c.severity \in {"incident", "watch"}
    BY <1>2 DEF Candidate
  <1> QED
    BY <1>3, <1>4, <1>5

\* A cluster names the devices that have its flag.
ClusterFlag ==
    [stale_reporting_cluster |-> "stale_reporting", low_battery_cluster |-> "low_battery",
     interview_failure |-> "interview_issue"]

\* What a cluster rule raises: its network, its severity, and exactly the flagged devices.
LEMMA ClusterRule ==
    ASSUME NEW i, NEW n, NEW cfg, NEW c \in cluster_rules(i, n, cfg)
    PROVE  /\ c.type \in DOMAIN ClusterFlag /\ c.nets = {i} /\ c.severity \in {"incident", "watch"}
           /\ c.devices = {i} \X Flagged(n, cfg, ClusterFlag[c.type])
           /\ \A e \in cluster_rules(i, n, cfg) : c.type = e.type => c = e
  <1> DEFINE failed == {a \in Flagged(n, cfg, "interview_issue") : n.devices[a].interview = "failed"}
             severity == IF failed # {} THEN "incident" ELSE "watch"
             Stale == Candidate("stale_reporting_cluster", {i},
                                {i} \X Flagged(n, cfg, "stale_reporting"), "watch")
             Low == Candidate("low_battery_cluster", {i},
                              {i} \X Flagged(n, cfg, "low_battery"), "watch")
             Interview == Candidate("interview_failure", {i},
                                    {i} \X Flagged(n, cfg, "interview_issue"), severity)
  <1>1. cluster_rules(i, n, cfg) \subseteq {Stale, Low, Interview}
    BY Zenon DEF cluster_rules
  <1>2. severity \in {"incident", "watch"}
    OBVIOUS
  <1> HIDE DEF failed, severity
  <1>3. \A e \in {Stale, Low, Interview} :
          /\ e.type \in DOMAIN ClusterFlag /\ e.nets = {i} /\ e.severity \in {"incident", "watch"}
          /\ e.devices = {i} \X Flagged(n, cfg, ClusterFlag[e.type])
    BY <1>2 DEF Candidate, ClusterFlag
  <1>4. \A e, f \in {Stale, Low, Interview} : e.type = f.type => e = f
    BY DEF Candidate
  <1> QED
    BY <1>1, <1>3, <1>4

\* The devices of an unknown pattern have said nothing.
LEMMA UnknownRule ==
    ASSUME NEW i, NEW n, NEW cfg, NEW c \in unknown_rules(i, n, cfg)
    PROVE  /\ unknown_rules(i, n, cfg) = {c}
           /\ c.type = "unknown_pattern" /\ c.nets = {i} /\ c.severity = "watch"
           /\ c.devices \subseteq {i} \X Flagged(n, cfg, "unknown")
  <1> DEFINE ambiguous == {a \in DOMAIN n.devices : /\ Health(n, cfg)[a].primary = "unknown"
                                                    /\ n.devices[a].availability = "unknown"
                                                    /\ n.devices[a].payload = NoTime}
             One == Candidate("unknown_pattern", {i}, {i} \X ambiguous, "watch")
  <1>1. c \in unknown_rules(i, n, cfg) /\ unknown_rules(i, n, cfg) \subseteq {One}
    BY Zenon DEF unknown_rules
  <1>2. ambiguous \subseteq Flagged(n, cfg, "unknown")
    <2>1. \A a \in DOMAIN n.devices : Health(n, cfg)[a].primary \in Health(n, cfg)[a].flags
      BY Unreachable, HealthOfDevice
    <2> QED
      BY <2>1 DEF Flagged
  <1> HIDE DEF ambiguous
  <1>3. c = One /\ unknown_rules(i, n, cfg) = {c}
    BY <1>1
  <1> QED
    BY <1>2, <1>3 DEF Candidate

\* What the rules about a network select: incidents of that network, about devices of it
\* that have the trouble now.
LEMMA NetworkRule ==
    ASSUME NEW i, NEW n, NEW cfg, NEW c \in NetworkRules(i, n, cfg)
    PROVE  /\ c.type \in UnavailabilityTypes \cup DOMAIN ClusterFlag \cup {"router_risk", "unknown_pattern"}
           /\ c.nets = {i} /\ c.severity \in {"incident", "watch"}
           /\ \A x \in c.devices :
                 /\ x[1] = i /\ x[2] \in DOMAIN n.devices
                 /\ TroubleOf[c.type] \in Health(n, cfg)[x[2]].flags
                 /\ c.type \in UnavailabilityTypes => x[2] \in Offline(n)
  <1>1. \A f : \A a \in Flagged(n, cfg, f) : a \in DOMAIN n.devices /\ f \in Health(n, cfg)[a].flags
    BY DEF Flagged
  <1>2. CASE c \in network_unavailability_rules(i, n, cfg)
    <2>1. /\ c.type \in UnavailabilityTypes /\ c.nets = {i} /\ c.severity = "incident"
          /\ c.devices \subseteq {i} \X Offline(n)
      BY <1>2, UnavailabilityRule
    <2>2. \A x \in c.devices : x[1] = i /\ x[2] \in Offline(n)
      BY <2>1
    <2>3. \A a \in Offline(n) : a \in DOMAIN n.devices /\ "unavailable" \in Health(n, cfg)[a].flags
      BY <1>1, Unreachable
    <2>4. TroubleOf[c.type] = "unavailable"
      BY <2>1 DEF TroubleOf, UnavailabilityTypes
    <2> QED
      BY <2>1, <2>2, <2>3, <2>4
  <1>3. CASE c \in router_risk_rules(i, n, cfg)
    <2>1. PICK a \in Flagged(n, cfg, "router_risk") : c.devices = {<<i, a>>}
      BY <1>3, RouterRule
    <2>2. c.type = "router_risk" /\ c.nets = {i} /\ c.severity \in {"incident", "watch"}
      BY <1>3, RouterRule
    <2>3. a \in DOMAIN n.devices /\ TroubleOf[c.type] \in Health(n, cfg)[a].flags
      BY <1>1, <2>2 DEF TroubleOf
    <2> QED
      BY <2>1, <2>2, <2>3 DEF UnavailabilityTypes
  <1>4. CASE c \in cluster_rules(i, n, cfg)
    <2>1. /\ c.type \in DOMAIN ClusterFlag /\ c.nets = {i} /\ c.severity \in {"incident", "watch"}
          /\ c.devices = {i} \X Flagged(n, cfg, ClusterFlag[c.type])
      BY <1>4, ClusterRule
    <2>2. ClusterFlag[c.type] = TroubleOf[c.type] /\ c.type \notin UnavailabilityTypes
      BY <2>1 DEF ClusterFlag, TroubleOf, UnavailabilityTypes
    <2>3. \A x \in c.devices : x[1] = i /\ x[2] \in Flagged(n, cfg, ClusterFlag[c.type])
      BY <2>1
    <2> QED
      BY <1>1, <2>1, <2>2, <2>3
  <1>5. CASE c \in unknown_rules(i, n, cfg)
    <2>1. /\ c.type = "unknown_pattern" /\ c.nets = {i} /\ c.severity = "watch"
          /\ c.devices \subseteq {i} \X Flagged(n, cfg, "unknown")
      BY <1>5, UnknownRule
    <2>2. \A x \in c.devices : x[1] = i /\ x[2] \in Flagged(n, cfg, "unknown")
      BY <2>1
    <2> QED
      BY <1>1, <2>1, <2>2 DEF TroubleOf, UnavailabilityTypes
  <1> QED
    BY <1>2, <1>3, <1>4, <1>5 DEF NetworkRules

\* The type tells which rule selected an incident of a network.
LEMMA RuleOfType ==
    ASSUME NEW i, NEW n, NEW cfg, NEW c \in NetworkRules(i, n, cfg)
    PROVE  /\ c.type \in UnavailabilityTypes => c \in network_unavailability_rules(i, n, cfg)
           /\ c.type = "router_risk" => c \in router_risk_rules(i, n, cfg)
           /\ c.type \in DOMAIN ClusterFlag => c \in cluster_rules(i, n, cfg)
           /\ c.type = "unknown_pattern" => c \in unknown_rules(i, n, cfg)
  <1>1. c \in network_unavailability_rules(i, n, cfg) => c.type \in UnavailabilityTypes
    BY UnavailabilityRule
  <1>2. c \in router_risk_rules(i, n, cfg) => c.type = "router_risk"
    BY RouterRule
  <1>3. c \in cluster_rules(i, n, cfg) => c.type \in DOMAIN ClusterFlag
    BY ClusterRule
  <1>4. c \in unknown_rules(i, n, cfg) => c.type = "unknown_pattern"
    BY UnknownRule
  <1> QED
    BY <1>1, <1>2, <1>3, <1>4 DEF NetworkRules, UnavailabilityTypes, ClusterFlag

\* One rule selects one incident for a network, but for the routers at risk, and
\* the devices that are unavailable are told of in one story.
LEMMA NetworkRulesAgree ==
    ASSUME NEW i, NEW n, NEW cfg,
           NEW c \in NetworkRules(i, n, cfg), NEW e \in NetworkRules(i, n, cfg)
    PROVE  /\ c.type = e.type /\ (c.type = "router_risk" => c.devices = e.devices) => c = e
           /\ c.type \in UnavailabilityTypes /\ e.type \in UnavailabilityTypes => c = e
  <1>1. c.type \in UnavailabilityTypes /\ e.type \in UnavailabilityTypes => c = e
    <2> SUFFICES ASSUME c.type \in UnavailabilityTypes, e.type \in UnavailabilityTypes PROVE c = e
      OBVIOUS
    <2>1. c \in network_unavailability_rules(i, n, cfg) /\ e \in network_unavailability_rules(i, n, cfg)
      BY RuleOfType
    <2>2. network_unavailability_rules(i, n, cfg) = {c}
      BY <2>1, UnavailabilityRule
    <2> QED
      BY <2>1, <2>2
  <1>2. ASSUME c.type = e.type, c.type = "router_risk" => c.devices = e.devices PROVE c = e
    <2>1. CASE c.type \in UnavailabilityTypes
      BY <1>1, <1>2, <2>1
    <2>2. CASE c.type = "router_risk"
      <3>1. c \in router_risk_rules(i, n, cfg) /\ e \in router_risk_rules(i, n, cfg)
        BY <1>2, <2>2, RuleOfType
      <3> QED
        BY <1>2, <2>2, <3>1, RouterRule
    <2>3. CASE c.type \in DOMAIN ClusterFlag
      <3>1. c \in cluster_rules(i, n, cfg) /\ e \in cluster_rules(i, n, cfg)
        BY <1>2, <2>3, RuleOfType
      <3> QED
        BY <1>2, <3>1, ClusterRule
    <2>4. CASE c.type = "unknown_pattern"
      <3>1. c \in unknown_rules(i, n, cfg) /\ e \in unknown_rules(i, n, cfg)
        BY <1>2, <2>4, RuleOfType
      <3>2. unknown_rules(i, n, cfg) = {c}
        BY <3>1, UnknownRule
      <3> QED
        BY <3>1, <3>2
    <2> QED
      BY <2>1, <2>2, <2>3, <2>4, NetworkRule
  <1> QED
    BY <1>1, <1>2

\* A bridge incident names its network and nothing else.
LEMMA BridgeRule ==
    ASSUME NEW ns, NEW cfg, NEW c \in bridge_offline_rules(ns, cfg)
    PROVE  /\ c.type = "bridge_offline" /\ c.devices = {}
           /\ \E i \in DOMAIN ns :
                 /\ c.nets = {i}
                 /\ c.severity = IF ns[i].bridge = "offline" THEN "critical" ELSE "watch"
           /\ \A e \in bridge_offline_rules(ns, cfg) : c.nets = e.nets => c = e
  <1> DEFINE One(i) == Candidate("bridge_offline", {i}, {},
                           IF classify_bridge(ns[i], cfg) = "offline" THEN "critical" ELSE "watch")
  <1>1. \A e \in bridge_offline_rules(ns, cfg) : \E i \in DOMAIN ns : e = One(i)
    BY DEF bridge_offline_rules
  <1>2. PICK i \in DOMAIN ns : c = One(i)
    BY <1>1
  <1>3. c.type = "bridge_offline" /\ c.devices = {} /\ c.nets = {i}
    BY <1>2 DEF Candidate
  <1>4. c.severity = IF ns[i].bridge = "offline" THEN "critical" ELSE "watch"
    BY <1>2, NetworkHealth DEF Candidate
  <1>5. ASSUME NEW e \in bridge_offline_rules(ns, cfg), c.nets = e.nets PROVE c = e
    <2>1. PICK j \in DOMAIN ns : e = One(j)
      BY <1>1
    <2>2. e.nets = {j}
      BY <2>1 DEF Candidate
    <2>3. i = j
      BY <1>3, <1>5, <2>2
    <2> QED
      BY <1>2, <2>1, <2>3
  <1> QED
    BY <1>3, <1>4, <1>5

\* Trouble in several networks is one incident of at least two of them.
LEMMA MultiNetworkRule ==
    ASSUME NEW ns, NEW cfg, NEW c \in multi_network_rules(ns, cfg)
    PROVE  /\ multi_network_rules(ns, cfg) = {c}
           /\ c.type = "multi_network_instability" /\ c.devices = {} /\ c.severity = "incident"
           /\ \A i : c.nets # {i}
  <1> DEFINE affected == {i \in DOMAIN ns :
                             \/ ns[i].bridge = "offline"
                             \/ Cardinality(offline_cluster(ns[i])) >= cfg.correlated
                             \/ Cardinality(Offline(ns[i])) >= cfg.wideMin}
             One == Candidate("multi_network_instability", affected, {}, "incident")
  <1>1. multi_network_rules(ns, cfg) = {x \in {One} : Cardinality(affected) >= 2}
    BY Zenon DEF multi_network_rules
  <1> HIDE DEF affected
  <1>2. c = One /\ Cardinality(affected) >= 2 /\ multi_network_rules(ns, cfg) = {c}
    BY <1>1
  <1>3. \A i : affected # {i}
    BY <1>2, FS_Singleton
  <1> QED
    BY <1>2, <1>3 DEF Candidate

\* Where a selected incident comes from.
LEMMA RawForms ==
    ASSUME NEW ns, NEW cfg, NEW c \in Raw(ns, cfg)
    PROVE  /\ c.type = "bridge_offline" => c \in bridge_offline_rules(ns, cfg)
           /\ c.type = "multi_network_instability" => c \in multi_network_rules(ns, cfg)
           /\ c.type \notin {"bridge_offline", "multi_network_instability"} =>
                 \E i \in DOMAIN ns : c.nets = {i} /\ c \in NetworkRules(i, ns[i], cfg)
  <1>1. c \in bridge_offline_rules(ns, cfg) => c.type = "bridge_offline"
    BY BridgeRule
  <1>2. c \in multi_network_rules(ns, cfg) => c.type = "multi_network_instability"
    BY MultiNetworkRule
  <1>3. \A i \in DOMAIN ns : c \in NetworkRules(i, ns[i], cfg) =>
            c.nets = {i} /\ c.type \notin {"bridge_offline", "multi_network_instability"}
    <2> TAKE i \in DOMAIN ns
    <2> HAVE c \in NetworkRules(i, ns[i], cfg)
    <2> QED
      BY NetworkRule DEF UnavailabilityTypes, ClusterFlag
  <1>4. \/ c \in bridge_offline_rules(ns, cfg) \/ c \in multi_network_rules(ns, cfg)
        \/ \E i \in DOMAIN ns : c \in NetworkRules(i, ns[i], cfg)
    BY DEF Raw
  <1> QED
    BY <1>1, <1>2, <1>3, <1>4

\* No two candidates have one identity.
LEMMA RawIdentity ==
    ASSUME NEW ns, NEW cfg, NEW c \in Raw(ns, cfg), NEW e \in Raw(ns, cfg),
           incident_identity_key(c) = incident_identity_key(e)
    PROVE  c = e
  <1>1. /\ c.type = e.type /\ c.nets = e.nets
        /\ c.type = "router_risk" => c.devices = e.devices
    BY DEF incident_identity_key
  <1>2. CASE c.type = "bridge_offline"
    <2>1. c \in bridge_offline_rules(ns, cfg) /\ e \in bridge_offline_rules(ns, cfg)
      BY <1>1, <1>2, RawForms
    <2> QED
      BY <1>1, <2>1, BridgeRule
  <1>3. CASE c.type = "multi_network_instability"
    <2>1. c \in multi_network_rules(ns, cfg) /\ e \in multi_network_rules(ns, cfg)
      BY <1>1, <1>3, RawForms
    <2>2. multi_network_rules(ns, cfg) = {c}
      BY <2>1, MultiNetworkRule
    <2> QED
      BY <2>1, <2>2
  <1>4. CASE c.type \notin {"bridge_offline", "multi_network_instability"}
    <2>1. PICK i \in DOMAIN ns : c.nets = {i} /\ c \in NetworkRules(i, ns[i], cfg)
      BY <1>4, RawForms
    <2>2. PICK j \in DOMAIN ns : e.nets = {j} /\ e \in NetworkRules(j, ns[j], cfg)
      BY <1>1, <1>4, RawForms
    <2>3. i = j
      BY <1>1, <2>1, <2>2
    <2> QED
      BY <1>1, <2>1, <2>2, <2>3, NetworkRulesAgree
  <1> QED
    BY <1>2, <1>3, <1>4

\* What _apply_priority leaves: no other story of a network whose bridge is in trouble.
LEMMA SelectedForms ==
    ASSUME NEW ns, NEW cfg, NEW c \in correlate(ns, cfg)
    PROVE  /\ c \in Raw(ns, cfg)
           /\ c.type \notin {"bridge_offline", "multi_network_instability"} =>
                 \A b \in Raw(ns, cfg) : b.type = "bridge_offline" => c.nets \cap b.nets = {}
  <1>1. correlate(ns, cfg) = apply_priority(Raw(ns, cfg))
    BY Zenon DEF correlate, Raw, NetworkRules
  <1>2. \A raw : c \in apply_priority(raw) =>
          /\ c \in raw
          /\ \/ c.type \in {"bridge_offline", "multi_network_instability"}
             \/ c.nets \cap UNION {b.nets : b \in {x \in raw : x.type = "bridge_offline"}} = {}
    BY DEF apply_priority
  <1>3. /\ c \in Raw(ns, cfg)
        /\ \/ c.type \in {"bridge_offline", "multi_network_instability"}
           \/ c.nets \cap UNION {b.nets : b \in {x \in Raw(ns, cfg) : x.type = "bridge_offline"}} = {}
    BY <1>1, <1>2
  <1> QED
    BY <1>3

\* What it does not suppress: trouble of a bridge, and a network where most devices are gone.
LEMMA Selects ==
    ASSUME NEW ns, NEW cfg, NEW c \in Raw(ns, cfg)
    PROVE  /\ c.type = "bridge_offline" => c \in correlate(ns, cfg)
           /\ /\ c.type = "network_wide_instability"
              /\ \A b \in Raw(ns, cfg) : b.type = "bridge_offline" => c.nets \cap b.nets = {}
              => c \in correlate(ns, cfg)
  <1> DEFINE raw == Raw(ns, cfg)
             suppressed == UNION {x.nets : x \in {y \in raw : y.type = "bridge_offline"}}
             kept == {x \in raw : \/ x.type \in {"bridge_offline", "multi_network_instability"}
                                  \/ x.nets \cap suppressed = {}}
             Explained == UNION {x.devices : x \in {y \in kept :
                            /\ y.type \in {"network_wide_instability", "single_device_unavailable",
                                           "correlated_device_unavailability"}
                            /\ INCIDENT_PRIORITY[y.type] < INCIDENT_PRIORITY[c.type]}}
  <1>1. correlate(ns, cfg) = apply_priority(raw)
    BY Zenon DEF correlate, Raw, NetworkRules
  <1>2. c \in kept /\ (c.devices = {} \/ ~(c.devices \subseteq Explained)) => c \in apply_priority(raw)
    BY Zenon DEF apply_priority
  <1>3. CASE c.type = "bridge_offline"
    BY <1>1, <1>2, <1>3, RawForms, BridgeRule
  <1>4. CASE /\ c.type = "network_wide_instability"
             /\ \A b \in raw : b.type = "bridge_offline" => c.nets \cap b.nets = {}
    <2>1. c \in kept
      BY <1>4
    <2>2. \A y \in kept : y.type \in UnavailabilityTypes =>
              ~(INCIDENT_PRIORITY[y.type] < INCIDENT_PRIORITY[c.type])
      BY <1>4 DEF UnavailabilityTypes, INCIDENT_PRIORITY
    <2> HIDE DEF kept
    <2>3. Explained = {}
      BY <2>2 DEF UnavailabilityTypes
    <2> QED
      BY <1>1, <1>2, <2>1, <2>3
  <1> QED
    BY <1>3, <1>4

\* The most severe of active incidents is found, however many there are.
LEMMA PickLeast ==
    ASSUME NEW rows, rows # {},
           \A r \in rows : r.open = TRUE /\ r.severity \in {"critical", "incident", "watch"}
    PROVE  /\ pick_active(rows) \in rows
           /\ \A r \in rows : SeverityRank(pick_active(rows).severity) <= SeverityRank(r.severity)
  <1>1. \A r \in rows : Rank(r) = SeverityRank(r.severity) /\ SeverityRank(r.severity) \in 0..2
    BY DEF Rank, SeverityRank
  <1>2. \E r \in rows : \A q \in rows : Rank(r) <= Rank(q)
    <2>1. CASE \E r \in rows : Rank(r) = 0
      BY <1>1, <2>1
    <2>2. CASE (\A r \in rows : Rank(r) # 0) /\ \E r \in rows : Rank(r) = 1
      BY <1>1, <2>2
    <2>3. CASE \A r \in rows : Rank(r) # 0 /\ Rank(r) # 1
      BY <1>1, <2>3
    <2> QED
      BY <2>1, <2>2, <2>3
  <1>3. pick_active(rows) \in rows /\ \A q \in rows : Rank(pick_active(rows)) <= Rank(q)
    BY <1>2 DEF pick_active
  <1> QED
    BY <1>1, <1>3

\* The finding that leads the dashboard, when the selected incidents are the stored ones.
LEMMA FindingLeads ==
    ASSUME NEW ns, NEW cfg, correlate(ns, cfg) # {}
    PROVE  LET sel == correlate(ns, cfg)
               rows == {[open |-> TRUE, severity |-> c.severity, nets |-> c.nets] : c \in sel}
               by == active_severity_by_network_id(rows, DOMAIN ns) IN
           /\ pick_active(rows).severity = "critical" <=> \E i \in DOMAIN ns : ns[i].bridge = "offline"
           /\ \A i \in DOMAIN by : SeverityRank(pick_active(rows).severity) <= SeverityRank(by[i])
           /\ \A i \in DOMAIN ns : Offline(ns[i]) # {} /\ NetworkWide(ns[i], cfg)
                 /\ classify_bridge(ns[i], cfg) # "stale" => by[i] \in {"critical", "incident"}
  <1> DEFINE sel == correlate(ns, cfg)
             RowOf(c) == [open |-> TRUE, severity |-> c.severity, nets |-> c.nets]
             rows == {RowOf(c) : c \in sel}
             On(i) == {r \in rows : i \in r.nets}
             by == active_severity_by_network_id(rows, DOMAIN ns)
  <1>1. \A c \in sel : c \in Raw(ns, cfg) /\ c.severity \in {"critical", "incident", "watch"}
    <2> SUFFICES ASSUME NEW c \in sel
                 PROVE  c \in Raw(ns, cfg) /\ c.severity \in {"critical", "incident", "watch"}
      OBVIOUS
    <2>1. c \in Raw(ns, cfg)
      BY SelectedForms
    <2>2. CASE c.type = "bridge_offline"
      BY <2>1, <2>2, RawForms, BridgeRule
    <2>3. CASE c.type = "multi_network_instability"
      BY <2>1, <2>3, RawForms, MultiNetworkRule
    <2>4. CASE c.type \notin {"bridge_offline", "multi_network_instability"}
      BY <2>1, <2>4, RawForms, NetworkRule
    <2> QED
      BY <2>1, <2>2, <2>3, <2>4
  <1>2. \A c \in sel : c.severity = "critical" => \E i \in DOMAIN ns : ns[i].bridge = "offline"
    <2> SUFFICES ASSUME NEW c \in sel, c.severity = "critical"
                 PROVE  \E i \in DOMAIN ns : ns[i].bridge = "offline"
      OBVIOUS
    <2>1. c.type # "multi_network_instability"
      BY <1>1, RawForms, MultiNetworkRule
    <2>2. c.type = "bridge_offline"
      BY <1>1, <2>1, RawForms, NetworkRule
    <2> QED
      BY <1>1, <2>2, RawForms, BridgeRule
  <1>3. \A i \in DOMAIN ns : ns[i].bridge = "offline" =>
            \E c \in sel : c.severity = "critical" /\ c.nets = {i}
    <2> SUFFICES ASSUME NEW i \in DOMAIN ns, ns[i].bridge = "offline"
                 PROVE  \E c \in sel : c.severity = "critical" /\ c.nets = {i}
      OBVIOUS
    <2> DEFINE c == Candidate("bridge_offline", {i}, {},
                        IF classify_bridge(ns[i], cfg) = "offline" THEN "critical" ELSE "watch")
    <2>1. classify_bridge(ns[i], cfg) = "offline"
      BY NetworkHealth
    <2>2. c \in bridge_offline_rules(ns, cfg)
      BY <2>1 DEF bridge_offline_rules
    <2>3. c.type = "bridge_offline" /\ c.nets = {i} /\ c.severity = "critical"
      BY <2>1 DEF Candidate
    <2> HIDE DEF c
    <2> QED
      BY <2>2, <2>3, Selects DEF Raw
  <1>4. \A i \in DOMAIN ns :
            Offline(ns[i]) # {} /\ NetworkWide(ns[i], cfg)
            /\ classify_bridge(ns[i], cfg) \notin {"stale", "offline"} =>
                \E c \in sel : c.severity = "incident" /\ c.nets = {i}
    <2> SUFFICES ASSUME NEW i \in DOMAIN ns, Offline(ns[i]) # {}, NetworkWide(ns[i], cfg),
                        classify_bridge(ns[i], cfg) \notin {"stale", "offline"}
                 PROVE  \E c \in sel : c.severity = "incident" /\ c.nets = {i}
      OBVIOUS
    <2> DEFINE cluster == offline_cluster(ns[i])
               c == Candidate("network_wide_instability", {i},
                              {i} \X (IF cluster # {} THEN cluster ELSE Offline(ns[i])), "incident")
    <2>1. network_unavailability_rules(i, ns[i], cfg) = {c}
      BY Zenon DEF network_unavailability_rules
    <2>2. c.type = "network_wide_instability" /\ c.nets = {i} /\ c.severity = "incident"
      BY DEF Candidate
    <2> HIDE DEF c
    <2>3. c \in Raw(ns, cfg)
      BY <2>1 DEF Raw, NetworkRules
    <2>4. \A b \in Raw(ns, cfg) : b.type = "bridge_offline" => c.nets \cap b.nets = {}
      <3> SUFFICES ASSUME NEW b \in Raw(ns, cfg), b.type = "bridge_offline"
                   PROVE  i \notin b.nets
        BY <2>2
      <3>1. b \in bridge_offline_rules(ns, cfg)
        BY RawForms
      <3>2. PICK j \in DOMAIN ns : b = Candidate("bridge_offline", {j}, {},
                IF classify_bridge(ns[j], cfg) = "offline" THEN "critical" ELSE "watch")
                /\ classify_bridge(ns[j], cfg) \in {"offline", "stale"}
        BY <3>1 DEF bridge_offline_rules
      <3> QED
        BY <3>2 DEF Candidate
    <2> QED
      BY <2>2, <2>3, <2>4, Selects
  <1>5. /\ rows # {}
        /\ \A r \in rows : r.open = TRUE /\ r.severity \in {"critical", "incident", "watch"}
    <2>1. \A r \in rows : \E c \in sel : r = RowOf(c)
      OBVIOUS
    <2>2. \A c \in sel : RowOf(c) \in rows
      OBVIOUS
    <2>3. \A c : RowOf(c).open = TRUE /\ RowOf(c).severity = c.severity
      OBVIOUS
    <2> HIDE DEF rows, RowOf, sel
    <2>4. sel # {}
      BY DEF sel
    <2>5. rows # {}
      BY <2>2, <2>4
    <2> QED
      BY <1>1, <2>1, <2>3, <2>5
  <1>6. \A c \in sel : RowOf(c) \in rows /\ RowOf(c).severity = c.severity /\ RowOf(c).nets = c.nets
    OBVIOUS
  <1>7. \A r \in rows : \E c \in sel : r.severity = c.severity
    OBVIOUS
  <1>8. /\ DOMAIN by = {j \in DOMAIN ns : \E r \in rows : j \in r.nets}
        /\ \A i \in DOMAIN by : by[i] = pick_active(On(i)).severity
    BY DEF active_severity_by_network_id
  <1> HIDE DEF sel, rows, by, RowOf
  <1>9. /\ pick_active(rows) \in rows
        /\ \A r \in rows : SeverityRank(pick_active(rows).severity) <= SeverityRank(r.severity)
    BY <1>5, PickLeast
  <1>10. \A i \in DOMAIN by :
            /\ pick_active(On(i)) \in rows
            /\ \A r \in On(i) : SeverityRank(pick_active(On(i)).severity) <= SeverityRank(r.severity)
    <2> TAKE i \in DOMAIN by
    <2>1. On(i) # {} /\ On(i) \subseteq rows
      BY <1>8
    <2> HIDE DEF On
    <2> QED
      BY <1>5, <2>1, PickLeast
  <1>11. pick_active(rows).severity = "critical" <=> \E i \in DOMAIN ns : ns[i].bridge = "offline"
    <2>1. ASSUME pick_active(rows).severity = "critical"
          PROVE  \E i \in DOMAIN ns : ns[i].bridge = "offline"
      BY <1>2, <1>7, <1>9, <2>1
    <2>2. ASSUME NEW i \in DOMAIN ns, ns[i].bridge = "offline"
          PROVE  pick_active(rows).severity = "critical"
      <3>1. PICK c \in sel : c.severity = "critical"
        BY <1>3, <2>2
      <3>2. SeverityRank(pick_active(rows).severity) <= SeverityRank("critical")
        BY <1>6, <1>9, <3>1
      <3> QED
        BY <1>5, <1>9, <3>2 DEF SeverityRank
    <2> QED
      BY <2>1, <2>2
  <1>12. \A i \in DOMAIN by : SeverityRank(pick_active(rows).severity) <= SeverityRank(by[i])
    BY <1>8, <1>9, <1>10
  <1>13. ASSUME NEW i \in DOMAIN ns, Offline(ns[i]) # {}, NetworkWide(ns[i], cfg),
                classify_bridge(ns[i], cfg) # "stale"
         PROVE  by[i] \in {"critical", "incident"}
    <2>1. PICK c \in sel : c.severity \in {"critical", "incident"} /\ c.nets = {i}
      BY <1>3, <1>4, <1>13, NetworkHealth
    <2>2. RowOf(c) \in On(i) /\ i \in DOMAIN by
      BY <1>6, <1>8, <2>1
    <2>3. SeverityRank(by[i]) <= SeverityRank(c.severity)
      BY <1>6, <1>8, <1>10, <2>1, <2>2
    <2>4. by[i] \in {"critical", "incident", "watch"}
      BY <1>5, <1>8, <1>10, <2>2
    <2> QED
      BY <2>1, <2>3, <2>4 DEF SeverityRank
  <1> QED
    BY <1>11, <1>12, <1>13 DEF sel, rows, by, RowOf

\* What correlate() selects rests on the rows that health is computed from, for every estate and
\* every configuration: see IncidentsAreGrounded.
THEOREM CorrelationIsGrounded == \A ns, cfg : IncidentsAreGrounded(ns, cfg)
  <1> SUFFICES ASSUME NEW ns, NEW cfg PROVE IncidentsAreGrounded(ns, cfg)
    OBVIOUS
  <1> DEFINE sel == correlate(ns, cfg)
             Of(t) == {c \in sel : c.type \in t}
  <1>0. \A c \in sel : c \in Raw(ns, cfg)
    BY SelectedForms
  <1>1. \A c, e \in sel : incident_identity_key(c) = incident_identity_key(e) => c = e
    BY <1>0, RawIdentity
  <1>2. \A c \in sel : c.devices # {} =>
            \E i \in DOMAIN ns : c.nets = {i} /\ c \in NetworkRules(i, ns[i], cfg)
    BY <1>0, RawForms, BridgeRule, MultiNetworkRule
  <1>3. \A c \in sel : \A x \in c.devices :
            /\ x[1] \in c.nets /\ x[2] \in DOMAIN ns[x[1]].devices
            /\ TroubleOf[c.type] \in Health(ns[x[1]], cfg)[x[2]].flags
    <2> SUFFICES ASSUME NEW c \in sel, NEW x \in c.devices
                 PROVE  /\ x[1] \in c.nets /\ x[2] \in DOMAIN ns[x[1]].devices
                        /\ TroubleOf[c.type] \in Health(ns[x[1]], cfg)[x[2]].flags
      OBVIOUS
    <2>1. PICK i \in DOMAIN ns : c.nets = {i} /\ c \in NetworkRules(i, ns[i], cfg)
      BY <1>2
    <2> HIDE DEF sel
    <2> QED
      BY <2>1, NetworkRule
  <1>4. \A c, e \in Of(UnavailabilityTypes) : c # e => c.devices \cap e.devices = {}
    <2> SUFFICES ASSUME NEW c \in sel, NEW e \in sel, c.type \in UnavailabilityTypes,
                        e.type \in UnavailabilityTypes, NEW x \in c.devices, x \in e.devices
                 PROVE  c = e
      OBVIOUS
    <2>1. PICK i \in DOMAIN ns : c.nets = {i} /\ c \in NetworkRules(i, ns[i], cfg)
      BY <1>2
    <2>2. PICK j \in DOMAIN ns : e.nets = {j} /\ e \in NetworkRules(j, ns[j], cfg)
      BY <1>2
    <2> HIDE DEF sel
    <2>3. x[1] = i /\ x[1] = j
      BY <2>1, <2>2, NetworkRule
    <2> QED
      BY <2>1, <2>2, <2>3, NetworkRulesAgree
  <1>5. \A c \in Of({"bridge_offline"}), e \in sel : e.nets = c.nets => e = c
    <2> SUFFICES ASSUME NEW c \in sel, c.type = "bridge_offline", NEW e \in sel, e.nets = c.nets
                 PROVE  e = c
      OBVIOUS
    <2>1. c \in bridge_offline_rules(ns, cfg)
      BY <1>0, RawForms
    <2>2. PICK i \in DOMAIN ns : c.nets = {i}
      BY <2>1, BridgeRule
    <2>3. ASSUME e.type = "multi_network_instability" PROVE FALSE
      <3>1. e \in multi_network_rules(ns, cfg)
        BY <1>0, <2>3, RawForms
      <3>2. \A j : e.nets # {j}
        BY <3>1, MultiNetworkRule
      <3> QED
        BY <2>2, <3>2
    <2>4. CASE e.type = "bridge_offline"
      <3>1. e \in bridge_offline_rules(ns, cfg)
        BY <1>0, <2>4, RawForms
      <3> QED
        BY <2>1, <3>1, BridgeRule
    <2>5. CASE e.type \notin {"bridge_offline", "multi_network_instability"}
      <3>1. e.nets \cap c.nets = {}
        BY <1>0, <2>5, SelectedForms
      <3> QED
        BY <2>2, <3>1
    <2> QED
      BY <2>3, <2>4, <2>5
  <1>6. \A i \in DOMAIN ns :
            /\ classify_network(ns[i], cfg) = "incident" <=> (ns[i].bridge = "offline" \/ Offline(ns[i]) # {})
            /\ \A a \in DOMAIN ns[i].devices :
                  LET h == Health(ns[i], cfg)[a] IN
                  /\ h.primary \in h.flags
                  /\ h.severity = "ok" <=> h.flags = {"healthy"}
                  /\ h.severity = "incident" <=> a \in Offline(ns[i])
    <2> TAKE i \in DOMAIN ns
    <2>1. classify_network(ns[i], cfg) = "incident" <=> (ns[i].bridge = "offline" \/ Offline(ns[i]) # {})
      BY NetworkHealth
    <2>2. ASSUME NEW a \in DOMAIN ns[i].devices
          PROVE  LET h == Health(ns[i], cfg)[a] IN
                 /\ h.primary \in h.flags
                 /\ h.severity = "ok" <=> h.flags = {"healthy"}
                 /\ h.severity = "incident" <=> a \in Offline(ns[i])
      <3>1. Health(ns[i], cfg)[a] = classify_device(ns[i].devices[a], cfg)
        BY Unreachable
      <3> QED
        BY <3>1, HealthOfDevice DEF Offline
    <2> QED
      BY <2>1, <2>2
  <1>7. sel # {} =>
          LET rows == {[open |-> TRUE, severity |-> c.severity, nets |-> c.nets] : c \in sel}
              by   == active_severity_by_network_id(rows, DOMAIN ns) IN
          /\ pick_active(rows).severity = "critical" <=> \E i \in DOMAIN ns : ns[i].bridge = "offline"
          /\ \A i \in DOMAIN by : SeverityRank(pick_active(rows).severity) <= SeverityRank(by[i])
          /\ \A i \in DOMAIN ns : Offline(ns[i]) # {} /\ NetworkWide(ns[i], cfg)
                /\ classify_bridge(ns[i], cfg) # "stale" => by[i] \in {"critical", "incident"}
    BY Zenon, FindingLeads
  <1> HIDE DEF sel
  <1> QED
    BY Zenon, <1>1, <1>3, <1>4, <1>5, <1>6, <1>7 DEF IncidentsAreGrounded, sel, UnavailabilityTypes

\* So are the answers to every question the run asks, and to those it does not.
THEOREM AnswersAreGrounded == RulesSpec => []Grounded
  <1>1. Grounded
    BY CorrelationIsGrounded DEF Grounded
  <1> QED
    BY <1>1, PTL

(***************************************************************************)
(* Lists: what is kept, sorted and counted                                 *)
(***************************************************************************)

\* A linear order of a finite set puts every item at one place.
LEMMA InOrderFacts ==
    ASSUME NEW S, IsFiniteSet(S), NEW upTo \in [S -> SUBSET S],
           \A x \in S : x \in upTo[x],
           \A x, y \in S : x \in upTo[y] \/ y \in upTo[x],
           \A x, y \in S : x \in upTo[y] => upTo[x] \subseteq upTo[y],
           \A x, y \in S : x \in upTo[y] /\ y \in upTo[x] => x = y
    PROVE  /\ Cardinality(S) \in Nat
           /\ InOrder(upTo) \in [1 .. Cardinality(S) -> S]
           /\ \A x \in S : \E k \in 1 .. Cardinality(S) : InOrder(upTo)[k] = x
           /\ \A k, m \in 1 .. Cardinality(S) :
                  /\ k <= m => InOrder(upTo)[k] \in upTo[InOrder(upTo)[m]]
                  /\ InOrder(upTo)[k] = InOrder(upTo)[m] => k = m
           /\ \A k \in 1 .. Cardinality(S) : Cardinality(upTo[InOrder(upTo)[k]]) = k
           /\ \A x \in S : Cardinality(upTo[x]) \in 1 .. Cardinality(S)
  <1> DEFINE n == Cardinality(S)
             order == InOrder(upTo)
             place == [x \in S |-> Cardinality(upTo[x])]
  <1>1. n \in Nat /\ IsFiniteSet(1 .. n) /\ Cardinality(1 .. n) = n
    BY FS_CardinalityType, FS_Interval
  <1>2. \A x \in S : IsFiniteSet(upTo[x]) /\ place[x] \in 1 .. n
    <2>1. ASSUME NEW x \in S PROVE IsFiniteSet(upTo[x]) /\ Cardinality(upTo[x]) \in 1 .. n
      <3>1. upTo[x] \in SUBSET S
        OBVIOUS
      <3>2. IsFiniteSet(upTo[x]) /\ Cardinality(upTo[x]) <= n
        BY <3>1, FS_Subset
      <3>3. Cardinality(upTo[x]) \in Nat /\ Cardinality(upTo[x]) # 0
        BY <3>2, FS_CardinalityType, FS_EmptySet
      <3> QED
        BY <3>2, <3>3, <1>1
    <2> QED
      BY <2>1
  <1>3. \A x, y \in S : x \in upTo[y] => place[x] <= place[y] /\ (place[x] = place[y] => x = y)
    <2>1. ASSUME NEW x \in S, NEW y \in S, x \in upTo[y]
          PROVE  place[x] <= place[y] /\ (place[x] = place[y] => x = y)
      <3>1. upTo[x] \in SUBSET upTo[y] /\ IsFiniteSet(upTo[y])
        BY <2>1, <1>2
      <3>2. /\ Cardinality(upTo[x]) <= Cardinality(upTo[y])
            /\ Cardinality(upTo[y]) = Cardinality(upTo[x]) => upTo[y] = upTo[x]
        BY <3>1, FS_Subset
      <3>3. upTo[y] = upTo[x] => x = y
        BY <2>1
      <3> QED
        BY <3>2, <3>3
    <2> QED
      BY <2>1
  <1>4. \A k \in 1 .. n : \E x \in S : Cardinality(upTo[x]) = k
    <2>1. place \in Injection(S, 1 .. n)
      <3>1. place \in [S -> 1 .. n]
        BY <1>2
      <3>2. \A x, y \in S : place[x] = place[y] => x = y
        BY <1>3
      <3> QED
        BY <3>1, <3>2 DEF Injection, IsInjective
    <2>2. place \in Surjection(S, 1 .. n)
      BY <2>1, <1>1, FS_Injection
    <2>3. \A k \in 1 .. n : \E x \in S : place[x] = k
      BY <2>2 DEF Surjection
    <2> QED
      BY <2>3
  <1>5. DOMAIN upTo = S
    OBVIOUS
  <1>6. \A k \in 1 .. n : order[k] \in S /\ place[order[k]] = k
    <2>1. \A k \in 1 .. n : order[k] = CHOOSE x \in S : Cardinality(upTo[x]) = k
      BY <1>5 DEF InOrder
    <2>2. \A k \in 1 .. n : order[k] \in S /\ Cardinality(upTo[order[k]]) = k
      BY <2>1, <1>4
    <2> QED
      BY <2>2
  <1>7. order \in [1 .. n -> S]
    <2>1. order = [k \in 1 .. n |-> order[k]]
      BY <1>5 DEF InOrder
    <2> QED
      BY <2>1, <1>6
  <1> HIDE DEF order, place, n
  <1>8. \A x \in S : order[place[x]] = x
    <2>1. ASSUME NEW x \in S PROVE order[place[x]] = x
      <3>1. order[place[x]] \in S /\ place[order[place[x]]] = place[x]
        BY <1>2, <1>6
      <3> QED
        BY <3>1, <1>3
    <2> QED
      BY <2>1
  <1>9. \A k, m \in 1 .. n : /\ k <= m => order[k] \in upTo[order[m]]
                             /\ order[k] = order[m] => k = m
    <2>1. ASSUME NEW k \in 1 .. n, NEW m \in 1 .. n
          PROVE  /\ k <= m => order[k] \in upTo[order[m]]
                 /\ order[k] = order[m] => k = m
      <3>1. order[k] \in S /\ order[m] \in S /\ place[order[k]] = k /\ place[order[m]] = m
        BY <1>6
      <3>2. CASE order[k] \in upTo[order[m]]
        BY <3>1, <3>2
      <3>3. CASE order[m] \in upTo[order[k]] /\ order[k] \notin upTo[order[m]]
        <4>1. m <= k /\ order[k] # order[m]
          BY <3>1, <3>3, <1>3
        <4>2. k # m
          BY <4>1
        <4> QED
          BY <4>1, <4>2, <1>1
      <3> QED
        BY <3>1, <3>2, <3>3
    <2> QED
      BY <2>1
  <1>10. /\ \A k \in 1 .. n : Cardinality(upTo[order[k]]) = k
         /\ \A x \in S : Cardinality(upTo[x]) \in 1 .. n
    BY <1>2, <1>6 DEF place
  <1> QED
    BY <1>1, <1>2, <1>7, <1>8, <1>9, <1>10 DEF n, order

\* Ascending lists a finite set of integers in order, each member once.
LEMMA AscendingFacts ==
    ASSUME NEW S \in SUBSET Int, IsFiniteSet(S)
    PROVE  /\ Cardinality(S) \in Nat
           /\ Ascending(S) \in [1 .. Cardinality(S) -> S]
           /\ \A x \in S : \E k \in 1 .. Cardinality(S) : Ascending(S)[k] = x
           /\ \A k, m \in 1 .. Cardinality(S) :
                  /\ k <= m => Ascending(S)[k] <= Ascending(S)[m]
                  /\ Ascending(S)[k] = Ascending(S)[m] => k = m
  <1> DEFINE upTo == [x \in S |-> {y \in S : y <= x}]
             order == InOrder(upTo)
  <1>1. /\ upTo \in [S -> SUBSET S]
        /\ \A x \in S : x \in upTo[x]
        /\ \A x, y \in S : x \in upTo[y] \/ y \in upTo[x]
        /\ \A x, y \in S : x \in upTo[y] => upTo[x] \subseteq upTo[y]
        /\ \A x, y \in S : x \in upTo[y] /\ y \in upTo[x] => x = y
    <2>1. \A x \in S : x \in Int
      OBVIOUS
    <2>2. \A x, y \in S : x \in upTo[y] <=> x <= y
      OBVIOUS
    <2>3. upTo \in [S -> SUBSET S]
      OBVIOUS
    <2> HIDE DEF upTo
    <2>4. \A x, y \in S : x \in upTo[y] => upTo[x] \subseteq upTo[y]
      <3>1. ASSUME NEW x \in S, NEW y \in S, x \in upTo[y], NEW z \in upTo[x] PROVE z \in upTo[y]
        <4>1. z \in S
          BY <2>3, <3>1
        <4>2. x \in Int /\ y \in Int /\ z \in Int /\ x <= y /\ z <= x
          BY <2>1, <2>2, <3>1, <4>1
        <4> QED
          BY <2>2, <4>1, <4>2
      <3> QED
        BY <3>1
    <2> QED
      BY <2>1, <2>2, <2>3, <2>4
  <1>2. \A x, y \in S : x \in upTo[y] => x <= y
    OBVIOUS
  <1>3. Ascending(S) = order
    BY DEF Ascending
  <1> HIDE DEF upTo
  <1>4. /\ Cardinality(S) \in Nat
        /\ order \in [1 .. Cardinality(S) -> S]
        /\ \A x \in S : \E k \in 1 .. Cardinality(S) : order[k] = x
        /\ \A k, m \in 1 .. Cardinality(S) :
               /\ k <= m => order[k] \in upTo[order[m]]
               /\ order[k] = order[m] => k = m
        /\ \A k \in 1 .. Cardinality(S) : Cardinality(upTo[order[k]]) = k
        /\ \A x \in S : Cardinality(upTo[x]) \in 1 .. Cardinality(S)
    BY <1>1, InOrderFacts
  <1> HIDE DEF order
  <1>5. \A k, m \in 1 .. Cardinality(S) : k <= m => order[k] <= order[m]
    BY <1>2, <1>4
  <1> QED
    BY <1>3, <1>4, <1>5

\* Kept is the subsequence at the places that are kept: the places in their order,
\* each of them once.
Picks(order, I) ==
    /\ order \in [1 .. Cardinality(I) -> I]
    /\ \A i \in I : \E k \in 1 .. Cardinality(I) : order[k] = i
    /\ \A k, m \in 1 .. Cardinality(I) :
           /\ k <= m => order[k] <= order[m]
           /\ order[k] = order[m] => k = m

\* What is kept of a list is picked from it in order.
LEMMA KeptFacts ==
    ASSUME NEW n \in Nat, NEW s, NEW I \in SUBSET (1 .. n)
    PROVE  /\ IsFiniteSet(I) /\ Cardinality(I) \in Nat
           /\ \E order : /\ Picks(order, I)
                         /\ \A k \in 1 .. Cardinality(I) : Kept(s, I)[k] = s[order[k]]
           /\ Kept(s, I) = [k \in 1 .. Cardinality(I) |-> Kept(s, I)[k]]
  <1>1. IsFiniteSet(1 .. n)
    BY FS_Interval
  <1>2. IsFiniteSet(I) /\ I \in SUBSET Int
    <2>1. IsFiniteSet(I)
      BY <1>1, FS_Subset
    <2> QED
      BY <2>1
  <1>3. Picks(Ascending(I), I) /\ Cardinality(I) \in Nat
    BY <1>2, AscendingFacts DEF Picks
  <1>4. Kept(s, I) = [k \in 1 .. Cardinality(I) |-> s[Ascending(I)[k]]]
    BY DEF Kept
  <1> QED
    BY <1>2, <1>3, <1>4

\* Sorted permutes the values, and its last is the largest.
LEMMA SortedFacts ==
    ASSUME NEW s \in Seq(Int)
    PROVE  /\ Sorted(s) \in [1 .. Len(s) -> Int]
           /\ \A k \in 1 .. Len(s) : \E i \in 1 .. Len(s) : Sorted(s)[k] = s[i]
           /\ \A i, k \in 1 .. Len(s) : k = Len(s) => s[i] <= Sorted(s)[k]
  <1> DEFINE D == DOMAIN s
             upTo == [i \in DOMAIN s |-> {j \in DOMAIN s : s[j] < s[i] \/ (s[j] = s[i] /\ j <= i)}]
             order == InOrder(upTo)
  <1>1. D = 1 .. Len(s) /\ Len(s) \in Nat /\ \A i \in D : s[i] \in Int
    OBVIOUS
  <1>2. IsFiniteSet(D) /\ Cardinality(D) = Len(s)
    BY <1>1, FS_Interval
  <1>3. \A i, j \in D : j \in upTo[i] <=> s[j] < s[i] \/ (s[j] = s[i] /\ j <= i)
    OBVIOUS
  <1>4. upTo \in [D -> SUBSET D]
    OBVIOUS
  <1>5. Sorted(s) = [k \in D |-> s[order[k]]]
    BY DEF Sorted
  <1> HIDE DEF upTo, D
  <1>6. /\ \A x \in D : x \in upTo[x]
        /\ \A x, y \in D : x \in upTo[y] \/ y \in upTo[x]
        /\ \A x, y \in D : x \in upTo[y] /\ y \in upTo[x] => x = y
    BY <1>1, <1>3
  <1>7. \A x, y \in D : x \in upTo[y] => upTo[x] \subseteq upTo[y]
    <2>1. ASSUME NEW x \in D, NEW y \in D, x \in upTo[y], NEW z \in upTo[x] PROVE z \in upTo[y]
      <3>1. z \in D
        BY <2>1, <1>4
      <3>2. /\ s[z] < s[x] \/ (s[z] = s[x] /\ z <= x)
            /\ s[x] < s[y] \/ (s[x] = s[y] /\ x <= y)
        BY <2>1, <3>1, <1>3
      <3>3. s[z] < s[y] \/ (s[z] = s[y] /\ z <= y)
        BY <2>1, <3>1, <3>2, <1>1
      <3> QED
        BY <2>1, <3>1, <3>3, <1>3
    <2> QED
      BY <2>1
  <1>8. /\ order \in [1 .. Len(s) -> D]
        /\ \A x \in D : \E k \in 1 .. Len(s) : order[k] = x
        /\ \A k, m \in 1 .. Len(s) : k <= m => order[k] \in upTo[order[m]]
    BY <1>2, <1>4, <1>6, <1>7, InOrderFacts
  <1> HIDE DEF order
  <1>9. \A i, k \in 1 .. Len(s) : k = Len(s) => s[i] <= s[order[k]]
    <2>1. ASSUME NEW i \in D, NEW m \in 1 .. Len(s), order[m] = i, NEW k \in 1 .. Len(s), k = Len(s)
          PROVE  s[i] <= s[order[k]]
      <3>1. order[m] \in upTo[order[k]]
        <4>1. m <= k
          BY <2>1
        <4> QED
          BY <4>1, <2>1, <1>8
      <3>2. order[k] \in D
        BY <1>8
      <3> QED
        BY <2>1, <3>1, <3>2, <1>1, <1>3
    <2> QED
      BY <2>1, <1>1, <1>8
  <1>10. ASSUME NEW k \in 1 .. Len(s) PROVE Sorted(s)[k] = s[order[k]] /\ order[k] \in 1 .. Len(s)
    BY <1>1, <1>5, <1>8
  <1>11. Sorted(s) \in [1 .. Len(s) -> Int]
    BY <1>1, <1>5, <1>8
  <1> QED
    BY <1>9, <1>10, <1>11

\* What is stored of a device's reports.
Report == [at : Int, payload : Int \cup {Missing}, lqi : Int \cup {Missing}, batt : Int \cup {Missing}]

\* The first n items of a list.
LEMMA NewestOfFacts ==
    ASSUME NEW S, NEW s \in Seq(S), NEW n \in Nat
    PROVE  /\ NewestOf(s, n) \in Seq(S)
           /\ Len(NewestOf(s, n)) = IF Len(s) < n THEN Len(s) ELSE n
           /\ \A i \in 1 .. Len(NewestOf(s, n)) : NewestOf(s, n)[i] = s[i]
  BY DEF NewestOf

\* A shorter read of a bounded read is the shorter read.
LEMMA NewestOfNewest ==
    ASSUME NEW S, NEW s \in Seq(S), NEW n \in Nat, NEW m \in Nat, m <= n
    PROVE  NewestOf(NewestOf(s, n), m) = NewestOf(s, m)
  <1>1. /\ NewestOf(s, n) \in Seq(S) /\ NewestOf(s, m) \in Seq(S)
        /\ Len(NewestOf(s, n)) = IF Len(s) < n THEN Len(s) ELSE n
        /\ Len(NewestOf(s, m)) = IF Len(s) < m THEN Len(s) ELSE m
        /\ \A i \in 1 .. Len(NewestOf(s, n)) : NewestOf(s, n)[i] = s[i]
        /\ \A i \in 1 .. Len(NewestOf(s, m)) : NewestOf(s, m)[i] = s[i]
    BY NewestOfFacts
  <1> DEFINE r == NewestOf(s, n)
             q == NewestOf(s, m)
             t == NewestOf(r, m)
  <1> HIDE DEF r, q
  <1>2. r \in Seq(S) /\ q \in Seq(S)
    BY <1>1 DEF r, q
  <1>3. /\ t \in Seq(S)
        /\ Len(t) = IF Len(r) < m THEN Len(r) ELSE m
        /\ \A i \in 1 .. Len(t) : t[i] = r[i]
    BY <1>2, NewestOfFacts
  <1> HIDE DEF t
  <1>4. /\ Len(r) = IF Len(s) < n THEN Len(s) ELSE n
        /\ Len(q) = IF Len(s) < m THEN Len(s) ELSE m
        /\ \A i \in 1 .. Len(r) : r[i] = s[i]
        /\ \A i \in 1 .. Len(q) : q[i] = s[i]
    BY <1>1 DEF r, q
  <1>5. Len(s) \in Nat
    OBVIOUS
  <1>6. Len(t) = Len(q) /\ Len(t) <= Len(r)
    BY <1>3, <1>4, <1>5
  <1>7. \A i \in 1 .. Len(t) : t[i] = q[i]
    BY <1>2, <1>3, <1>4, <1>6
  <1>8. t = q
    BY <1>2, <1>3, <1>6, <1>7
  <1> QED
    BY <1>8 DEF t, q, r

\* The times a device reported at are integers in a finite list.
LEMMA TimesAre ==
    ASSUME NEW snaps \in Seq(Report)
    PROVE  observation_times(snaps) \in Seq(Int)
  <1> DEFINE P == {snaps[i].payload : i \in DOMAIN snaps}
             f == [i \in DOMAIN snaps |-> snaps[i].payload]
  <1>1. IsFiniteSet(DOMAIN snaps)
    BY FS_Interval
  <1>2. f \in Surjection(DOMAIN snaps, P)
    BY DEF Surjection
  <1>3. IsFiniteSet(P)
    BY <1>1, <1>2, FS_Surjection
  <1>4. P \subseteq Int \cup {Missing}
    <2>1. ASSUME NEW i \in DOMAIN snaps PROVE snaps[i].payload \in Int \cup {Missing}
      <3>1. snaps[i] \in Report
        OBVIOUS
      <3> QED
        BY <3>1 DEF Report
    <2> QED
      BY <2>1
  <1> HIDE DEF P
  <1>5. P \ {Missing} \in SUBSET Int /\ IsFiniteSet(P \ {Missing})
    BY <1>3, <1>4, FS_Subset
  <1> DEFINE Q == P \ {Missing}
  <1> HIDE DEF Q
  <1>6. Cardinality(Q) \in Nat /\ Ascending(Q) \in [1 .. Cardinality(Q) -> Q] /\ Q \subseteq Int
    BY <1>5, AscendingFacts DEF Q
  <1>7. Ascending(Q) \in Seq(Int)
    <2>1. Ascending(Q) \in [1 .. Cardinality(Q) -> Int]
      BY <1>6
    <2> QED
      BY <1>6, <2>1
  <1> QED
    BY <1>7 DEF observation_times, P, Q

\* The intervals between reports are positive.
LEMMA IntervalsAre ==
    ASSUME NEW times \in Seq(Int)
    PROVE  /\ Intervals(times) \in Seq(Int)
           /\ \A x \in 1 .. Len(Intervals(times)) : Intervals(times)[x] > 0
  <1> DEFINE n == IF times = <<>> THEN 0 ELSE Len(times) - 1
             gap == [i \in 1 .. (IF times = <<>> THEN 0 ELSE Len(times) - 1) |-> times[i + 1] - times[i]]
             I == {i \in DOMAIN gap : gap[i] > 0}
  <1>1. n \in Nat /\ DOMAIN gap = 1 .. n
    OBVIOUS
  <1>2. \A i \in 1 .. n : gap[i] \in Int
    <2>1. ASSUME NEW i \in 1 .. n PROVE i \in 1 .. Len(times) /\ i + 1 \in 1 .. Len(times)
      OBVIOUS
    <2> QED
      BY <2>1
  <1>3. I \in SUBSET (1 .. n)
    OBVIOUS
  <1>4. \A i \in I : gap[i] \in Int /\ gap[i] > 0
    BY <1>2, <1>3
  <1>5. Intervals(times) = Kept(gap, I)
    BY DEF Intervals
  <1> HIDE DEF n, gap, I
  <1>6. PICK order : Picks(order, I) /\ \A k \in 1 .. Cardinality(I) : Kept(gap, I)[k] = gap[order[k]]
    BY <1>1, <1>3, KeptFacts
  <1>7. Cardinality(I) \in Nat /\ Kept(gap, I) = [k \in 1 .. Cardinality(I) |-> Kept(gap, I)[k]]
    BY <1>1, <1>3, KeptFacts
  <1>8. \A k \in 1 .. Cardinality(I) : gap[order[k]] \in Int /\ gap[order[k]] > 0
    BY <1>4, <1>6 DEF Picks
  <1>9. Kept(gap, I) \in [1 .. Cardinality(I) -> Int]
    BY <1>6, <1>7, <1>8
  <1>10. Kept(gap, I) \in Seq(Int) /\ Len(Kept(gap, I)) = Cardinality(I)
    BY <1>7, <1>9
  <1> QED
    BY <1>5, <1>6, <1>8, <1>10

\* A percentile and the median of a sorted sequence.
LEMMA PercentileIs ==
    ASSUME NEW n \in Nat \ {0}, NEW s \in [1 .. n -> Int]
    PROVE  Percentile(s, 3) \in Int
  <1> DEFINE i     == (Len(s) - 1) * 3
             lower == i \div 4 + 1
             upper == IF lower < Len(s) THEN lower + 1 ELSE lower
             x     == 4 * s[lower] + (s[upper] - s[lower]) * (i % 4)
  <1>1. Len(s) = n
    OBVIOUS
  <1>2. i \in Nat /\ i % 4 \in 0 .. 3 /\ lower \in 1 .. n
    BY <1>1
  <1>3. upper \in 1 .. n
    BY <1>1, <1>2
  <1>4. s[lower] \in Int /\ s[upper] \in Int
    BY <1>2, <1>3
  <1>5. Percentile(s, 3) = RoundQuarters(x)
    BY DEF Percentile
  <1> HIDE DEF i, lower, upper
  <1>6. x \in Int
    BY <1>2, <1>4
  <1> HIDE DEF x
  <1>7. RoundQuarters(x) \in Int
    BY <1>6 DEF RoundQuarters
  <1> QED
    BY <1>5, <1>7

\* The median of positive gaps, in whole minutes, is a number.
LEMMA MedianIs ==
    ASSUME NEW n \in Nat \ {0}, NEW s \in [1 .. n -> Int], \A k \in 1 .. n : s[k] > 0
    PROVE  MedianOf(s) \in Nat
  <1>1. Len(s) = n
    OBVIOUS
  <1>2. CASE n % 2 = 1
    <2>1. n \div 2 + 1 \in 1 .. n
      BY <1>2
    <2>2. MedianOf(s) = s[n \div 2 + 1]
      BY <1>1, <1>2 DEF MedianOf
    <2> QED
      BY <2>1, <2>2
  <1>3. CASE n % 2 # 1
    <2>1. n \div 2 \in 1 .. n /\ n \div 2 + 1 \in 1 .. n
      BY <1>3
    <2>2. MedianOf(s) = (s[n \div 2] + s[n \div 2 + 1]) \div 2
      BY <1>1, <1>3 DEF MedianOf
    <2>3. s[n \div 2] \in Nat /\ s[n \div 2 + 1] \in Nat
      BY <2>1
    <2> DEFINE a == s[n \div 2] + s[n \div 2 + 1]
    <2>4. a \in Nat
      BY <2>3
    <2> HIDE DEF a
    <2>5. a \div 2 \in Nat
      BY <2>4
    <2> QED
      BY <2>2, <2>5 DEF a
  <1> QED
    BY <1>2, <1>3

\* The greatest of three integers is one of them.
LEMMA MaxOfThree ==
    ASSUME NEW a \in Int, NEW b \in Int, NEW c \in Int
    PROVE  MaxOf({a, b, c}) \in Int /\ MaxOf({a, b, c}) >= b
  <1>1. \E x \in {a, b, c} : \A y \in {a, b, c} : y <= x
    <2>1. CASE a >= b /\ a >= c
      BY <2>1
    <2>2. CASE b >= a /\ b >= c
      BY <2>2
    <2>3. CASE c >= a /\ c >= b
      BY <2>3
    <2> QED
      BY <2>1, <2>2, <2>3
  <1>2. MaxOf({a, b, c}) \in {a, b, c} /\ \A y \in {a, b, c} : y <= MaxOf({a, b, c})
    BY <1>1 DEF MaxOf
  <1> QED
    BY <1>2

\* Nothing lies between no reports.
LEMMA EmptyIntervals == Intervals(<<>>) = <<>>
  <1> DEFINE gap == [i \in 1 .. (IF <<>> = <<>> THEN 0 ELSE Len(<<>>) - 1) |-> <<>>[i + 1] - <<>>[i]]
             I == {i \in DOMAIN gap : gap[i] > 0}
  <1>1. I = {}
    OBVIOUS
  <1>2. Intervals(<<>>) = Kept(gap, I)
    BY DEF Intervals
  <1> HIDE DEF gap
  <1>3. Kept(gap, {}) = [k \in 1 .. Cardinality({}) |-> Kept(gap, {})[k]]
    <2>1. {} \in SUBSET (1 .. 0)
      OBVIOUS
    <2> QED
      BY <2>1, KeptFacts
  <1>4. Cardinality({}) = 0
    BY FS_EmptySet
  <1>5. Kept(gap, {}) = <<>>
    BY <1>3, <1>4
  <1> QED
    BY <1>1, <1>2, <1>5

\* A device is beyond its rhythm only after a silence longer than any before.
LEMMA SilenceIsLong ==
    ASSUME NEW entry, NEW snaps \in Seq(Report), NEW now \in Int, BeyondExpected(entry, snaps, now),
           NEW x \in DOMAIN Intervals(observation_times(snaps))
    PROVE  now - observation_times(snaps)[Len(observation_times(snaps))]
               > Intervals(observation_times(snaps))[x]
  <1> DEFINE times == observation_times(snaps)
             gaps == Intervals(times)
             sorted == Sorted(gaps)
             n == Len(gaps)
             r == build_reporting_rhythm(entry, snaps)
  <1>1. times \in Seq(Int)
    BY TimesAre
  <1> HIDE DEF times
  <1>2. gaps \in Seq(Int) /\ \A k \in 1 .. n : gaps[k] > 0
    BY <1>1, IntervalsAre
  <1>3. x \in 1 .. Len(gaps)
    <2>1. x \in DOMAIN gaps
      BY DEF times
    <2> HIDE DEF gaps
    <2> QED
      BY <1>2, <2>1
  <1> HIDE DEF gaps
  <1>4. n \in Nat \ {0} /\ \A k \in 1 .. n : gaps[k] \in Int
    BY <1>2, <1>3
  <1>5. /\ sorted \in [1 .. n -> Int]
        /\ \A k \in 1 .. n : \E i \in 1 .. n : sorted[k] = gaps[i]
        /\ \A i, k \in 1 .. n : k = n => gaps[i] <= sorted[k]
    BY <1>2, SortedFacts
  <1>6. r.available /\ now >= r.latest /\ now - r.latest > extended_silence_threshold(r)
    BY DEF BeyondExpected
  <1>7. r = [available |-> TRUE, p75 |-> Percentile(sorted, 3), median |-> MedianOf(sorted),
             max |-> sorted[Len(sorted)], latest |-> times[Len(times)]]
    <2> HIDE DEF sorted
    <2>1. r = [available |-> FALSE] \/
          r = [available |-> TRUE, p75 |-> Percentile(sorted, 3), median |-> MedianOf(sorted),
               max |-> sorted[Len(sorted)], latest |-> times[Len(times)]]
      BY DEF build_reporting_rhythm, sorted, gaps, times
    <2> QED
      BY <2>1, <1>6
  <1> HIDE DEF sorted, n
  <1>8. Len(sorted) = n /\ n \in 1 .. n
    BY <1>4, <1>5
  <1>9. /\ r.p75 = Percentile(sorted, 3) /\ r.median = MedianOf(sorted)
        /\ r.max = sorted[n] /\ r.latest = times[Len(times)]
    BY <1>7, <1>8
  <1>10. \A k \in 1 .. n : sorted[k] > 0
    BY <1>2, <1>5, <1>4
  <1>11. r.p75 \in Int /\ r.median \in Nat
    BY <1>4, <1>5, <1>9, <1>10, PercentileIs, MedianIs
  <1>12. gaps[x] \in Int /\ gaps[x] <= r.max /\ r.max \in Int
    BY <1>3, <1>4, <1>5, <1>8, <1>9 DEF n
  <1> HIDE DEF r
  <1>13. extended_silence_threshold(r) \in Int /\ extended_silence_threshold(r) >= r.max + r.median
    <2> DEFINE a == (r.p75 * 5) \div 2
               b == r.max + r.median
    <2>1. a \in Int /\ b \in Int
      BY <1>11, <1>12
    <2>2. extended_silence_threshold(r) = MaxOf({a, b, MIN_SILENCE_MINUTES})
      BY DEF extended_silence_threshold
    <2> HIDE DEF a, b
    <2>3. MaxOf({a, b, 30}) \in Int /\ MaxOf({a, b, 30}) >= b
      BY <2>1, MaxOfThree
    <2> QED
      BY <2>2, <2>3 DEF MIN_SILENCE_MINUTES, b
  <1> DEFINE last == times[Len(times)]
  <1>14. last \in Int
    <2>1. r.latest = last
      BY <1>9
    <2>2. times # <<>>
      <3>1. ASSUME times = <<>> PROVE FALSE
        <4>1. gaps = <<>>
          BY <3>1, EmptyIntervals DEF gaps
        <4> QED
          BY <4>1, <1>4 DEF n
      <3> QED
        BY <3>1
    <2> QED
      BY <1>1, <2>2
  <1>15. now - last > extended_silence_threshold(r)
    BY <1>6, <1>9
  <1> HIDE DEF last
  <1>16. now - last > gaps[x]
    BY <1>11, <1>12, <1>13, <1>14, <1>15
  <1> QED
    BY <1>16 DEF last, gaps, times

(***************************************************************************)
(* Device stories: three readers of one database                           *)
(***************************************************************************)

\* What is stored of one device.
IsDatabase(db) ==
    /\ db = [row |-> db.row, tracking |-> db.tracking, snaps |-> db.snaps, changes |-> db.changes,
             topo |-> db.topo, area |-> db.area, models |-> db.models, affected |-> db.affected,
             self |-> db.self]
    /\ db.snaps \in Seq(Report)

\* The dashboard's batch and the device's own page load the same evidence; its
\* coverage is that of the coverage page.
LEMMA SameEvidence ==
    ASSUME NEW db, IsDatabase(db)
    PROVE  /\ load_device_story_evidence([db EXCEPT !.snaps = NewestOf(@, ReadLimit)])
                  = load_device_story_evidence(db)
           /\ load_device_story_evidence(db).coverage = device_coverage_for_device(db)
           /\ load_device_story_evidence(db).snaps = NewestOf(db.snaps, ReadLimit)
  <1> DEFINE s == NewestOf(db.snaps, ReadLimit)
             bulk == [db EXCEPT !.snaps = NewestOf(@, ReadLimit)]
  <1>1. /\ db.snaps \in Seq(Report)
        /\ NewestOf(s, ReadLimit) = s
        /\ NewestOf(s, HistoryLimit) = NewestOf(db.snaps, HistoryLimit)
    BY ReadAssumption, NewestOfNewest DEF IsDatabase
  <1>2. /\ bulk.row = db.row /\ bulk.tracking = db.tracking /\ bulk.snaps = s
        /\ bulk.changes = db.changes /\ bulk.topo = db.topo /\ bulk.area = db.area
        /\ bulk.models = db.models /\ bulk.affected = db.affected /\ bulk.self = db.self
    BY DEF IsDatabase
  <1> HIDE DEF s, bulk
  <1>3. load_device_story_evidence(db)
          = [row |-> db.row, topo |-> db.topo, snaps |-> s,
             pattern |-> qualifying_pattern_for_device(db.models, db.affected, db.self),
             trend |-> build_lqi_trend(lqi_samples(s)),
             coverage |-> build_device_coverage(db.row, db.tracking, NewestOf(s, HistoryLimit),
                                                db.changes, db.topo, db.area)]
    BY DEF load_device_story_evidence, s
  <1>4. load_device_story_evidence(bulk)
          = [row |-> bulk.row, topo |-> bulk.topo, snaps |-> NewestOf(bulk.snaps, ReadLimit),
             pattern |-> qualifying_pattern_for_device(bulk.models, bulk.affected, bulk.self),
             trend |-> build_lqi_trend(lqi_samples(NewestOf(bulk.snaps, ReadLimit))),
             coverage |-> build_device_coverage(bulk.row, bulk.tracking,
                              NewestOf(NewestOf(bulk.snaps, ReadLimit), HistoryLimit),
                              bulk.changes, bulk.topo, bulk.area)]
    BY DEF load_device_story_evidence
  <1>5. load_device_story_evidence(bulk) = load_device_story_evidence(db)
    BY <1>1, <1>2, <1>3, <1>4
  <1>6. load_device_story_evidence(db).coverage = device_coverage_for_device(db)
    BY <1>1, <1>3 DEF device_coverage_for_device
  <1> QED
    BY <1>3, <1>5, <1>6 DEF bulk, s

\* What calls for attention is a reason of the story, and silence is one only when
\* the device is beyond its rhythm.
LEMMA ReasonsAre ==
    ASSUME NEW e, NEW now
    PROVE  /\ e.row.availability = "offline" => "current_issue_present" \in Reasons(e, now)
           /\ topology_gap(e.topo) => "latest_snapshot_no_links" \in Reasons(e, now)
           /\ "reporting_silence_beyond_expected" \in Reasons(e, now) =>
                  BeyondExpected(e.row, e.snaps, now)
  <1> DEFINE gap   == topology_gap(e.topo)
             stale == LastSeenStale(e.row, now)
             A == IF e.row.availability = "offline" THEN {"current_issue_present"} ELSE {}
             B == IF gap THEN {"latest_snapshot_no_links"} ELSE {}
             Rest == (IF gap /\ e.topo.known > 0 THEN {"last_known_links_present"} ELSE {})
                     \cup (IF gap /\ e.topo.missing > 0 THEN {"recent_missing_links_present"} ELSE {})
                     \cup (IF gap /\ e.topo.selected THEN {"selected_snapshot_had_links"} ELSE {})
                     \cup (e.coverage \cap {"availability_tracking_off", "availability_history_building",
                                            "availability_status_unknown", "ha_areas_not_linked"})
                     \cup (IF stale THEN {"last_seen_stale"} ELSE {})
                     \cup (IF e.row.batt # Missing /\ e.row.batt <= LOW_BATTERY_PERCENT
                           THEN {"battery_low"} ELSE {})
                     \cup (IF e.topo.layout # "none" /\ ~e.topo.routes
                           THEN {"route_hints_unavailable"} ELSE {})
                     \cup TrendReasons(e, stale) \cup PatternReasons(e)
  <1>1. \A x : x \in Reasons(e, now) <=> x \in A \cup B \cup Rest \cup SilenceReasons(e, now)
    BY DEF Reasons
  <1>2. "reporting_silence_beyond_expected" \notin A \cup B \cup Rest
    BY DEF TrendReasons, PatternReasons
  <1>3. "reporting_silence_beyond_expected" \in SilenceReasons(e, now) =>
            BeyondExpected(e.row, e.snaps, now)
    BY DEF SilenceReasons
  <1> HIDE DEF Rest
  <1> QED
    BY <1>1, <1>2, <1>3

Statuses == {"review_first", "worth_reviewing", "improve_data_coverage", "watch", "informational",
             "no_notable_change"}

\* The reasons hold what makes a device call for attention.
IsReasonFor(e, reasons) ==
    /\ e.row.availability = "offline" => "current_issue_present" \in reasons
    /\ topology_gap(e.topo) => "latest_snapshot_no_links" \in reasons

\* The outcome is one the summary knows; it asks for attention for a reason that
\* brings checks, and says nothing notable exactly without reasons.
LEMMA OutcomeIs ==
    ASSUME NEW e, NEW reasons, IsReasonFor(e, reasons)
    PROVE  LET o == resolve_story_outcome(e, reasons) IN
           /\ o.status \in Statuses /\ o.priority \in {"high", "medium", "low", "none"}
           /\ o.priority \in {"high", "medium"} =>
                 reasons \cap {"current_issue_present", "availability_tracking_off"} # {}
           /\ o.status = "no_notable_change" <=> reasons = {}
  BY DEF resolve_story_outcome, Outcome, Statuses, IsReasonFor

\* A story's reasons bring its checks.
LEMMA ChecksAre ==
    ASSUME NEW reasons, reasons \cap {"current_issue_present", "availability_tracking_off"} # {}
    PROVE  UNION {ChecksOf(r) : r \in reasons} # {}
  <1>1. /\ "confirm_powered" \in ChecksOf("current_issue_present")
        /\ "enable_availability_reporting" \in ChecksOf("availability_tracking_off")
    BY DEF ChecksOf
  <1> QED
    BY <1>1

\* What the story of one device says.
LEMMA StoryIs ==
    ASSUME NEW e, NEW now
    PROVE  LET s == build_device_story(e, now) IN
           /\ s.coverage = e.coverage /\ s.reasons = Reasons(e, now)
           /\ s.outcome.status \in Statuses /\ s.outcome.priority \in {"high", "medium", "low", "none"}
           /\ s.outcome.priority \in {"high", "medium"} => s.checks # {}
           /\ s.outcome.status = "no_notable_change" <=> s.reasons = {}
  <1> DEFINE reasons == Reasons(e, now)
             o == resolve_story_outcome(e, reasons)
             checks == UNION {ChecksOf(r) : r \in reasons}
  <1>1. IsReasonFor(e, reasons)
    BY ReasonsAre DEF IsReasonFor
  <1>2. build_device_story(e, now) =
           [outcome |-> o, reasons |-> reasons,
            limitations |-> UNION {LimitationOf(r) : r \in reasons},
            checks |-> checks, coverage |-> e.coverage]
    BY DEF build_device_story
  <1> HIDE DEF reasons
  <1>3. /\ o.status \in Statuses /\ o.priority \in {"high", "medium", "low", "none"}
        /\ o.priority \in {"high", "medium"} =>
              reasons \cap {"current_issue_present", "availability_tracking_off"} # {}
        /\ o.status = "no_notable_change" <=> reasons = {}
    BY <1>1, OutcomeIs
  <1>4. o.priority \in {"high", "medium"} => checks # {}
    BY <1>3, ChecksAre
  <1> HIDE DEF o, checks
  <1>5. LET s == build_device_story(e, now) IN
        s.outcome = o /\ s.reasons = reasons /\ s.checks = checks /\ s.coverage = e.coverage
    BY <1>2
  <1> QED
    BY <1>3, <1>4, <1>5 DEF reasons

\* A non-empty set of places has a first one.
LEMMA FirstPlace ==
    ASSUME NEW n \in Nat, NEW I \in SUBSET (1 .. n), I # {}
    PROVE  \E i \in I : \A j \in I : i <= j
  <1>1. IsFiniteSet(I) /\ I \in SUBSET Int
    <2>1. IsFiniteSet(1 .. n)
      BY FS_Interval
    <2>2. IsFiniteSet(I)
      BY <2>1, FS_Subset
    <2> QED
      BY <2>2
  <1>2. /\ Cardinality(I) \in Nat
        /\ Ascending(I) \in [1 .. Cardinality(I) -> I]
        /\ \A x \in I : \E k \in 1 .. Cardinality(I) : Ascending(I)[k] = x
        /\ \A k, m \in 1 .. Cardinality(I) : k <= m => Ascending(I)[k] <= Ascending(I)[m]
    BY <1>1, AscendingFacts
  <1>3. 1 \in 1 .. Cardinality(I)
    <2>1. PICK x \in I : TRUE
      OBVIOUS
    <2>2. PICK k \in 1 .. Cardinality(I) : Ascending(I)[k] = x
      BY <1>2
    <2> QED
      BY <1>2, <2>2
  <1>4. \A x \in I : Ascending(I)[1] <= x
    BY <1>2, <1>3
  <1> QED
    BY <1>2, <1>3, <1>4

\* The first value of an order that occurs is one that occurs.
LEMMA FirstOfOccurs ==
    ASSUME NEW n \in Nat, NEW order, DOMAIN order = 1 .. n, NEW values,
           NEW i \in 1 .. n, order[i] \in values
    PROVE  FirstOf(order, values) \in values
  <1> DEFINE I == {k \in 1 .. n : order[k] \in values}
             Leads(k) == order[k] \in values /\ \A j \in 1 .. k - 1 : order[j] \notin values
  <1>1. I \in SUBSET (1 .. n) /\ I # {}
    OBVIOUS
  <1> HIDE DEF I
  <1>2. PICK k \in I : \A j \in I : k <= j
    BY <1>1, FirstPlace
  <1>3. k \in DOMAIN order /\ Leads(k)
    BY <1>1, <1>2 DEF I
  <1>4. FirstOf(order, values) = order[CHOOSE j \in DOMAIN order : Leads(j)]
    BY DEF FirstOf
  <1> QED
    BY <1>3, <1>4

\* One story: the general statement behind the run's property.
THEOREM StoriesAgreeAlways ==
    ASSUME NEW dbs, DOMAIN dbs # {}, \A d \in DOMAIN dbs : IsDatabase(dbs[d]), NEW now \in Int
    PROVE  StoriesAgree(dbs, now)
  <1> DEFINE bulk == [d \in DOMAIN dbs |-> [dbs[d] EXCEPT !.snaps = NewestOf(@, ReadLimit)]]
             batch == device_stories_for_devices(dbs, now)
             badges == [d \in DOMAIN dbs |-> batch[d].outcome]
             summary == decision_count_summary_from_badges(badges, 0)
             E(d) == load_device_story_evidence(dbs[d])
  <1>1. ASSUME NEW d \in DOMAIN dbs
        PROVE  batch[d] = build_device_story(E(d), now)
    <2>1. batch[d] = build_device_story(load_device_story_evidence(bulk[d]), now)
      BY <1>1 DEF device_stories_for_devices
    <2>2. bulk[d] = [dbs[d] EXCEPT !.snaps = NewestOf(@, ReadLimit)]
      BY <1>1
    <2> QED
      BY <2>1, <2>2, SameEvidence
  <1>2. ASSUME NEW d \in DOMAIN dbs
        PROVE  LET s     == batch[d]
                   times == observation_times(NewestOf(dbs[d].snaps, ReadLimit)) IN
               /\ s = device_story_for_device(dbs[d], now)
               /\ s.coverage = device_coverage_for_device(dbs[d])
               /\ "reporting_silence_beyond_expected" \in s.reasons =>
                     \A x \in DOMAIN Intervals(times) : now - times[Len(times)] > Intervals(times)[x]
               /\ s.outcome.priority \in {"high", "medium"} => s.checks # {}
               /\ s.outcome.status = "no_notable_change" <=> s.reasons = {}
    <2> DEFINE s     == batch[d]
               e     == E(d)
               read  == NewestOf(dbs[d].snaps, ReadLimit)
               times == observation_times(read)
    <2>1. s = build_device_story(e, now)
      BY <1>1
    <2>2. s = device_story_for_device(dbs[d], now)
      BY <2>1 DEF device_story_for_device
    <2>3. e.coverage = device_coverage_for_device(dbs[d]) /\ e.snaps = read
      BY SameEvidence
    <2>4. read \in Seq(Report)
      BY NewestOfFacts, ReadAssumption DEF IsDatabase
    <2> HIDE DEF s, e, read
    <2>5. /\ s.coverage = e.coverage /\ s.reasons = Reasons(e, now)
          /\ s.outcome.priority \in {"high", "medium"} => s.checks # {}
          /\ s.outcome.status = "no_notable_change" <=> s.reasons = {}
      BY <2>1, StoryIs
    <2>6. "reporting_silence_beyond_expected" \in s.reasons =>
             \A x \in DOMAIN Intervals(times) : now - times[Len(times)] > Intervals(times)[x]
      <3>1. ASSUME "reporting_silence_beyond_expected" \in s.reasons,
                   NEW x \in DOMAIN Intervals(times)
            PROVE  now - times[Len(times)] > Intervals(times)[x]
        <4>1. BeyondExpected(e.row, e.snaps, now)
          BY <3>1, <2>5, ReasonsAre
        <4>2. BeyondExpected(e.row, read, now)
          BY <4>1, <2>3
        <4> QED
          BY <4>2, <2>4, <3>1, SilenceIsLong
      <3> QED
        BY <3>1
    <2> QED
      BY <2>2, <2>3, <2>5, <2>6 DEF s, read
  <1>3. ASSUME NEW d \in DOMAIN dbs
        PROVE  /\ badges[d] = batch[d].outcome
               /\ badges[d].status \in Statuses
               /\ badges[d].priority \in {"high", "medium", "low", "none"}
    <2>1. badges[d] = build_device_story(E(d), now).outcome
      BY <1>1
    <2> QED
      BY <2>1, <1>1, StoryIs
  <1> DEFINE statuses == {badges[d].status : d \in DOMAIN badges}
             priorities == {badges[d].priority : d \in DOMAIN badges}
  <1>4. /\ summary.subjects = Cardinality(DOMAIN dbs)
        /\ summary.overall = FirstOf(DECISION_STATUS_ORDER, statuses)
        /\ summary.highest = FirstOf(DECISION_PRIORITY_ORDER, priorities)
    <2>1. DOMAIN badges = DOMAIN dbs
      OBVIOUS
    <2> HIDE DEF badges
    <2> QED
      BY <2>1 DEF decision_count_summary_from_badges
  <1>5. summary.overall \in statuses /\ summary.highest \in priorities
    <2>1. PICK d \in DOMAIN dbs : TRUE
      OBVIOUS
    <2>2. badges[d].status \in statuses /\ badges[d].priority \in priorities
      BY <2>1
    <2>3. \E i \in 1 .. 8 : DECISION_STATUS_ORDER[i] = badges[d].status
      <3>1. badges[d].status \in Statuses
        BY <1>3
      <3> HIDE DEF badges
      <3> QED
        BY <3>1 DEF DECISION_STATUS_ORDER, Statuses
    <2>4. \E i \in 1 .. 4 : DECISION_PRIORITY_ORDER[i] = badges[d].priority
      <3>1. badges[d].priority \in {"high", "medium", "low", "none"}
        BY <1>3
      <3> HIDE DEF badges
      <3> QED
        BY <3>1 DEF DECISION_PRIORITY_ORDER
    <2>5. DOMAIN DECISION_STATUS_ORDER = 1 .. 8 /\ DOMAIN DECISION_PRIORITY_ORDER = 1 .. 4
      BY DEF DECISION_STATUS_ORDER, DECISION_PRIORITY_ORDER
    <2> HIDE DEF statuses, priorities, badges
    <2>6. FirstOf(DECISION_STATUS_ORDER, statuses) \in statuses
      BY <2>2, <2>3, <2>5, FirstOfOccurs
    <2>7. FirstOf(DECISION_PRIORITY_ORDER, priorities) \in priorities
      BY <2>2, <2>4, <2>5, FirstOfOccurs
    <2> QED
      BY <2>6, <2>7, <1>4
  <1>6. /\ \E d \in DOMAIN dbs : badges[d].status = summary.overall
        /\ \E d \in DOMAIN dbs : badges[d].priority = summary.highest
    <2>1. DOMAIN badges = DOMAIN dbs
      OBVIOUS
    <2> HIDE DEF badges, summary
    <2> QED
      BY <2>1, <1>5
  <1> HIDE DEF batch
  <1>7. Agree(dbs, now, batch, badges, summary)
    <2> HIDE DEF badges, summary
    <2> QED
      BY <1>2, <1>4, <1>6 DEF Agree
  <1> QED
    BY <1>7 DEF StoriesAgree, batch

\* The histories of the run are lists of ages, the newest report first.
LEMMA AgesAre == Ages \subseteq Seq(Nat) \ {<<>>}
  <1>1. ASSUME NEW H \in SUBSET (Seq(Nat) \ {<<>>})
        PROVE  OneMore(H) \subseteq Seq(Nat) \ {<<>>}
    <2>1. ASSUME NEW ages \in H, NEW gap \in {0, 10, 40}
          PROVE  Append(ages, ages[Len(ages)] + gap) \in Seq(Nat) \ {<<>>}
      <3>1. ages[Len(ages)] + gap \in Nat
        OBVIOUS
      <3> QED
        BY <3>1
    <2>2. ASSUME NEW t \in OneMore(H) PROVE t \in Seq(Nat) \ {<<>>}
      <3> DEFINE Longer(ages, gap) == Append(ages, ages[Len(ages)] + gap)
      <3>1. t \in H \/ \E ages \in H, gap \in {0, 10, 40} : t = Longer(ages, gap)
        BY DEF OneMore
      <3>2. \A ages \in H, gap \in {0, 10, 40} : Longer(ages, gap) \in Seq(Nat) \ {<<>>}
        BY <2>1
      <3> HIDE DEF Longer
      <3>3. ASSUME NEW ages \in H, NEW gap \in {0, 10, 40}, t = Longer(ages, gap)
            PROVE  t \in Seq(Nat) \ {<<>>}
        BY <3>2, <3>3
      <3> QED
        BY <3>1, <3>3
    <2> QED
      BY <2>2
  <1>2. {<<0>>} \subseteq Seq(Nat) \ {<<>>}
    OBVIOUS
  <1> QED
    BY <1>1, <1>2 DEF Ages

\* The questions about stories are about databases.
StoryInput ==
    /\ topic = "seed story" => input[1] \in Ages
    /\ topic = "story" =>
          /\ DOMAIN input.dbs # {} /\ \A d \in DOMAIN input.dbs : IsDatabase(input.dbs[d])
          /\ input.now \in Int

\* A history of the run is a list of reports.
LEMMA HistoryIs ==
    ASSUME NEW ages \in Ages, NEW low \in {0, 2}, NEW batt \in {Missing, 20}
    PROVE  History(ages, low, batt) \in Seq(Report)
  <1>1. ages \in Seq(Nat)
    BY AgesAre
  <1> DEFINE R(i) == [at |-> 20000 - ages[i], payload |-> 20000 - ages[i],
                      lqi |-> IF i <= low THEN 60 ELSE 100, batt |-> batt]
  <1>2. ASSUME NEW i \in 1 .. Len(ages) PROVE R(i) \in Report
    BY <1>1 DEF Report
  <1>3. History(ages, low, batt) = [i \in 1 .. Len(ages) |-> R(i)]
    BY <1>1 DEF History
  <1> HIDE DEF R
  <1>4. [i \in 1 .. Len(ages) |-> R(i)] \in [1 .. Len(ages) -> Report]
    BY <1>2
  <1>5. Len(ages) \in Nat
    BY <1>1
  <1> QED
    BY <1>3, <1>4, <1>5

\* The run starts without a question about stories.
LEMMA StoryInputStart == RulesInit => StoryInput
  <1> SUFFICES ASSUME RulesInit PROVE StoryInput
    OBVIOUS
  <1>1. topic # "story" /\ (topic = "seed story" => SeedStory)
    BY DEF RulesInit
  <1>2. SeedStory => input[1] \in Ages
    BY DEF SeedStory
  <1> QED
    BY <1>1, <1>2 DEF StoryInput

\* A database whose device never reported is a database.
LEMMA UnheardIs ==
    ASSUME NEW db, IsDatabase(db)
    PROVE  IsDatabase(Unheard(db))
  <1> DEFINE a == [db EXCEPT !.snaps = <<>>]
             entry == [db.row EXCEPT !.seen = Missing]
             b == [a EXCEPT !.row = entry]
             c == [b EXCEPT !.self = 3]
  <1>1. Unheard(db) = c
    BY DEF Unheard
  <1> HIDE DEF entry
  <1>2. a = [row |-> db.row, tracking |-> db.tracking, snaps |-> <<>>, changes |-> db.changes,
             topo |-> db.topo, area |-> db.area, models |-> db.models, affected |-> db.affected,
             self |-> db.self]
    BY DEF IsDatabase
  <1> HIDE DEF a
  <1>3. b = [row |-> entry, tracking |-> db.tracking, snaps |-> <<>>, changes |-> db.changes,
             topo |-> db.topo, area |-> db.area, models |-> db.models, affected |-> db.affected,
             self |-> db.self]
    BY <1>2
  <1> HIDE DEF b
  <1>4. c = [row |-> entry, tracking |-> db.tracking, snaps |-> <<>>, changes |-> db.changes,
             topo |-> db.topo, area |-> db.area, models |-> db.models, affected |-> db.affected,
             self |-> 3]
    BY <1>3
  <1> HIDE DEF c
  <1>5. IsDatabase(c)
    BY <1>4 DEF IsDatabase
  <1> QED
    BY <1>1, <1>5

\* Every question about stories is about two databases at a time.
LEMMA StoryQuestionIs ==
    ASSUME NEW ages \in Ages, NEW topo, NEW s \in Settings
    PROVE  LET q == StoryQuestion(ages, topo, s) IN
           /\ DOMAIN q.dbs # {} /\ \A d \in DOMAIN q.dbs : IsDatabase(q.dbs[d])
           /\ q.now \in Int
  <1> DEFINE snaps == History(ages, s.low, s.batt)
             type == IF s.low = 2 \/ ~s.tracking THEN "EndDevice" ELSE "Router"
             db == Db(type, s.availability, 20000, s.batt, s.tracking, snaps, topo, s.affected)
  <1>1. s.low \in {0, 2} /\ s.batt \in {Missing, 20} /\ s.now \in Int
    BY DEF Settings
  <1>2. snaps \in Seq(Report)
    BY <1>1, HistoryIs
  <1>3. StoryQuestion(ages, topo, s) = [dbs |-> <<db, Unheard(db)>>, now |-> s.now]
    BY DEF StoryQuestion
  <1> HIDE DEF snaps, type
  <1>4. IsDatabase(db)
    BY <1>2 DEF IsDatabase, Db
  <1> HIDE DEF db
  <1>5. IsDatabase(Unheard(db))
    BY <1>4, UnheardIs
  <1> QED
    BY <1>1, <1>3, <1>4, <1>5

\* Every step asks about stories only of databases.
LEMMA StoryInputStep == StoryInput /\ [RulesNext]_rulesVars => StoryInput'
  <1> SUFFICES ASSUME StoryInput, [RulesNext]_rulesVars PROVE StoryInput'
    OBVIOUS
  <1>1. CASE AskStory
    <2>1. topic = "seed story" /\ topic' = "story"
      BY <1>1 DEF AskStory
    <2>2. PICK s \in Settings : input' = StoryQuestion(input[1], input[2], s)
      BY <1>1 DEF AskStory
    <2>3. input[1] \in Ages
      BY <2>1 DEF StoryInput
    <2> QED
      BY <2>1, <2>2, <2>3, StoryQuestionIs DEF StoryInput
  <1>2. CASE AskDiagnosis \/ AskTopology \/ AskCards \/ AskPage \/ AskReport \/ AskList \/ FollowList
    <2>1. topic' \notin {"seed story", "story"}
      BY <1>2 DEF AskDiagnosis, AskTopology, AskCards, AskPage, AskReport, AskList, FollowList
    <2> QED
      BY <2>1 DEF StoryInput
  <1>3. CASE UNCHANGED rulesVars
    BY <1>3 DEF StoryInput, rulesVars
  <1> QED
    BY <1>1, <1>2, <1>3 DEF RulesNext

\* Batch, page and coverage tell one story of every device (decisions/device_story.py,
\* device_coverage.py): the rules run keeps the property it checks.
THEOREM ReadersTellOneStory == RulesSpec => []OneStory
  <1>1. StoryInput => OneStory
    BY StoriesAgreeAlways DEF StoryInput, OneStory
  <1> QED
    BY <1>1, StoryInputStart, StoryInputStep, PTL DEF RulesSpec

(***************************************************************************)
(* Sequences, and sets of one size                                         *)
(***************************************************************************)

\* A list, of whatever entries.
IsList(s) == s \in Seq(RangeOf(s))

\* What is kept of a sequence is in order, and each item once.
LEMMA KeptSequence ==
    ASSUME NEW S, NEW s \in Seq(S), NEW I \in SUBSET (DOMAIN s)
    PROVE  /\ Kept(s, I) \in Seq(S)
           /\ \A i \in I : \E k \in DOMAIN Kept(s, I) : Kept(s, I)[k] = s[i]
           /\ \A k \in DOMAIN Kept(s, I) : \E i \in I : Kept(s, I)[k] = s[i]
           /\ (\A i, j \in DOMAIN s : s[i] = s[j] => i = j) =>
                  \A k, m \in DOMAIN Kept(s, I) : Kept(s, I)[k] = Kept(s, I)[m] => k = m
           /\ 1 \in I => 1 \in DOMAIN Kept(s, I) /\ Kept(s, I)[1] = s[1]
  <1> DEFINE n == Len(s)
             kept == Kept(s, I)
             m == Cardinality(I)
  <1>1. n \in Nat /\ DOMAIN s = 1 .. n /\ \A i \in 1 .. n : s[i] \in S
    OBVIOUS
  <1> HIDE DEF n
  <1>0. I \in SUBSET (1 .. n)
    BY <1>1
  <1>2. PICK order : Picks(order, I) /\ \A k \in 1 .. Cardinality(I) : Kept(s, I)[k] = s[order[k]]
    BY <1>0, <1>1, KeptFacts
  <1>3. Cardinality(I) \in Nat /\ Kept(s, I) = [k \in 1 .. Cardinality(I) |-> Kept(s, I)[k]]
    BY <1>0, <1>1, KeptFacts
  <1> HIDE DEF m, kept
  <1>4. /\ \A k \in 1 .. m : order[k] \in I /\ kept[k] = s[order[k]]
        /\ \A i \in I : \E k \in 1 .. m : order[k] = i
        /\ \A k, j \in 1 .. m : /\ k <= j => order[k] <= order[j]
                                /\ order[k] = order[j] => k = j
    BY <1>2 DEF Picks, m, kept
  <1>5. m \in Nat /\ kept = [k \in 1 .. m |-> kept[k]] /\ DOMAIN kept = 1 .. m
    BY <1>3 DEF m, kept
  <1>6. \A k \in 1 .. m : kept[k] \in S
    BY <1>1, <1>4
  <1>7. kept \in Seq(S)
    <2>1. kept \in [1 .. m -> S]
      BY <1>5, <1>6
    <2> QED
      BY <1>5, <2>1
  <1>8. ASSUME 1 \in I PROVE 1 \in DOMAIN kept /\ kept[1] = s[1]
    <2>1. PICK k \in 1 .. m : order[k] = 1
      BY <1>4, <1>8
    <2>2. 1 \in 1 .. m /\ 1 <= k
      BY <1>5, <2>1
    <2>3. order[1] <= 1 /\ order[1] \in I
      BY <1>4, <2>1, <2>2
    <2>4. order[1] = 1
      BY <1>1, <2>3
    <2> QED
      BY <1>4, <1>5, <2>2, <2>4
  <1>9. ASSUME \A i, j \in DOMAIN s : s[i] = s[j] => i = j, NEW k \in 1 .. m, NEW j \in 1 .. m,
               kept[k] = kept[j]
        PROVE  k = j
    BY <1>1, <1>4, <1>9
  <1>10. \A i \in I : \E k \in DOMAIN kept : kept[k] = s[i]
    BY <1>4, <1>5
  <1>11. \A k \in DOMAIN kept : \E i \in I : kept[k] = s[i]
    BY <1>4, <1>5
  <1> QED
    BY <1>5, <1>7, <1>8, <1>9, <1>10, <1>11 DEF kept

\* What a function says of a finite set is finite.
LEMMA FiniteImage ==
    ASSUME NEW S, IsFiniteSet(S), NEW f, DOMAIN f = S
    PROVE  IsFiniteSet({f[x] : x \in S})
  <1> DEFINE g == [x \in S |-> f[x]]
  <1>1. g \in Surjection(S, {f[x] : x \in S})
    BY DEF Surjection
  <1> QED
    BY <1>1, FS_Surjection

\* A one-to-one image of a finite set has its cardinality.
LEMMA SameCount ==
    ASSUME NEW X, IsFiniteSet(X), NEW Y, NEW f \in [X -> Y],
           \A x, y \in X : f[x] = f[y] => x = y,
           \A y \in Y : \E x \in X : f[x] = y
    PROVE  IsFiniteSet(Y) /\ Cardinality(Y) = Cardinality(X)
  <1>1. f \in Surjection(X, Y)
    BY DEF Surjection
  <1>2. f \in Injection(X, Y)
    BY DEF Injection, IsInjective
  <1> QED
    BY <1>1, <1>2, FS_Surjection

\* A sequence is a list of its own entries.
LEMMA SequenceIsList ==
    ASSUME NEW S, NEW s \in Seq(S)
    PROVE  IsList(s)
  <1>1. s \in [1 .. Len(s) -> S] /\ Len(s) \in Nat
    OBVIOUS
  <1>2. s \in [1 .. Len(s) -> RangeOf(s)]
    BY <1>1 DEF RangeOf
  <1> HIDE DEF IsList
  <1>3. s \in Seq(RangeOf(s))
    BY <1>1, <1>2
  <1> QED
    BY <1>3 DEF IsList

(***************************************************************************)
(* Pages: sort keys, what is cut from a sorted list, and sums of counts    *)
(***************************************************************************)

\* The sort keys of n places.
SortKeys(n) == [1 .. n -> Int]

\* Two keys that differ differ at a first place.
LEMMA FirstDifference ==
    ASSUME NEW n \in Nat, NEW a \in SortKeys(n), NEW b \in SortKeys(n), a # b
    PROVE  \E i \in 1 .. n : a[i] # b[i] /\ \A j \in 1 .. i - 1 : a[j] = b[j]
  <1> DEFINE I == {i \in 1 .. n : a[i] # b[i]}
  <1>1. I \in SUBSET (1 .. n) /\ I # {}
    BY DEF SortKeys
  <1>2. PICK i \in I : \A j \in I : i <= j
    BY <1>1, FirstPlace
  <1>3. i \in 1 .. n /\ a[i] # b[i]
    OBVIOUS
  <1>4. \A j \in 1 .. i - 1 : j \in 1 .. n /\ j \notin I
    BY <1>2, <1>3
  <1>5. \A j \in 1 .. i - 1 : a[j] = b[j]
    BY <1>4
  <1> QED
    BY <1>3, <1>5

\* The lexicographic order of keys is a strict linear order.
LEMMA LexOrder ==
    ASSUME NEW n \in Nat
    PROVE  /\ \A a \in SortKeys(n) : ~LexLess(a, a)
           /\ \A a, b \in SortKeys(n) : a = b \/ LexLess(a, b) \/ LexLess(b, a)
           /\ \A a, b \in SortKeys(n) : LexLess(a, b) => ~LexLess(b, a)
           /\ \A a, b, c \in SortKeys(n) : LexLess(a, b) /\ LexLess(b, c) => LexLess(a, c)
  <1>0. \A a, b \in SortKeys(n) :
           LexLess(a, b) <=> \E i \in 1 .. n : a[i] < b[i] /\ \A j \in 1 .. i - 1 : a[j] = b[j]
    BY DEF LexLess, SortKeys
  <1>i. \A a \in SortKeys(n) : \A i \in 1 .. n : a[i] \in Int
    BY DEF SortKeys
  <1>1. ASSUME NEW a \in SortKeys(n) PROVE ~LexLess(a, a)
    BY <1>0, <1>i
  <1>2. ASSUME NEW a \in SortKeys(n), NEW b \in SortKeys(n), a # b
        PROVE  LexLess(a, b) \/ LexLess(b, a)
    <2>1. PICK i \in 1 .. n : a[i] # b[i] /\ \A j \in 1 .. i - 1 : a[j] = b[j]
      BY <1>2, FirstDifference
    <2>2. a[i] < b[i] \/ b[i] < a[i]
      BY <1>i, <2>1
    <2> QED
      BY <1>0, <2>1, <2>2
  <1>3. ASSUME NEW a \in SortKeys(n), NEW b \in SortKeys(n), NEW c \in SortKeys(n),
               LexLess(a, b), LexLess(b, c)
        PROVE  LexLess(a, c)
    <2>1. PICK i \in 1 .. n : a[i] < b[i] /\ \A j \in 1 .. i - 1 : a[j] = b[j]
      BY <1>0, <1>3
    <2>2. PICK k \in 1 .. n : b[k] < c[k] /\ \A j \in 1 .. k - 1 : b[j] = c[j]
      BY <1>0, <1>3
    <2> DEFINE m == IF i < k THEN i ELSE k
    <2>3. m \in 1 .. n /\ m <= i /\ m <= k
      OBVIOUS
    <2>4. \A j \in 1 .. m - 1 : a[j] = c[j]
      <3>1. ASSUME NEW j \in 1 .. m - 1 PROVE a[j] = c[j]
        <4>1. j \in 1 .. i - 1 /\ j \in 1 .. k - 1
          BY <2>3
        <4> QED
          BY <4>1, <2>1, <2>2
      <3> QED
        BY <3>1
    <2>5. a[m] < c[m]
      <3>1. CASE i < k
        <4>1. i \in 1 .. k - 1 /\ m = i
          BY <3>1
        <4>2. b[i] = c[i]
          BY <4>1, <2>2
        <4> QED
          BY <4>1, <4>2, <2>1
      <3>2. CASE i = k
        BY <3>2, <2>1, <2>2, <1>i
      <3>3. CASE k < i
        <4>1. k \in 1 .. i - 1 /\ m = k
          BY <3>3
        <4>2. a[k] = b[k]
          BY <4>1, <2>1
        <4> QED
          BY <4>1, <4>2, <2>2
      <3> QED
        BY <3>1, <3>2, <3>3
    <2> QED
      BY <1>0, <2>3, <2>4, <2>5
  <1>4. ASSUME NEW a \in SortKeys(n), NEW b \in SortKeys(n), LexLess(a, b), LexLess(b, a) PROVE FALSE
    BY <1>1, <1>3, <1>4
  <1> QED
    BY <1>1, <1>2, <1>3, <1>4

\* What is listed up to x when S is sorted by key; and when it is sorted downwards.
UpToKey(S, key) == [x \in S |-> {y \in S : ~LexLess(key[x], key[y])}]
DownToKey(S, key) == [x \in S |-> {y \in S : ~LexLess(key[y], key[x])}]

\* order lists S, each member once, at the place that counts what comes before it.
Lists(order, S, upTo) ==
    /\ Cardinality(S) \in Nat
    /\ order \in [1 .. Cardinality(S) -> S]
    /\ \A x \in S : \E k \in 1 .. Cardinality(S) : order[k] = x
    /\ \A k \in 1 .. Cardinality(S) : Cardinality(upTo[order[k]]) = k
    /\ \A x \in S : Cardinality(upTo[x]) \in 1 .. Cardinality(S)

\* Keys that tell the members apart sort them upwards.
LEMMA SortedUp ==
    ASSUME NEW S, IsFiniteSet(S), NEW n \in Nat, NEW key \in [S -> SortKeys(n)],
           \A x, y \in S : key[x] = key[y] => x = y
    PROVE  /\ Lists(InOrder(UpToKey(S, key)), S, UpToKey(S, key))
           /\ \A k, m \in 1 .. Cardinality(S) :
                 k < m => LexLess(key[InOrder(UpToKey(S, key))[k]], key[InOrder(UpToKey(S, key))[m]])
  <1> DEFINE upTo == UpToKey(S, key)
             order == InOrder(upTo)
  <1>1. upTo \in [S -> SUBSET S] /\ \A x, y \in S : y \in upTo[x] <=> ~LexLess(key[x], key[y])
    BY DEF UpToKey
  <1> HIDE DEF upTo
  <1>k. \A x \in S : key[x] \in SortKeys(n)
    OBVIOUS
  <1>2. \A x \in S : x \in upTo[x]
    BY <1>1, <1>k, LexOrder
  <1>3. \A x, y \in S : x \in upTo[y] \/ y \in upTo[x]
    BY <1>1, <1>k, LexOrder
  <1>4. \A x, y \in S : x \in upTo[y] => upTo[x] \subseteq upTo[y]
    <2>1. ASSUME NEW x \in S, NEW y \in S, x \in upTo[y], NEW z \in upTo[x] PROVE z \in upTo[y]
      <3>1. z \in S
        BY <1>1
      <3>2. ~LexLess(key[y], key[x]) /\ ~LexLess(key[x], key[z])
        BY <1>1, <2>1, <3>1
      <3>3. SUFFICES ASSUME LexLess(key[y], key[z]) PROVE FALSE
        BY <1>1, <3>1
      <3>4. key[x] = key[z] \/ LexLess(key[z], key[x])
        BY <1>k, <3>1, <3>2, LexOrder
      <3>5. LexLess(key[y], key[x])
        BY <1>k, <3>1, <3>3, <3>4, LexOrder
      <3> QED
        BY <3>2, <3>5
    <2> QED
      BY <2>1
  <1>5. \A x, y \in S : x \in upTo[y] /\ y \in upTo[x] => x = y
    BY <1>1, <1>k, LexOrder
  <1>6. /\ Cardinality(S) \in Nat
        /\ order \in [1 .. Cardinality(S) -> S]
        /\ \A x \in S : \E k \in 1 .. Cardinality(S) : order[k] = x
        /\ \A k, m \in 1 .. Cardinality(S) :
               /\ k <= m => order[k] \in upTo[order[m]]
               /\ order[k] = order[m] => k = m
        /\ \A k \in 1 .. Cardinality(S) : Cardinality(upTo[order[k]]) = k
        /\ \A x \in S : Cardinality(upTo[x]) \in 1 .. Cardinality(S)
    BY <1>1, <1>2, <1>3, <1>4, <1>5, InOrderFacts
  <1> HIDE DEF order
  <1>7. \A k, m \in 1 .. Cardinality(S) : k < m => LexLess(key[order[k]], key[order[m]])
    <2>1. ASSUME NEW k \in 1 .. Cardinality(S), NEW m \in 1 .. Cardinality(S), k < m
          PROVE  LexLess(key[order[k]], key[order[m]])
      <3>1. order[k] \in S /\ order[m] \in S /\ order[k] \in upTo[order[m]] /\ order[k] # order[m]
        BY <1>6, <2>1
      <3>2. ~LexLess(key[order[m]], key[order[k]]) /\ key[order[k]] # key[order[m]]
        BY <1>1, <3>1
      <3> QED
        BY <1>k, <3>1, <3>2, LexOrder
    <2> QED
      BY <2>1
  <1> QED
    BY <1>6, <1>7 DEF Lists, order, upTo

\* And downwards.
LEMMA SortedDown ==
    ASSUME NEW S, IsFiniteSet(S), NEW n \in Nat, NEW key \in [S -> SortKeys(n)],
           \A x, y \in S : key[x] = key[y] => x = y
    PROVE  Lists(InOrder(DownToKey(S, key)), S, DownToKey(S, key))
  <1> DEFINE upTo == DownToKey(S, key)
             order == InOrder(upTo)
  <1>1. upTo \in [S -> SUBSET S] /\ \A x, y \in S : y \in upTo[x] <=> ~LexLess(key[y], key[x])
    BY DEF DownToKey
  <1> HIDE DEF upTo
  <1>k. \A x \in S : key[x] \in SortKeys(n)
    OBVIOUS
  <1>2. \A x \in S : x \in upTo[x]
    BY <1>1, <1>k, LexOrder
  <1>3. \A x, y \in S : x \in upTo[y] \/ y \in upTo[x]
    BY <1>1, <1>k, LexOrder
  <1>4. \A x, y \in S : x \in upTo[y] => upTo[x] \subseteq upTo[y]
    <2>1. ASSUME NEW x \in S, NEW y \in S, x \in upTo[y], NEW z \in upTo[x] PROVE z \in upTo[y]
      <3>1. z \in S
        BY <1>1
      <3>2. ~LexLess(key[x], key[y]) /\ ~LexLess(key[z], key[x])
        BY <1>1, <2>1, <3>1
      <3>3. SUFFICES ASSUME LexLess(key[z], key[y]) PROVE FALSE
        BY <1>1, <3>1
      <3>4. key[x] = key[z] \/ LexLess(key[x], key[z])
        BY <1>k, <3>1, <3>2, LexOrder
      <3>5. LexLess(key[x], key[y])
        BY <1>k, <3>1, <3>3, <3>4, LexOrder
      <3> QED
        BY <3>2, <3>5
    <2> QED
      BY <2>1
  <1>5. \A x, y \in S : x \in upTo[y] /\ y \in upTo[x] => x = y
    BY <1>1, <1>k, LexOrder
  <1>6. /\ Cardinality(S) \in Nat
        /\ order \in [1 .. Cardinality(S) -> S]
        /\ \A x \in S : \E k \in 1 .. Cardinality(S) : order[k] = x
        /\ \A k, m \in 1 .. Cardinality(S) :
               /\ k <= m => order[k] \in upTo[order[m]]
               /\ order[k] = order[m] => k = m
        /\ \A k \in 1 .. Cardinality(S) : Cardinality(upTo[order[k]]) = k
        /\ \A x \in S : Cardinality(upTo[x]) \in 1 .. Cardinality(S)
    BY <1>1, <1>2, <1>3, <1>4, <1>5, InOrderFacts
  <1> QED
    BY <1>6 DEF Lists, order, upTo

\* What is cut off a list: the members with few enough before them stay.
LEMMA CutFacts ==
    ASSUME NEW S, NEW order, NEW upTo, Lists(order, S, upTo), NEW N \in Nat
    PROVE  /\ order \in Seq(S) /\ Len(order) = Cardinality(S)
           /\ RangeOf(NewestOf(order, N)) = {x \in S : Cardinality(upTo[x]) <= N}
  <1> DEFINE c == Cardinality(S)
             cut == NewestOf(order, N)
  <1>1. order \in Seq(S) /\ Len(order) = c /\ c \in Nat
    BY DEF Lists
  <1>2. /\ cut \in Seq(S)
        /\ Len(cut) = IF c < N THEN c ELSE N
        /\ \A i \in 1 .. Len(cut) : cut[i] = order[i]
    BY <1>1, NewestOfFacts
  <1> HIDE DEF cut
  <1>3. DOMAIN cut = 1 .. Len(cut) /\ Len(cut) \in Nat
    BY <1>2
  <1>4. ASSUME NEW x \in RangeOf(cut) PROVE x \in S /\ Cardinality(upTo[x]) <= N
    <2>1. PICK i \in 1 .. Len(cut) : x = cut[i]
      BY <1>3 DEF RangeOf
    <2>2. i \in 1 .. c /\ i <= N /\ x = order[i]
      BY <1>1, <1>2, <2>1
    <2> QED
      BY <2>2 DEF Lists
  <1>5. ASSUME NEW x \in S, Cardinality(upTo[x]) <= N PROVE x \in RangeOf(cut)
    <2>1. PICK k \in 1 .. c : order[k] = x
      BY DEF Lists
    <2>2. Cardinality(upTo[x]) = k
      BY <2>1 DEF Lists
    <2>3. k \in 1 .. Len(cut)
      BY <1>1, <1>2, <1>5, <2>2
    <2>4. cut[k] = x
      BY <1>2, <2>1, <2>3
    <2> QED
      BY <1>3, <2>3, <2>4 DEF RangeOf
  <1> QED
    BY <1>1, <1>4, <1>5 DEF cut

\* Counts of the members of D by what g says of them add up to the size of D.
LEMMA SumOfFibres ==
    ASSUME NEW D, IsFiniteSet(D), NEW K, NEW g \in [D -> K], NEW f, DOMAIN f = K,
           \A k \in K : f[k] = Cardinality({x \in D : g[x] = k})
    PROVE  SumOfCounts(f) = Cardinality(D)
  <1> DEFINE Fibre(k) == {x \in D : g[x] = k}
             P == UNION {{k} \X (1 .. f[k]) : k \in K}
  <1>1. \A k \in K : \E b : b \in Bijection(1 .. f[k], Fibre(k))
    <2>1. ASSUME NEW k \in K PROVE \E b : b \in Bijection(1 .. f[k], Fibre(k))
      <3>1. IsFiniteSet(Fibre(k))
        BY FS_Subset
      <3>2. ExistsBijection(1 .. Cardinality(Fibre(k)), Fibre(k))
        BY <3>1, FS_CardinalityType
      <3> QED
        BY <3>2 DEF ExistsBijection
    <2> QED
      BY <2>1
  <1> DEFINE Enum(k) == CHOOSE b : b \in Bijection(1 .. f[k], Fibre(k))
  <1>2. \A k \in K : Enum(k) \in Bijection(1 .. f[k], Fibre(k))
    BY <1>1
  <1> DEFINE enum == [k \in K |-> Enum(k)]
             place == [x \in D |-> CHOOSE i \in 1 .. f[g[x]] : enum[g[x]][i] = x]
             h == [x \in D |-> <<g[x], place[x]>>]
  <1>3. \A k \in K : enum[k] \in Bijection(1 .. f[k], Fibre(k))
    BY <1>2
  <1> HIDE DEF enum, Enum
  <1>4. \A k \in K : /\ \A i \in 1 .. f[k] : enum[k][i] \in D /\ g[enum[k][i]] = k
                     /\ \A i, j \in 1 .. f[k] : enum[k][i] = enum[k][j] => i = j
                     /\ \A x \in D : g[x] = k => \E i \in 1 .. f[k] : enum[k][i] = x
    <2>1. ASSUME NEW k \in K
          PROVE  /\ \A i \in 1 .. f[k] : enum[k][i] \in Fibre(k)
                 /\ \A i, j \in 1 .. f[k] : enum[k][i] = enum[k][j] => i = j
                 /\ \A x \in Fibre(k) : \E i \in 1 .. f[k] : enum[k][i] = x
      <3> DEFINE F == Fibre(k)
      <3>1. enum[k] \in Bijection(1 .. f[k], F)
        BY <1>3
      <3> HIDE DEF F
      <3>2. enum[k] \in [1 .. f[k] -> F]
        BY <3>1 DEF Bijection, Injection
      <3>3. \A i, j \in 1 .. f[k] : enum[k][i] = enum[k][j] => i = j
        BY <3>1 DEF Bijection, Injection, IsInjective
      <3>4. \A x \in F : \E i \in 1 .. f[k] : enum[k][i] = x
        BY <3>1 DEF Bijection, Surjection
      <3> QED
        BY <3>2, <3>3, <3>4 DEF F
    <2> QED
      BY <2>1
  <1>5. \A x \in D : g[x] \in K
    OBVIOUS
  <1>6. \A x \in D : place[x] \in 1 .. f[g[x]] /\ enum[g[x]][place[x]] = x
    <2>1. ASSUME NEW x \in D PROVE place[x] \in 1 .. f[g[x]] /\ enum[g[x]][place[x]] = x
      <3>1. \E i \in 1 .. f[g[x]] : enum[g[x]][i] = x
        BY <1>4, <1>5
      <3> QED
        BY <3>1
    <2> QED
      BY <2>1
  <1> HIDE DEF place
  <1>7. \A p : p \in P <=> \E k \in K : \E i \in 1 .. f[k] : p = <<k, i>>
    OBVIOUS
  <1>8. \A x \in D : h[x] = <<g[x], place[x]>> /\ h[x] \in P
    BY <1>5, <1>6, <1>7
  <1>9. h \in [D -> P]
    BY <1>8
  <1>10. \A x, y \in D : h[x] = h[y] => x = y
    <2>1. ASSUME NEW x \in D, NEW y \in D, h[x] = h[y] PROVE x = y
      <3>1. g[x] = g[y] /\ place[x] = place[y]
        BY <1>8, <2>1
      <3> QED
        BY <1>6, <3>1
    <2> QED
      BY <2>1
  <1>11. \A p \in P : \E x \in D : h[x] = p
    <2>1. ASSUME NEW p \in P PROVE \E x \in D : h[x] = p
      <3>1. PICK k \in K : \E i \in 1 .. f[k] : p = <<k, i>>
        BY <1>7
      <3>i. PICK i \in 1 .. f[k] : p = <<k, i>>
        BY <3>1
      <3>2. enum[k][i] \in D /\ g[enum[k][i]] = k
        BY <1>4
      <3>3. place[enum[k][i]] = i
        BY <1>4, <1>6, <3>2
      <3> QED
        BY <1>8, <3>i, <3>2, <3>3
    <2> QED
      BY <2>1
  <1> HIDE DEF h, P
  <1>12. Cardinality(P) = Cardinality(D)
    BY <1>9, <1>10, <1>11, SameCount
  <1> QED
    BY <1>12 DEF SumOfCounts, P

(***************************************************************************)
(* Walks through the incident list                                         *)
(***************************************************************************)

\* What is stored of an incident: the id is the table's key.
IsTable(t) == /\ IsFiniteSet(t) /\ \A x \in t : x.id \in Int /\ x.at \in Int
              /\ \A x, y \in t : x.id = y.id => x = y

\* What a client asks for; its first page has no cursor.
IsRequest(r) ==
    r = [status |-> r.status, net |-> r.net, dev |-> r.dev, after |-> r.after, order |-> r.order,
         limit |-> r.limit, cursor |-> {}]

\* The query of a page of a walk.
PageQuery(r, c) == build_incident_collection_query([r EXCEPT !.cursor = c])

\* A query that is not refused, of no cursor or of one it made.
IsQuery(q) ==
    /\ q.limit \in Nat \ {0} /\ q.order \in {"lifecycle", "recent"}
    /\ \/ q.cursor = {}
       \/ \E z : z.id \in Int /\ z.at \in Int /\ q.cursor = {cursor_from_incident_row(z, q)}

\* Later pages ask the same, but for the cursor.
LEMMA PageQueryIs ==
    ASSUME NEW r, IsRequest(r), NEW c
    PROVE  LET q == build_incident_collection_query(r) IN
           /\ q.refused # Missing => q = RefusedQuery /\ PageQuery(r, c) = RefusedQuery
           /\ q.refused = Missing =>
                 /\ q.limit \in Nat \ {0} /\ q.order \in {"lifecycle", "recent"} /\ q.cursor = {}
                 /\ PageQuery(r, c) = [q EXCEPT !.cursor = c]
                 /\ q = [refused |-> Missing, status |-> q.status, after |-> q.after, net |-> q.net,
                         dev |-> q.dev, cursor |-> q.cursor, limit |-> q.limit, order |-> q.order]
  <1> DEFINE p == [r EXCEPT !.cursor = c]
             q == build_incident_collection_query(r)
             Wrong(x) == \/ ~(x.status \subseteq ALL_INCIDENT_STATUSES)
                         \/ x.dev # Missing /\ x.net = Missing
                         \/ x.limit # Missing /\ x.limit \notin 1 .. MAX_INCIDENT_COLLECTION_LIMIT
                         \/ x.order \notin {Missing, "lifecycle", "recent"}
             Built(x) == [refused |-> Missing,
                          status |-> IF x.status = {} THEN ALL_INCIDENT_STATUSES ELSE x.status,
                          after |-> x.after, net |-> x.net, dev |-> x.dev, cursor |-> x.cursor,
                          limit |-> IF x.limit = Missing THEN DEFAULT_INCIDENT_COLLECTION_LIMIT ELSE x.limit,
                          order |-> IF x.order = Missing THEN "lifecycle" ELSE x.order]
  <1>1. /\ p.status = r.status /\ p.net = r.net /\ p.dev = r.dev /\ p.after = r.after
        /\ p.order = r.order /\ p.limit = r.limit /\ p.cursor = c /\ r.cursor = {}
    BY DEF IsRequest
  <1> HIDE DEF p
  <1>2. \A x : build_incident_collection_query(x) = IF Wrong(x) THEN RefusedQuery ELSE Built(x)
    BY DEF build_incident_collection_query
  <1>3. Wrong(p) <=> Wrong(r)
    BY <1>1
  <1>4. ~Wrong(r) => /\ Built(r).limit \in Nat \ {0} /\ Built(r).order \in {"lifecycle", "recent"}
                     /\ Built(r).cursor = {}
    BY <1>1, LimitAssumption
  <1>5. Built(p) = [Built(r) EXCEPT !.cursor = c]
    <2> DEFINE status == IF r.status = {} THEN ALL_INCIDENT_STATUSES ELSE r.status
               limit == IF r.limit = Missing THEN DEFAULT_INCIDENT_COLLECTION_LIMIT ELSE r.limit
               order == IF r.order = Missing THEN "lifecycle" ELSE r.order
               Record(d) == [refused |-> Missing, status |-> status, after |-> r.after, net |-> r.net,
                             dev |-> r.dev, cursor |-> d, limit |-> limit, order |-> order]
    <2>1. Built(r) = Record(r.cursor) /\ Built(p) = Record(c)
      BY <1>1
    <2> HIDE DEF status, limit, order, Built
    <2>2. Record(c) = [Record(r.cursor) EXCEPT !.cursor = c]
      OBVIOUS
    <2> QED
      BY <2>1, <2>2
  <1>6. RefusedQuery.refused # Missing /\ Built(r).refused = Missing
    BY PageAssumption DEF RefusedQuery
  <1>7. Built(r) = [refused |-> Missing, status |-> Built(r).status, after |-> Built(r).after,
                    net |-> Built(r).net, dev |-> Built(r).dev, cursor |-> Built(r).cursor,
                    limit |-> Built(r).limit, order |-> Built(r).order]
    OBVIOUS
  <1>8. PageQuery(r, c) = build_incident_collection_query(p)
    BY DEF PageQuery, p
  <1> HIDE DEF Wrong, Built
  <1> QED
    BY <1>2, <1>3, <1>4, <1>5, <1>6, <1>7, <1>8

\* The keys of rows are sort keys, and tell the rows of a table apart.
LEMMA RowKeyIs ==
    ASSUME NEW q, NEW T, \A x \in T : x.id \in Int /\ x.at \in Int
    PROVE  \E n \in Nat :
              /\ \A x \in T : RowKey(q, x) \in SortKeys(n)
              /\ \A x, y \in T : RowKey(q, x) = RowKey(q, y) => x.id = y.id
              /\ \A x, y \in T : LexLess(RowKey(q, x), RowKey(q, y)) /\ x.id = y.id /\ x.at <= y.at =>
                    q.order # "recent" /\ lifecycle_rank(x.state) < lifecycle_rank(y.state)
  <1>1. \A s : lifecycle_rank(s) \in Int
    BY DEF lifecycle_rank
  <1>2. CASE q.order = "recent"
    <2>1. \A x : RowKey(q, x) = <<-x.at, -x.id>>
      BY <1>2 DEF RowKey, OrderKey
    <2>2. \A x \in T : RowKey(q, x) \in SortKeys(2)
      BY <2>1 DEF SortKeys
    <2>3. ASSUME NEW x \in T, NEW y \in T
          PROVE  /\ RowKey(q, x) = RowKey(q, y) => x.id = y.id
                 /\ LexLess(RowKey(q, x), RowKey(q, y)) => x.id # y.id \/ y.at < x.at
      <3> DEFINE a == <<-x.at, -x.id>>
                 b == <<-y.at, -y.id>>
      <3>1. RowKey(q, x) = a /\ RowKey(q, y) = b /\ DOMAIN a = 1 .. 2
        BY <2>1
      <3>2. /\ a[1] = -x.at /\ a[2] = -x.id /\ b[1] = -y.at /\ b[2] = -y.id
            /\ x.at \in Int /\ x.id \in Int /\ y.at \in Int /\ y.id \in Int
        OBVIOUS
      <3> HIDE DEF a, b
      <3>3. a = b => x.id = y.id
        BY <3>2
      <3>4. ASSUME LexLess(a, b) PROVE x.id # y.id \/ y.at < x.at
        <4>1. PICK i \in 1 .. 2 : a[i] < b[i] /\ \A j \in 1 .. i - 1 : a[j] = b[j]
          BY <3>1, <3>4 DEF LexLess
        <4>2. CASE i = 1
          BY <3>2, <4>1, <4>2
        <4>3. CASE i = 2
          BY <3>2, <4>1, <4>3
        <4> QED
          BY <4>2, <4>3
      <3> QED
        BY <3>1, <3>3, <3>4
    <2>4. ASSUME NEW x \in T, NEW y \in T, LexLess(RowKey(q, x), RowKey(q, y)), x.id = y.id, x.at <= y.at
          PROVE  FALSE
      BY <2>3, <2>4
    <2> QED
      BY <2>2, <2>3, <2>4
  <1>3. CASE q.order # "recent"
    <2>1. \A x : RowKey(q, x) = <<lifecycle_rank(x.state), -x.at, -x.id>>
      BY <1>3 DEF RowKey, OrderKey
    <2>2. \A x \in T : RowKey(q, x) \in SortKeys(3)
      BY <1>1, <2>1 DEF SortKeys
    <2>3. ASSUME NEW x \in T, NEW y \in T
          PROVE  /\ RowKey(q, x) = RowKey(q, y) => x.id = y.id
                 /\ LexLess(RowKey(q, x), RowKey(q, y)) =>
                       \/ x.id # y.id \/ y.at < x.at
                       \/ lifecycle_rank(x.state) < lifecycle_rank(y.state)
      <3> DEFINE a == <<lifecycle_rank(x.state), -x.at, -x.id>>
                 b == <<lifecycle_rank(y.state), -y.at, -y.id>>
      <3>1. RowKey(q, x) = a /\ RowKey(q, y) = b /\ DOMAIN a = 1 .. 3
        BY <2>1
      <3>2. /\ a[1] = lifecycle_rank(x.state) /\ a[2] = -x.at /\ a[3] = -x.id
            /\ b[1] = lifecycle_rank(y.state) /\ b[2] = -y.at /\ b[3] = -y.id
            /\ x.at \in Int /\ x.id \in Int /\ y.at \in Int /\ y.id \in Int
        OBVIOUS
      <3> HIDE DEF a, b
      <3>3. a = b => x.id = y.id
        BY <3>2
      <3>4. ASSUME LexLess(a, b)
            PROVE  x.id # y.id \/ y.at < x.at \/ lifecycle_rank(x.state) < lifecycle_rank(y.state)
        <4>1. PICK i \in 1 .. 3 : a[i] < b[i] /\ \A j \in 1 .. i - 1 : a[j] = b[j]
          BY <3>1, <3>4 DEF LexLess
        <4>2. CASE i = 1
          BY <3>2, <4>1, <4>2
        <4>3. CASE i = 2
          BY <3>2, <4>1, <4>3
        <4>4. CASE i = 3
          BY <3>2, <4>1, <4>4
        <4> QED
          BY <4>2, <4>3, <4>4
      <3> QED
        BY <3>1, <3>3, <3>4
    <2>4. ASSUME NEW x \in T, NEW y \in T, LexLess(RowKey(q, x), RowKey(q, y)), x.id = y.id, x.at <= y.at
          PROVE  lifecycle_rank(x.state) < lifecycle_rank(y.state)
      BY <2>3, <2>4
    <2> QED
      BY <1>3, <2>2, <2>3, <2>4
  <1> QED
    BY <1>2, <1>3

\* The rows after the cursor of a query.
AfterCursors(q, x) == \A c \in q.cursor : after_cursor(q, c, x)

\* A cursor stands at the key of the row it was made of.
LEMMA CursorIs ==
    ASSUME NEW q, q.order \in {"lifecycle", "recent"}, NEW z
    PROVE  LET c == cursor_from_incident_row(z, q) IN
           /\ decode_incident_collection_cursor(c, q)
           /\ \A x : after_cursor(q, c, x) <=> LexLess(RowKey(q, z), RowKey(q, x))
  <1> DEFINE c == cursor_from_incident_row(z, q)
  <1>1. decode_incident_collection_cursor(c, q)
    BY DEF decode_incident_collection_cursor, cursor_from_incident_row
  <1>2. OrderKey(q.order, c.lr, c.u, c.id) = RowKey(q, z)
    BY DEF OrderKey, RowKey, cursor_from_incident_row
  <1>3. \A x : after_cursor(q, c, x) <=> LexLess(RowKey(q, z), RowKey(q, x))
    BY <1>2 DEF after_cursor
  <1> QED
    BY <1>1, <1>3

\* What a page says of the table it is read from.
LEMMA PageIs ==
    ASSUME NEW table, IsTable(table), NEW q, IsQuery(q)
    PROVE  LET page == list_incidents_page(table, q)
               rows == page.rows IN
           /\ page.refused = Missing /\ page.total = count_incidents(table, q)
           /\ IsList(rows)
           /\ \A k \in DOMAIN rows : /\ rows[k] \in table /\ _incident_collection_filters(q, rows[k])
                                     /\ AfterCursors(q, rows[k])
           /\ \A k, m \in DOMAIN rows : k < m => LexLess(RowKey(q, rows[k]), RowKey(q, rows[m]))
           /\ page.next # {} => /\ Len(rows) \in DOMAIN rows
                                /\ page.next = {cursor_from_incident_row(rows[Len(rows)], q)}
           /\ \A x \in table : _incident_collection_filters(q, x) /\ AfterCursors(q, x) =>
                 \/ \E k \in DOMAIN rows : rows[k] = x
                 \/ page.next # {} /\ LexLess(RowKey(q, rows[Len(rows)]), RowKey(q, x))
  <1> DEFINE left == {x \in table : _incident_collection_filters(q, x) /\ AfterCursors(q, x)}
             key == [x \in left |-> RowKey(q, x)]
             c == Cardinality(left)
             order == InOrder(UpToKey(left, key))
             fetched == NewestOf(order, q.limit + 1)
             rows == NewestOf(fetched, q.limit)
  <1>1. IsFiniteSet(left) /\ left \subseteq table
    BY FS_Subset DEF IsTable
  <1>2. \A x \in left : x.id \in Int /\ x.at \in Int
    BY <1>1 DEF IsTable
  <1>3. PICK n \in Nat : /\ \A x \in left : RowKey(q, x) \in SortKeys(n)
                         /\ \A x, y \in left : RowKey(q, x) = RowKey(q, y) => x.id = y.id
    BY <1>2, RowKeyIs
  <1>4. key \in [left -> SortKeys(n)] /\ \A x, y \in left : key[x] = key[y] => x = y
    BY <1>1, <1>3 DEF IsTable
  <1>5. \A x \in left : key[x] = RowKey(q, x)
    OBVIOUS
  <1>l. \A x : x \in left <=> x \in table /\ _incident_collection_filters(q, x) /\ AfterCursors(q, x)
    OBVIOUS
  <1>6. SortedBy(left, LAMBDA x, y : LexLess(RowKey(q, x), RowKey(q, y))) = order
    BY DEF SortedBy, UpToKey
  <1>7. ~\E t \in q.cursor : ~decode_incident_collection_cursor(t, q)
    BY CursorIs DEF IsQuery
  <1>8. list_incidents_page(table, q) =
           [refused |-> Missing, rows |-> rows, total |-> count_incidents(table, q),
            next |-> IF Len(fetched) > q.limit THEN {cursor_from_incident_row(rows[Len(rows)], q)} ELSE {}]
    <2> HIDE DEF order
    <2> QED
      BY <1>6, <1>7 DEF list_incidents_page, AfterCursors
  <1> HIDE DEF key, left
  <1>9. /\ Lists(order, left, UpToKey(left, key))
        /\ \A k, m \in 1 .. c : k < m => LexLess(key[order[k]], key[order[m]])
    BY <1>1, <1>3, <1>4, SortedUp
  <1> HIDE DEF order
  <1>10. /\ c \in Nat /\ order \in Seq(left) /\ Len(order) = c
         /\ \A x \in left : \E k \in 1 .. c : order[k] = x
         /\ \A k \in 1 .. c : order[k] \in left
    BY <1>9 DEF Lists
  <1>11. q.limit \in Nat /\ q.limit >= 1
    BY DEF IsQuery
  <1>12. /\ fetched \in Seq(left)
         /\ Len(fetched) = IF c < q.limit + 1 THEN c ELSE q.limit + 1
         /\ \A k \in 1 .. Len(fetched) : fetched[k] = order[k]
    BY <1>10, <1>11, NewestOfFacts
  <1> HIDE DEF fetched
  <1>13. /\ rows \in Seq(left)
         /\ Len(rows) = IF Len(fetched) < q.limit THEN Len(fetched) ELSE q.limit
         /\ \A k \in 1 .. Len(rows) : rows[k] = fetched[k]
    BY <1>11, <1>12, NewestOfFacts
  <1> HIDE DEF rows
  <1>14. /\ DOMAIN rows = 1 .. Len(rows) /\ Len(rows) \in Nat
         /\ Len(rows) = (IF c < q.limit THEN c ELSE q.limit)
         /\ (Len(fetched) > q.limit <=> c > q.limit)
         /\ \A k \in 1 .. Len(rows) : rows[k] = order[k] /\ rows[k] \in left /\ k \in 1 .. c
    <2>1. DOMAIN rows = 1 .. Len(rows) /\ Len(rows) \in Nat /\ Len(fetched) \in Nat
      BY <1>12, <1>13
    <2>2. Len(rows) = (IF c < q.limit THEN c ELSE q.limit) /\ (Len(fetched) > q.limit <=> c > q.limit)
      BY <1>10, <1>11, <1>12, <1>13
    <2>3. ASSUME NEW k \in 1 .. Len(rows) PROVE rows[k] = order[k] /\ rows[k] \in left /\ k \in 1 .. c
      <3>0. c \in Nat /\ Len(rows) = (IF Len(fetched) < q.limit THEN Len(fetched) ELSE q.limit)
        BY <1>10, <1>13
      <3>1. k \in 1 .. Len(fetched) /\ k \in 1 .. c
        BY <2>1, <2>2, <1>11, <3>0
      <3> QED
        BY <3>1, <1>10, <1>12, <1>13
    <2> QED
      BY <2>1, <2>2, <2>3
  <1>15. IsList(rows)
    BY <1>13, SequenceIsList
  <1>16. \A k, m \in DOMAIN rows : k < m => LexLess(RowKey(q, rows[k]), RowKey(q, rows[m]))
    BY <1>5, <1>9, <1>14
  <1>17. c > q.limit => Len(rows) \in DOMAIN rows
    BY <1>11, <1>14
  <1>18. ASSUME NEW x \in left
         PROVE  \/ \E k \in DOMAIN rows : rows[k] = x
                \/ c > q.limit /\ LexLess(RowKey(q, rows[Len(rows)]), RowKey(q, x))
    <2>1. PICK k \in 1 .. c : order[k] = x
      BY <1>10
    <2>2. CASE k <= Len(rows)
      <3>1. k \in 1 .. Len(rows)
        BY <2>2, <1>14
      <3> QED
        BY <3>1, <2>1, <1>14
    <2>3. CASE k > Len(rows)
      <3>1. c > q.limit /\ Len(rows) = q.limit /\ Len(rows) \in 1 .. c /\ Len(rows) < k
        BY <2>3, <1>10, <1>11, <1>14
      <3>2. LexLess(key[order[Len(rows)]], key[order[k]])
        BY <3>1, <1>9
      <3>3. rows[Len(rows)] = order[Len(rows)] /\ rows[Len(rows)] \in left
        BY <3>1, <1>11, <1>14
      <3> QED
        BY <3>1, <3>2, <3>3, <2>1, <1>5
    <2> QED
      BY <2>2, <2>3, <1>14
  <1> DEFINE page == list_incidents_page(table, q)
  <1>19. /\ page.refused = Missing /\ page.total = count_incidents(table, q) /\ page.rows = rows
         /\ page.next = IF c > q.limit THEN {cursor_from_incident_row(rows[Len(rows)], q)} ELSE {}
    BY <1>8, <1>14
  <1> HIDE DEF page
  <1>20. page.next # {} => /\ Len(rows) \in DOMAIN rows
                           /\ page.next = {cursor_from_incident_row(rows[Len(rows)], q)}
    BY <1>17, <1>19
  <1>21. page.next # {} <=> c > q.limit
    BY <1>19
  <1>22. \A k \in DOMAIN rows : /\ rows[k] \in table /\ _incident_collection_filters(q, rows[k])
                                /\ AfterCursors(q, rows[k])
    BY <1>l, <1>14
  <1>23. \A x \in table : _incident_collection_filters(q, x) /\ AfterCursors(q, x) =>
            \/ \E k \in DOMAIN rows : rows[k] = x
            \/ page.next # {} /\ LexLess(RowKey(q, rows[Len(rows)]), RowKey(q, x))
    BY <1>l, <1>18, <1>21
  <1> QED
    BY <1>15, <1>16, <1>19, <1>20, <1>22, <1>23 DEF page

\* Tables of a walk: an incident is never stored with an earlier time than before.
AreTables(tables) ==
    /\ IsList(tables) /\ Len(tables) >= 1
    /\ \A i \in DOMAIN tables : IsTable(tables[i])
    /\ \A i, j \in DOMAIN tables : i <= j =>
          \A x \in tables[i], y \in tables[j] : x.id = y.id => x.at <= y.at

\* The last row of a page, and whether x comes after it on a page that is not the last.
LastRow(page) == page.rows[Len(page.rows)]
Ahead(q, page, x) == page.next # {} /\ LexLess(RowKey(q, LastRow(page)), RowKey(q, x))

\* The pages were read from the tables, in order.
AreRead(q, tables, pages) ==
    /\ IsList(pages) /\ Len(pages) = Len(tables)
    /\ \A i \in DOMAIN pages :
          /\ pages[i].refused = Missing /\ pages[i].total = count_incidents(tables[i], q)
          /\ IsList(pages[i].rows)
          /\ \A k \in DOMAIN pages[i].rows :
                pages[i].rows[k] \in tables[i] /\ _incident_collection_filters(q, pages[i].rows[k])
          /\ pages[i].next # {} => /\ Len(pages[i].rows) \in DOMAIN pages[i].rows
                                   /\ pages[i].next = {cursor_from_incident_row(LastRow(pages[i]), q)}

\* Their rows climb in the order asked for.
Climb(q, pages) ==
    \A i, j \in DOMAIN pages : \A k \in DOMAIN pages[i].rows, m \in DOMAIN pages[j].rows :
        i < j \/ (i = j /\ k < m) => LexLess(RowKey(q, pages[i].rows[k]), RowKey(q, pages[j].rows[m]))

\* What stayed is shown or ahead, and what is stored now is passed, shown or ahead.
NothingMissed(q, tables, pages) ==
    /\ \A x : (\A i \in DOMAIN tables : x \in tables[i]) /\ _incident_collection_filters(q, x) =>
          \/ \E i \in DOMAIN pages : \E k \in DOMAIN pages[i].rows : pages[i].rows[k] = x
          \/ Ahead(q, pages[Len(pages)], x)
    /\ \A x \in tables[Len(tables)] : _incident_collection_filters(q, x) =>
          \/ \E i \in DOMAIN pages : \E k \in DOMAIN pages[i].rows :
                ~LexLess(RowKey(q, pages[i].rows[k]), RowKey(q, x))
          \/ Ahead(q, pages[Len(pages)], x)

\* The inductive invariant of a walk.
IsWalk(tables, request, pages) ==
    /\ AreTables(tables) /\ IsRequest(request)
    /\ LET q == build_incident_collection_query(request) IN
       /\ q.refused # Missing => pages = <<q>>
       /\ q.refused = Missing =>
             AreRead(q, tables, pages) /\ Climb(q, pages) /\ NothingMissed(q, tables, pages)

\* An item added to a list comes last.
LEMMA Appended ==
    ASSUME NEW s, IsList(s), NEW e
    PROVE  /\ IsList(Append(s, e)) /\ Len(s) \in Nat /\ DOMAIN s = 1 .. Len(s)
           /\ Len(Append(s, e)) = Len(s) + 1 /\ DOMAIN Append(s, e) = 1 .. Len(s) + 1
           /\ \A i \in 1 .. Len(s) : Append(s, e)[i] = s[i]
           /\ Append(s, e)[Len(s) + 1] = e
  <1> DEFINE S == RangeOf(s) \cup {e}
  <1>1. s \in Seq(RangeOf(s))
    BY DEF IsList
  <1> HIDE DEF IsList
  <1>2. RangeOf(s) \subseteq S /\ e \in S
    OBVIOUS
  <1> HIDE DEF S
  <1>3. s \in Seq(S)
    <2>1. s \in [1 .. Len(s) -> RangeOf(s)] /\ Len(s) \in Nat
      BY <1>1
    <2>2. s \in [1 .. Len(s) -> S]
      BY <1>2, <2>1
    <2> QED
      BY <2>1, <2>2
  <1>4. Append(s, e) \in Seq(S)
    BY <1>2, <1>3
  <1>5. IsList(Append(s, e))
    BY <1>4, SequenceIsList
  <1> QED
    BY <1>2, <1>3, <1>5

\* Table after table: the next is as late as the last.
LEMMA NextTable ==
    ASSUME NEW tables, AreTables(tables), NEW table, IsTable(table),
           \A i \in DOMAIN tables : \A x \in tables[i], y \in table : x.id = y.id => x.at <= y.at
    PROVE  AreTables(Append(tables, table))
  <1> DEFINE later == Append(tables, table)
             n == Len(tables)
  <1>1. /\ IsList(later) /\ n \in Nat /\ DOMAIN tables = 1 .. n
        /\ Len(later) = n + 1 /\ DOMAIN later = 1 .. n + 1
        /\ \A i \in 1 .. n : later[i] = tables[i]
        /\ later[n + 1] = table
    BY Appended DEF AreTables
  <1> HIDE DEF later, n
  <1>2. \A i \in 1 .. n + 1 : i \in 1 .. n \/ i = n + 1
    BY <1>1
  <1>3. \A i \in DOMAIN later : IsTable(later[i])
    BY <1>1, <1>2 DEF AreTables
  <1>4. ASSUME NEW i \in DOMAIN later, NEW j \in DOMAIN later, i <= j,
               NEW x \in later[i], NEW y \in later[j], x.id = y.id
        PROVE  x.at <= y.at
    <2>1. CASE j \in 1 .. n
      <3>1. i \in 1 .. n
        BY <1>1, <1>2, <1>4, <2>1
      <3> QED
        BY <1>1, <1>4, <2>1, <3>1 DEF AreTables
    <2>2. CASE j = n + 1 /\ i \in 1 .. n
      BY <1>1, <1>4, <2>2
    <2>3. CASE j = n + 1 /\ i = n + 1
      <3>1. x = y /\ x.at \in Int
        BY <1>1, <1>4, <2>3 DEF IsTable
      <3> QED
        BY <3>1
    <2> QED
      BY <1>1, <1>2, <2>1, <2>2, <2>3
  <1> QED
    BY <1>1, <1>3, <1>4 DEF AreTables, later

\* A query differs from another of its walk only in the cursor.
LEMMA SameQuery ==
    ASSUME NEW q, q = [refused |-> Missing, status |-> q.status, after |-> q.after, net |-> q.net,
                       dev |-> q.dev, cursor |-> q.cursor, limit |-> q.limit, order |-> q.order],
           NEW c
    PROVE  LET p == [q EXCEPT !.cursor = c] IN
           /\ p.cursor = c /\ p.limit = q.limit /\ p.order = q.order /\ p.refused = Missing
           /\ \A x : /\ RowKey(p, x) = RowKey(q, x)
                     /\ _incident_collection_filters(p, x) <=> _incident_collection_filters(q, x)
                     /\ cursor_from_incident_row(x, p) = cursor_from_incident_row(x, q)
           /\ \A t : count_incidents(t, p) = count_incidents(t, q)
  <1> DEFINE p == [q EXCEPT !.cursor = c]
  <1>1. /\ p.cursor = c /\ p.limit = q.limit /\ p.order = q.order /\ p.refused = Missing
        /\ p.status = q.status /\ p.after = q.after /\ p.net = q.net /\ p.dev = q.dev
    OBVIOUS
  <1> HIDE DEF p
  <1>2. \A x : RowKey(p, x) = RowKey(q, x)
    BY <1>1 DEF RowKey
  <1>3. \A x : _incident_collection_filters(p, x) <=> _incident_collection_filters(q, x)
    BY <1>1 DEF _incident_collection_filters
  <1>4. filter_signature(p) = filter_signature(q)
    BY <1>1 DEF filter_signature
  <1>5. \A x : cursor_from_incident_row(x, p) = cursor_from_incident_row(x, q)
    BY <1>1, <1>4 DEF cursor_from_incident_row
  <1>6. \A t : count_incidents(t, p) = count_incidents(t, q)
    <2>1. \A t : {x \in t : _incident_collection_filters(p, x)} = {x \in t : _incident_collection_filters(q, x)}
      BY <1>3
    <2> QED
      BY <2>1 DEF count_incidents
  <1> QED
    BY <1>1, <1>2, <1>3, <1>5, <1>6 DEF p

\* A walk starts with the page without a cursor.
LEMMA WalkStarts ==
    ASSUME NEW table, IsTable(table), NEW request, IsRequest(request)
    PROVE  IsWalk(<<table>>, request, ReadPage(table, request, <<>>))
  <1> DEFINE q == build_incident_collection_query(request)
             p == PageQuery(request, {})
             page == list_incidents_page(table, q)
             tables == <<table>>
             pages == ReadPage(table, request, <<>>)
  <1>1. pages = <<IF p.refused # Missing THEN p ELSE list_incidents_page(table, p)>>
    BY DEF ReadPage, incidents_page, NextRequest, PageQuery
  <1>2. AreTables(tables)
    <2>1. tables \in Seq({table}) /\ Len(tables) = 1 /\ DOMAIN tables = {1} /\ tables[1] = table
      OBVIOUS
    <2>2. IsList(tables)
      BY <2>1, SequenceIsList
    <2> HIDE DEF tables
    <2>3. \A x, y \in table : x.id = y.id => x.at <= y.at
      <3>1. ASSUME NEW x \in table, NEW y \in table, x.id = y.id PROVE x.at <= y.at
        <4>1. x = y /\ x.at \in Int
          BY <3>1 DEF IsTable
        <4> QED
          BY <4>1
      <3> QED
        BY <3>1
    <2> QED
      BY <2>1, <2>2, <2>3 DEF AreTables
  <1>3. CASE q.refused # Missing
    <2>1. q = RefusedQuery /\ p = RefusedQuery
      BY <1>3, PageQueryIs
    <2>2. pages = <<q>>
      BY <1>1, <1>3, <2>1
    <2> QED
      BY <1>2, <1>3, <2>2 DEF IsWalk
  <1>4. CASE q.refused = Missing
    <2>1. /\ q.limit \in Nat \ {0} /\ q.order \in {"lifecycle", "recent"} /\ q.cursor = {}
          /\ p = [q EXCEPT !.cursor = {}]
          /\ q = [refused |-> Missing, status |-> q.status, after |-> q.after, net |-> q.net,
                  dev |-> q.dev, cursor |-> q.cursor, limit |-> q.limit, order |-> q.order]
      BY <1>4, PageQueryIs
    <2> HIDE DEF q, p, pages
    <2>2. p = q
      BY <2>1
    <2>3. pages = <<page>>
      BY <1>1, <1>4, <2>2
    <2>4. IsQuery(q)
      BY <2>1 DEF IsQuery
    <2>5. \A x : AfterCursors(q, x)
      BY <2>1 DEF AfterCursors
    <2>6. /\ page.refused = Missing /\ page.total = count_incidents(table, q) /\ IsList(page.rows)
          /\ \A k \in DOMAIN page.rows :
                page.rows[k] \in table /\ _incident_collection_filters(q, page.rows[k])
          /\ \A k, m \in DOMAIN page.rows :
                k < m => LexLess(RowKey(q, page.rows[k]), RowKey(q, page.rows[m]))
          /\ page.next # {} => /\ Len(page.rows) \in DOMAIN page.rows
                               /\ page.next = {cursor_from_incident_row(LastRow(page), q)}
          /\ \A x \in table : _incident_collection_filters(q, x) =>
                (\E k \in DOMAIN page.rows : page.rows[k] = x) \/ Ahead(q, page, x)
      BY <2>4, <2>5, PageIs DEF LastRow, Ahead
    <2> HIDE DEF page
    <2>7. /\ IsList(pages) /\ Len(pages) = 1 /\ DOMAIN pages = {1} /\ pages[1] = page
          /\ Len(tables) = 1 /\ DOMAIN tables = {1} /\ tables[1] = table
      <3> DEFINE one == <<page>>
      <3>1. one \in Seq({page}) /\ Len(one) = 1 /\ DOMAIN one = {1} /\ one[1] = page
        OBVIOUS
      <3>2. Len(tables) = 1 /\ DOMAIN tables = {1} /\ tables[1] = table
        OBVIOUS
      <3> HIDE DEF one, tables
      <3>3. IsList(one)
        BY <3>1, SequenceIsList
      <3> QED
        BY <2>3, <3>1, <3>2, <3>3 DEF one
    <2> HIDE DEF tables
    <2>8. AreRead(q, tables, pages)
      BY <2>6, <2>7 DEF AreRead
    <2>9. Climb(q, pages)
      BY <2>6, <2>7 DEF Climb
    <2>10. NothingMissed(q, tables, pages)
      <3>1. ASSUME NEW x, \A i \in DOMAIN tables : x \in tables[i], _incident_collection_filters(q, x)
            PROVE  \/ \E i \in DOMAIN pages : \E k \in DOMAIN pages[i].rows : pages[i].rows[k] = x
                   \/ Ahead(q, pages[Len(pages)], x)
        BY <2>6, <2>7, <3>1
      <3>2. ASSUME NEW x \in tables[Len(tables)], _incident_collection_filters(q, x)
            PROVE  \/ \E i \in DOMAIN pages : \E k \in DOMAIN pages[i].rows :
                         ~LexLess(RowKey(q, pages[i].rows[k]), RowKey(q, x))
                   \/ Ahead(q, pages[Len(pages)], x)
        <4>1. x \in table /\ x.id \in Int /\ x.at \in Int
          BY <2>7, <3>2 DEF IsTable
        <4>2. PICK n \in Nat : \A y \in {x} : RowKey(q, y) \in SortKeys(n)
          <5>1. \A y \in {x} : y.id \in Int /\ y.at \in Int
            BY <4>1
          <5> QED
            BY <5>1, RowKeyIs
        <4>3. ~LexLess(RowKey(q, x), RowKey(q, x))
          BY <4>2, LexOrder
        <4> QED
          BY <2>6, <2>7, <3>2, <4>1, <4>3
      <3> QED
        BY <3>1, <3>2 DEF NothingMissed
    <2> QED
      BY <1>2, <2>8, <2>9, <2>10, <1>4 DEF IsWalk, q, tables, pages
  <1> QED
    BY <1>3, <1>4

\* A walk goes on with the page of its last cursor.
LEMMA WalkGoesOn ==
    ASSUME NEW tables, NEW request, NEW pages, IsWalk(tables, request, pages), FollowsOn(pages),
           NEW table, IsTable(table),
           \A i \in DOMAIN tables : \A x \in tables[i], y \in table : x.id = y.id => x.at <= y.at
    PROVE  IsWalk(Append(tables, table), request, ReadPage(table, request, pages))
  <1> DEFINE q == build_incident_collection_query(request)
             n == Len(pages)
             c == pages[n].next
             p == PageQuery(request, c)
             page == list_incidents_page(table, p)
             z == LastRow(pages[n])
             T == table \cup UNION {tables[i] : i \in DOMAIN tables}
             tables2 == Append(tables, table)
             pages2 == ReadPage(table, request, pages)
  <1>1. AreTables(tables) /\ IsRequest(request)
    BY DEF IsWalk
  <1>2. q.refused = Missing
    <2>1. SUFFICES ASSUME q.refused # Missing PROVE FALSE
      OBVIOUS
    <2>2. pages = <<q>>
      BY <2>1 DEF IsWalk
    <2>3. pages[Len(pages)] = q
      BY <2>2
    <2> QED
      BY <2>1, <2>3 DEF FollowsOn
  <1>3. AreRead(q, tables, pages) /\ Climb(q, pages) /\ NothingMissed(q, tables, pages)
    BY <1>2 DEF IsWalk
  <1>4. /\ q.limit \in Nat \ {0} /\ q.order \in {"lifecycle", "recent"} /\ q.cursor = {}
        /\ p = [q EXCEPT !.cursor = c]
        /\ q = [refused |-> Missing, status |-> q.status, after |-> q.after, net |-> q.net,
                dev |-> q.dev, cursor |-> q.cursor, limit |-> q.limit, order |-> q.order]
    BY <1>1, <1>2, PageQueryIs
  <1>5. AreTables(tables2)
    BY <1>1, NextTable
  <1>6. /\ n \in Nat /\ n >= 1 /\ n = Len(tables) /\ DOMAIN tables = 1 .. n /\ DOMAIN pages = 1 .. n
        /\ DOMAIN tables2 = 1 .. n + 1 /\ Len(tables2) = n + 1
        /\ tables2[n + 1] = table /\ \A i \in 1 .. n : tables2[i] = tables[i]
    BY <1>1, <1>3, Appended DEF AreTables, AreRead
  <1>7. pages2 = Append(pages, IF p.refused # Missing THEN p ELSE page)
    <2>1. pages # <<>>
      BY <1>6
    <2> QED
      BY <2>1 DEF ReadPage, incidents_page, NextRequest, PageQuery
  <1> HIDE DEF q, p, pages2, tables2
  <1>8. /\ p.cursor = c /\ p.limit = q.limit /\ p.order = q.order /\ p.refused = Missing
        /\ \A x : /\ RowKey(p, x) = RowKey(q, x)
                  /\ _incident_collection_filters(p, x) <=> _incident_collection_filters(q, x)
                  /\ cursor_from_incident_row(x, p) = cursor_from_incident_row(x, q)
        /\ \A t : count_incidents(t, p) = count_incidents(t, q)
    BY <1>4, SameQuery
  <1>9. /\ IsList(pages2) /\ Len(pages2) = n + 1 /\ DOMAIN pages2 = 1 .. n + 1
        /\ \A i \in 1 .. n : pages2[i] = pages[i]
        /\ pages2[n + 1] = page
    BY <1>3, <1>7, <1>8, Appended DEF AreRead
  <1>10. /\ c # {} /\ c = {cursor_from_incident_row(z, q)} /\ Len(pages[n].rows) \in DOMAIN pages[n].rows
         /\ z \in tables[n] /\ z.id \in Int /\ z.at \in Int
    <2>1. c # {} /\ n \in DOMAIN pages
      BY <1>6 DEF FollowsOn
    <2>2. c = {cursor_from_incident_row(z, q)} /\ Len(pages[n].rows) \in DOMAIN pages[n].rows
      BY <1>3, <2>1 DEF AreRead
    <2>3. z \in tables[n]
      BY <1>3, <2>1, <2>2 DEF AreRead, LastRow
    <2> QED
      BY <1>1, <1>6, <2>1, <2>2, <2>3 DEF AreTables, IsTable
  <1>11. IsQuery(p)
    BY <1>4, <1>8, <1>10 DEF IsQuery
  <1>12. \A x : AfterCursors(p, x) <=> LexLess(RowKey(q, z), RowKey(q, x))
    <2> DEFINE t == cursor_from_incident_row(z, p)
    <2>1. p.cursor = {t}
      BY <1>8, <1>10
    <2>2. \A x : after_cursor(p, t, x) <=> LexLess(RowKey(p, z), RowKey(p, x))
      BY <1>4, <1>8, CursorIs
    <2> QED
      BY <1>8, <2>1, <2>2 DEF AfterCursors
  <1>13. /\ page.refused = Missing /\ page.total = count_incidents(table, q) /\ IsList(page.rows)
         /\ \A k \in DOMAIN page.rows : /\ page.rows[k] \in table
                                        /\ _incident_collection_filters(q, page.rows[k])
                                        /\ LexLess(RowKey(q, z), RowKey(q, page.rows[k]))
         /\ \A k, m \in DOMAIN page.rows :
               k < m => LexLess(RowKey(q, page.rows[k]), RowKey(q, page.rows[m]))
         /\ page.next # {} => /\ Len(page.rows) \in DOMAIN page.rows
                              /\ page.next = {cursor_from_incident_row(LastRow(page), q)}
         /\ \A x \in table :
               _incident_collection_filters(q, x) /\ LexLess(RowKey(q, z), RowKey(q, x)) =>
                  (\E k \in DOMAIN page.rows : page.rows[k] = x) \/ Ahead(q, page, x)
    BY <1>8, <1>11, <1>12, PageIs DEF LastRow, Ahead
  <1> HIDE DEF page, c, z, n
  <1>14. \A x \in T : x.id \in Int /\ x.at \in Int
    <2>1. \A x \in T : x \in table \/ \E i \in DOMAIN tables : x \in tables[i]
      OBVIOUS
    <2> HIDE DEF T
    <2> QED
      BY <1>1, <2>1 DEF AreTables, IsTable
  <1>t. z \in T /\ table \subseteq T /\ \A i \in DOMAIN tables : tables[i] \subseteq T
    <2>1. table \subseteq T /\ \A i \in DOMAIN tables : tables[i] \subseteq T
      OBVIOUS
    <2>2. n \in DOMAIN tables
      BY <1>6
    <2> HIDE DEF T
    <2> QED
      BY <1>10, <2>1, <2>2
  <1> HIDE DEF T
  <1>15. PICK w \in Nat : \A x \in T : RowKey(q, x) \in SortKeys(w)
    BY <1>14, RowKeyIs
  <1>16. \A i \in 1 .. n : \A k \in DOMAIN pages[i].rows : pages[i].rows[k] \in T
    BY <1>3, <1>6, <1>t DEF AreRead
  <1>17. \A k \in DOMAIN page.rows : page.rows[k] \in T
    BY <1>13, <1>t
  <1>18. AreRead(q, tables2, pages2)
    BY <1>3, <1>6, <1>9, <1>13 DEF AreRead
  <1>19. \A i \in 1 .. n : \A k \in DOMAIN pages[i].rows :
            ~LexLess(RowKey(q, z), RowKey(q, pages[i].rows[k]))
    <2>1. ASSUME NEW i \in 1 .. n, NEW k \in DOMAIN pages[i].rows
          PROVE  ~LexLess(RowKey(q, z), RowKey(q, pages[i].rows[k]))
      <3> DEFINE L == Len(pages[n].rows)
      <3>1. L \in DOMAIN pages[n].rows /\ n \in 1 .. n /\ z = pages[n].rows[L]
        BY <1>6, <1>10 DEF LastRow, n, z
      <3>2. k \in Int /\ L \in Int /\ (i = n => k <= L)
        <4>1. i \in DOMAIN pages /\ n \in DOMAIN pages
          BY <1>6, <3>1
        <4>2. IsList(pages[i].rows) /\ IsList(pages[n].rows)
          BY <1>3, <4>1 DEF AreRead
        <4>3. DOMAIN pages[i].rows = 1 .. Len(pages[i].rows) /\ Len(pages[i].rows) \in Nat
          BY <4>2, Appended
        <4>4. DOMAIN pages[n].rows = 1 .. Len(pages[n].rows) /\ Len(pages[n].rows) \in Nat
          BY <4>2, Appended
        <4> QED
          BY <4>3, <4>4
      <3>3. \/ i < n \/ (i = n /\ k < L)
            \/ i = n /\ k = L
        BY <1>6, <3>2
      <3>4. CASE i < n \/ (i = n /\ k < L)
        <4>1. LexLess(RowKey(q, pages[i].rows[k]), RowKey(q, z))
          BY <1>3, <1>6, <3>1, <3>4 DEF Climb
        <4> QED
          BY <4>1, <1>15, <1>16, <1>t, LexOrder
      <3>5. CASE i = n /\ k = L
        BY <3>1, <3>5, <1>15, <1>t, LexOrder
      <3> QED
        BY <3>3, <3>4, <3>5
    <2> QED
      BY <2>1
  <1>20. Climb(q, pages2)
    <2>1. ASSUME NEW i \in 1 .. n + 1, NEW j \in 1 .. n + 1,
                 NEW k \in DOMAIN pages2[i].rows, NEW m \in DOMAIN pages2[j].rows,
                 i < j \/ (i = j /\ k < m)
          PROVE  LexLess(RowKey(q, pages2[i].rows[k]), RowKey(q, pages2[j].rows[m]))
      <3>1. CASE j \in 1 .. n
        <4>1. i \in 1 .. n
          BY <1>6, <2>1, <3>1
        <4> QED
          BY <1>3, <1>6, <1>9, <2>1, <3>1, <4>1 DEF Climb
      <3>2. CASE j = n + 1 /\ i \in 1 .. n
        <4>1. /\ pages2[i] = pages[i] /\ pages2[j] = page
              /\ pages[i].rows[k] \in T /\ page.rows[m] \in T
          BY <1>9, <1>16, <1>17, <3>2
        <4>2. LexLess(RowKey(q, z), RowKey(q, page.rows[m]))
          BY <1>9, <1>13, <3>2
        <4>3. ~LexLess(RowKey(q, z), RowKey(q, pages[i].rows[k]))
          BY <1>9, <1>19, <3>2
        <4> DEFINE a == RowKey(q, pages[i].rows[k])
                   b == RowKey(q, page.rows[m])
                   d == RowKey(q, z)
        <4>4. a \in SortKeys(w) /\ b \in SortKeys(w) /\ d \in SortKeys(w)
          BY <1>15, <1>t, <4>1
        <4>5. LexLess(d, b) /\ ~LexLess(d, a)
          BY <4>2, <4>3
        <4> HIDE DEF a, b, d
        <4>6. LexLess(a, b)
          <5>1. a = d \/ LexLess(a, d)
            BY <4>4, <4>5, LexOrder
          <5>2. CASE a = d
            BY <4>5, <5>2
          <5>3. CASE LexLess(a, d)
            BY <4>4, <4>5, <5>3, LexOrder
          <5> QED
            BY <5>1, <5>2, <5>3
        <4> QED
          BY <4>1, <4>6 DEF a, b
      <3>3. CASE j = n + 1 /\ i = n + 1
        <4>1. pages2[i] = page /\ pages2[j] = page /\ k < m
          BY <1>6, <1>9, <2>1, <3>3
        <4> QED
          BY <1>13, <4>1
      <3> QED
        BY <1>6, <3>1, <3>2, <3>3
    <2> QED
      BY <1>9, <2>1 DEF Climb
  <1>21. NothingMissed(q, tables2, pages2)
    <2>1. ASSUME NEW x, \A i \in DOMAIN tables2 : x \in tables2[i], _incident_collection_filters(q, x)
          PROVE  \/ \E i \in DOMAIN pages2 : \E k \in DOMAIN pages2[i].rows : pages2[i].rows[k] = x
                 \/ Ahead(q, page, x)
      <3>1. x \in table /\ \A i \in DOMAIN tables : x \in tables[i]
        BY <1>6, <2>1
      <3>2. \/ \E i \in DOMAIN pages : \E k \in DOMAIN pages[i].rows : pages[i].rows[k] = x
            \/ Ahead(q, pages[n], x)
        BY <1>3, <2>1, <3>1 DEF NothingMissed, n
      <3>3. CASE \E i \in DOMAIN pages : \E k \in DOMAIN pages[i].rows : pages[i].rows[k] = x
        <4>1. PICK i \in 1 .. n : \E k \in DOMAIN pages[i].rows : pages[i].rows[k] = x
          BY <1>6, <3>3
        <4>2. i \in 1 .. n + 1 /\ pages2[i] = pages[i]
          BY <1>6, <1>9
        <4> QED
          BY <1>9, <4>1, <4>2
      <3>4. CASE Ahead(q, pages[n], x)
        <4>1. LexLess(RowKey(q, z), RowKey(q, x))
          BY <3>4 DEF Ahead, z, n
        <4>2. (\E k \in DOMAIN page.rows : page.rows[k] = x) \/ Ahead(q, page, x)
          BY <1>13, <2>1, <3>1, <4>1
        <4>3. n + 1 \in DOMAIN pages2 /\ pages2[n + 1] = page
          BY <1>6, <1>9
        <4> QED
          BY <4>2, <4>3
      <3> QED
        BY <3>2, <3>3, <3>4
    <2>2. ASSUME NEW x \in table, _incident_collection_filters(q, x)
          PROVE  \/ \E i \in DOMAIN pages2 : \E k \in DOMAIN pages2[i].rows :
                       ~LexLess(RowKey(q, pages2[i].rows[k]), RowKey(q, x))
                 \/ Ahead(q, page, x)
      <3>1. CASE LexLess(RowKey(q, z), RowKey(q, x))
        <4>1. (\E k \in DOMAIN page.rows : page.rows[k] = x) \/ Ahead(q, page, x)
          BY <1>13, <2>2, <3>1
        <4>2. n + 1 \in DOMAIN pages2 /\ pages2[n + 1] = page
          BY <1>6, <1>9
        <4>3. ~LexLess(RowKey(q, x), RowKey(q, x))
          BY <1>15, <1>t, LexOrder
        <4> QED
          BY <4>1, <4>2, <4>3
      <3>2. CASE ~LexLess(RowKey(q, z), RowKey(q, x))
        <4>1. n \in DOMAIN pages2 /\ pages2[n] = pages[n]
          BY <1>6, <1>9
        <4>2. Len(pages[n].rows) \in DOMAIN pages[n].rows /\ pages[n].rows[Len(pages[n].rows)] = z
          BY <1>10 DEF LastRow, z, n
        <4> QED
          BY <3>2, <4>1, <4>2
      <3> QED
        BY <3>1, <3>2
    <2>3. tables2[Len(tables2)] = table /\ pages2[Len(pages2)] = page
      BY <1>6, <1>9
    <2> QED
      BY <2>1, <2>2, <2>3 DEF NothingMissed
  <1> QED
    BY <1>1, <1>2, <1>5, <1>18, <1>20, <1>21 DEF IsWalk, q, tables2, pages2

\* Places are compared by the page, then by the row.
LEMMA PlaceLess ==
    ASSUME NEW i \in Int, NEW k \in Int, NEW j \in Int, NEW m \in Int
    PROVE  LexLess(<<i, k>>, <<j, m>>) <=> i < j \/ (i = j /\ k < m)
  <1> DEFINE a == <<i, k>>
             b == <<j, m>>
  <1>1. DOMAIN a = 1 .. 2 /\ a[1] = i /\ a[2] = k /\ b[1] = j /\ b[2] = m
    OBVIOUS
  <1> HIDE DEF a, b
  <1>2. LexLess(a, b) <=> \E p \in 1 .. 2 : a[p] < b[p] /\ \A r \in 1 .. p - 1 : a[r] = b[r]
    BY <1>1 DEF LexLess
  <1>3. ASSUME LexLess(a, b) PROVE i < j \/ (i = j /\ k < m)
    <2>1. PICK p \in 1 .. 2 : a[p] < b[p] /\ \A r \in 1 .. p - 1 : a[r] = b[r]
      BY <1>2, <1>3
    <2>2. CASE p = 1
      BY <1>1, <2>1, <2>2
    <2>3. CASE p = 2
      BY <1>1, <2>1, <2>3
    <2> QED
      BY <2>2, <2>3
  <1>4. i < j => LexLess(a, b)
    <2>1. ASSUME i < j PROVE 1 \in 1 .. 2 /\ a[1] < b[1] /\ \A r \in 1 .. 1 - 1 : a[r] = b[r]
      BY <1>1, <2>1
    <2> QED
      BY <1>2, <2>1
  <1>5. i = j /\ k < m => LexLess(a, b)
    <2>1. ASSUME i = j /\ k < m PROVE 2 \in 1 .. 2 /\ a[2] < b[2] /\ \A r \in 1 .. 2 - 1 : a[r] = b[r]
      BY <1>1, <2>1
    <2> QED
      BY <1>2, <2>1
  <1> QED
    BY <1>3, <1>4, <1>5 DEF a, b

\* Version and signature of a cursor say which filters and order it was made for.
LEMMA SignatureTells ==
    ASSUME NEW q, NEW o, q.order \in {"lifecycle", "recent"}, o.order \in {"lifecycle", "recent"}
    PROVE  /\ (IF q.order = "recent" THEN 2 ELSE 1) = (IF o.order = "recent" THEN 2 ELSE 1)
           /\ filter_signature(q) = filter_signature(o)
           <=> <<o.status, o.after, o.net, o.dev, o.order>> = <<q.status, q.after, q.net, q.dev, q.order>>
  <1>2. filter_signature(q) = IF q.order = "lifecycle" THEN <<q.dev, q.net, q.status, q.after>>
                              ELSE <<q.dev, q.net, q.status, q.after, q.order>>
    BY DEF filter_signature
  <1>3. filter_signature(o) = IF o.order = "lifecycle" THEN <<o.dev, o.net, o.status, o.after>>
                              ELSE <<o.dev, o.net, o.status, o.after, o.order>>
    BY DEF filter_signature
  <1>4. (IF q.order = "recent" THEN 2 ELSE 1) = (IF o.order = "recent" THEN 2 ELSE 1) <=> q.order = o.order
    OBVIOUS
  <1>5. CASE q.order = "lifecycle" /\ o.order = "lifecycle"
    BY <1>2, <1>3, <1>5
  <1>6. CASE q.order = "recent" /\ o.order = "recent"
    BY <1>2, <1>3, <1>6
  <1>7. CASE q.order # o.order
    BY <1>4, <1>7
  <1> QED
    BY <1>5, <1>6, <1>7

\* A walk misses nothing: the general statement behind the run's property.
THEOREM WalksMissNothing ==
    ASSUME NEW tables, NEW request, NEW pages, IsWalk(tables, request, pages),
           NEW others, \A x \in others : IsRequest(x)
    PROVE  WalkMissesNothing(tables, request, others, pages)
  <1> DEFINE q == build_incident_collection_query(request)
             n == Len(pages)
             Places == UNION {{i} \X DOMAIN pages[i].rows : i \in DOMAIN pages}
             RowFor(p) == pages[p[1]].rows[p[2]]
             Of(id) == {p \in Places : RowFor(p).id = id}
             done == pages[Len(pages)].next = {}
  <1>1. AreTables(tables) /\ IsRequest(request)
    BY DEF IsWalk
  <1>2. CASE q.refused # Missing
    <2>1. pages = <<q>>
      BY <1>2 DEF IsWalk
    <2> QED
      BY <1>2, <2>1 DEF WalkMissesNothing, MissesNothing
  <1>3. CASE q.refused = Missing
    <2>1. AreRead(q, tables, pages) /\ Climb(q, pages) /\ NothingMissed(q, tables, pages)
      BY <1>3 DEF IsWalk
    <2>2. /\ q.limit \in Nat \ {0} /\ q.order \in {"lifecycle", "recent"} /\ q.cursor = {}
          /\ \A c : PageQuery(request, c) = [q EXCEPT !.cursor = c]
          /\ q = [refused |-> Missing, status |-> q.status, after |-> q.after, net |-> q.net,
                  dev |-> q.dev, cursor |-> q.cursor, limit |-> q.limit, order |-> q.order]
      BY <1>1, <1>3, PageQueryIs
    <2> HIDE DEF q
    <2>3. /\ n \in Nat /\ n >= 1 /\ n = Len(tables) /\ DOMAIN tables = 1 .. n /\ DOMAIN pages = 1 .. n
      BY <1>1, <2>1, Appended DEF AreTables, AreRead
    <2>4. \A p : p \in Places <=> \E i \in DOMAIN pages : \E k \in DOMAIN pages[i].rows : p = <<i, k>>
      OBVIOUS
    <2>5. \A i \in DOMAIN pages : \A k \in DOMAIN pages[i].rows :
             <<i, k>> \in Places /\ RowFor(<<i, k>>) = pages[i].rows[k]
      OBVIOUS
    <2> HIDE DEF Places
    <2>6. ASSUME NEW i \in DOMAIN pages, NEW k \in DOMAIN pages[i].rows PROVE i \in Int /\ k \in Int
      <3>1. IsList(pages[i].rows)
        BY <2>1 DEF AreRead
      <3>2. DOMAIN pages[i].rows = 1 .. Len(pages[i].rows) /\ Len(pages[i].rows) \in Nat
        BY <3>1, Appended
      <3> QED
        BY <2>3, <3>2
    <2>7. ASSUME NEW p \in Places, NEW o \in Places
          PROVE  /\ LexLess(p, o) => LexLess(RowKey(q, RowFor(p)), RowKey(q, RowFor(o)))
                 /\ p = o \/ LexLess(p, o) \/ LexLess(o, p)
                 /\ LexLess(p, o) => \E i, j \in DOMAIN pages :
                       i <= j /\ RowFor(p) \in tables[i] /\ RowFor(o) \in tables[j]
                 /\ \E i \in DOMAIN pages : RowFor(p) \in tables[i]
      <3>1. PICK i \in DOMAIN pages : \E k \in DOMAIN pages[i].rows : p = <<i, k>>
        BY <2>4
      <3>2. PICK k \in DOMAIN pages[i].rows : p = <<i, k>>
        BY <3>1
      <3>3. PICK j \in DOMAIN pages : \E m \in DOMAIN pages[j].rows : o = <<j, m>>
        BY <2>4
      <3>4. PICK m \in DOMAIN pages[j].rows : o = <<j, m>>
        BY <3>3
      <3>5. i \in Int /\ j \in Int /\ k \in Int /\ m \in Int
        BY <2>6
      <3>6. RowFor(p) = pages[i].rows[k] /\ RowFor(o) = pages[j].rows[m]
        BY <3>2, <3>4
      <3> HIDE DEF RowFor
      <3>7. LexLess(p, o) <=> i < j \/ (i = j /\ k < m)
        BY <3>2, <3>4, <3>5, PlaceLess
      <3>8. LexLess(o, p) <=> j < i \/ (j = i /\ m < k)
        BY <3>2, <3>4, <3>5, PlaceLess
      <3>9. p = o \/ LexLess(p, o) \/ LexLess(o, p)
        BY <3>2, <3>4, <3>5, <3>7, <3>8
      <3>10. LexLess(p, o) => LexLess(RowKey(q, RowFor(p)), RowKey(q, RowFor(o)))
        BY <2>1, <3>6, <3>7 DEF Climb
      <3>11. RowFor(p) \in tables[i] /\ RowFor(o) \in tables[j]
        BY <2>1, <3>6 DEF AreRead
      <3>12. LexLess(p, o) => i <= j
        BY <3>5, <3>7
      <3> QED
        BY <3>9, <3>10, <3>11, <3>12
    <2>8. \A i \in DOMAIN pages : \A x, y \in tables[i] : x.id = y.id => x = y
      BY <1>1, <2>3 DEF AreTables, IsTable
    <2> DEFINE T == UNION {tables[i] : i \in DOMAIN pages}
    <2>9. \A i \in DOMAIN pages : tables[i] \subseteq T
      OBVIOUS
    <2>10. \A x \in T : x.id \in Int /\ x.at \in Int
      <3>1. \A x \in T : \E i \in DOMAIN pages : x \in tables[i]
        OBVIOUS
      <3> HIDE DEF T
      <3> QED
        BY <1>1, <2>3, <3>1 DEF AreTables, IsTable
    <2> HIDE DEF T
    <2>11. PICK w \in Nat :
             /\ \A x \in T : RowKey(q, x) \in SortKeys(w)
             /\ \A x, y \in T : LexLess(RowKey(q, x), RowKey(q, y)) /\ x.id = y.id /\ x.at <= y.at =>
                   q.order # "recent" /\ lifecycle_rank(x.state) < lifecycle_rank(y.state)
      BY <2>10, RowKeyIs
    <2>12. \A p \in Places : RowFor(p) \in T
      BY <2>7, <2>9
    <2>13. \A i \in DOMAIN pages : pages[i].refused = Missing /\ pages[i].total = count_incidents(tables[i], q)
      BY <2>1 DEF AreRead
    <2>14. ASSUME NEW x \in tables[1], _incident_collection_filters(q, x), \A i \in DOMAIN pages : x \in tables[i]
           PROVE  Cardinality(Of(x.id)) = 1 \/ (~done /\ Of(x.id) = {})
      <3>1. \A p \in Of(x.id) : p \in Places /\ RowFor(p) = x
        <4>1. ASSUME NEW p \in Places, RowFor(p).id = x.id PROVE RowFor(p) = x
          BY <2>7, <2>8, <2>14, <4>1
        <4> QED
          BY <4>1
      <3>2. \A p, o \in Of(x.id) : p = o
        <4>1. ASSUME NEW p \in Of(x.id), NEW o \in Of(x.id), LexLess(p, o) PROVE FALSE
          <5>1. RowFor(p) = x /\ RowFor(o) = x /\ p \in Places /\ o \in Places
            BY <3>1
          <5>2. LexLess(RowKey(q, x), RowKey(q, x))
            BY <2>7, <4>1, <5>1
          <5>3. RowKey(q, x) \in SortKeys(w)
            BY <2>11, <2>12, <5>1
          <5> QED
            BY <5>2, <5>3, LexOrder
        <4> QED
          BY <2>7, <3>1, <4>1
      <3>3. CASE \E i \in DOMAIN pages : \E k \in DOMAIN pages[i].rows : pages[i].rows[k] = x
        <4>1. PICK i \in DOMAIN pages : \E k \in DOMAIN pages[i].rows : pages[i].rows[k] = x
          BY <3>3
        <4>2. PICK k \in DOMAIN pages[i].rows : pages[i].rows[k] = x
          BY <4>1
        <4>3. <<i, k>> \in Of(x.id)
          BY <2>5, <4>2
        <4>4. Of(x.id) = {<<i, k>>}
          BY <3>2, <4>3
        <4> QED
          BY <4>4, FS_Singleton
      <3>4. CASE ~\E i \in DOMAIN pages : \E k \in DOMAIN pages[i].rows : pages[i].rows[k] = x
        <4>1. Ahead(q, pages[n], x)
          BY <2>1, <2>3, <2>14, <3>4 DEF NothingMissed
        <4>2. Of(x.id) = {}
          <5>1. ASSUME NEW p \in Of(x.id) PROVE FALSE
            <6>1. p \in Places /\ RowFor(p) = x
              BY <3>1
            <6> QED
              BY <2>4, <3>4, <6>1
          <5> QED
            BY <5>1
        <4> QED
          BY <4>1, <4>2 DEF Ahead
      <3> QED
        BY <3>3, <3>4
    <2>15. \A p, o \in Places : LexLess(p, o) => LexLess(RowKey(q, RowFor(p)), RowKey(q, RowFor(o)))
      BY <2>7
    <2>16. ASSUME NEW p \in Places, NEW o \in Places, LexLess(p, o), RowFor(p).id = RowFor(o).id
           PROVE  q.order = "lifecycle" /\ lifecycle_rank(RowFor(p).state) < lifecycle_rank(RowFor(o).state)
      <3>1. PICK i \in DOMAIN pages, j \in DOMAIN pages :
                i <= j /\ RowFor(p) \in tables[i] /\ RowFor(o) \in tables[j]
        BY <2>7, <2>16
      <3>2. RowFor(p).at <= RowFor(o).at
        BY <1>1, <2>3, <2>16, <3>1 DEF AreTables
      <3> HIDE DEF RowFor
      <3> QED
        BY <2>2, <2>11, <2>12, <2>15, <2>16, <3>2
    <2>17. ASSUME done, NEW x \in tables[Len(pages)], _incident_collection_filters(q, x)
           PROVE  \E p \in Places : ~LexLess(RowKey(q, RowFor(p)), RowKey(q, x))
      <3>1. PICK i \in DOMAIN pages : \E k \in DOMAIN pages[i].rows :
                ~LexLess(RowKey(q, pages[i].rows[k]), RowKey(q, x))
        BY <2>1, <2>3, <2>17 DEF NothingMissed, Ahead
      <3>2. PICK k \in DOMAIN pages[i].rows : ~LexLess(RowKey(q, pages[i].rows[k]), RowKey(q, x))
        BY <3>1
      <3> QED
        BY <2>5, <3>2
    <2>18. incidents_page(tables[1], [request EXCEPT !.cursor = {Garbage}]) = RefusedCursor
      <3> DEFINE p == PageQuery(request, {Garbage})
      <3>1. p = [q EXCEPT !.cursor = {Garbage}]
        BY <2>2
      <3>2. p.refused = Missing /\ p.cursor = {Garbage}
        BY <2>2, <3>1, SameQuery
      <3> HIDE DEF p
      <3>3. ~decode_incident_collection_cursor(Garbage, p)
        BY MissingAssumption DEF decode_incident_collection_cursor, Garbage
      <3>4. list_incidents_page(tables[1], p) = RefusedCursor
        BY <3>2, <3>3 DEF list_incidents_page
      <3>5. incidents_page(tables[1], [request EXCEPT !.cursor = {Garbage}])
               = IF p.refused # Missing THEN p ELSE list_incidents_page(tables[1], p)
        BY DEF incidents_page, PageQuery, p
      <3> QED
        BY <3>2, <3>4, <3>5
    <2>19. ASSUME NEW x \in others,
                  PageQuery(x, pages[1].next).refused = Missing, PageQuery(x, pages[1].next).cursor # {}
           PROVE  LET o == PageQuery(x, pages[1].next) IN
                  list_incidents_page(tables[1], o).refused = Missing
                     <=> <<o.status, o.after, o.net, o.dev, o.order>>
                         = <<q.status, q.after, q.net, q.dev, q.order>>
      <3> DEFINE c == pages[1].next
                 b == build_incident_collection_query(x)
                 o == PageQuery(x, c)
                 z == LastRow(pages[1])
                 t == cursor_from_incident_row(z, q)
      <3>1. IsRequest(x)
        OBVIOUS
      <3>2. b.refused = Missing
        <4>1. SUFFICES ASSUME b.refused # Missing PROVE FALSE
          OBVIOUS
        <4>2. b = RefusedQuery /\ o = RefusedQuery
          BY <3>1, <4>1, PageQueryIs
        <4> QED
          BY <2>19, <4>1, <4>2
      <3>3. /\ o = [b EXCEPT !.cursor = c] /\ b.order \in {"lifecycle", "recent"}
            /\ b = [refused |-> Missing, status |-> b.status, after |-> b.after, net |-> b.net,
                    dev |-> b.dev, cursor |-> b.cursor, limit |-> b.limit, order |-> b.order]
        BY <3>1, <3>2, PageQueryIs
      <3>h. o.refused = Missing /\ o.cursor # {}
        BY <2>19
      <3> HIDE DEF b, o
      <3>4. o.cursor = c /\ o.order \in {"lifecycle", "recent"}
        BY <3>3, SameQuery
      <3>5. c = {t}
        <4>1. 1 \in DOMAIN pages
          BY <2>3
        <4> QED
          BY <2>1, <3>4, <3>h, <4>1 DEF AreRead
      <3> HIDE DEF c
      <3>6. decode_incident_collection_cursor(t, o)
               <=> <<o.status, o.after, o.net, o.dev, o.order>> = <<q.status, q.after, q.net, q.dev, q.order>>
        <4>1. t.v = (IF q.order = "recent" THEN 2 ELSE 1) /\ t.fs = filter_signature(q)
          BY DEF cursor_from_incident_row
        <4> HIDE DEF t
        <4>2. decode_incident_collection_cursor(t, o)
                 <=> /\ (IF q.order = "recent" THEN 2 ELSE 1) = (IF o.order = "recent" THEN 2 ELSE 1)
                     /\ filter_signature(q) = filter_signature(o)
          BY <4>1 DEF decode_incident_collection_cursor
        <4> QED
          BY <2>2, <3>4, <4>2, SignatureTells
      <3> HIDE DEF t
      <3>7. o.cursor = {t}
        BY <3>4, <3>5
      <3>8. list_incidents_page(tables[1], o).refused = Missing <=> decode_incident_collection_cursor(t, o)
        <4>1. CASE decode_incident_collection_cursor(t, o)
          <5>1. ~\E d \in o.cursor : ~decode_incident_collection_cursor(d, o)
            BY <3>7, <4>1
          <5> QED
            BY <4>1, <5>1 DEF list_incidents_page
        <4>2. CASE ~decode_incident_collection_cursor(t, o)
          <5>1. list_incidents_page(tables[1], o) = RefusedCursor
            BY <3>7, <4>2 DEF list_incidents_page
          <5> QED
            BY <4>2, <5>1, PageAssumption DEF RefusedCursor
        <4> QED
          BY <4>1, <4>2
      <3> QED
        BY <3>6, <3>8 DEF o, c
    <2>20. ASSUME NEW o \in {build_incident_collection_query([x EXCEPT !.cursor = pages[1].next]) : x \in others},
                  o.refused = Missing, o.cursor # {}
           PROVE  list_incidents_page(tables[1], o).refused = Missing
                     <=> <<o.status, o.after, o.net, o.dev, o.order>>
                         = <<q.status, q.after, q.net, q.dev, q.order>>
      <3>1. PICK x \in others : o = PageQuery(x, pages[1].next)
        BY DEF PageQuery
      <3> QED
        BY <2>19, <2>20, <3>1
    <2>21. MissesNothing(tables, request, others, q, pages)
      BY <1>3, <2>13, <2>14, <2>15, <2>16, <2>17, <2>18, <2>20 DEF MissesNothing, Places
    <2> QED
      BY <2>21 DEF WalkMissesNothing, q
  <1> QED
    BY <1>2, <1>3

\* The questions about the incident list are walks; by the n-th table nothing is
\* stored with a time or an id beyond 8 + n.
ListInput ==
    /\ topic = "seed list" => /\ IsTable(input[1]) /\ IsRequest(input[2])
                              /\ \A x \in input[1] : x.id <= 9 /\ x.at <= 9
    /\ topic = "list" =>
          /\ input = [tables |-> input.tables, q |-> input.q, pages |-> input.pages, others |-> input.others]
          /\ IsWalk(input.tables, input.q, input.pages)
          /\ \A x \in input.others : IsRequest(x)
          /\ \A i \in DOMAIN input.tables : \A x \in input.tables[i] :
                x.id <= 8 + Len(input.tables) /\ x.at <= 8 + Len(input.tables)

\* What may happen to one incident keeps the table a table.
LEMMA ChangedIs ==
    ASSUME NEW table, IsTable(table), NEW t \in Int, \A x \in table : x.id < t /\ x.at < t,
           NEW new \in Changed(table, t)
    PROVE  IsTable(new) /\ \A x \in new : x.id <= t /\ x.at <= t /\ (x \in table \/ x.at = t)
  <1>1. \A id, s : ListRow(id, s, t).id = id /\ ListRow(id, s, t).at = t
    BY DEF ListRow
  <1>2. IsFiniteSet(table) /\ \A x \in table : x.id \in Int /\ x.at \in Int /\ x.id < t /\ x.at < t
    BY DEF IsTable
  <1>3. CASE new = table
    BY <1>2, <1>3
  <1>4. CASE new = table \cup {ListRow(t, "open", t)}
    <2> DEFINE r == ListRow(t, "open", t)
    <2>1. r.id = t /\ r.at = t
      BY <1>1
    <2> HIDE DEF r
    <2>2. IsFiniteSet(table \cup {r})
      BY <1>2, FS_AddElement
    <2>3. \A x \in table \cup {r} : x.id \in Int /\ x.at \in Int /\ x.id <= t /\ x.at <= t
                                    /\ (x \in table \/ x.at = t)
      BY <1>2, <2>1
    <2>4. \A x, y \in table \cup {r} : x.id = y.id => x = y
      BY <1>2, <2>1 DEF IsTable
    <2> QED
      BY <1>4, <2>2, <2>3, <2>4 DEF IsTable, r
  <1>5. ASSUME NEW y \in table, NEW s, new = (table \ {y}) \cup {ListRow(y.id, s, t)}
        PROVE  IsTable(new) /\ \A x \in new : x.id <= t /\ x.at <= t /\ (x \in table \/ x.at = t)
    <2> DEFINE r == ListRow(y.id, s, t)
    <2>1. r.id = y.id /\ r.at = t
      BY <1>1
    <2> HIDE DEF r
    <2>2. IsFiniteSet((table \ {y}) \cup {r})
      <3>1. IsFiniteSet(table \ {y})
        BY <1>2, FS_RemoveElement
      <3> QED
        BY <3>1, FS_AddElement
    <2>3. \A x \in (table \ {y}) \cup {r} : /\ x.id \in Int /\ x.at \in Int /\ x.id <= t /\ x.at <= t
                                            /\ (x \in table \/ x.at = t)
      BY <1>2, <2>1
    <2>4. \A x, z \in (table \ {y}) \cup {r} : x.id = z.id => x = z
      BY <1>2, <2>1 DEF IsTable
    <2> QED
      BY <1>5, <2>2, <2>3, <2>4 DEF IsTable, r
  <1>6. ASSUME NEW y \in table, new = table \ {y}
        PROVE  IsTable(new) /\ \A x \in new : x.id <= t /\ x.at <= t /\ (x \in table \/ x.at = t)
    <2>1. IsFiniteSet(table \ {y})
      BY <1>2, FS_RemoveElement
    <2> QED
      BY <1>2, <1>6, <2>1 DEF IsTable
  <1>7. \/ new = table \/ new = table \cup {ListRow(t, "open", t)}
        \/ \E y \in table : \E s : new = (table \ {y}) \cup {ListRow(y.id, s, t)}
        \/ \E y \in table : new = table \ {y}
    <2> DEFINE Moved == UNION {{(table \ {y}) \cup {ListRow(y.id, s, t)} : s \in ALL_INCIDENT_STATUSES} :
                                  y \in {x \in table : x.state # "resolved"}}
               Deleted == {table \ {y} : y \in {x \in table : x.state = "resolved"}}
    <2>1. Changed(table, t) = {table, table \cup {ListRow(t, "open", t)}} \cup Deleted \cup Moved
      BY DEF Changed
    <2>2. new \in Moved => \E y \in table : \E s : new = (table \ {y}) \cup {ListRow(y.id, s, t)}
      OBVIOUS
    <2>3. new \in Deleted => \E y \in table : new = table \ {y}
      OBVIOUS
    <2> HIDE DEF Moved, Deleted
    <2> QED
      BY <2>1, <2>2, <2>3
  <1> QED
    BY <1>2, <1>3, <1>4, <1>5, <1>6, <1>7

\* The walks of the run start with a request for a table.
LEMMA ListInputStart == RulesInit => ListInput
  <1> SUFFICES ASSUME RulesInit PROVE ListInput
    OBVIOUS
  <1>1. topic # "list"
    BY DEF RulesInit
  <1>2. CASE topic = "seed list"
    <2>1. SeedList
      BY <1>2 DEF RulesInit
    <2>2. PICK s \in [1 .. 3 -> ALL_INCIDENT_STATUSES], at \in 1 .. 2, q \in ListQueries :
              input = <<{ListRow(1, s[1], at), ListRow(2, s[2], 1), ListRow(3, s[3], 2)}, q>>
      BY <2>1 DEF SeedList
    <2> DEFINE a == ListRow(1, s[1], at)
               b == ListRow(2, s[2], 1)
               c == ListRow(3, s[3], 2)
    <2>3. /\ a.id = 1 /\ b.id = 2 /\ c.id = 3
          /\ a.at \in 1 .. 2 /\ b.at = 1 /\ c.at = 2
      BY DEF ListRow
    <2> HIDE DEF a, b, c
    <2>4. IsTable({a, b, c})
      <3>1. IsFiniteSet({a, b, c})
        <4>1. IsFiniteSet({a})
          BY FS_Singleton
        <4>2. IsFiniteSet({a} \cup {b})
          BY <4>1, FS_AddElement
        <4>3. IsFiniteSet(({a} \cup {b}) \cup {c})
          BY <4>2, FS_AddElement
        <4>4. {a, b, c} = ({a} \cup {b}) \cup {c}
          OBVIOUS
        <4> QED
          BY <4>3, <4>4
      <3> QED
        BY <2>3, <3>1 DEF IsTable
    <2>5. IsRequest(q)
      <3>1. \A st, net, dev, after, o, l : IsRequest(ListQuery(st, net, dev, after, o, l))
        BY DEF IsRequest, ListQuery
      <3>2. \E st, net, dev, after, o, l : q = ListQuery(st, net, dev, after, o, l)
        BY DEF ListQueries
      <3> QED
        BY <3>1, <3>2
    <2>6. input[1] = {a, b, c} /\ input[2] = q
      BY <2>2 DEF a, b, c
    <2>7. \A x \in {a, b, c} : x.id <= 9 /\ x.at <= 9
      BY <2>3
    <2> QED
      BY <1>1, <2>4, <2>5, <2>6, <2>7 DEF ListInput
  <1> QED
    BY <1>1, <1>2 DEF ListInput

\* Every step reads the page that follows, whatever changed before it.
LEMMA ListInputStep == ListInput /\ [RulesNext]_rulesVars => ListInput'
  <1> SUFFICES ASSUME ListInput, [RulesNext]_rulesVars PROVE ListInput'
    OBVIOUS
  <1>1. CASE AskList
    <2> DEFINE table == input[1]
               q == input[2]
               others == {[q EXCEPT !.limit = 2], [q EXCEPT !.order = "recent"],
                          [q EXCEPT !.net = 1], [q EXCEPT !.after = 1]}
               tables == <<table>>
               pages == ReadPage(table, q, <<>>)
    <2>1. topic = "seed list" /\ topic' = "list"
      BY <1>1 DEF AskList
    <2>2. IsTable(table) /\ IsRequest(q) /\ \A x \in table : x.id <= 9 /\ x.at <= 9
      BY <2>1 DEF ListInput
    <2>3. input' = [tables |-> tables, q |-> q, pages |-> pages, others |-> others]
      BY <1>1 DEF AskList
    <2>4. IsWalk(tables, q, pages)
      BY <2>2, WalkStarts
    <2>5. \A x \in others : IsRequest(x)
      BY <2>2 DEF IsRequest
    <2>6. Len(tables) = 1 /\ DOMAIN tables = {1} /\ tables[1] = table
      OBVIOUS
    <2> HIDE DEF tables, table, pages, others, q
    <2>7. \A i \in DOMAIN tables : \A x \in tables[i] : x.id <= 8 + Len(tables) /\ x.at <= 8 + Len(tables)
      BY <2>2, <2>6
    <2> QED
      BY <2>1, <2>3, <2>4, <2>5, <2>7 DEF ListInput
  <1>2. CASE FollowList
    <2> DEFINE tables == input.tables
               n == Len(tables)
               q == input.q
    <2>1. topic = "list" /\ topic' = "list" /\ FollowsOn(input.pages)
      BY <1>2 DEF FollowList
    <2>2. /\ input = [tables |-> input.tables, q |-> input.q, pages |-> input.pages, others |-> input.others]
          /\ IsWalk(tables, q, input.pages) /\ \A x \in input.others : IsRequest(x)
          /\ \A i \in DOMAIN tables : \A x \in tables[i] : x.id <= 8 + n /\ x.at <= 8 + n
      BY <2>1 DEF ListInput
    <2>3. PICK table \in IF n < 3 THEN Changed(tables[n], 9 + n) ELSE {tables[n]} :
              input' = [input EXCEPT !.tables = Append(@, table), !.pages = ReadPage(table, q, @)]
      BY <1>2 DEF FollowList
    <2> DEFINE later == Append(tables, table)
    <2>4. input' = [tables |-> later, q |-> q, pages |-> ReadPage(table, q, input.pages),
                    others |-> input.others]
      BY <2>2, <2>3
    <2>5. AreTables(tables)
      BY <2>2 DEF IsWalk
    <2>6. /\ n \in Nat /\ n \in DOMAIN tables /\ DOMAIN tables = 1 .. n
          /\ Len(later) = n + 1 /\ DOMAIN later = 1 .. n + 1 /\ later[n + 1] = table
          /\ \A i \in 1 .. n : later[i] = tables[i]
      BY <2>5, Appended DEF AreTables
    <2> HIDE DEF later, n, tables
    <2>7. \A i \in DOMAIN tables : \A x \in tables[i] : x.id \in Int /\ x.at \in Int
      BY <2>5 DEF AreTables, IsTable
    <2>8. \/ table = tables[n]
          \/ /\ IsTable(table)
             /\ \A x \in table : x.id <= 9 + n /\ x.at <= 9 + n /\ (x \in tables[n] \/ x.at = 9 + n)
      <3>1. CASE n < 3
        <4>1. IsTable(tables[n]) /\ \A x \in tables[n] : x.id < 9 + n /\ x.at < 9 + n
          BY <2>2, <2>5, <2>6, <2>7 DEF AreTables
        <4>2. table \in Changed(tables[n], 9 + n) /\ 9 + n \in Int
          BY <2>3, <2>6, <3>1
        <4> QED
          BY <4>1, <4>2, ChangedIs
      <3>2. CASE ~(n < 3)
        BY <2>3, <3>2
      <3> QED
        BY <3>1, <3>2
    <2>9. /\ IsTable(table) /\ \A x \in table : /\ x.id <= 9 + n /\ x.at <= 9 + n
                                                /\ x \in tables[n] \/ x.at = 9 + n
      BY <2>2, <2>5, <2>6, <2>7, <2>8 DEF AreTables
    <2>10. ASSUME NEW i \in DOMAIN tables, NEW x \in tables[i], NEW y \in table, x.id = y.id
           PROVE  x.at <= y.at
      <3>1. CASE y \in tables[n]
        <4>1. i <= n
          BY <2>6
        <4> QED
          BY <2>5, <2>6, <2>10, <3>1, <4>1 DEF AreTables
      <3>2. CASE y.at = 9 + n
        BY <2>2, <2>6, <2>7, <3>2
      <3> QED
        BY <2>9, <3>1, <3>2
    <2>11. IsWalk(later, q, ReadPage(table, q, input.pages))
      BY <2>1, <2>2, <2>9, <2>10, WalkGoesOn DEF later
    <2>12. \A i \in DOMAIN later : \A x \in later[i] : x.id <= 8 + Len(later) /\ x.at <= 8 + Len(later)
      <3>1. ASSUME NEW i \in 1 .. n + 1, NEW x \in later[i] PROVE x.id <= 9 + n /\ x.at <= 9 + n
        <4>1. CASE i \in 1 .. n
          BY <2>2, <2>6, <2>7, <3>1, <4>1
        <4>2. CASE i = n + 1
          BY <2>6, <2>9, <3>1, <4>2
        <4> QED
          BY <2>6, <4>1, <4>2
      <3> QED
        BY <2>6, <3>1
    <2> QED
      BY <2>1, <2>2, <2>4, <2>11, <2>12 DEF ListInput
  <1>3. CASE AskDiagnosis \/ AskTopology \/ AskStory \/ AskCards \/ AskPage \/ AskReport
    <2>1. topic' \notin {"seed list", "list"}
      BY <1>3 DEF AskDiagnosis, AskTopology, AskStory, AskCards, AskPage, AskReport
    <2> QED
      BY <2>1 DEF ListInput
  <1>4. CASE UNCHANGED rulesVars
    BY <1>4 DEF ListInput, rulesVars
  <1> QED
    BY <1>1, <1>2, <1>3, <1>4 DEF RulesNext

\* Whatever changes between the pages, the walks of the run miss nothing
\* (storage/incident_collection.py).
THEOREM WalksOfTheRun ==
    RulesSpec => [](topic = "list" => WalkMissesNothing(input.tables, input.q, input.others, input.pages))
  <1>1. ListInput => (topic = "list" => WalkMissesNothing(input.tables, input.q, input.others, input.pages))
    BY WalksMissNothing DEF ListInput
  <1> QED
    BY <1>1, ListInputStart, ListInputStep, PTL DEF RulesSpec

(***************************************************************************)
(* Pages: badges, their summaries and the networks' decisions              *)
(***************************************************************************)

\* The orders of decisions.
StatusOrders == ToSet(DECISION_STATUS_ORDER)
PriorityOrders == ToSet(DECISION_PRIORITY_ORDER)

\* The first value of an order that occurs comes no later than any that occurs.
LEMMA FirstLeads ==
    ASSUME NEW n \in Nat, NEW order, DOMAIN order = 1 .. n, NEW values,
           NEW v \in ToSet(order), v \in values
    PROVE  /\ FirstOf(order, values) \in values /\ FirstOf(order, values) \in ToSet(order)
           /\ AtLeast(order, FirstOf(order, values), v)
  <1> DEFINE Leads(V, k) == order[k] \in V /\ \A j \in 1 .. k - 1 : order[j] \notin V
             I(V) == {k \in 1 .. n : order[k] \in V}
  <1>1. ASSUME NEW V, NEW i \in 1 .. n, order[i] \in V
        PROVE  \E k \in 1 .. n : Leads(V, k) /\ FirstOf(order, V) = order[k]
    <2>1. I(V) \in SUBSET (1 .. n) /\ I(V) # {}
      BY <1>1
    <2>2. PICK k \in I(V) : \A j \in I(V) : k <= j
      <3> HIDE DEF I
      <3> QED
        BY <2>1, FirstPlace
    <2>3. k \in 1 .. n /\ Leads(V, k)
      BY <2>2
    <2>4. FirstOf(order, V) = order[CHOOSE j \in DOMAIN order : Leads(V, j)]
      BY DEF FirstOf
    <2>5. (CHOOSE j \in DOMAIN order : Leads(V, j)) \in 1 .. n
          /\ Leads(V, CHOOSE j \in DOMAIN order : Leads(V, j))
      <3> HIDE DEF Leads
      <3> QED
        BY <2>3
    <2> HIDE DEF Leads
    <2> QED
      BY <2>4, <2>5
  <1>2. PICK i \in 1 .. n : order[i] = v
    BY DEF ToSet
  <1>3. PICK k \in 1 .. n : Leads(values, k) /\ FirstOf(order, values) = order[k]
    BY <1>1, <1>2
  <1> DEFINE a == FirstOf(order, values)
  <1>4. a \in values /\ a \in ToSet(order)
    BY <1>3 DEF ToSet
  <1>5. PICK m \in 1 .. n : Leads({a, v}, m) /\ FirstOf(order, {a, v}) = order[m]
    BY <1>1, <1>2
  <1>6. m \in 1 .. n /\ order[m] \in values
    BY <1>4, <1>5
  <1>7. k <= m
    BY <1>3, <1>6
  <1>8. m <= k
    BY <1>3, <1>5
  <1>9. FirstOf(order, {a, v}) = a
    BY <1>3, <1>5, <1>7, <1>8
  <1> QED
    BY <1>4, <1>9 DEF AtLeast

\* The first of a first and of others is the first of all.
LEMMA FirstOfFirst ==
    ASSUME NEW n \in Nat, NEW order, DOMAIN order = 1 .. n,
           \A i, j \in 1 .. n : order[i] = order[j] => i = j,
           NEW H, NEW S, NEW v \in ToSet(order), v \in H
    PROVE  AtLeast(order, FirstOf(order, {FirstOf(order, H)} \cup S), v)
  <1> DEFINE o == FirstOf(order, H)
             a == FirstOf(order, {o} \cup S)
             Leads(V, k) == order[k] \in V /\ \A j \in 1 .. k - 1 : order[j] \notin V
  <1>1. o \in H /\ o \in ToSet(order) /\ AtLeast(order, o, v)
    BY FirstLeads
  <1> HIDE DEF o
  <1>2. a \in ToSet(order) /\ AtLeast(order, a, o)
    BY <1>1, FirstLeads
  <1> HIDE DEF a
  <1>3. PICK k \in 1 .. n : order[k] = a
    BY <1>2 DEF ToSet
  <1>4. PICK i \in 1 .. n : order[i] = o
    BY <1>1 DEF ToSet
  <1>5. PICK m \in 1 .. n : order[m] = v
    BY DEF ToSet
  <1>6. ASSUME NEW x \in 1 .. n, NEW y \in 1 .. n
        PROVE  AtLeast(order, order[x], order[y]) <=> x <= y
    <2> DEFINE V == {order[x], order[y]}
               least == IF x <= y THEN x ELSE y
    <2>1. least \in DOMAIN order /\ Leads(V, least)
      OBVIOUS
    <2>2. \A j \in DOMAIN order : Leads(V, j) => j = least
      <3>1. ASSUME NEW j \in 1 .. n, Leads(V, j) PROVE j = least
        <4>1. j = x \/ j = y
          BY <3>1
        <4>2. least \notin 1 .. j - 1
          BY <3>1, <2>1
        <4>3. j \notin 1 .. least - 1
          BY <3>1, <2>1
        <4> QED
          BY <4>1, <4>2, <4>3
      <3> QED
        BY <3>1
    <2>3. FirstOf(order, V) = order[CHOOSE j \in DOMAIN order : Leads(V, j)]
      BY DEF FirstOf
    <2> HIDE DEF Leads, V
    <2>4. (CHOOSE j \in DOMAIN order : Leads(V, j)) = least
      BY <2>1, <2>2
    <2>5. FirstOf(order, V) = order[least]
      BY <2>3, <2>4
    <2> QED
      BY <2>5 DEF AtLeast, V
  <1>7. i <= m /\ k <= i
    BY <1>1, <1>2, <1>3, <1>4, <1>5, <1>6
  <1>8. k <= m
    BY <1>7
  <1>9. AtLeast(order, a, v)
    BY <1>3, <1>5, <1>6, <1>8
  <1> QED
    BY <1>9 DEF a, o

\* The orders are lists without repetition.
LEMMA OrdersAre ==
    /\ DOMAIN DECISION_STATUS_ORDER = 1 .. 8 /\ DOMAIN DECISION_PRIORITY_ORDER = 1 .. 4
    /\ \A i, j \in 1 .. 8 : DECISION_STATUS_ORDER[i] = DECISION_STATUS_ORDER[j] => i = j
    /\ \A i, j \in 1 .. 4 : DECISION_PRIORITY_ORDER[i] = DECISION_PRIORITY_ORDER[j] => i = j
    /\ {"review_first", "worth_reviewing", "improve_data_coverage", "data_unavailable"} \subseteq StatusOrders
    /\ {"high", "medium", "low", "none"} \subseteq PriorityOrders
  <1>1. DOMAIN DECISION_STATUS_ORDER = 1 .. 8 /\ DOMAIN DECISION_PRIORITY_ORDER = 1 .. 4
    BY DEF DECISION_STATUS_ORDER, DECISION_PRIORITY_ORDER
  <1>2. \A i, j \in 1 .. 8 : DECISION_STATUS_ORDER[i] = DECISION_STATUS_ORDER[j] => i = j
    BY DEF DECISION_STATUS_ORDER
  <1>3. \A i, j \in 1 .. 4 : DECISION_PRIORITY_ORDER[i] = DECISION_PRIORITY_ORDER[j] => i = j
    BY DEF DECISION_PRIORITY_ORDER
  <1>4. /\ DECISION_STATUS_ORDER[1] = "review_first" /\ DECISION_STATUS_ORDER[2] = "worth_reviewing"
        /\ DECISION_STATUS_ORDER[3] = "improve_data_coverage" /\ DECISION_STATUS_ORDER[8] = "data_unavailable"
        /\ DECISION_PRIORITY_ORDER[1] = "high" /\ DECISION_PRIORITY_ORDER[2] = "medium"
        /\ DECISION_PRIORITY_ORDER[3] = "low" /\ DECISION_PRIORITY_ORDER[4] = "none"
    BY DEF DECISION_STATUS_ORDER, DECISION_PRIORITY_ORDER
  <1>5. \A i \in 1 .. 8 : DECISION_STATUS_ORDER[i] \in StatusOrders
    BY <1>1 DEF StatusOrders, ToSet
  <1>6. \A i \in 1 .. 4 : DECISION_PRIORITY_ORDER[i] \in PriorityOrders
    BY <1>1 DEF PriorityOrders, ToSet
  <1>7. 1 \in 1 .. 8 /\ 2 \in 1 .. 8 /\ 3 \in 1 .. 8 /\ 8 \in 1 .. 8
    OBVIOUS
  <1>8. 1 \in 1 .. 4 /\ 2 \in 1 .. 4 /\ 3 \in 1 .. 4 /\ 4 \in 1 .. 4
    OBVIOUS
  <1>9. {"review_first", "worth_reviewing", "improve_data_coverage", "data_unavailable"} \subseteq StatusOrders
    BY <1>4, <1>5, <1>7
  <1>10. {"high", "medium", "low", "none"} \subseteq PriorityOrders
    BY <1>4, <1>6, <1>8
  <1> QED
    BY <1>1, <1>2, <1>3, <1>9, <1>10

\* Device rows: the key is the table's, a badge is a decision.
AreRows(rows) ==
    /\ IsFiniteSet(rows) /\ \A x, y \in rows : Key(x) = Key(y) => x = y
    /\ \A x \in rows : x.badge.status \in StatusOrders /\ x.badge.priority \in PriorityOrders

\* A badge for every row, and as many as there are rows.
LEMMA BadgesAre ==
    ASSUME NEW rows, AreRows(rows)
    PROVE  LET badges == device_decision_badges_for_devices(rows) IN
           /\ DOMAIN badges = {Key(x) : x \in rows}
           /\ \A x \in rows : badges[Key(x)] = x.badge
           /\ IsFiniteSet(DOMAIN badges) /\ Cardinality(DOMAIN badges) = Cardinality(rows)
  <1> DEFINE badges == device_decision_badges_for_devices(rows)
             keys == {Key(x) : x \in rows}
             key == [x \in rows |-> Key(x)]
  <1>1. DOMAIN badges = keys /\ \A k \in keys : badges[k] = (CHOOSE x \in rows : Key(x) = k).badge
    BY DEF device_decision_badges_for_devices
  <1>2. ASSUME NEW x \in rows PROVE badges[Key(x)] = x.badge
    <2>1. (CHOOSE y \in rows : Key(y) = Key(x)) = x
      BY DEF AreRows
    <2> QED
      BY <1>1, <2>1
  <1>3. IsFiniteSet(keys) /\ Cardinality(keys) = Cardinality(rows)
    <2>1. key \in [rows -> keys] /\ \A x \in rows : key[x] = Key(x)
      OBVIOUS
    <2>2. \A x, y \in rows : key[x] = key[y] => x = y
      BY DEF AreRows
    <2>3. \A k \in keys : \E x \in rows : key[x] = k
      OBVIOUS
    <2>4. IsFiniteSet(rows)
      BY DEF AreRows
    <2> HIDE DEF key, keys
    <2> QED
      BY <2>1, <2>2, <2>3, <2>4, SameCount
  <1> QED
    BY <1>1, <1>2, <1>3

\* What s, a summary of rows and w warnings, says: it counts each once, leads with the
\* most urgent, and is one that Home Assistant takes.
Sums(s, rows, w) ==
    /\ s.subjects = Cardinality(rows) /\ s.warnings = w
    /\ rows = {} => s.overall = "data_unavailable" /\ s.highest = "none"
    /\ rows # {} => /\ s.overall = FirstOf(DECISION_STATUS_ORDER, {x.badge.status : x \in rows})
                    /\ s.highest = FirstOf(DECISION_PRIORITY_ORDER, {x.badge.priority : x \in rows})
    /\ s.overall \in StatusOrders /\ s.highest \in PriorityOrders
    /\ validate_decision_count_summary(s)

\* A summary of rows says so.
LEMMA SummaryIs ==
    ASSUME NEW rows, AreRows(rows), NEW w
    PROVE  Sums(decision_count_summary_from_badges(device_decision_badges_for_devices(rows), w), rows, w)
  <1> DEFINE b == device_decision_badges_for_devices(rows)
             D == DOMAIN b
             s == decision_count_summary_from_badges(b, w)
  <1>1. /\ D = {Key(x) : x \in rows} /\ \A x \in rows : b[Key(x)] = x.badge
        /\ IsFiniteSet(D) /\ Cardinality(D) = Cardinality(rows)
    BY BadgesAre
  <1>2. \A d \in D : b[d].status \in StatusOrders /\ b[d].priority \in PriorityOrders
    BY <1>1 DEF AreRows
  <1> DEFINE St == {b[d].status : d \in D}
             Pr == {b[d].priority : d \in D}
  <1>3. St = {x.badge.status : x \in rows} /\ Pr = {x.badge.priority : x \in rows}
    BY <1>1
  <1> HIDE DEF b
  <1>4. CASE rows = {}
    <2>1. D = {} /\ Cardinality(rows) = 0
      BY <1>1, <1>4, FS_EmptySet
    <2>2. s = [subjects |-> 0, overall |-> "data_unavailable", highest |-> "none",
               statuses |-> <<>>, priorities |-> <<>>, warnings |-> w]
      BY <2>1 DEF decision_count_summary_from_badges
    <2>3. s.overall \in StatusOrders /\ s.highest \in PriorityOrders
      BY <2>2, OrdersAre
    <2>4. validate_decision_count_summary(s)
      <3>1. DOMAIN s.statuses = {} /\ DOMAIN s.priorities = {}
        BY <2>2
      <3> HIDE DEF s
      <3> QED
        BY <2>2, <2>3, <3>1 DEF validate_decision_count_summary, StatusOrders, PriorityOrders
    <2> QED
      BY <1>4, <2>1, <2>2, <2>3, <2>4 DEF b, Sums
  <1>5. CASE rows # {}
    <2> DEFINE statuses == [v \in St |-> Cardinality({d \in D : b[d].status = v})]
               priorities == [v \in Pr |-> Cardinality({d \in D : b[d].priority = v})]
    <2>1. D # {}
      BY <1>1, <1>5
    <2>2. s = [subjects |-> Cardinality(D), overall |-> FirstOf(DECISION_STATUS_ORDER, St),
               highest |-> FirstOf(DECISION_PRIORITY_ORDER, Pr),
               statuses |-> statuses, priorities |-> priorities, warnings |-> w]
      BY <2>1 DEF decision_count_summary_from_badges
    <2>3. Cardinality(D) # 0
      BY <1>1, <2>1, FS_EmptySet
    <2>4. \A X \in SUBSET D : X # {} => Cardinality(X) > 0
      <3>1. ASSUME NEW X \in SUBSET D, X # {} PROVE Cardinality(X) > 0
        <4>1. IsFiniteSet(X)
          BY <1>1, FS_Subset
        <4>2. Cardinality(X) \in Nat /\ Cardinality(X) # 0
          BY <3>1, <4>1, FS_EmptySet, FS_CardinalityType
        <4> QED
          BY <4>2
      <3> QED
        BY <3>1
    <2>5. SumOfCounts(statuses) = Cardinality(D)
      <3> DEFINE g == [d \in D |-> b[d].status]
      <3>1. g \in [D -> St] /\ \A d \in D : g[d] = b[d].status
        OBVIOUS
      <3>2. DOMAIN statuses = St /\ \A v \in St : statuses[v] = Cardinality({d \in D : g[d] = v})
        OBVIOUS
      <3>3. IsFiniteSet(D)
        BY <1>1
      <3> HIDE DEF g, statuses, St, D
      <3> QED
        BY <3>1, <3>2, <3>3, SumOfFibres
    <2>6. SumOfCounts(priorities) = Cardinality(D)
      <3> DEFINE g == [d \in D |-> b[d].priority]
      <3>1. g \in [D -> Pr] /\ \A d \in D : g[d] = b[d].priority
        OBVIOUS
      <3>2. DOMAIN priorities = Pr /\ \A v \in Pr : priorities[v] = Cardinality({d \in D : g[d] = v})
        OBVIOUS
      <3>3. IsFiniteSet(D)
        BY <1>1
      <3> HIDE DEF g, priorities, Pr, D
      <3> QED
        BY <3>1, <3>2, <3>3, SumOfFibres
    <2>7. {v \in DOMAIN statuses : statuses[v] > 0} = St
      <3>1. ASSUME NEW v \in St PROVE statuses[v] > 0
        <4>1. {d \in D : b[d].status = v} # {}
          OBVIOUS
        <4> QED
          BY <2>4, <4>1
      <3>2. DOMAIN statuses = St
        OBVIOUS
      <3> HIDE DEF statuses
      <3> QED
        BY <3>1, <3>2
    <2>8. {v \in DOMAIN priorities : priorities[v] > 0} = Pr
      <3>1. ASSUME NEW v \in Pr PROVE priorities[v] > 0
        <4>1. {d \in D : b[d].priority = v} # {}
          OBVIOUS
        <4> QED
          BY <2>4, <4>1
      <3>2. DOMAIN priorities = Pr
        OBVIOUS
      <3> HIDE DEF priorities
      <3> QED
        BY <3>1, <3>2
    <2>9. St \subseteq StatusOrders /\ Pr \subseteq PriorityOrders /\ St # {} /\ Pr # {}
      BY <1>2, <2>1
    <2>10. DOMAIN statuses = St /\ DOMAIN priorities = Pr
      OBVIOUS
    <2> HIDE DEF statuses, priorities, St, Pr, D
    <2>11. FirstOf(DECISION_STATUS_ORDER, St) \in StatusOrders
           /\ FirstOf(DECISION_PRIORITY_ORDER, Pr) \in PriorityOrders
      <3>1. PICK v \in St : v \in StatusOrders
        BY <2>9
      <3>2. PICK p \in Pr : p \in PriorityOrders
        BY <2>9
      <3> QED
        BY <3>1, <3>2, OrdersAre, FirstLeads DEF StatusOrders, PriorityOrders
    <2>12. /\ s.subjects = Cardinality(D) /\ s.warnings = w
           /\ s.overall = FirstOf(DECISION_STATUS_ORDER, St)
           /\ s.highest = FirstOf(DECISION_PRIORITY_ORDER, Pr)
           /\ s.statuses = statuses /\ s.priorities = priorities
      BY <2>2
    <2> HIDE DEF s
    <2>13. validate_decision_count_summary(s)
      BY <2>3, <2>5, <2>6, <2>7, <2>8, <2>9, <2>10, <2>11, <2>12
         DEF validate_decision_count_summary, StatusOrders, PriorityOrders
    <2>14. Sums(s, rows, w)
      BY <1>1, <1>3, <1>5, <2>11, <2>12, <2>13 DEF Sums
    <2> QED
      BY <2>14 DEF s, b
  <1> QED
    BY <1>4, <1>5

(***************************************************************************)
(* Pages: the overview's short lists                                       *)
(***************************************************************************)

\* Something is cut from a list unless there is nothing, or no room for any.
LEMMA CutIsEmpty ==
    ASSUME NEW S, NEW order, NEW upTo, Lists(order, S, upTo), NEW N \in Nat
    PROVE  /\ RangeOf(NewestOf(order, N)) # {} => N >= 1
           /\ S # {} /\ N >= 1 => RangeOf(NewestOf(order, N)) # {}
  <1> DEFINE cut == RangeOf(NewestOf(order, N))
  <1>1. cut = {x \in S : Cardinality(upTo[x]) <= N}
    BY CutFacts
  <1>2. \A x \in S : Cardinality(upTo[x]) \in Int /\ Cardinality(upTo[x]) >= 1
    BY DEF Lists
  <1> HIDE DEF cut
  <1>3. cut # {} => N >= 1
    BY <1>1, <1>2
  <1>4. ASSUME S # {}, N >= 1 PROVE cut # {}
    <2>1. PICK x \in S : TRUE
      BY <1>4
    <2>2. Cardinality(S) \in Nat /\ Cardinality(S) >= 1
      BY <2>1 DEF Lists
    <2>3. 1 \in 1 .. Cardinality(S)
      BY <2>2
    <2>4. order[1] \in S /\ Cardinality(upTo[order[1]]) = 1
      BY <2>3 DEF Lists
    <2> QED
      BY <1>1, <1>4, <2>4
  <1> QED
    BY <1>3, <1>4 DEF cut

\* Finitely many finite lists, one for every network.
LEMMA FiniteFamily ==
    ASSUME NEW nets, IsFiniteSet(nets), NEW of, \A n \in nets : IsFiniteSet(of[n])
    PROVE  IsFiniteSet(UNION {of[n] : n \in nets})
  <1> DEFINE sets == {of[n] : n \in nets}
             f == [n \in nets |-> of[n]]
  <1>1. f \in Surjection(nets, sets)
    BY DEF Surjection
  <1>2. IsFiniteSet(sets)
    BY <1>1, FS_Surjection
  <1>3. \A s \in sets : IsFiniteSet(s)
    OBVIOUS
  <1> HIDE DEF sets
  <1> QED
    BY <1>2, <1>3, FS_UNION DEF sets

\* The cards of the networks.
AreCards(nets, cards) ==
    /\ IsFiniteSet(nets) /\ \A n \in nets : n \in Int
    /\ \A n \in nets : /\ IsFiniteSet(cards[n])
                       /\ \A c \in cards[n] : c.id \in Int /\ c.score \in Int /\ c.at \in Int \cup {Missing}
                       /\ \A c, e \in cards[n] : c.id = e.id => c = e

\* The priorities before they are cut, and their sort key.
AllPriorities(nets, cards) == UNION {{[net |-> n, card |-> c] : c \in cards[n]} : n \in nets}
PriorityKey(x) == <<x.card.score, IF x.card.at = Missing THEN -1 ELSE x.card.at, x.net, x.card.id>>
NotAfter(all, x) == {y \in all : ~LexLess(PriorityKey(y), PriorityKey(x))}

\* Those stay that have few enough before them.
LEMMA PrioritiesAre ==
    ASSUME NEW nets, NEW cards, AreCards(nets, cards)
    PROVE  LET all == AllPriorities(nets, cards) IN
           /\ IsFiniteSet(all)
           /\ compose_dashboard_investigation_priorities(nets, cards)
                 = {x \in all : Cardinality(NotAfter(all, x)) <= PriorityLimit}
  <1> DEFINE all == AllPriorities(nets, cards)
             of == [n \in nets |-> {[net |-> n, card |-> c] : c \in cards[n]}]
             key == [x \in all |-> PriorityKey(x)]
             order == InOrder(DownToKey(all, key))
  <1>1. all = UNION {of[n] : n \in nets}
    BY DEF AllPriorities
  <1>2. \A n \in nets : IsFiniteSet(of[n])
    <2>1. ASSUME NEW n \in nets PROVE IsFiniteSet(of[n])
      <3> DEFINE f == [c \in cards[n] |-> [net |-> n, card |-> c]]
      <3>1. IsFiniteSet(cards[n])
        BY DEF AreCards
      <3>2. f \in Surjection(cards[n], of[n])
        BY DEF Surjection
      <3> QED
        BY <3>1, <3>2, FS_Surjection
    <2> QED
      BY <2>1
  <1>3. IsFiniteSet(all)
    <2>1. IsFiniteSet(nets)
      BY DEF AreCards
    <2> HIDE DEF of, all
    <2> QED
      BY <1>1, <1>2, <2>1, FiniteFamily
  <1>4. \A x \in all : /\ x.net \in nets /\ x.card \in cards[x.net] /\ x = [net |-> x.net, card |-> x.card]
    BY DEF AllPriorities
  <1>5. \A x \in all : PriorityKey(x) \in SortKeys(4)
    <2>1. ASSUME NEW x \in all PROVE PriorityKey(x) \in SortKeys(4)
      <3>1. /\ x.net \in Int /\ x.card.id \in Int /\ x.card.score \in Int
            /\ x.card.at \in Int \cup {Missing}
        BY <1>4 DEF AreCards
      <3> DEFINE at == IF x.card.at = Missing THEN -1 ELSE x.card.at
      <3>2. at \in Int
        BY <3>1
      <3> HIDE DEF at
      <3>3. <<x.card.score, at, x.net, x.card.id>> \in [1 .. 4 -> Int]
        BY <3>1, <3>2
      <3> QED
        BY <3>3 DEF PriorityKey, SortKeys, at
    <2> QED
      BY <2>1
  <1>6. \A x, y \in all : PriorityKey(x) = PriorityKey(y) => x = y
    <2>1. ASSUME NEW x \in all, NEW y \in all, PriorityKey(x) = PriorityKey(y) PROVE x = y
      <3>1. x.net = y.net /\ x.card.id = y.card.id
        <4>1. PriorityKey(x)[3] = PriorityKey(y)[3] /\ PriorityKey(x)[4] = PriorityKey(y)[4]
          BY <2>1
        <4> QED
          BY <4>1 DEF PriorityKey
      <3>2. x.card = y.card
        BY <1>4, <3>1 DEF AreCards
      <3> QED
        BY <1>4, <3>1, <3>2
    <2> QED
      BY <2>1
  <1>7. SortedBy(all, LAMBDA x, y : LexLess(PriorityKey(y), PriorityKey(x))) = order
    BY DEF SortedBy, DownToKey
  <1>8. compose_dashboard_investigation_priorities(nets, cards) = RangeOf(NewestOf(order, PriorityLimit))
    <2> HIDE DEF order
    <2> QED
      BY <1>7 DEF compose_dashboard_investigation_priorities, TopOf, AllPriorities, PriorityKey
  <1>9. key \in [all -> SortKeys(4)] /\ \A x \in all : key[x] = PriorityKey(x)
    BY <1>5
  <1>10. \A x \in all : DownToKey(all, key)[x] = NotAfter(all, x)
    BY DEF DownToKey, NotAfter
  <1> HIDE DEF key, all
  <1>11. \A x, y \in all : key[x] = key[y] => x = y
    BY <1>6, <1>9
  <1>12. Lists(order, all, DownToKey(all, key))
    BY <1>3, <1>9, <1>11, SortedDown
  <1>13. RangeOf(NewestOf(order, PriorityLimit))
            = {x \in all : Cardinality(DownToKey(all, key)[x]) <= PriorityLimit}
    <2> HIDE DEF order
    <2> QED
      BY <1>12, CutFacts, OverviewAssumption
  <1> QED
    BY <1>3, <1>8, <1>10, <1>13 DEF all

\* What the overview shows of a network's priorities, the network's own page shows too.
LEMMA OwnPriorities ==
    ASSUME NEW nets, NEW cards, AreCards(nets, cards), NEW n \in nets
    PROVE  \A p \in compose_dashboard_investigation_priorities(nets, cards) :
              p.net = n => p \in compose_dashboard_investigation_priorities({n}, cards)
  <1> DEFINE all == AllPriorities(nets, cards)
             own == AllPriorities({n}, cards)
  <1>1. AreCards({n}, cards)
    <2>1. IsFiniteSet({n})
      BY FS_Singleton
    <2> QED
      BY <2>1 DEF AreCards
  <1>2. own \subseteq all /\ \A x \in all : x.net = n => x \in own
    BY DEF AllPriorities
  <1>3. /\ IsFiniteSet(all) /\ IsFiniteSet(own)
        /\ compose_dashboard_investigation_priorities(nets, cards)
              = {x \in all : Cardinality(NotAfter(all, x)) <= PriorityLimit}
        /\ compose_dashboard_investigation_priorities({n}, cards)
              = {x \in own : Cardinality(NotAfter(own, x)) <= PriorityLimit}
    BY <1>1, PrioritiesAre
  <1> HIDE DEF all, own
  <1>4. ASSUME NEW x \in all, x.net = n, Cardinality(NotAfter(all, x)) <= PriorityLimit
        PROVE  x \in own /\ Cardinality(NotAfter(own, x)) <= PriorityLimit
    <2>1. NotAfter(own, x) \subseteq NotAfter(all, x) /\ NotAfter(all, x) \subseteq all
      BY <1>2 DEF NotAfter
    <2>2. IsFiniteSet(NotAfter(all, x))
      BY <1>3, <2>1, FS_Subset
    <2>3. /\ Cardinality(NotAfter(own, x)) <= Cardinality(NotAfter(all, x))
          /\ IsFiniteSet(NotAfter(own, x))
      BY <2>1, <2>2, FS_Subset
    <2>4. Cardinality(NotAfter(own, x)) \in Nat /\ Cardinality(NotAfter(all, x)) \in Nat
      BY <2>2, <2>3, FS_CardinalityType
    <2> QED
      BY <1>2, <1>4, <2>3, <2>4, OverviewAssumption
  <1> QED
    BY <1>3, <1>4

\* The labels shown of a network, and the warnings before they are cut.
ShownOn(n, rows, facts, relevant) ==
    LET labels == build_network_topology_coverage(facts[n], RowsOf(rows, n) # {}) \cap ToSet(WarningOrder)
    IN IF n \in relevant THEN labels ELSE labels \ {"route_hints_unavailable"}
AllWarnings(nets, rows, facts, relevant) ==
    UNION {{[net |-> n, label |-> l] : l \in ShownOn(n, rows, facts, relevant)} : n \in nets}

\* The rank tells the labels apart.
LEMMA WarningRanks ==
    /\ ToSet(WarningOrder) = {"availability_tracking_off", "snapshot_stale", "route_hints_unavailable"}
    /\ \A l \in ToSet(WarningOrder) : WarningRank(l) \in 1 .. 3 /\ WarningOrder[WarningRank(l)] = l
  <1>1. DOMAIN WarningOrder = 1 .. 3
    BY DEF WarningOrder
  <1>2. ToSet(WarningOrder) = {WarningOrder[1], WarningOrder[2], WarningOrder[3]}
    BY <1>1 DEF ToSet
  <1>3. \A l \in ToSet(WarningOrder) : WarningRank(l) \in 1 .. 3 /\ WarningOrder[WarningRank(l)] = l
    <2>1. ASSUME NEW l \in ToSet(WarningOrder)
          PROVE  WarningRank(l) \in 1 .. 3 /\ WarningOrder[WarningRank(l)] = l
      <3>1. \E i \in 1 .. 3 : WarningOrder[i] = l
        BY <1>2
      <3> QED
        BY <1>1, <3>1 DEF WarningRank
    <2> QED
      BY <2>1
  <1> QED
    BY <1>2, <1>3 DEF WarningOrder

\* What is warned of: some of all the warnings, and nothing only where there is
\* nothing or no room.
LEMMA WarningsAre ==
    ASSUME NEW nets, IsFiniteSet(nets), \A n \in nets : n \in Int, NEW rows, NEW facts, NEW relevant
    PROVE  LET all == AllWarnings(nets, rows, facts, relevant)
               cut == compose_dashboard_coverage_warnings(nets, rows, facts, relevant) IN
           /\ cut \subseteq all /\ IsFiniteSet(cut)
           /\ \A w \in cut : w.net \in nets
           /\ cut # {} => WarningLimit >= 1
           /\ all # {} /\ WarningLimit >= 1 => cut # {}
  <1> DEFINE Key2(x) == <<WarningRank(x.label), x.net>>
             all == AllWarnings(nets, rows, facts, relevant)
             of == [n \in nets |-> {[net |-> n, label |-> l] : l \in ShownOn(n, rows, facts, relevant)}]
             key == [x \in all |-> Key2(x)]
             order == InOrder(UpToKey(all, key))
             cut == compose_dashboard_coverage_warnings(nets, rows, facts, relevant)
  <1>1. all = UNION {of[n] : n \in nets}
    BY DEF AllWarnings
  <1>2. \A n \in nets : ShownOn(n, rows, facts, relevant) \subseteq ToSet(WarningOrder)
    BY DEF ShownOn
  <1>3. \A n \in nets : IsFiniteSet(of[n])
    <2>1. ASSUME NEW n \in nets PROVE IsFiniteSet(of[n])
      <3> DEFINE L == ShownOn(n, rows, facts, relevant)
                 f == [l \in L |-> [net |-> n, label |-> l]]
      <3>1. IsFiniteSet(ToSet(WarningOrder))
        <4>1. IsFiniteSet({"availability_tracking_off"})
          BY FS_Singleton
        <4>2. IsFiniteSet({"availability_tracking_off"} \cup {"snapshot_stale"})
          BY <4>1, FS_AddElement
        <4>3. IsFiniteSet(({"availability_tracking_off"} \cup {"snapshot_stale"}) \cup {"route_hints_unavailable"})
          BY <4>2, FS_AddElement
        <4>4. ToSet(WarningOrder)
                 = ({"availability_tracking_off"} \cup {"snapshot_stale"}) \cup {"route_hints_unavailable"}
          BY WarningRanks
        <4> QED
          BY <4>3, <4>4
      <3>2. IsFiniteSet(L)
        BY <1>2, <3>1, FS_Subset
      <3>3. f \in Surjection(L, of[n])
        BY DEF Surjection
      <3> HIDE DEF L, f, of
      <3> QED
        BY <3>2, <3>3, FS_Surjection
    <2> QED
      BY <2>1
  <1>4. IsFiniteSet(all)
    <2> HIDE DEF of, all
    <2> QED
      BY <1>1, <1>3, FiniteFamily
  <1>5. \A x \in all : /\ x.net \in nets /\ x.label \in ToSet(WarningOrder)
                       /\ x = [net |-> x.net, label |-> x.label]
    BY <1>2 DEF AllWarnings
  <1>6. \A x \in all : Key2(x) \in SortKeys(2)
    <2>1. ASSUME NEW x \in all PROVE Key2(x) \in SortKeys(2)
      <3>1. WarningRank(x.label) \in Int /\ x.net \in Int
        BY <1>5, WarningRanks
      <3> QED
        BY <3>1 DEF SortKeys
    <2> QED
      BY <2>1
  <1>7. \A x, y \in all : Key2(x) = Key2(y) => x = y
    <2>1. ASSUME NEW x \in all, NEW y \in all, Key2(x) = Key2(y) PROVE x = y
      <3>1. WarningRank(x.label) = WarningRank(y.label) /\ x.net = y.net
        BY <2>1
      <3>2. x.label = y.label
        BY <1>5, <3>1, WarningRanks
      <3> QED
        BY <1>5, <3>1, <3>2
    <2> QED
      BY <2>1
  <1>8. SortedBy(all, LAMBDA x, y : LexLess(<<WarningRank(x.label), x.net>>, <<WarningRank(y.label), y.net>>))
           = order
    BY DEF SortedBy, UpToKey
  <1>9. cut = RangeOf(NewestOf(order, WarningLimit))
    <2> HIDE DEF order
    <2> QED
      BY <1>8 DEF compose_dashboard_coverage_warnings, TopOf, AllWarnings, ShownOn
  <1>10. key \in [all -> SortKeys(2)] /\ \A x \in all : key[x] = Key2(x)
    BY <1>6
  <1> HIDE DEF key, all, Key2, cut
  <1>11. \A x, y \in all : key[x] = key[y] => x = y
    BY <1>7, <1>10
  <1>12. Lists(order, all, UpToKey(all, key))
    BY <1>4, <1>10, <1>11, SortedUp
  <1> HIDE DEF order
  <1>13. /\ cut = {x \in all : Cardinality(UpToKey(all, key)[x]) <= WarningLimit}
         /\ cut # {} => WarningLimit >= 1
         /\ all # {} /\ WarningLimit >= 1 => cut # {}
    BY <1>9, <1>12, CutFacts, CutIsEmpty, OverviewAssumption
  <1>14. cut \subseteq all
    BY <1>13
  <1>15. IsFiniteSet(cut)
    BY <1>4, <1>14, FS_Subset
  <1> QED
    BY <1>5, <1>13, <1>14, <1>15 DEF all, cut

\* A warning of a network in the overview: the network's own page warns too.
LEMMA OwnWarnings ==
    ASSUME NEW nets, IsFiniteSet(nets), \A n \in nets : n \in Int, NEW rows, NEW facts,
           NEW relevant, NEW more, NEW n \in nets, n \in relevant => n \in more,
           NEW w \in compose_dashboard_coverage_warnings(nets, rows, facts, relevant), w.net = n
    PROVE  \E v \in compose_dashboard_coverage_warnings({n}, RowsOf(rows, n), facts, more) : v.net = n
  <1> DEFINE mine == RowsOf(rows, n)
             own == compose_dashboard_coverage_warnings({n}, mine, facts, more)
  <1>1. RowsOf(mine, n) = mine
    BY DEF RowsOf
  <1>2. ShownOn(n, rows, facts, relevant) \subseteq ShownOn(n, mine, facts, more)
    <2>1. ShownOn(n, rows, facts, relevant) \subseteq ShownOn(n, rows, facts, more)
      BY DEF ShownOn
    <2>2. ShownOn(n, rows, facts, more) = ShownOn(n, mine, facts, more)
      BY <1>1 DEF ShownOn
    <2> QED
      BY <2>1, <2>2
  <1>3. w \in AllWarnings(nets, rows, facts, relevant) /\ WarningLimit >= 1
    BY WarningsAre
  <1>4. w.label \in ShownOn(n, rows, facts, relevant)
    BY <1>3 DEF AllWarnings
  <1>5. AllWarnings({n}, mine, facts, more) # {}
    <2>1. w.label \in ShownOn(n, mine, facts, more)
      BY <1>2, <1>4
    <2> HIDE DEF mine
    <2>2. [net |-> n, label |-> w.label] \in AllWarnings({n}, mine, facts, more)
      BY <2>1 DEF AllWarnings
    <2> QED
      BY <2>2
  <1>6. IsFiniteSet({n}) /\ \A m \in {n} : m \in Int
    BY FS_Singleton
  <1>7. own # {} /\ \A v \in own : v.net \in {n}
    BY <1>3, <1>5, <1>6, WarningsAre
  <1> QED
    BY <1>7

(***************************************************************************)
(* Pages: a network's decision and its severity                            *)
(***************************************************************************)

\* The signals that promote a network's decision.
StatusSignals(w, incident, reviewFirst) ==
    (IF incident THEN {"worth_reviewing"} ELSE {}) \cup (IF reviewFirst THEN {"review_first"} ELSE {})
    \cup (IF w > 0 THEN {"improve_data_coverage"} ELSE {})
PrioritySignals(w, incident, reviewFirst) ==
    (IF incident THEN {"medium"} ELSE {}) \cup (IF reviewFirst THEN {"high"} ELSE {})
    \cup (IF w > 0 THEN {"low"} ELSE {})

\* The parts of a pair that is there only sometimes.
LEMMA PartsOfPair ==
    ASSUME NEW b, NEW u, NEW v
    PROVE  /\ {x[1] : x \in IF b THEN {<<u, v>>} ELSE {}} = IF b THEN {u} ELSE {}
           /\ {x[2] : x \in IF b THEN {<<u, v>>} ELSE {}} = IF b THEN {v} ELSE {}
  <1> DEFINE t == <<u, v>>
  <1>1. t[1] = u /\ t[2] = v
    OBVIOUS
  <1> HIDE DEF t
  <1>2. {x[1] : x \in {t}} = {t[1]} /\ {x[2] : x \in {t}} = {t[2]}
    OBVIOUS
  <1>3. CASE b
    <2>1. (IF b THEN {t} ELSE {}) = {t} /\ (IF b THEN {u} ELSE {}) = {u} /\ (IF b THEN {v} ELSE {}) = {v}
      BY <1>3
    <2> QED
      BY <1>1, <1>2, <2>1 DEF t
  <1>4. CASE ~b
    <2>1. (IF b THEN {t} ELSE {}) = {} /\ (IF b THEN {u} ELSE {}) = {} /\ (IF b THEN {v} ELSE {}) = {}
      BY <1>4
    <2>2. {x[1] : x \in {}} = {} /\ {x[2] : x \in {}} = {}
      OBVIOUS
    <2> QED
      BY <2>1, <2>2 DEF t
  <1> QED
    BY <1>3, <1>4

\* A decision is the first of the fold of the badges and of the signals.
LEMMA DecisionIs ==
    ASSUME NEW s, NEW w, NEW incident, NEW reviewFirst
    PROVE  LET d == compose_network_decision(s, w, incident, reviewFirst) IN
           /\ d.status = FirstOf(DECISION_STATUS_ORDER, {s.overall} \cup StatusSignals(w, incident, reviewFirst))
           /\ d.priority = FirstOf(DECISION_PRIORITY_ORDER,
                                   {s.highest} \cup PrioritySignals(w, incident, reviewFirst))
  <1> DEFINE A == IF incident THEN {<<"worth_reviewing", "medium">>} ELSE {}
             B == IF reviewFirst THEN {<<"review_first", "high">>} ELSE {}
             C == IF w > 0 THEN {<<"improve_data_coverage", "low">>} ELSE {}
             signals == A \cup B \cup C
  <1>1. compose_network_decision(s, w, incident, reviewFirst) =
           [status |-> FirstOf(DECISION_STATUS_ORDER, {s.overall} \cup {x[1] : x \in signals}),
            priority |-> FirstOf(DECISION_PRIORITY_ORDER, {s.highest} \cup {x[2] : x \in signals})]
    BY DEF compose_network_decision
  <1> DEFINE d == compose_network_decision(s, w, incident, reviewFirst)
             S == {x[1] : x \in signals}
             P == {x[2] : x \in signals}
  <1>2. S = StatusSignals(w, incident, reviewFirst) /\ P = PrioritySignals(w, incident, reviewFirst)
    <2>1. {x[1] : x \in A} = IF incident THEN {"worth_reviewing"} ELSE {}
      BY PartsOfPair
    <2>2. {x[1] : x \in B} = IF reviewFirst THEN {"review_first"} ELSE {}
      BY PartsOfPair
    <2>3. {x[1] : x \in C} = IF w > 0 THEN {"improve_data_coverage"} ELSE {}
      BY PartsOfPair
    <2>4. {x[2] : x \in A} = IF incident THEN {"medium"} ELSE {}
      BY PartsOfPair
    <2>5. {x[2] : x \in B} = IF reviewFirst THEN {"high"} ELSE {}
      BY PartsOfPair
    <2>6. {x[2] : x \in C} = IF w > 0 THEN {"low"} ELSE {}
      BY PartsOfPair
    <2> HIDE DEF A, B, C
    <2>7. S = {x[1] : x \in A} \cup {x[1] : x \in B} \cup {x[1] : x \in C}
      OBVIOUS
    <2>8. P = {x[2] : x \in A} \cup {x[2] : x \in B} \cup {x[2] : x \in C}
      OBVIOUS
    <2>9. S = StatusSignals(w, incident, reviewFirst)
      BY <2>1, <2>2, <2>3, <2>7 DEF StatusSignals
    <2>10. P = PrioritySignals(w, incident, reviewFirst)
      BY <2>4, <2>5, <2>6, <2>8 DEF PrioritySignals
    <2> QED
      BY <2>9, <2>10
  <1>3. d = [status |-> FirstOf(DECISION_STATUS_ORDER, {s.overall} \cup S),
             priority |-> FirstOf(DECISION_PRIORITY_ORDER, {s.highest} \cup P)]
    BY <1>1
  <1> HIDE DEF S, P, d
  <1>4. /\ d.status = FirstOf(DECISION_STATUS_ORDER, {s.overall} \cup S)
        /\ d.priority = FirstOf(DECISION_PRIORITY_ORDER, {s.highest} \cup P)
    BY <1>3
  <1> QED
    BY <1>2, <1>4 DEF d

\* It is a decision, no calmer than the fold and than a counted incident.
LEMMA DecisionLeads ==
    ASSUME NEW s, s.overall \in StatusOrders, s.highest \in PriorityOrders, NEW w, NEW incident, NEW reviewFirst
    PROVE  LET d == compose_network_decision(s, w, incident, reviewFirst) IN
           /\ validate_decision_badge(d)
           /\ AtLeast(DECISION_STATUS_ORDER, d.status, s.overall)
           /\ AtLeast(DECISION_PRIORITY_ORDER, d.priority, s.highest)
           /\ incident => /\ AtLeast(DECISION_STATUS_ORDER, d.status, "worth_reviewing")
                          /\ AtLeast(DECISION_PRIORITY_ORDER, d.priority, "medium")
  <1> DEFINE d == compose_network_decision(s, w, incident, reviewFirst)
             V == {s.overall} \cup StatusSignals(w, incident, reviewFirst)
             P == {s.highest} \cup PrioritySignals(w, incident, reviewFirst)
  <1>1. d.status = FirstOf(DECISION_STATUS_ORDER, V) /\ d.priority = FirstOf(DECISION_PRIORITY_ORDER, P)
    BY DecisionIs
  <1>2. s.overall \in V /\ s.highest \in P
    OBVIOUS
  <1>3. incident => "worth_reviewing" \in V /\ "medium" \in P
    BY DEF StatusSignals, PrioritySignals
  <1>4. DOMAIN DECISION_STATUS_ORDER = 1 .. 8 /\ DOMAIN DECISION_PRIORITY_ORDER = 1 .. 4
    BY OrdersAre
  <1>5. "worth_reviewing" \in ToSet(DECISION_STATUS_ORDER) /\ "medium" \in ToSet(DECISION_PRIORITY_ORDER)
    BY OrdersAre DEF StatusOrders, PriorityOrders
  <1> HIDE DEF d, V, P
  <1>6. /\ d.status \in ToSet(DECISION_STATUS_ORDER)
        /\ AtLeast(DECISION_STATUS_ORDER, d.status, s.overall)
    BY <1>1, <1>2, <1>4, FirstLeads DEF StatusOrders
  <1>7. /\ d.priority \in ToSet(DECISION_PRIORITY_ORDER)
        /\ AtLeast(DECISION_PRIORITY_ORDER, d.priority, s.highest)
    BY <1>1, <1>2, <1>4, FirstLeads DEF PriorityOrders
  <1>8. incident => AtLeast(DECISION_STATUS_ORDER, d.status, "worth_reviewing")
    BY <1>1, <1>3, <1>4, <1>5, FirstLeads
  <1>9. incident => AtLeast(DECISION_PRIORITY_ORDER, d.priority, "medium")
    BY <1>1, <1>3, <1>4, <1>5, FirstLeads
  <1> QED
    BY <1>6, <1>7, <1>8, <1>9 DEF validate_decision_badge, d

\* More signals make a decision no calmer.
LEMMA DecisionGrows ==
    ASSUME NEW s, NEW t, s.overall \in StatusOrders, s.highest \in PriorityOrders,
           s.overall = t.overall, s.highest = t.highest, NEW w, NEW v, w > 0 => v > 0,
           NEW incident, NEW first, NEW more, first => more
    PROVE  LET d == compose_network_decision(s, w, incident, first)
               e == compose_network_decision(t, v, incident, more) IN
           /\ AtLeast(DECISION_STATUS_ORDER, e.status, d.status)
           /\ AtLeast(DECISION_PRIORITY_ORDER, e.priority, d.priority)
  <1> DEFINE d == compose_network_decision(s, w, incident, first)
             e == compose_network_decision(t, v, incident, more)
             V == {s.overall} \cup StatusSignals(w, incident, first)
             W == {t.overall} \cup StatusSignals(v, incident, more)
             P == {s.highest} \cup PrioritySignals(w, incident, first)
             Q == {t.highest} \cup PrioritySignals(v, incident, more)
  <1>1. d.status = FirstOf(DECISION_STATUS_ORDER, V) /\ d.priority = FirstOf(DECISION_PRIORITY_ORDER, P)
    BY DecisionIs
  <1>2. e.status = FirstOf(DECISION_STATUS_ORDER, W) /\ e.priority = FirstOf(DECISION_PRIORITY_ORDER, Q)
    BY DecisionIs
  <1>3. V \subseteq W /\ P \subseteq Q
    BY DEF StatusSignals, PrioritySignals
  <1>4. s.overall \in V /\ s.highest \in P
    OBVIOUS
  <1>5. DOMAIN DECISION_STATUS_ORDER = 1 .. 8 /\ DOMAIN DECISION_PRIORITY_ORDER = 1 .. 4
    BY OrdersAre
  <1> HIDE DEF d, e, V, W, P, Q
  <1>6. d.status \in V /\ d.status \in ToSet(DECISION_STATUS_ORDER)
    BY <1>1, <1>4, <1>5, FirstLeads DEF StatusOrders
  <1>7. d.priority \in P /\ d.priority \in ToSet(DECISION_PRIORITY_ORDER)
    BY <1>1, <1>4, <1>5, FirstLeads DEF PriorityOrders
  <1>8. AtLeast(DECISION_STATUS_ORDER, e.status, d.status)
    BY <1>2, <1>3, <1>5, <1>6, FirstLeads
  <1>9. AtLeast(DECISION_PRIORITY_ORDER, e.priority, d.priority)
    BY <1>2, <1>3, <1>5, <1>7, FirstLeads
  <1> QED
    BY <1>8, <1>9 DEF d, e

\* The active incidents that were read.
AreIncidents(incidents) ==
    IsFiniteSet(incidents) /\ \A i \in incidents : i.open \in BOOLEAN /\ i.severity # Missing

\* One of the most severe of some incidents.
LEMMA SeverityIs ==
    ASSUME NEW some, some # {}, \A i \in some : i.open \in BOOLEAN
    PROVE  Diag!pick_active(some) \in some
  <1> DEFINE R(i) == Diag!Rank(i)
             I == {k \in 1 .. 14 : \E i \in some : R(i) + 1 = k}
  <1>1. \A i \in some : R(i) \in 0 .. 13
    BY DEF Diag!Rank, Diag!SeverityRank
  <1> HIDE DEF R
  <1>2. I \in SUBSET (1 .. 14) /\ I # {}
    <2>1. PICK i \in some : TRUE
      OBVIOUS
    <2>2. R(i) + 1 \in I
      BY <1>1, <2>1
    <2> QED
      BY <2>2
  <1>3. PICK k \in I : \A j \in I : k <= j
    <2> HIDE DEF I
    <2> QED
      BY <1>2, FirstPlace
  <1>4. PICK i \in some : R(i) + 1 = k
    OBVIOUS
  <1>5. \A j \in some : R(i) <= R(j)
    <2>1. ASSUME NEW j \in some PROVE R(i) <= R(j)
      <3>1. R(j) + 1 \in I
        BY <1>1
      <3> QED
        BY <1>1, <1>3, <1>4, <3>1
    <2> QED
      BY <2>1
  <1>6. Diag!pick_active(some) = CHOOSE r \in some : \A q \in some : R(r) <= R(q)
    BY DEF Diag!pick_active, R
  <1> QED
    BY <1>5, <1>6

\* A network counts the active incidents that touch it, and shows a severity exactly
\* where it counts one.
LEMMA CountsTouching ==
    ASSUME NEW incidents, AreIncidents(incidents), NEW n
    PROVE  LET context == IncidentContext(incidents)
               count == CountOf(context.count, n) IN
           /\ count = Cardinality({i \in incidents : n \in i.nets}) /\ count \in Nat
           /\ count > 0 => context.severity[n] # Missing
           /\ context.open + context.watching = Cardinality(incidents)
           /\ context.open \in Nat /\ context.watching \in Nat
  <1> DEFINE context == IncidentContext(incidents)
             nets == UNION {i.nets : i \in incidents}
             on == {i \in incidents : n \in i.nets}
             open == {i \in incidents : i.open}
             watching == {i \in incidents : ~i.open}
  <1>1. /\ context.count = [m \in nets |-> Cardinality({i \in incidents : m \in i.nets})]
        /\ context.severity = Diag!active_severity_by_network_id(incidents, nets)
        /\ context.open = Cardinality(open) /\ context.watching = Cardinality(watching)
    BY DEF IncidentContext
  <1>2. IsFiniteSet(on) /\ IsFiniteSet(open) /\ IsFiniteSet(watching)
    BY FS_Subset DEF AreIncidents
  <1>3. n \in nets <=> on # {}
    OBVIOUS
  <1>4. Cardinality(on) \in Nat /\ (Cardinality(on) = 0 <=> on = {})
    BY <1>2, FS_CardinalityType, FS_EmptySet
  <1>5. CountOf(context.count, n) = Cardinality(on)
    BY <1>1, <1>3, <1>4 DEF CountOf
  <1>6. ASSUME on # {} PROVE context.severity[n] # Missing
    <2>1. n \in nets /\ \E i \in incidents : n \in i.nets
      BY <1>6
    <2>2. context.severity[n] = Diag!pick_active(on).severity
      BY <1>1, <2>1 DEF Diag!active_severity_by_network_id
    <2>3. Diag!pick_active(on) \in on
      BY <1>6, SeverityIs DEF AreIncidents
    <2> QED
      BY <2>2, <2>3 DEF AreIncidents
  <1>7. /\ Cardinality(open) \in Nat /\ Cardinality(watching) \in Nat
        /\ Cardinality(open) + Cardinality(watching) = Cardinality(incidents)
    <2>1. open \cup watching = incidents /\ open \cap watching = {}
      OBVIOUS
    <2>2. Cardinality(open \cup watching)
             = Cardinality(open) + Cardinality(watching) - Cardinality(open \cap watching)
      BY <1>2, FS_Union
    <2>3. Cardinality(open \cap watching) = 0
      BY <2>1, FS_EmptySet
    <2>4. Cardinality(open) \in Nat /\ Cardinality(watching) \in Nat
      BY <1>2, FS_CardinalityType
    <2> HIDE DEF open, watching
    <2> QED
      BY <2>1, <2>2, <2>3, <2>4
  <1> HIDE DEF context, on
  <1>8. Cardinality(on) > 0 => context.severity[n] # Missing
    BY <1>4, <1>6
  <1> QED
    BY <1>1, <1>4, <1>5, <1>7, <1>8 DEF context, on

(***************************************************************************)
(* Pages: what one network shows, and what all show together               *)
(***************************************************************************)

\* No calmer than a status and a priority.
NoCalmer(decision, s, p) ==
    /\ AtLeast(DECISION_STATUS_ORDER, decision.status, s)
    /\ AtLeast(DECISION_PRIORITY_ORDER, decision.priority, p)

\* The first of a first and more comes no later than what it is the first of: the statuses.
LEMMA StatusOfFirst ==
    ASSUME NEW H, NEW S, NEW v \in ToSet(DECISION_STATUS_ORDER), v \in H
    PROVE  AtLeast(DECISION_STATUS_ORDER,
                   FirstOf(DECISION_STATUS_ORDER, {FirstOf(DECISION_STATUS_ORDER, H)} \cup S), v)
  <1> DEFINE order == DECISION_STATUS_ORDER
  <1>1. DOMAIN order = 1 .. 8 /\ \A i, j \in 1 .. 8 : order[i] = order[j] => i = j
    BY OrdersAre
  <1> HIDE DEF order
  <1>2. ASSUME NEW n \in Nat, n = 8
        PROVE  AtLeast(order, FirstOf(order, {FirstOf(order, H)} \cup S), v)
    <2>1. DOMAIN order = 1 .. n /\ (\A i, j \in 1 .. n : order[i] = order[j] => i = j) /\ v \in ToSet(order)
      BY <1>1, <1>2 DEF order
    <2> QED
      BY <2>1, FirstOfFirst
  <1> QED
    BY <1>2 DEF order

\* The same for the priorities.
LEMMA PriorityOfFirst ==
    ASSUME NEW H, NEW S, NEW v \in ToSet(DECISION_PRIORITY_ORDER), v \in H
    PROVE  AtLeast(DECISION_PRIORITY_ORDER,
                   FirstOf(DECISION_PRIORITY_ORDER, {FirstOf(DECISION_PRIORITY_ORDER, H)} \cup S), v)
  <1> DEFINE order == DECISION_PRIORITY_ORDER
  <1>1. DOMAIN order = 1 .. 4 /\ \A i, j \in 1 .. 4 : order[i] = order[j] => i = j
    BY OrdersAre
  <1> HIDE DEF order
  <1>2. ASSUME NEW n \in Nat, n = 4
        PROVE  AtLeast(order, FirstOf(order, {FirstOf(order, H)} \cup S), v)
    <2>1. DOMAIN order = 1 .. n /\ (\A i, j \in 1 .. n : order[i] = order[j] => i = j) /\ v \in ToSet(order)
      BY <1>1, <1>2 DEF order
    <2> QED
      BY <2>1, FirstOfFirst
  <1> QED
    BY <1>2 DEF order

\* The rows of a network are device rows.
LEMMA RowsOfAre ==
    ASSUME NEW rows, AreRows(rows), NEW n
    PROVE  AreRows(RowsOf(rows, n)) /\ RowsOf(RowsOf(rows, n), n) = RowsOf(rows, n)
  <1>1. RowsOf(rows, n) \subseteq rows
    BY DEF RowsOf
  <1>2. IsFiniteSet(RowsOf(rows, n))
    BY <1>1, FS_Subset DEF AreRows
  <1>3. RowsOf(RowsOf(rows, n), n) = RowsOf(rows, n)
    BY DEF RowsOf
  <1> QED
    BY <1>1, <1>2, <1>3 DEF AreRows

\* What a network's summary says of its rows, the incidents and the short lists.
Shows(s, n, rows, incidents, priorities, warnings) ==
    LET mine == RowsOf(rows, n)
        w == Cardinality({v \in warnings : v.net = n})
        first == \E p \in priorities : p.net = n /\ p.card.priority = "Review first" IN
    /\ s.id = n /\ s.devices = Cardinality(mine)
    /\ s.unavailable = Cardinality({x \in mine : x.availability = "offline"})
    /\ s.incidents = Cardinality({i \in incidents : n \in i.nets}) /\ s.incidents \in Nat
    /\ s.summary = decision_count_summary_from_badges(device_decision_badges_for_devices(mine), w)
    /\ s.summary.subjects = Cardinality(mine) /\ s.summary.warnings = w
    /\ s.severity # Missing <=> s.incidents > 0
    /\ s.decision = compose_network_decision(s.summary, w, s.incidents > 0, first)
    /\ s.summary.overall \in StatusOrders /\ s.summary.highest \in PriorityOrders
    /\ validate_decision_count_summary(s.summary) /\ validate_decision_badge(s.decision)
    /\ s.incidents > 0 => NoCalmer(s.decision, "worth_reviewing", "medium")
    /\ \A x \in mine : NoCalmer(s.decision, x.badge.status, x.badge.priority)

\* What a network shows: counts of its rows and incidents, a severity with an incident,
\* a decision no calmer than a device's or an incident's.
LEMMA NetworkShows ==
    ASSUME NEW rows, AreRows(rows), NEW incidents, AreIncidents(incidents),
           NEW priorities, NEW warnings, NEW n
    PROVE  Shows(build_network_summary(n, rows, IncidentContext(incidents), priorities, warnings),
                 n, rows, incidents, priorities, warnings)
  <1> DEFINE context == IncidentContext(incidents)
             s == build_network_summary(n, rows, context, priorities, warnings)
             w == Cardinality({v \in warnings : v.net = n})
             first == \E p \in priorities : p.net = n /\ p.card.priority = "Review first"
             mine == RowsOf(rows, n)
             count == CountOf(context.count, n)
             summary == decision_count_summary_from_badges(device_decision_badges_for_devices(mine), w)
  <1>1. /\ s.id = n /\ s.devices = Cardinality(mine)
        /\ s.unavailable = Cardinality({x \in mine : x.availability = "offline"})
        /\ s.incidents = count /\ s.severity = IF count = 0 THEN Missing ELSE context.severity[n]
        /\ s.summary = summary
        /\ s.decision = compose_network_decision(summary, w, count > 0, first)
    BY DEF build_network_summary, compose_network_summary, Unavailable
  <1>2. /\ count = Cardinality({i \in incidents : n \in i.nets}) /\ count \in Nat
        /\ count > 0 => context.severity[n] # Missing
    BY CountsTouching
  <1>3. AreRows(mine)
    BY RowsOfAre
  <1> HIDE DEF context, s, w, first, mine, count
  <1>4. Sums(summary, mine, w)
    BY <1>3, SummaryIs
  <1> HIDE DEF summary
  <1> DEFINE d == compose_network_decision(summary, w, count > 0, first)
  <1>5. /\ validate_decision_badge(d)
        /\ count > 0 => NoCalmer(d, "worth_reviewing", "medium")
    BY <1>4, DecisionLeads DEF NoCalmer, Sums
  <1>6. ASSUME NEW x \in mine PROVE NoCalmer(d, x.badge.status, x.badge.priority)
    <2> DEFINE H == {y.badge.status : y \in mine}
               G == {y.badge.priority : y \in mine}
               V == StatusSignals(w, count > 0, first)
               P == PrioritySignals(w, count > 0, first)
    <2>1. /\ d.status = FirstOf(DECISION_STATUS_ORDER, {FirstOf(DECISION_STATUS_ORDER, H)} \cup V)
          /\ d.priority = FirstOf(DECISION_PRIORITY_ORDER, {FirstOf(DECISION_PRIORITY_ORDER, G)} \cup P)
      <3>1. /\ d.status = FirstOf(DECISION_STATUS_ORDER, {summary.overall} \cup V)
            /\ d.priority = FirstOf(DECISION_PRIORITY_ORDER, {summary.highest} \cup P)
        BY DecisionIs
      <3>2. mine # {}
        BY <1>6
      <3>3. /\ summary.overall = FirstOf(DECISION_STATUS_ORDER, H)
            /\ summary.highest = FirstOf(DECISION_PRIORITY_ORDER, G)
        BY <1>4, <3>2 DEF Sums
      <3> HIDE DEF H, G, V, P, d
      <3> QED
        BY <3>1, <3>3
    <2>2. /\ x.badge.status \in H /\ x.badge.priority \in G
          /\ x.badge.status \in ToSet(DECISION_STATUS_ORDER)
          /\ x.badge.priority \in ToSet(DECISION_PRIORITY_ORDER)
      BY <1>3 DEF AreRows, StatusOrders, PriorityOrders
    <2> HIDE DEF H, G, V, P, d
    <2>3. AtLeast(DECISION_STATUS_ORDER, d.status, x.badge.status)
      <3>1. AtLeast(DECISION_STATUS_ORDER,
                    FirstOf(DECISION_STATUS_ORDER, {FirstOf(DECISION_STATUS_ORDER, H)} \cup V),
                    x.badge.status)
        BY <2>2, StatusOfFirst
      <3> QED
        BY <2>1, <3>1
    <2>4. AtLeast(DECISION_PRIORITY_ORDER, d.priority, x.badge.priority)
      <3>1. AtLeast(DECISION_PRIORITY_ORDER,
                    FirstOf(DECISION_PRIORITY_ORDER, {FirstOf(DECISION_PRIORITY_ORDER, G)} \cup P),
                    x.badge.priority)
        BY <2>2, PriorityOfFirst
      <3> QED
        BY <2>1, <3>1
    <2> QED
      BY <2>3, <2>4 DEF NoCalmer
  <1>7. s.severity # Missing <=> s.incidents > 0
    BY <1>1, <1>2
  <1>8. s.summary.subjects = Cardinality(mine) /\ s.summary.warnings = w
    BY <1>1, <1>4 DEF Sums
  <1>9. s.decision = compose_network_decision(s.summary, w, s.incidents > 0, first)
    BY <1>1
  <1> HIDE DEF d
  <1>10. /\ s.summary.overall \in StatusOrders /\ s.summary.highest \in PriorityOrders
         /\ validate_decision_count_summary(s.summary) /\ s.decision = d
    BY <1>1, <1>4 DEF d, Sums
  <1>11. Shows(s, n, rows, incidents, priorities, warnings)
    BY <1>1, <1>2, <1>5, <1>6, <1>7, <1>8, <1>9, <1>10 DEF Shows, w, first, mine, summary
  <1> QED
    BY <1>11 DEF s, context

\* f counts the members of X by the summary of their network.
CountsBy(f, X, nets, page) ==
    /\ IsFiniteSet(X) /\ \A x \in X : x.net \in nets
    /\ \A n \in nets : page[n].id = n
    /\ DOMAIN f = {page[n] : n \in nets}
    /\ \A n \in nets : f[page[n]] = Cardinality({x \in X : x.net = n})

\* Counts over the networks add up to the whole.
LEMMA NetworksAddUp ==
    ASSUME NEW f, NEW X, NEW nets, NEW page, CountsBy(f, X, nets, page)
    PROVE  SumOfCounts(f) = Cardinality(X)
  <1> DEFINE K == {page[n] : n \in nets}
             g == [x \in X |-> page[x.net]]
  <1>0. /\ IsFiniteSet(X) /\ \A x \in X : x.net \in nets
        /\ \A n \in nets : page[n].id = n
        /\ DOMAIN f = {page[n] : n \in nets}
        /\ \A n \in nets : f[page[n]] = Cardinality({x \in X : x.net = n})
    BY DEF CountsBy
  <1>1. g \in [X -> K] /\ \A x \in X : g[x] = page[x.net]
    BY <1>0
  <1>2. ASSUME NEW k \in K PROVE f[k] = Cardinality({x \in X : g[x] = k})
    <2>1. PICK n \in nets : k = page[n]
      OBVIOUS
    <2>2. \A x \in X : g[x] = k <=> x.net = n
      BY <1>0, <1>1, <2>1
    <2>3. {x \in X : g[x] = k} = {x \in X : x.net = n}
      BY <2>2
    <2> QED
      BY <1>0, <2>1, <2>3
  <1>3. DOMAIN f = K
    BY <1>0
  <1> HIDE DEF g, K
  <1> QED
    BY <1>0, <1>1, <1>2, <1>3, SumOfFibres

\* As many networks are shown as there are.
LEMMA NetworksAreShown ==
    ASSUME NEW nets, IsFiniteSet(nets), NEW page, \A n \in nets : page[n].id = n
    PROVE  Cardinality({page[n] : n \in nets}) = Cardinality(nets)
  <1> DEFINE K == {page[n] : n \in nets}
             f == [n \in nets |-> page[n]]
  <1>1. f \in [nets -> K] /\ \A n \in nets : f[n] = page[n]
    OBVIOUS
  <1>2. \A k \in K : \E n \in nets : f[n] = k
    OBVIOUS
  <1>3. \A n, m \in nets : f[n] = f[m] => n = m
    BY <1>1
  <1> HIDE DEF f, K
  <1> QED
    BY <1>1, <1>2, <1>3, SameCount DEF K

\* What the reads of a page may return.
AreReads(r) ==
    /\ AreRows(r.rows) /\ AreIncidents(r.incidents) /\ AreCards(r.nets, r.cards)
    /\ IsFiniteSet(r.configured)
    /\ \A x \in r.rows : x.net \in r.nets /\ x.seen \in {Missing, "zoned", "raw"}

\* How many active incidents name a device.
CountOfIds(context, k) == Cardinality(IF k \in DOMAIN context.ids THEN context.ids[k] ELSE {})

LEMMA IdsAreCounted ==
    ASSUME NEW incidents, AreIncidents(incidents), NEW k
    PROVE  CountOfIds(IncidentContext(incidents), k) \in Nat
  <1> DEFINE naming == {j \in incidents : k \in j.devices}
             ids == {i.id : i \in naming}
             context == IncidentContext(incidents)
  <1>1. IsFiniteSet(naming)
    BY FS_Subset DEF AreIncidents
  <1>2. IsFiniteSet(ids)
    <2> DEFINE id == [i \in naming |-> i.id]
    <2>1. ids = {id[i] : i \in naming} /\ DOMAIN id = naming
      OBVIOUS
    <2> HIDE DEF naming, ids, id
    <2> QED
      BY <1>1, <2>1, FiniteImage
  <1>3. k \in DOMAIN context.ids => context.ids[k] = ids
    BY DEF IncidentContext
  <1> HIDE DEF context, ids, naming
  <1>4. IsFiniteSet(IF k \in DOMAIN context.ids THEN context.ids[k] ELSE {})
    BY <1>2, <1>3, FS_EmptySet
  <1> QED
    BY <1>4, FS_CardinalityType DEF CountOfIds, context

\* What the overview shows of the networks.
OverviewPage(r) ==
    LET priorities == compose_dashboard_investigation_priorities(r.nets, r.cards)
        warnings   == compose_dashboard_coverage_warnings(r.nets, r.rows, r.facts,
                         {p.net : p \in {q \in priorities : q.card.type = "router_neighbourhood_review"}})
    IN [priorities |-> priorities, warnings |-> warnings,
        of |-> [n \in r.nets |-> build_network_summary(n, r.rows, IncidentContext(r.incidents),
                                                       priorities, warnings)]]

\* A network's own page is no calmer than the overview of it.
LEMMA OwnPageIsNoCalmer ==
    ASSUME NEW r, AreReads(r), NEW n \in r.nets
    PROVE  LET s == OverviewPage(r).of[n] IN
           NoCalmer(network(r, n).decision, s.decision.status, s.decision.priority)
  <1> DEFINE mine == RowsOf(r.rows, n)
             context == IncidentContext(r.incidents)
             P == compose_dashboard_investigation_priorities(r.nets, r.cards)
             Q == compose_dashboard_investigation_priorities({n}, r.cards)
             routes == {p.net : p \in {q \in P : q.card.type = "router_neighbourhood_review"}}
             own_routes == {p.net : p \in {q \in Q : q.card.type = "router_neighbourhood_review"}}
             W == compose_dashboard_coverage_warnings(r.nets, r.rows, r.facts, routes)
             V == compose_dashboard_coverage_warnings({n}, mine, r.facts, own_routes)
             s == build_network_summary(n, r.rows, context, P, W)
             t == build_network_summary(n, mine, context, Q, V)
             w == Cardinality({x \in W : x.net = n})
             v == Cardinality({x \in V : x.net = n})
             first == \E p \in P : p.net = n /\ p.card.priority = "Review first"
             more == \E p \in Q : p.net = n /\ p.card.priority = "Review first"
  <1>1. OverviewPage(r).of[n] = s
    BY DEF OverviewPage
  <1>2. network(r, n) = t
    <2>1. NetworkSummaries(r, {n}, mine).networks = {build_network_summary(m, mine, context, Q, V) : m \in {n}}
      BY DEF NetworkSummaries
    <2> HIDE DEF mine, context, Q, V
    <2>2. NetworkSummaries(r, {n}, mine).networks = {t}
      BY <2>1
    <2> HIDE DEF t
    <2>3. network(r, n) = CHOOSE x \in NetworkSummaries(r, {n}, mine).networks : TRUE
      BY DEF network, mine
    <2> QED
      BY <2>2, <2>3
  <1>3. \A p \in P : p.net = n => p \in Q
    BY OwnPriorities DEF AreReads
  <1>4. n \in routes => n \in own_routes
    <2> HIDE DEF P, Q
    <2> QED
      BY <1>3
  <1>5. first => more
    <2> HIDE DEF P, Q
    <2> QED
      BY <1>3
  <1>6. AreRows(r.rows) /\ AreRows(mine) /\ AreIncidents(r.incidents) /\ RowsOf(mine, n) = mine
    BY RowsOfAre DEF AreReads
  <1>7. IsFiniteSet(r.nets) /\ \A m \in r.nets : m \in Int
    BY DEF AreReads, AreCards
  <1> HIDE DEF P, Q, routes, own_routes
  <1>8. IsFiniteSet(W)
    BY <1>7, WarningsAre
  <1>9. IsFiniteSet(V)
    <2>1. IsFiniteSet({n}) /\ \A m \in {n} : m \in Int
      BY <1>7, FS_Singleton
    <2> QED
      BY <2>1, WarningsAre
  <1>10. \A x \in W : x.net = n => \E y \in V : y.net = n
    BY <1>4, <1>7, OwnWarnings
  <1> HIDE DEF W, V
  <1>11. w > 0 => v > 0
    <2> DEFINE A == {x \in W : x.net = n}
               B == {x \in V : x.net = n}
    <2>1. IsFiniteSet(A) /\ IsFiniteSet(B)
      BY <1>8, <1>9, FS_Subset
    <2>2. A # {} => B # {}
      BY <1>10
    <2> HIDE DEF A, B
    <2>3. /\ Cardinality(A) \in Nat /\ Cardinality(B) \in Nat
          /\ Cardinality(A) = 0 <=> A = {}
          /\ Cardinality(B) = 0 <=> B = {}
      BY <2>1, FS_CardinalityType, FS_EmptySet
    <2>4. Cardinality(A) > 0 => Cardinality(B) > 0
      BY <2>2, <2>3
    <2> QED
      BY <2>4 DEF A, B
  <1>s. Shows(s, n, r.rows, r.incidents, P, W) /\ Shows(t, n, mine, r.incidents, Q, V)
    <2> HIDE DEF mine
    <2> QED
      BY <1>6, NetworkShows
  <1> HIDE DEF s, t, context
  <1>12. /\ s.decision = compose_network_decision(s.summary, w, s.incidents > 0, first)
         /\ s.summary.overall \in StatusOrders /\ s.summary.highest \in PriorityOrders
         /\ s.incidents = Cardinality({i \in r.incidents : n \in i.nets})
         /\ s.summary = decision_count_summary_from_badges(device_decision_badges_for_devices(mine), w)
    BY <1>s DEF Shows
  <1> HIDE DEF mine
  <1>13. /\ t.decision = compose_network_decision(t.summary, v, t.incidents > 0, more)
         /\ t.incidents = Cardinality({i \in r.incidents : n \in i.nets})
         /\ t.summary = decision_count_summary_from_badges(device_decision_badges_for_devices(mine), v)
    BY <1>s, <1>6 DEF Shows
  <1> HIDE DEF w, v, first, more
  <1>14. s.summary.overall = t.summary.overall /\ s.summary.highest = t.summary.highest
    <2> DEFINE badges == device_decision_badges_for_devices(mine)
               a == decision_count_summary_from_badges(badges, w)
               b == decision_count_summary_from_badges(badges, v)
    <2>0. AreRows(mine)
      BY <1>6
    <2>1. Sums(a, mine, w) /\ Sums(b, mine, v)
      BY <2>0, SummaryIs
    <2>2. s.summary = a /\ t.summary = b
      BY <1>12, <1>13
    <2> HIDE DEF a, b
    <2> QED
      BY <2>1, <2>2 DEF Sums
  <1>15. NoCalmer(t.decision, s.decision.status, s.decision.priority)
    BY <1>5, <1>11, <1>12, <1>13, <1>14, DecisionGrows DEF NoCalmer
  <1> QED
    BY <1>1, <1>2, <1>15

(***************************************************************************)
(* Pages: the dashboard is one statement                                   *)
(***************************************************************************)

\* The parts of what a dashboard must say.
TotalsAddUp(d) ==
    /\ d.device_count = SumOfCounts([n \in d.networks |-> n.devices])
    /\ d.unavailable = SumOfCounts([n \in d.networks |-> n.unavailable])
    /\ d.summary.subjects = SumOfCounts([n \in d.networks |-> n.summary.subjects])
    /\ d.summary.warnings = SumOfCounts([n \in d.networks |-> n.summary.warnings])
IncidentsAreShown(d) ==
    \A n \in d.networks : /\ n.severity # Missing <=> n.incidents > 0
                          /\ n.incidents > 0 => NoCalmer(n.decision, "worth_reviewing", "medium")
DevicesAreShown(r, d) ==
    /\ d.active + d.watching = Cardinality(r.incidents)
    /\ \A n \in d.networks :
          /\ \A x \in RowsOf(r.rows, n.id) : NoCalmer(n.decision, x.badge.status, x.badge.priority)
          /\ NoCalmer(network(r, n.id).decision, n.decision.status, n.decision.priority)
CountsAreNumbers(d) ==
    /\ {d.active, d.watching, d.network_count, d.device_count, d.unavailable} \subseteq Nat
    /\ \A n \in d.networks : {n.devices, n.unavailable, n.incidents} \subseteq Nat
DecisionsAreKnown(d) ==
    /\ validate_decision_count_summary(d.summary) /\ validate_data_coverage_warnings(d.warnings)
    /\ \A n \in d.networks : validate_decision_badge(n.decision) /\ validate_decision_count_summary(n.summary)
RisksAreRouters(d) ==
    \A x \in d.risks : /\ x.availability \in KNOWN_AVAILABILITIES /\ x.correlated \in Nat
                       /\ x.seen \in {Missing, "zoned", "raw"}
IsTaken(r, d) ==
    classify_decision_payload({d}) = "valid" <=> /\ \A x \in d.risks : WellFormed(x)
                                                 /\ \A p \in d.priorities : p.card.text = "formed"
                                                 /\ \A n \in d.networks : n.id \notin r.unnamed

\* Together they are it.
LEMMA PartsAddUp ==
    ASSUME NEW r, NEW d, TotalsAddUp(d), IncidentsAreShown(d), d.collected => DevicesAreShown(r, d),
           IsTaken(r, d)
    PROVE  AddsUp(r, d)
  BY DEF TotalsAddUp, IncidentsAreShown, DevicesAreShown, IsTaken, AddsUp, NoCalmer

\* A dashboard whose own parts are valid is taken unless a text or a number it passes on is not.
LEMMA TakenWhenValid ==
    ASSUME NEW r, NEW d, d.unnamed = r.unnamed, DecisionsAreKnown(d), CountsAreNumbers(d), RisksAreRouters(d),
           d.network_count = Cardinality(d.networks), \A p \in d.priorities : p.card.score \in Int
    PROVE  IsTaken(r, d)
  <1>1. classify_decision_payload({d}) = IF dashboard_decision_payload_valid(d) THEN "valid" ELSE "malformed"
    <2>1. {d} # {} /\ ((\A e \in {d} : dashboard_decision_payload_valid(e)) <=> dashboard_decision_payload_valid(d))
      OBVIOUS
    <2> QED
      BY <2>1 DEF classify_decision_payload
  <1>2. validate_router_risks(d.risks) <=> \A x \in d.risks : WellFormed(x)
    BY TextAssumption DEF validate_router_risks, WellFormed, RisksAreRouters
  <1>3. validate_investigation_priorities(d.priorities) <=> \A p \in d.priorities : p.card.text = "formed"
    BY DEF validate_investigation_priorities
  <1>4. validate_network_decision_badges(d.networks, d.unnamed) <=> \A n \in d.networks : n.id \notin r.unnamed
    BY DEF validate_network_decision_badges, DecisionsAreKnown, CountsAreNumbers
  <1>5. dashboard_decision_payload_valid(d) <=> /\ validate_router_risks(d.risks)
                                                /\ validate_investigation_priorities(d.priorities)
                                                /\ validate_network_decision_badges(d.networks, d.unnamed)
    BY DEF dashboard_decision_payload_valid, DecisionsAreKnown, CountsAreNumbers
  <1>6. classify_decision_payload({d}) = "valid" <=> dashboard_decision_payload_valid(d)
    BY <1>1
  <1> QED
    BY <1>2, <1>3, <1>4, <1>5, <1>6 DEF IsTaken

\* Nothing was there yet: the empty dashboard.
LEMMA EmptyDashboardAddsUp ==
    ASSUME NEW r, NEW nets, IsFiniteSet(nets), NEW d, d = build_empty_dashboard(nets, r.unnamed)
    PROVE  AddsUp(r, d)
  <1> DEFINE empty == [subjects |-> 0, overall |-> "data_unavailable", highest |-> "none",
                       statuses |-> <<>>, priorities |-> <<>>, warnings |-> 0]
             page == [n \in nets |->
                        [id |-> n, devices |-> 0, unavailable |-> 0, routers |-> 0, incidents |-> 0,
                         severity |-> Missing, summary |-> empty,
                         decision |-> [status |-> "data_unavailable", priority |-> "none"]]]
  <1>1. EmptySummary = empty
    <2>1. DOMAIN <<>> = {}
      OBVIOUS
    <2> QED
      BY <2>1 DEF EmptySummary, decision_count_summary_from_badges
  <1>2. /\ d.collected = FALSE /\ d.risks = {} /\ d.summary = empty /\ d.device_count = 0 /\ d.unavailable = 0
        /\ d.active = 0 /\ d.watching = 0 /\ d.priorities = {} /\ d.warnings = {} /\ d.unnamed = r.unnamed
        /\ d.network_count = Cardinality(nets)
        /\ d.networks = {page[n] : n \in nets}
    <2>1. d.networks = {[id |-> n, devices |-> 0, unavailable |-> 0, routers |-> 0, incidents |-> 0,
                         severity |-> Missing, summary |-> empty,
                         decision |-> [status |-> "data_unavailable", priority |-> "none"]] : n \in nets}
      <3> HIDE DEF empty
      <3> QED
        BY <1>1 DEF build_empty_dashboard
    <2>2. d.networks = {page[n] : n \in nets}
      <3> HIDE DEF empty
      <3> QED
        BY <2>1
    <2> HIDE DEF empty, page
    <2>3. /\ d.collected = FALSE /\ d.risks = {} /\ d.summary = empty /\ d.device_count = 0
          /\ d.active = 0 /\ d.watching = 0 /\ d.priorities = {} /\ d.warnings = {} /\ d.unnamed = r.unnamed
          /\ d.unavailable = 0 /\ d.network_count = Cardinality(nets)
      BY <1>1 DEF build_empty_dashboard
    <2> QED
      BY <2>2, <2>3
  <1>3. ASSUME NEW n \in nets
        PROVE  /\ page[n].id = n /\ page[n].devices = 0 /\ page[n].unavailable = 0 /\ page[n].incidents = 0
               /\ page[n].severity = Missing /\ page[n].summary = empty
               /\ page[n].decision = [status |-> "data_unavailable", priority |-> "none"]
    <2> HIDE DEF empty
    <2> QED
      BY <1>3
  <1>4. empty.subjects = 0 /\ empty.warnings = 0
    OBVIOUS
  <1>5. validate_decision_count_summary(empty)
    <2>1. /\ empty.overall = "data_unavailable" /\ empty.highest = "none"
          /\ empty.statuses = <<>> /\ empty.priorities = <<>>
          /\ DOMAIN empty.statuses = {} /\ DOMAIN empty.priorities = {}
      OBVIOUS
    <2> HIDE DEF empty
    <2> QED
      BY <1>4, <2>1, OrdersAre DEF validate_decision_count_summary, StatusOrders, PriorityOrders
  <1> HIDE DEF page, empty
  <1>6. ASSUME NEW f, DOMAIN f = {page[n] : n \in nets}, \A n \in nets : f[page[n]] = 0
        PROVE  SumOfCounts(f) = 0
    <2>1. \A x \in {} : x.net \in nets
      OBVIOUS
    <2>2. IsFiniteSet({}) /\ Cardinality({}) = 0
      BY FS_EmptySet
    <2>3. \A n \in nets : {x \in {} : x.net = n} = {}
      OBVIOUS
    <2>4. CountsBy(f, {}, nets, page)
      <3>1. \A n \in nets : Cardinality({x \in {} : x.net = n}) = 0
        BY <2>2, <2>3
      <3> QED
        BY <1>3, <1>6, <2>1, <2>2, <3>1 DEF CountsBy
    <2>5. SumOfCounts(f) = Cardinality({})
      BY <2>4, NetworksAddUp
    <2> QED
      BY <2>2, <2>5
  <1>7. TotalsAddUp(d)
    <2>1. /\ SumOfCounts([n \in d.networks |-> n.devices]) = 0
          /\ SumOfCounts([n \in d.networks |-> n.unavailable]) = 0
          /\ SumOfCounts([n \in d.networks |-> n.summary.subjects]) = 0
          /\ SumOfCounts([n \in d.networks |-> n.summary.warnings]) = 0
      BY <1>2, <1>3, <1>4, <1>6
    <2> QED
      BY <1>2, <1>4, <2>1 DEF TotalsAddUp
  <1>8. IncidentsAreShown(d)
    BY <1>2, <1>3 DEF IncidentsAreShown
  <1>9. IsTaken(r, d)
    <2>1. \A n \in d.networks : validate_decision_badge(n.decision) /\ validate_decision_count_summary(n.summary)
      <3>1. ASSUME NEW n \in nets
            PROVE  validate_decision_badge(page[n].decision) /\ validate_decision_count_summary(page[n].summary)
        BY <1>3, <1>5, OrdersAre DEF validate_decision_badge, StatusOrders, PriorityOrders
      <3> QED
        BY <1>2, <3>1
    <2>2. d.network_count = Cardinality(d.networks)
      BY <1>2, <1>3, NetworksAreShown
    <2>3. DecisionsAreKnown(d)
      BY <1>2, <1>5, <2>1 DEF DecisionsAreKnown, validate_data_coverage_warnings
    <2>4. CountsAreNumbers(d)
      <3>1. Cardinality(nets) \in Nat
        BY FS_CardinalityType
      <3> QED
        BY <1>2, <1>3, <3>1 DEF CountsAreNumbers
    <2>5. RisksAreRouters(d) /\ \A p \in d.priorities : p.card.score \in Int
      BY <1>2 DEF RisksAreRouters
    <2> QED
      BY <1>2, <2>2, <2>3, <2>4, <2>5, TakenWhenValid
  <1> QED
    BY <1>2, <1>7, <1>8, <1>9, PartsAddUp

\* Whatever moments of the database its reads saw, a dashboard is one statement that
\* Home Assistant takes, unless what it passes on as it came is none (payload_builder.py,
\* compatibility.py).
THEOREM DashboardIsOneStatement ==
    ASSUME NEW r, AreReads(r) PROVE OneStatement(r)
  <1> DEFINE d == dashboard(r)
             context == IncidentContext(r.incidents)
             P == OverviewPage(r).priorities
             W == OverviewPage(r).warnings
             page == OverviewPage(r).of
  <1>1. /\ AreRows(r.rows) /\ AreIncidents(r.incidents) /\ AreCards(r.nets, r.cards)
        /\ \A x \in r.rows : x.net \in r.nets /\ x.seen \in {Missing, "zoned", "raw"}
        /\ IsFiniteSet(r.nets) /\ \A n \in r.nets : n \in Int
    BY DEF AreReads, AreCards
  <1>2. CASE ~r.collected
    <2>1. d = build_empty_dashboard(NetworksKnown(r), r.unnamed)
      BY <1>2 DEF dashboard
    <2>2. IsFiniteSet(NetworksKnown(r))
      BY <1>1 DEF AreReads, NetworksKnown
    <2> HIDE DEF d
    <2> QED
      BY <2>1, <2>2, EmptyDashboardAddsUp DEF d, OneStatement
  <1>3. CASE r.collected
    <2> DEFINE summary == decision_count_summary_from_badges(device_decision_badges_for_devices(r.rows),
                                                             Cardinality(W))
               summaries == {build_network_summary(n, r.rows, context, P, W) : n \in r.nets}
    <2>1. /\ NetworkSummaries(r, r.nets, r.rows).priorities = P
          /\ NetworkSummaries(r, r.nets, r.rows).warnings = W
          /\ NetworkSummaries(r, r.nets, r.rows).networks = summaries
          /\ page = [n \in r.nets |-> build_network_summary(n, r.rows, context, P, W)]
      BY DEF NetworkSummaries, OverviewPage
    <2>2. DOMAIN page = r.nets /\ \A n \in r.nets : page[n] = build_network_summary(n, r.rows, context, P, W)
      BY <2>1
    <2>w. W = compose_dashboard_coverage_warnings(r.nets, r.rows, r.facts,
                 {p.net : p \in {q \in P : q.card.type = "router_neighbourhood_review"}})
      BY DEF OverviewPage
    <2> HIDE DEF P, W, page, context
    <2>3. summaries = {page[n] : n \in r.nets}
      BY <2>2
    <2> HIDE DEF summaries
    <2>4. /\ d.networks = {page[n] : n \in r.nets}
          /\ d.network_count = Cardinality(d.networks)
          /\ d.device_count = Cardinality(r.rows)
          /\ d.unavailable = Cardinality({x \in r.rows : x.availability = "offline"})
          /\ d.active = context.open /\ d.watching = context.watching
          /\ d.risks = routers(r.rows, r.risk, context)
          /\ d.summary = summary
          /\ d.unnamed = r.unnamed /\ d.priorities = P /\ d.warnings = W
      <3> DEFINE ns == NetworkSummaries(r, r.nets, r.rows)
      <3>1. d = [collected |-> TRUE, unnamed |-> r.unnamed, active |-> context.open, watching |-> context.watching,
                 network_count |-> Cardinality(ns.networks), device_count |-> Cardinality(r.rows),
                 unavailable |-> Unavailable(r.rows), networks |-> ns.networks,
                 devices |-> devices(r.rows, context),
                 risks |-> routers(r.rows, r.risk, context),
                 summary |-> decision_count_summary_from_badges(
                                device_decision_badges_for_devices(r.rows), Cardinality(ns.warnings)),
                 priorities |-> ns.priorities, warnings |-> ns.warnings]
        BY <1>3 DEF dashboard, context
      <3> HIDE DEF d, ns
      <3>2. /\ d.networks = ns.networks /\ d.network_count = Cardinality(ns.networks)
            /\ d.device_count = Cardinality(r.rows) /\ d.unavailable = Unavailable(r.rows)
            /\ d.active = context.open /\ d.watching = context.watching
            /\ d.risks = routers(r.rows, r.risk, context)
            /\ d.summary = decision_count_summary_from_badges(
                                device_decision_badges_for_devices(r.rows), Cardinality(ns.warnings))
            /\ d.unnamed = r.unnamed /\ d.priorities = ns.priorities /\ d.warnings = ns.warnings
        BY <3>1
      <3>3. ns.networks = {page[n] : n \in r.nets} /\ ns.warnings = W /\ ns.priorities = P
        BY <2>1, <2>3 DEF ns
      <3> QED
        BY <3>2, <3>3 DEF Unavailable
    <2>5. ASSUME NEW n \in r.nets PROVE Shows(page[n], n, r.rows, r.incidents, P, W)
      <3>1. page[n] = build_network_summary(n, r.rows, IncidentContext(r.incidents), P, W)
        BY <2>2, <2>5 DEF context
      <3> QED
        BY <1>1, <3>1, NetworkShows
    <2> HIDE DEF d
    <2>6. \A n \in r.nets : page[n].id = n
      BY <2>5 DEF Shows
    <2>7. /\ summary.subjects = Cardinality(r.rows) /\ summary.warnings = Cardinality(W)
          /\ validate_decision_count_summary(summary)
      <3>0. AreRows(r.rows)
        BY <1>1
      <3>1. Sums(summary, r.rows, Cardinality(W))
        BY <3>0, SummaryIs
      <3> QED
        BY <3>1 DEF Sums
    <2>8. IsFiniteSet(W) /\ \A w \in W : w.net \in r.nets
      BY <1>1, <2>w, WarningsAre
    <2>9. TotalsAddUp(d)
      <3> DEFINE offline == {x \in r.rows : x.availability = "offline"}
                 Devices == [n \in d.networks |-> n.devices]
                 Unreached == [n \in d.networks |-> n.unavailable]
                 Subjects == [n \in d.networks |-> n.summary.subjects]
                 Warned == [n \in d.networks |-> n.summary.warnings]
      <3>0. IsFiniteSet(r.rows) /\ IsFiniteSet(offline) /\ \A x \in r.rows : x.net \in r.nets
        BY <1>1, FS_Subset DEF AreRows
      <3>1. SumOfCounts(Devices) = Cardinality(r.rows)
        <4>1. ASSUME NEW n \in r.nets PROVE Devices[page[n]] = Cardinality({x \in r.rows : x.net = n})
          BY <2>4, <2>5, <4>1 DEF Shows, RowsOf
        <4>2. DOMAIN Devices = {page[n] : n \in r.nets}
          BY <2>4
        <4> HIDE DEF Devices
        <4>c. CountsBy(Devices, r.rows, r.nets, page)
          BY <2>6, <3>0, <4>1, <4>2 DEF CountsBy
        <4> QED
          BY <4>c, NetworksAddUp
      <3>2. SumOfCounts(Unreached) = Cardinality(offline)
        <4>1. ASSUME NEW n \in r.nets PROVE Unreached[page[n]] = Cardinality({x \in offline : x.net = n})
          <5>1. {x \in RowsOf(r.rows, n) : x.availability = "offline"} = {x \in offline : x.net = n}
            BY DEF RowsOf
          <5> HIDE DEF offline
          <5> QED
            BY <2>4, <2>5, <4>1, <5>1 DEF Shows
        <4>2. DOMAIN Unreached = {page[n] : n \in r.nets}
          BY <2>4
        <4>3. \A x \in offline : x.net \in r.nets
          BY <3>0
        <4> HIDE DEF Unreached, offline
        <4>c. CountsBy(Unreached, offline, r.nets, page)
          BY <2>6, <3>0, <4>1, <4>2, <4>3 DEF CountsBy
        <4> QED
          BY <4>c, NetworksAddUp
      <3>3. SumOfCounts(Subjects) = Cardinality(r.rows)
        <4>1. ASSUME NEW n \in r.nets PROVE Subjects[page[n]] = Cardinality({x \in r.rows : x.net = n})
          BY <2>4, <2>5, <4>1 DEF Shows, RowsOf
        <4>2. DOMAIN Subjects = {page[n] : n \in r.nets}
          BY <2>4
        <4> HIDE DEF Subjects
        <4>c. CountsBy(Subjects, r.rows, r.nets, page)
          BY <2>6, <3>0, <4>1, <4>2 DEF CountsBy
        <4> QED
          BY <4>c, NetworksAddUp
      <3>4. SumOfCounts(Warned) = Cardinality(W)
        <4>1. ASSUME NEW n \in r.nets PROVE Warned[page[n]] = Cardinality({x \in W : x.net = n})
          BY <2>4, <2>5, <4>1 DEF Shows
        <4>2. DOMAIN Warned = {page[n] : n \in r.nets}
          BY <2>4
        <4> HIDE DEF Warned
        <4>c. CountsBy(Warned, W, r.nets, page)
          BY <2>6, <2>8, <4>1, <4>2 DEF CountsBy
        <4> QED
          BY <4>c, NetworksAddUp
      <3> QED
        BY <2>4, <2>7, <3>1, <3>2, <3>3, <3>4 DEF TotalsAddUp
    <2>10. IncidentsAreShown(d)
      <3>1. ASSUME NEW n \in r.nets
            PROVE  /\ page[n].severity # Missing <=> page[n].incidents > 0
                   /\ page[n].incidents > 0 => NoCalmer(page[n].decision, "worth_reviewing", "medium")
        BY <2>5, <3>1 DEF Shows
      <3> QED
        BY <2>4, <3>1 DEF IncidentsAreShown
    <2>11. DevicesAreShown(r, d)
      <3>1. d.active + d.watching = Cardinality(r.incidents)
        BY <1>1, <2>4, CountsTouching DEF context
      <3>2. ASSUME NEW n \in r.nets
            PROVE  /\ \A x \in RowsOf(r.rows, n) : NoCalmer(page[n].decision, x.badge.status, x.badge.priority)
                   /\ NoCalmer(network(r, n).decision, page[n].decision.status, page[n].decision.priority)
        <4>1. \A x \in RowsOf(r.rows, n) : NoCalmer(page[n].decision, x.badge.status, x.badge.priority)
          BY <2>5, <3>2 DEF Shows
        <4>2. NoCalmer(network(r, n).decision, page[n].decision.status, page[n].decision.priority)
          BY OwnPageIsNoCalmer DEF page
        <4> QED
          BY <4>1, <4>2
      <3> QED
        BY <2>4, <2>6, <3>1, <3>2 DEF DevicesAreShown
    <2>12. IsTaken(r, d)
      <3>1. RisksAreRouters(d)
        <4>1. ASSUME NEW k PROVE CountOfIds(context, k) \in Nat
          BY <1>1, IdsAreCounted DEF context
        <4>2. ASSUME NEW x \in d.risks
              PROVE  /\ x.availability \in KNOWN_AVAILABILITIES /\ x.correlated \in Nat
                     /\ x.seen \in {Missing, "zoned", "raw"}
          <5>1. PICK y \in r.rows :
                   x = [key |-> Key(y), text |-> y.text, seen |-> y.seen, linkquality |-> y.lqi,
                        availability |-> IF y.availability \in KNOWN_AVAILABILITIES THEN y.availability
                                         ELSE "unknown",
                        correlated |-> CountOfIds(context, Key(y))]
            BY <2>4 DEF routers, CountOfIds
          <5>2. "unknown" \in KNOWN_AVAILABILITIES
            BY DEF KNOWN_AVAILABILITIES
          <5>3. x.availability \in KNOWN_AVAILABILITIES
            BY <5>1, <5>2
          <5>4. x.seen = y.seen /\ x.correlated = CountOfIds(context, Key(y))
            BY <5>1
          <5> QED
            BY <1>1, <4>1, <5>3, <5>4
        <4> QED
          BY <4>2 DEF RisksAreRouters
      <3>2. DecisionsAreKnown(d)
        <4>1. ASSUME NEW n \in r.nets
              PROVE  validate_decision_badge(page[n].decision) /\ validate_decision_count_summary(page[n].summary)
          BY <2>5, <4>1 DEF Shows
        <4>2. \A w \in W : w.label \in ToSet(WarningOrder)
          <5>1. W \subseteq AllWarnings(r.nets, r.rows, r.facts,
                      {p.net : p \in {q \in P : q.card.type = "router_neighbourhood_review"}})
            BY <1>1, <2>w, WarningsAre
          <5> QED
            BY <5>1 DEF AllWarnings, ShownOn
        <4> QED
          BY <2>4, <2>7, <4>1, <4>2 DEF DecisionsAreKnown, validate_data_coverage_warnings
      <3>3. CountsAreNumbers(d)
        <4>1. /\ Cardinality(r.rows) \in Nat /\ context.open \in Nat /\ context.watching \in Nat
              /\ Cardinality({x \in r.rows : x.availability = "offline"}) \in Nat
          <5>1. IsFiniteSet(r.rows) /\ IsFiniteSet({x \in r.rows : x.availability = "offline"})
            BY <1>1, FS_Subset DEF AreRows
          <5> QED
            BY <1>1, <5>1, CountsTouching, FS_CardinalityType DEF context
        <4>2. d.network_count \in Nat
          BY <1>1, <2>2, <2>4, FiniteImage, FS_CardinalityType
        <4>3. ASSUME NEW n \in r.nets PROVE {page[n].devices, page[n].unavailable, page[n].incidents} \subseteq Nat
          <5>1. IsFiniteSet(RowsOf(r.rows, n)) /\ IsFiniteSet({x \in RowsOf(r.rows, n) : x.availability = "offline"})
            BY <1>1, FS_Subset DEF AreRows, RowsOf
          <5>2. /\ Cardinality(RowsOf(r.rows, n)) \in Nat
                /\ Cardinality({x \in RowsOf(r.rows, n) : x.availability = "offline"}) \in Nat
            BY <5>1, FS_CardinalityType
          <5>3. page[n].devices \in Nat /\ page[n].unavailable \in Nat /\ page[n].incidents \in Nat
            BY <2>5, <4>3, <5>2 DEF Shows
          <5> QED
            BY <5>3
        <4> QED
          BY <2>4, <4>1, <4>2, <4>3 DEF CountsAreNumbers
      <3>4. \A p \in d.priorities : p.card.score \in Int
        <4>1. P \subseteq AllPriorities(r.nets, r.cards)
          BY <1>1, PrioritiesAre DEF OverviewPage, P
        <4> QED
          BY <1>1, <2>4, <4>1 DEF AllPriorities, AreCards
      <3> QED
        BY <2>4, <3>1, <3>2, <3>3, <3>4, TakenWhenValid
    <2> QED
      BY <2>9, <2>10, <2>11, <2>12, PartsAddUp DEF OneStatement, d
  <1> QED
    BY <1>2, <1>3

\* The questions about dashboards are reads.
PageInput ==
    /\ topic = "seed page" => input[1] \subseteq PageRows /\ input[2] \subseteq PageIncidents
    /\ topic = "page" => AreReads(input)

\* The rows of the run are device rows.
LEMMA PageRowsAre == AreRows(PageRows) /\ \A x \in PageRows : x.net \in {1, 2} /\ x.seen \in {Missing, "zoned", "raw"}
  <1> DEFINE a == [net |-> 1, ieee |-> 1, type |-> "Router", availability |-> "offline", seen |-> "zoned",
                   lqi |-> 80, text |-> "formed", badge |-> Badge("review_first", "high")]
             b == [net |-> 1, ieee |-> 2, type |-> "Router", availability |-> "online", seen |-> "raw",
                   lqi |-> Missing, text |-> "formed", badge |-> Badge("watch", "low")]
             c == [net |-> 2, ieee |-> 1, type |-> "EndDevice", availability |-> "offline", seen |-> Missing,
                   lqi |-> 0, text |-> "formed", badge |-> Badge("improve_data_coverage", "medium")]
             e == [net |-> 2, ieee |-> 3, type |-> "Router", availability |-> "unknown", seen |-> Missing,
                   lqi |-> -1, text |-> "odd", badge |-> Badge("no_notable_change", "none")]
  <1>1. PageRows = {a, b, c, e}
    BY DEF PageRows
  <1>2. /\ a.net = 1 /\ a.ieee = 1 /\ a.seen = "zoned" /\ b.net = 1 /\ b.ieee = 2 /\ b.seen = "raw"
        /\ c.net = 2 /\ c.ieee = 1 /\ c.seen = Missing /\ e.net = 2 /\ e.ieee = 3 /\ e.seen = Missing
    OBVIOUS
  <1>3. /\ a.badge.status = "review_first" /\ a.badge.priority = "high"
        /\ b.badge.status = "watch" /\ b.badge.priority = "low"
        /\ c.badge.status = "improve_data_coverage" /\ c.badge.priority = "medium"
        /\ e.badge.status = "no_notable_change" /\ e.badge.priority = "none"
    BY DEF Badge
  <1> HIDE DEF a, b, c, e
  <1>4. IsFiniteSet({a, b, c, e})
    <2>1. IsFiniteSet({a})
      BY FS_Singleton
    <2>2. IsFiniteSet({a} \cup {b})
      BY <2>1, FS_AddElement
    <2>3. IsFiniteSet(({a} \cup {b}) \cup {c})
      BY <2>2, FS_AddElement
    <2>4. IsFiniteSet((({a} \cup {b}) \cup {c}) \cup {e})
      BY <2>3, FS_AddElement
    <2>5. {a, b, c, e} = (({a} \cup {b}) \cup {c}) \cup {e}
      OBVIOUS
    <2> QED
      BY <2>4, <2>5
  <1>5. /\ Key(a) = <<1, 1>> /\ Key(b) = <<1, 2>> /\ Key(c) = <<2, 1>> /\ Key(e) = <<2, 3>>
    BY <1>2 DEF Key
  <1>6. \A x, y \in {a, b, c, e} : Key(x) = Key(y) => x = y
    <2>1. /\ <<1, 1>> # <<1, 2>> /\ <<1, 1>> # <<2, 1>> /\ <<1, 1>> # <<2, 3>>
          /\ <<1, 2>> # <<2, 1>> /\ <<1, 2>> # <<2, 3>> /\ <<2, 1>> # <<2, 3>>
      OBVIOUS
    <2> QED
      BY <1>5, <2>1
  <1>7. "watch" \in StatusOrders /\ "no_notable_change" \in StatusOrders
    <2>1. DECISION_STATUS_ORDER[4] = "watch" /\ DECISION_STATUS_ORDER[7] = "no_notable_change"
      BY DEF DECISION_STATUS_ORDER
    <2>2. 4 \in DOMAIN DECISION_STATUS_ORDER /\ 7 \in DOMAIN DECISION_STATUS_ORDER
      BY OrdersAre
    <2> QED
      BY <2>1, <2>2 DEF StatusOrders, ToSet
  <1>8. \A x \in {a, b, c, e} : x.badge.status \in StatusOrders /\ x.badge.priority \in PriorityOrders
    BY <1>3, <1>7, OrdersAre
  <1> QED
    BY <1>1, <1>2, <1>4, <1>6, <1>8 DEF AreRows

\* The incidents of the run are incidents.
LEMMA PageIncidentsAre == AreIncidents(PageIncidents)
  <1> DEFINE a == [id |-> 1, nets |-> {1, 2}, open |-> TRUE, severity |-> "incident",
                   devices |-> {<<1, 1>>, <<2, 1>>}]
             b == [id |-> 2, nets |-> {2}, open |-> FALSE, severity |-> "watch", devices |-> {<<2, 3>>}]
             c == [id |-> 3, nets |-> {2}, open |-> TRUE, severity |-> "critical", devices |-> {}]
  <1>1. PageIncidents = {a, b, c}
    BY DEF PageIncidents
  <1>2. /\ a.open = TRUE /\ a.severity = "incident" /\ b.open = FALSE /\ b.severity = "watch"
        /\ c.open = TRUE /\ c.severity = "critical"
    OBVIOUS
  <1> HIDE DEF a, b, c
  <1>3. IsFiniteSet({a, b, c})
    <2>1. IsFiniteSet({a})
      BY FS_Singleton
    <2>2. IsFiniteSet({a} \cup {b})
      BY <2>1, FS_AddElement
    <2>3. IsFiniteSet(({a} \cup {b}) \cup {c})
      BY <2>2, FS_AddElement
    <2>4. {a, b, c} = ({a} \cup {b}) \cup {c}
      OBVIOUS
    <2> QED
      BY <2>3, <2>4
  <1>4. \A x \in {a, b, c} : x.open \in BOOLEAN /\ x.severity # Missing
    <2>1. a.severity # Missing /\ b.severity # Missing /\ c.severity # Missing
      BY <1>2, TextAssumption
    <2>2. a.open \in BOOLEAN /\ b.open \in BOOLEAN /\ c.open \in BOOLEAN
      BY <1>2
    <2> QED
      BY <2>1, <2>2
  <1> QED
    BY <1>1, <1>3, <1>4 DEF AreIncidents

\* The cards of the run are cards.
LEMMA PageCardsAre ==
    /\ IsFiniteSet(PageCards)
    /\ \A c \in PageCards : c.id \in Int /\ c.score \in Int /\ c.at \in Int \cup {Missing}
    /\ \A c, e \in PageCards : c.id = e.id => c = e
  <1> DEFINE a == [id |-> 1, type |-> "router_neighbourhood_review", priority |-> "Review first",
                   score |-> 12, at |-> 5, devices |-> {1, 2}, text |-> "formed"]
             b == [id |-> 2, type |-> "issue_cluster", priority |-> "Worth checking", score |-> 7,
                   at |-> Missing, devices |-> {3}, text |-> "odd"]
             c == [id |-> 3, type |-> "issue_cluster", priority |-> "Review first", score |-> 13, at |-> 4,
                   devices |-> {1}, text |-> "formed"]
  <1>1. PageCards = {a, b, c}
    BY DEF PageCards
  <1>2. /\ a.id = 1 /\ a.score = 12 /\ a.at = 5 /\ b.id = 2 /\ b.score = 7 /\ b.at = Missing
        /\ c.id = 3 /\ c.score = 13 /\ c.at = 4
    OBVIOUS
  <1> HIDE DEF a, b, c
  <1>3. IsFiniteSet({a, b, c})
    <2>1. IsFiniteSet({a})
      BY FS_Singleton
    <2>2. IsFiniteSet({a} \cup {b})
      BY <2>1, FS_AddElement
    <2>3. IsFiniteSet(({a} \cup {b}) \cup {c})
      BY <2>2, FS_AddElement
    <2>4. {a, b, c} = ({a} \cup {b}) \cup {c}
      OBVIOUS
    <2> QED
      BY <2>3, <2>4
  <1> QED
    BY <1>1, <1>2, <1>3

\* Some of the rows, incidents and cards are rows, incidents and cards.
LEMMA SomeAre ==
    /\ \A rows \in SUBSET PageRows : AreRows(rows)
    /\ \A incidents \in SUBSET PageIncidents : AreIncidents(incidents)
    /\ \A c1, c2 \in SUBSET PageCards : AreCards({1, 2}, <<c1, c2>>)
  <1>1. ASSUME NEW rows \in SUBSET PageRows PROVE AreRows(rows)
    <2>1. IsFiniteSet(rows)
      BY PageRowsAre, FS_Subset DEF AreRows
    <2> QED
      BY <2>1, PageRowsAre DEF AreRows
  <1>2. ASSUME NEW incidents \in SUBSET PageIncidents PROVE AreIncidents(incidents)
    <2>1. IsFiniteSet(incidents)
      BY PageIncidentsAre, FS_Subset DEF AreIncidents
    <2> QED
      BY <2>1, PageIncidentsAre DEF AreIncidents
  <1>3. ASSUME NEW c1 \in SUBSET PageCards, NEW c2 \in SUBSET PageCards PROVE AreCards({1, 2}, <<c1, c2>>)
    <2>1. IsFiniteSet(c1) /\ IsFiniteSet(c2)
      BY PageCardsAre, FS_Subset
    <2>2. IsFiniteSet({1, 2})
      <3>1. IsFiniteSet({1})
        BY FS_Singleton
      <3>2. IsFiniteSet({1} \cup {2})
        BY <3>1, FS_AddElement
      <3>3. {1, 2} = {1} \cup {2}
        OBVIOUS
      <3> QED
        BY <3>2, <3>3
    <2> DEFINE cards == <<c1, c2>>
    <2>3. cards[1] = c1 /\ cards[2] = c2
      OBVIOUS
    <2> HIDE DEF cards
    <2>4. \A n \in {1, 2} : IsFiniteSet(cards[n]) /\ cards[n] \subseteq PageCards
      BY <2>1, <2>3
    <2>5. \A n \in {1, 2} : n \in Int
      OBVIOUS
    <2> QED
      BY <2>2, <2>4, <2>5, PageCardsAre DEF AreCards, cards
  <1> QED
    BY <1>1, <1>2, <1>3

\* The run starts with rows and incidents.
LEMMA PageInputStart == RulesInit => PageInput
  <1> SUFFICES ASSUME RulesInit PROVE PageInput
    OBVIOUS
  <1>1. topic # "page"
    BY DEF RulesInit
  <1>2. ASSUME topic = "seed page" PROVE input[1] \subseteq PageRows /\ input[2] \subseteq PageIncidents
    <2>1. SeedPage
      BY <1>2 DEF RulesInit
    <2> QED
      BY <2>1 DEF SeedPage
  <1> QED
    BY <1>1, <1>2 DEF PageInput

\* Every question about a dashboard is reads of them.
LEMMA PageInputStep == PageInput /\ [RulesNext]_rulesVars => PageInput'
  <1> SUFFICES ASSUME PageInput, [RulesNext]_rulesVars PROVE PageInput'
    OBVIOUS
  <1>1. CASE AskPage
    <2>1. topic = "seed page" /\ topic' = "page"
      BY <1>1 DEF AskPage
    <2>2. input[1] \subseteq PageRows /\ input[2] \subseteq PageIncidents
      BY <2>1 DEF PageInput
    <2> DEFINE rows == input[1]
               incidents == input[2]
    <2>3. PICK risk \in SUBSET {<<1, 1>>, <<1, 2>>} \cup {{<<2, 3>>}}, c1 \in SUBSET PageCards,
               c2 \in {{}, PageCards}, facts \in [1 .. 2 -> PageFacts], unnamed \in {{}, {2}},
               nets \in {{1, 2}} \cup {n \in {{}} : rows = {} /\ ~input[3]} :
              input' = [collected |-> input[3], rows |-> rows, risk |-> risk, nets |-> nets,
                        configured |-> {1, 2}, unnamed |-> unnamed,
                        incidents |-> incidents, cards |-> <<c1, c2>>, facts |-> facts]
      BY <1>1 DEF AskPage
    <2>4. c2 \in SUBSET PageCards
      OBVIOUS
    <2> DEFINE cards == <<c1, c2>>
    <2>5. AreRows(rows) /\ AreIncidents(incidents) /\ AreCards({1, 2}, cards)
      BY <2>2, <2>4, SomeAre
    <2>6. \A x \in rows : x.net \in {1, 2} /\ x.seen \in {Missing, "zoned", "raw"}
      BY <2>2, PageRowsAre
    <2>n. nets = {1, 2} \/ (nets = {} /\ rows = {})
      <3> HIDE DEF rows
      <3> QED
        BY <2>3
    <2> HIDE DEF rows, incidents, cards
    <2>7. IsFiniteSet({1, 2}) /\ AreCards(nets, cards)
      BY <2>5, <2>n, FS_EmptySet DEF AreCards
    <2>8. \A x \in rows : x.net \in nets
      BY <2>6, <2>n
    <2>9. AreReads(input')
      <3>1. /\ input'.rows = rows /\ input'.incidents = incidents /\ input'.cards = cards
            /\ input'.nets = nets /\ input'.configured = {1, 2}
        BY <2>3 DEF cards
      <3> QED
        BY <2>5, <2>6, <2>7, <2>8, <3>1 DEF AreReads
    <2> QED
      BY <2>1, <2>9 DEF PageInput
  <1>2. CASE AskDiagnosis \/ AskTopology \/ AskStory \/ AskCards \/ AskReport \/ AskList \/ FollowList
    <2>1. topic' \notin {"seed page", "page"}
      BY <1>2 DEF AskDiagnosis, AskTopology, AskStory, AskCards, AskReport, AskList, FollowList
    <2> QED
      BY <2>1 DEF PageInput
  <1>3. CASE UNCHANGED rulesVars
    BY <1>3 DEF PageInput, rulesVars
  <1> QED
    BY <1>1, <1>2, <1>3 DEF RulesNext

\* So is every dashboard of the run.
THEOREM PagesOfTheRun == RulesSpec => [](topic = "page" => OneStatement(input))
  <1>1. PageInput => (topic = "page" => OneStatement(input))
    BY DashboardIsOneStatement DEF PageInput
  <1> QED
    BY <1>1, PageInputStart, PageInputStep, PTL DEF RulesSpec

(***************************************************************************)
(* Reports: the plan and the content                                       *)
(***************************************************************************)

\* What a client may ask.
IsReportRequest(q) ==
    /\ q = [scope |-> q.scope, net |-> q.net, dev |-> q.dev, incident |-> q.incident]
    /\ q.scope \in {"full", "network", "incident", "device"}

\* What the reads of the plan and the later ones may return: everything stored is of a
\* configured network, the id is the incidents' key, and an incident has a network, which it
\* keeps while it is active.
AreReportReads(p, r) ==
    /\ AreRows(r.rows) /\ \A x \in r.rows : x.net \in p.nets /\ x.net \in Int /\ x.ieee \in Int
    /\ AreIncidents(r.incidents) /\ \A i, j \in r.incidents : i.id = j.id => i = j
    /\ \A i \in r.incidents : /\ i.nets # {} /\ (~i.closed => r.touched[i.id] # {})
                              /\ \A k \in r.refs[i.id] : k[1] \in p.nets
    /\ AreCards(p.nets, r.cards)
    /\ \A n \in p.nets : \A c \in r.cards[n] :
          c = [id |-> c.id, type |-> c.type, priority |-> c.priority, score |-> c.score, at |-> c.at,
               devices |-> c.devices, text |-> c.text]
    /\ \A k \in p.devices : k = <<k[1], k[2]>> /\ k[1] \in p.nets
    /\ \A i \in p.incidents : i.nets \subseteq p.nets
    /\ IsList(r.events) /\ \A e \in RangeOf(r.events) : e.net \in p.nets

\* A plan that was made for a request.
IsPlan(plan, q, p) ==
    /\ plan.refused = Missing /\ plan.scope = q.scope
    /\ \/ plan.scope = "full" /\ plan.nets = p.nets
       \/ plan.scope = "network" /\ plan.net = q.net /\ plan.nets = {q.net} /\ q.net \in p.nets
       \/ /\ plan.scope = "incident" /\ plan.incident = q.incident
          /\ \E i \in p.incidents : i.id = q.incident /\ plan.nets = i.nets /\ plan.keys = i.devices
       \/ /\ plan.scope = "device" /\ plan.nets = {plan.net}
          /\ \E k \in p.devices : plan.keys = {k} /\ plan.net = k[1] /\ plan.dev = k[2]

\* More than one of a set are two.
LEMMA MoreThanOne ==
    ASSUME NEW S, S # {}, Cardinality(S) > 1
    PROVE  \E k, l \in S : k # l
  <1> SUFFICES ASSUME \A k, l \in S : k = l PROVE FALSE
    OBVIOUS
  <1>1. PICK k \in S : S = {k}
    OBVIOUS
  <1>2. Cardinality(S) = 1
    BY <1>1, FS_Singleton
  <1> QED
    BY <1>2

\* A request is planned, or refused for a reason.
LEMMA PlanIs ==
    ASSUME NEW q, IsReportRequest(q), NEW p, \A k \in p.devices : k = <<k[1], k[2]>>
    PROVE  LET plan == resolve_report_scope_plan(q, p) IN
           /\ plan.refused = Missing => IsPlan(plan, q, p)
           /\ plan.refused # Missing => RightlyRefused(plan.refused, q, p)
  <1> DEFINE plan == resolve_report_scope_plan(q, p)
             Right(x) == /\ x.refused = Missing => IsPlan(x, q, p)
                         /\ x.refused # Missing => RightlyRefused(x.refused, q, p)
  <1>1. ASSUME NEW scope, NEW nets, NEW keys, NEW net, NEW dev, NEW incident
        PROVE  LET x == Plan(scope, nets, keys, net, dev, incident) IN
               /\ x.refused = Missing /\ x.scope = scope /\ x.nets = nets /\ x.keys = keys
               /\ x.net = net /\ x.dev = dev /\ x.incident = incident
    BY DEF Plan
  <1>2. \A why : Refused(why).refused = why
    BY DEF Refused
  <1>3. Missing # "request" /\ Missing # "not found" /\ Missing # "ambiguous"
    BY ReportAssumption
  <1>4. ASSUME NEW why, why \in {"request", "not found", "ambiguous"}, RightlyRefused(why, q, p)
        PROVE  Right(Refused(why))
    BY <1>2, <1>3, <1>4
  <1>5. CASE q.scope = "full"
    <2>1. plan = Plan("full", p.nets, {}, Missing, Missing, Missing)
      BY <1>5 DEF resolve_report_scope_plan, FullPlan
    <2> HIDE DEF plan
    <2>2. plan.refused = Missing /\ plan.scope = "full" /\ plan.nets = p.nets
      BY <2>1, <1>1
    <2>3. IsPlan(plan, q, p)
      BY <1>5, <2>2 DEF IsPlan
    <2> QED
      BY <1>3, <2>2, <2>3 DEF plan
  <1>6. CASE q.scope = "network"
    <2>1. plan = NetworkPlan(q, p)
      BY <1>6 DEF resolve_report_scope_plan
    <2> HIDE DEF plan
    <2>2. CASE q.net = Missing
      <3>1. plan = Refused("request")
        BY <2>1, <2>2 DEF NetworkPlan
      <3>2. RightlyRefused("request", q, p)
        BY <1>6, <2>2 DEF RightlyRefused
      <3> QED
        BY <1>4, <3>1, <3>2 DEF plan
    <2>3. CASE q.net # Missing /\ q.net \notin p.nets
      <3>1. plan = Refused("not found")
        BY <2>1, <2>3 DEF NetworkPlan
      <3>2. RightlyRefused("not found", q, p)
        BY <1>6, <2>3 DEF RightlyRefused
      <3> QED
        BY <1>4, <3>1, <3>2 DEF plan
    <2>4. CASE q.net # Missing /\ q.net \in p.nets
      <3>1. plan = Plan("network", {q.net}, {}, q.net, Missing, Missing)
        BY <2>1, <2>4 DEF NetworkPlan
      <3>2. plan.refused = Missing /\ plan.scope = "network" /\ plan.nets = {q.net} /\ plan.net = q.net
        BY <3>1, <1>1
      <3>3. IsPlan(plan, q, p)
        BY <1>6, <2>4, <3>2 DEF IsPlan
      <3> QED
        BY <1>3, <3>2, <3>3 DEF plan
    <2> QED
      BY <2>2, <2>3, <2>4
  <1>7. CASE q.scope = "incident"
    <2> DEFINE found == {i \in p.incidents : i.id = q.incident}
    <2>1. plan = IncidentPlan(q, p)
      BY <1>7 DEF resolve_report_scope_plan
    <2> HIDE DEF plan
    <2>2. CASE q.incident = Missing
      <3>1. plan = Refused("request")
        BY <2>1, <2>2 DEF IncidentPlan
      <3>2. RightlyRefused("request", q, p)
        BY <1>7, <2>2 DEF RightlyRefused
      <3> QED
        BY <1>4, <3>1, <3>2 DEF plan
    <2>3. CASE q.incident # Missing /\ found = {}
      <3>1. plan = Refused("not found")
        BY <2>1, <2>3 DEF IncidentPlan
      <3>2. \A i \in p.incidents : i.id # q.incident
        BY <2>3
      <3>3. RightlyRefused("not found", q, p)
        BY <1>7, <3>2 DEF RightlyRefused
      <3> QED
        BY <1>4, <3>1, <3>3 DEF plan
    <2>4. CASE q.incident # Missing /\ found # {}
      <3> DEFINE i == CHOOSE x \in found : TRUE
      <3>1. i \in found
        BY <2>4
      <3>2. plan = Plan("incident", i.nets, i.devices, Missing, Missing, q.incident)
        BY <2>1, <2>4 DEF IncidentPlan
      <3>3. i \in p.incidents /\ i.id = q.incident
        BY <3>1
      <3> HIDE DEF i
      <3>4. /\ plan.refused = Missing /\ plan.scope = "incident" /\ plan.nets = i.nets /\ plan.keys = i.devices
            /\ plan.incident = q.incident
        BY <3>2, <1>1
      <3>5. IsPlan(plan, q, p)
        BY <1>7, <3>3, <3>4 DEF IsPlan
      <3> QED
        BY <1>3, <3>4, <3>5 DEF plan
    <2> QED
      BY <2>2, <2>3, <2>4
  <1>8. CASE q.scope = "device"
    <2> DEFINE matches == {k \in p.devices : k[2] = q.dev /\ q.net \in {Missing, k[1]}}
    <2>1. plan = DevicePlan(q, p)
      BY <1>8 DEF resolve_report_scope_plan
    <2> HIDE DEF plan
    <2>2. CASE q.dev = Missing
      <3>1. plan = Refused("request")
        BY <2>1, <2>2 DEF DevicePlan
      <3>2. RightlyRefused("request", q, p)
        BY <1>8, <2>2 DEF RightlyRefused
      <3> QED
        BY <1>4, <3>1, <3>2 DEF plan
    <2>3. CASE q.dev # Missing /\ matches = {}
      <3>1. plan = Refused("not found")
        BY <2>1, <2>3 DEF DevicePlan
      <3>2. \A k \in p.devices : ~(k[2] = q.dev /\ q.net \in {Missing, k[1]})
        BY <2>3
      <3>3. RightlyRefused("not found", q, p)
        BY <1>8, <3>2 DEF RightlyRefused
      <3> QED
        BY <1>4, <3>1, <3>3 DEF plan
    <2>4. CASE q.dev # Missing /\ matches # {} /\ Cardinality(matches) > 1
      <3>1. plan = Refused("ambiguous")
        BY <2>1, <2>4 DEF DevicePlan
      <3>2. PICK k, l \in matches : k # l
        <4> HIDE DEF matches
        <4> QED
          BY <2>4, MoreThanOne
      <3>3. q.net = Missing
        <4> SUFFICES ASSUME q.net # Missing PROVE FALSE
          OBVIOUS
        <4>1. k[1] = l[1] /\ k[2] = l[2] /\ k \in p.devices /\ l \in p.devices
          OBVIOUS
        <4>2. k = l
          BY <4>1
        <4> QED
          BY <3>2, <4>2
      <3>4. RightlyRefused("ambiguous", q, p)
        BY <1>8, <3>2, <3>3 DEF RightlyRefused
      <3> QED
        BY <1>4, <3>1, <3>4 DEF plan
    <2>5. CASE q.dev # Missing /\ matches # {} /\ ~(Cardinality(matches) > 1)
      <3> DEFINE k == CHOOSE x \in matches : TRUE
      <3>1. k \in matches
        BY <2>5
      <3>2. plan = Plan("device", {k[1]}, {k}, k[1], k[2], Missing)
        BY <2>1, <2>5 DEF DevicePlan
      <3>3. k \in p.devices
        BY <3>1
      <3> HIDE DEF k
      <3>4. /\ plan.refused = Missing /\ plan.scope = "device" /\ plan.nets = {k[1]} /\ plan.keys = {k}
            /\ plan.net = k[1] /\ plan.dev = k[2]
        BY <3>2, <1>1
      <3>5. IsPlan(plan, q, p)
        BY <1>8, <3>3, <3>4 DEF IsPlan
      <3> QED
        BY <1>3, <3>4, <3>5 DEF plan
    <2> QED
      BY <2>2, <2>3, <2>4, <2>5
  <1> QED
    BY <1>5, <1>6, <1>7, <1>8 DEF IsReportRequest

\* The parts of a report.
Sealed(t, timeline) == NewestOf(t, IF timeline THEN EventLimit ELSE 0)
ActiveRows(plan, r) ==
    {i \in IncidentRows(plan, r) : ~i.closed /\ (plan.scope = "device" => Target(plan) \in i.devices)}
Items(plan, r, timeline) ==
    {IncidentItem(plan, r, DeviceRows(plan, r), timeline, i) : i \in IncidentRows(plan, r)}
Findings(plan, r, timeline) ==
    ScopedFindings(plan, r, Items(plan, r, timeline), IncidentContext(ActiveRows(plan, r)))

\* What a report that was made along a plan says.
Content(rep, plan, r, timeline) ==
    LET rows == DeviceRows(plan, r)
        context == IncidentContext(ActiveRows(plan, r))
        found == Findings(plan, r, timeline) IN
    /\ rep.refused = Missing /\ \A x \in rows : x.net \in plan.nets
    /\ rep.devices = devices(rows, context)
    /\ rep.incidents = {[i EXCEPT !.timeline = Sealed(@, timeline)] : i \in Items(plan, r, timeline)}
    /\ rep.timeline = Sealed(TimelineOf(plan, r, Items(plan, r, timeline), timeline), timeline)
    /\ rep.priorities = found.priorities /\ rep.warnings = found.warnings
    /\ rep.risks = routers(rows, r.risk, context)
    /\ rep.networks = {build_network_summary(n, rows, context, rep.priorities, rep.warnings) : n \in plan.nets}
    /\ rep.summary = decision_count_summary_from_badges(device_decision_badges_for_devices(rows),
                                                        Cardinality(rep.warnings))
    /\ rep.counts.events = Len(rep.timeline) /\ rep.counts.devices = Len(rep.devices)

\* The active incidents of a scope are those of its history that count as active there.
LEMMA ScopeContext ==
    ASSUME NEW plan, NEW q, NEW p, IsPlan(plan, q, p), NEW r
    PROVE  _build_scope_active_incident_context(plan, IncidentRows(plan, r)) = IncidentContext(ActiveRows(plan, r))
  <1> DEFINE history == IncidentRows(plan, r)
             some == {i \in history : /\ ~i.closed
                                      /\ plan.scope = "device" => Target(plan) \in i.devices
                                      /\ plan.scope = "incident" => i.id = plan.incident}
  <1>1. plan.scope = "incident" => \A i \in history : i.id = plan.incident
    BY DEF IncidentRows, Selected
  <1>2. some = {i \in history : ~i.closed /\ (plan.scope = "device" => Target(plan) \in i.devices)}
    <2> HIDE DEF history
    <2> QED
      BY <1>1
  <1>3. _build_scope_active_incident_context(plan, history) = IncidentContext(some)
    BY DEF _build_scope_active_incident_context
  <1> HIDE DEF some
  <1> QED
    BY <1>2, <1>3 DEF ActiveRows

\* The rows of a scope are rows, of its networks and of its target.
LEMMA ScopeRows ==
    ASSUME NEW plan, NEW q, NEW p, IsPlan(plan, q, p), NEW r, AreReportReads(p, r)
    PROVE  LET rows == DeviceRows(plan, r) IN
           /\ AreRows(rows) /\ \A x \in rows : x.net \in Int /\ x.ieee \in Int
           /\ plan.scope = "full" => rows = r.rows
           /\ plan.scope = "network" => rows = {x \in r.rows : x.net \in plan.nets}
           /\ plan.scope = "device" => rows = {x \in r.rows : Key(x) = Target(plan)}
  <1> DEFINE rows == DeviceRows(plan, r)
  <1>1. plan.scope = "full" => rows = r.rows
    BY DEF DeviceRows
  <1>2. plan.scope = "network" => rows = {x \in r.rows : x.net \in plan.nets}
    <2>1. ASSUME plan.scope = "network" PROVE rows = {x \in r.rows : x.net = plan.net}
      BY <2>1 DEF DeviceRows, RowsOf
    <2>2. plan.scope = "network" => plan.nets = {plan.net}
      BY DEF IsPlan
    <2> QED
      BY <2>1, <2>2
  <1>3. plan.scope = "device" => rows = {x \in r.rows : Key(x) = Target(plan)}
    <2>1. ASSUME plan.scope = "device" PROVE rows = {x \in r.rows : Key(x) \in plan.keys}
      BY <2>1 DEF DeviceRows
    <2>2. ASSUME plan.scope = "device" PROVE plan.keys = {Target(plan)}
      <3>1. PICK k \in p.devices : plan.keys = {k} /\ plan.net = k[1] /\ plan.dev = k[2]
        BY <2>2 DEF IsPlan
      <3>2. k = <<k[1], k[2]>>
        BY DEF AreReportReads
      <3> QED
        BY <3>1, <3>2 DEF Target
    <2> QED
      BY <2>1, <2>2
  <1>4. rows \subseteq r.rows
    BY <1>1, <1>2, <1>3 DEF IsPlan, DeviceRows
  <1>5. AreRows(r.rows) /\ \A x \in r.rows : x.net \in Int /\ x.ieee \in Int
    BY DEF AreReportReads
  <1> HIDE DEF rows
  <1>6. IsFiniteSet(rows)
    BY <1>4, <1>5, FS_Subset DEF AreRows
  <1>7. AreRows(rows)
    BY <1>4, <1>5, <1>6 DEF AreRows
  <1> QED
    BY <1>1, <1>2, <1>3, <1>4, <1>5, <1>7 DEF rows

\* The rows of a scope are on the networks of the plan, unless it is the torn plan of an incident.
LEMMA RowsOfPlan ==
    ASSUME NEW plan, NEW q, NEW p, IsPlan(plan, q, p), NEW r, AreReportReads(p, r),
           NEW x \in DeviceRows(plan, r), x.net \notin plan.nets
    PROVE  RightlyRefused("raised", q, p)
  <1>1. x.net = Key(x)[1] /\ x.net \in p.nets
    BY DEF Key, AreReportReads, DeviceRows, RowsOf, IsPlan
  <1>2. plan.scope # "full" /\ plan.scope # "network"
    BY <1>1, ScopeRows DEF IsPlan
  <1>3. plan.scope # "device"
    <2> SUFFICES ASSUME plan.scope = "device" PROVE FALSE
      OBVIOUS
    <2>1. Key(x) = Target(plan) /\ plan.nets = {plan.net}
      BY ScopeRows DEF IsPlan
    <2>2. Target(plan)[1] = plan.net
      BY DEF Target
    <2> QED
      BY <1>1, <2>1, <2>2
  <1>4. PICK i \in p.incidents : i.id = q.incident /\ plan.nets = i.nets /\ plan.keys = i.devices
    BY <1>2, <1>3 DEF IsPlan
  <1>5. Key(x) \in plan.keys /\ plan.scope = "incident" /\ q.scope = "incident"
    BY <1>2, <1>3 DEF IsPlan, DeviceRows
  <1> QED
    BY <1>1, <1>4, <1>5 DEF RightlyRefused

\* A report is refused as its plan was or because the composition raised, or it has
\* the content of its plan.
LEMMA ContentIs ==
    ASSUME NEW q, IsReportRequest(q), NEW p, NEW r, AreReportReads(p, r), NEW timeline
    PROVE  LET plan == resolve_report_scope_plan(q, p)
               rep == generate_report(q, p, r, timeline) IN
           /\ rep.refused = Missing => IsPlan(plan, q, p) /\ Content(rep, plan, r, timeline)
           /\ rep.refused # Missing => RightlyRefused(rep.refused, q, p)
  <1> DEFINE plan == resolve_report_scope_plan(q, p)
             rep == generate_report(q, p, r, timeline)
             c == compose_live_report_scope(plan, r, timeline)
  <1>0. /\ plan.refused = Missing => IsPlan(plan, q, p)
        /\ plan.refused # Missing => RightlyRefused(plan.refused, q, p)
    <2>1. \A k \in p.devices : k = <<k[1], k[2]>>
      BY DEF AreReportReads
    <2> QED
      BY <2>1, PlanIs
  <1>1. CASE plan.refused # Missing
    <2>1. rep = plan
      BY <1>1 DEF generate_report
    <2> HIDE DEF plan, rep
    <2> QED
      BY <1>0, <1>1, <2>1 DEF plan, rep
  <1>2. CASE plan.refused = Missing
    <2>1. IsPlan(plan, q, p)
      BY <1>0, <1>2
    <2>2. rep = IF c.refused # Missing THEN c ELSE project_report_detail(c, timeline)
      BY <1>2 DEF generate_report
    <2> HIDE DEF rep, plan, c
    <2>3. CASE ~({x.net : x \in DeviceRows(plan, r)} \subseteq plan.nets)
      <3>1. c = Refused("raised")
        BY <2>3 DEF compose_live_report_scope, c
      <3>2. c.refused = "raised" /\ "raised" # Missing
        BY <3>1, ReportAssumption DEF Refused
      <3>3. rep.refused = "raised"
        BY <2>2, <3>2
      <3>4. PICK x \in DeviceRows(plan, r) : x.net \notin plan.nets
        BY <2>3
      <3>5. RightlyRefused("raised", q, p)
        BY <2>1, <3>4, RowsOfPlan
      <3> QED
        BY <3>2, <3>3, <3>5 DEF rep, plan
    <2>4. CASE {x.net : x \in DeviceRows(plan, r)} \subseteq plan.nets
      <3> DEFINE rows == DeviceRows(plan, r)
                 history == IncidentRows(plan, r)
                 context == IncidentContext(ActiveRows(plan, r))
                 incidents == Items(plan, r, timeline)
                 found == Findings(plan, r, timeline)
      <3>1. /\ _build_scope_active_incident_context(plan, history) = context
            /\ found = ScopedFindings(plan, r, incidents, context)
            /\ incidents = {IncidentItem(plan, r, rows, timeline, i) : i \in history}
        BY <2>1, ScopeContext DEF Findings, Items
      <3> HIDE DEF context, found, incidents
      <3>2. c = [refused |-> Missing, devices |-> devices(rows, context),
                 details |-> IF plan.scope \in {"incident", "device"} THEN {Key(x) : x \in rows} ELSE {},
                 incidents |-> incidents, timeline |-> TimelineOf(plan, r, incidents, timeline),
                 risks |-> routers(rows, r.risk, context),
                 priorities |-> found.priorities, warnings |-> found.warnings,
                 badges |-> device_decision_badges_for_devices(rows),
                 networks |-> {build_network_summary(n, rows, context, found.priorities, found.warnings) :
                                  n \in plan.nets}]
        BY <2>4, <3>1 DEF compose_live_report_scope, c
      <3> HIDE DEF rows, history
      <3>3. /\ c.refused = Missing /\ c.devices = devices(rows, context) /\ c.incidents = incidents
            /\ c.timeline = TimelineOf(plan, r, incidents, timeline)
            /\ c.risks = routers(rows, r.risk, context)
            /\ c.priorities = found.priorities /\ c.warnings = found.warnings
            /\ c.badges = device_decision_badges_for_devices(rows)
            /\ c.networks = {build_network_summary(n, rows, context, found.priorities, found.warnings) :
                                n \in plan.nets}
        BY <3>2
      <3>4. rep = project_report_detail(c, timeline)
        BY <2>2, <3>3
      <3>5. /\ rep.refused = Missing /\ rep.devices = c.devices /\ rep.risks = c.risks
            /\ rep.priorities = c.priorities /\ rep.warnings = c.warnings /\ rep.networks = c.networks
            /\ rep.timeline = Sealed(c.timeline, timeline)
            /\ rep.incidents = {[i EXCEPT !.timeline = Sealed(@, timeline)] : i \in c.incidents}
            /\ rep.summary = decision_count_summary_from_badges(c.badges, Cardinality(c.warnings))
            /\ rep.counts.events = Len(Sealed(c.timeline, timeline)) /\ rep.counts.devices = Len(c.devices)
        BY <3>4 DEF project_report_detail, Sealed
      <3>6. \A x \in rows : x.net \in plan.nets
        BY <2>4 DEF rows
      <3>7. Content(rep, plan, r, timeline)
        BY <3>3, <3>5, <3>6 DEF Content, rows, context, incidents, found
      <3> QED
        BY <2>1, <3>5, <3>7 DEF rep, plan
    <2> QED
      BY <2>3, <2>4
  <1> QED
    BY <1>1, <1>2

\* What the tables had of an incident when the row i of a report was made of row j.
IsRowOf(i, j, r) == i.id = j.id /\ i.closed = j.closed /\ i.devices = r.refs[j.id] /\ i.nets = r.touched[j.id]

\* The history of a scope has a row for every incident selected, and no other.
LEMMA RowsOfHistory ==
    ASSUME NEW plan, NEW q, NEW p, IsPlan(plan, q, p), NEW r, AreReportReads(p, r)
    PROVE  LET H == IncidentRows(plan, r)
               S == Selected(plan, r) IN
           /\ S \subseteq r.incidents /\ AreIncidents(H) /\ \A i, j \in H : i.id = j.id => i = j
           /\ \A i \in H : \E j \in S : IsRowOf(i, j, r)
           /\ \A j \in S : \E i \in H : IsRowOf(i, j, r)
           /\ \A i \in H : (~i.closed => i.nets # {}) /\ \A k \in i.devices : k[1] \in p.nets
  <1> DEFINE S == Selected(plan, r)
             f == [j \in S |-> [id |-> j.id, closed |-> j.closed, open |-> j.open, severity |-> j.severity,
                                devices |-> r.refs[j.id], nets |-> r.touched[j.id]]]
             H == IncidentRows(plan, r)
  <1>1. S \subseteq r.incidents
    BY DEF Selected, IsPlan
  <1>2. H = {f[j] : j \in S} /\ DOMAIN f = S
    BY DEF IncidentRows
  <1>3. \A j \in S : IsRowOf(f[j], j, r) /\ f[j].open = j.open /\ f[j].severity = j.severity
    BY DEF IsRowOf
  <1> HIDE DEF S, f, H
  <1>4. IsFiniteSet(r.incidents) /\ \A j \in r.incidents : j.open \in BOOLEAN /\ j.severity # Missing
    BY DEF AreReportReads, AreIncidents
  <1>5. IsFiniteSet(S)
    BY <1>1, <1>4, FS_Subset
  <1>6. IsFiniteSet(H)
    BY <1>2, <1>5, FiniteImage
  <1>7. AreIncidents(H)
    BY <1>1, <1>2, <1>3, <1>4, <1>6 DEF AreIncidents
  <1>8. \A i, j \in H : i.id = j.id => i = j
    <2>1. ASSUME NEW i \in S, NEW j \in S, f[i].id = f[j].id PROVE f[i] = f[j]
      <3>1. i.id = j.id
        BY <1>3, <2>1 DEF IsRowOf
      <3>2. i = j
        BY <1>1, <3>1 DEF AreReportReads
      <3> QED
        BY <3>2
    <2> QED
      BY <1>2, <2>1
  <1>9. ASSUME NEW i \in H PROVE (~i.closed => i.nets # {}) /\ \A k \in i.devices : k[1] \in p.nets
    <2>1. PICK j \in S : IsRowOf(i, j, r)
      BY <1>2, <1>3
    <2>2. (~j.closed => r.touched[j.id] # {}) /\ \A k \in r.refs[j.id] : k[1] \in p.nets
      BY <1>1 DEF AreReportReads
    <2> QED
      BY <2>1, <2>2 DEF IsRowOf
  <1> QED
    BY <1>1, <1>2, <1>3, <1>7, <1>8, <1>9 DEF S, H

(***************************************************************************)
(* Reports: devices and findings keep to the scope                         *)
(***************************************************************************)

\* A list of devices has one entry for every row.
LEMMA ListedDevices ==
    ASSUME NEW rows, AreRows(rows), \A x \in rows : x.net \in Int /\ x.ieee \in Int, NEW context
    PROVE  LET list == devices(rows, context) IN
           /\ {list[i] : i \in DOMAIN list} = {device_summary(x, context) : x \in rows}
           /\ Len(list) = Cardinality(rows)
  <1> DEFINE D == {device_summary(x, context) : x \in rows}
             Place(d) == CHOOSE i \in DOMAIN DECISION_STATUS_ORDER : DECISION_STATUS_ORDER[i] = d.decision.status
             Sort(d) == <<Place(d), d.key[1], d.key[2]>>
             key == [d \in D |-> Sort(d)]
             order == InOrder(UpToKey(D, key))
             f == [x \in rows |-> device_summary(x, context)]
  <1>1. \A x \in rows : /\ device_summary(x, context).key = Key(x)
                        /\ device_summary(x, context).decision = x.badge
    BY DEF device_summary
  <1>2. IsFiniteSet(rows) /\ \A x, y \in rows : Key(x) = Key(y) => x = y
    BY DEF AreRows
  <1>3. IsFiniteSet(D) /\ Cardinality(D) = Cardinality(rows)
    <2>1. f \in [rows -> D] /\ \A x \in rows : f[x] = device_summary(x, context)
      OBVIOUS
    <2>2. \A d \in D : \E x \in rows : f[x] = d
      OBVIOUS
    <2> HIDE DEF f, D
    <2>3. \A x, y \in rows : f[x] = f[y] => x = y
      BY <1>1, <1>2, <2>1
    <2> QED
      BY <1>2, <2>1, <2>2, <2>3, SameCount
  <1>4. ASSUME NEW d \in D
        PROVE  /\ Sort(d) \in SortKeys(3) /\ d.key = <<d.key[1], d.key[2]>>
               /\ \E x \in rows : d = device_summary(x, context)
    <2>1. PICK x \in rows : d = device_summary(x, context)
      OBVIOUS
    <2>2. d.key = <<x.net, x.ieee>> /\ d.decision = x.badge
      BY <1>1, <2>1 DEF Key
    <2>3. d.key[1] = x.net /\ d.key[2] = x.ieee
      BY <2>2
    <2>4. \E i \in DOMAIN DECISION_STATUS_ORDER : DECISION_STATUS_ORDER[i] = d.decision.status
      BY <2>2 DEF AreRows, StatusOrders, ToSet
    <2>5. Place(d) \in DOMAIN DECISION_STATUS_ORDER
      BY <2>4
    <2>6. Place(d) \in Int
      <3> HIDE DEF Place
      <3> QED
        BY <2>5, OrdersAre
    <2> HIDE DEF Place
    <2>7. Sort(d) \in [1 .. 3 -> Int]
      BY <2>3, <2>6
    <2> QED
      BY <2>1, <2>2, <2>3, <2>7 DEF SortKeys
  <1>5. \A d, e \in D : Sort(d) = Sort(e) => d = e
    <2>1. ASSUME NEW d \in D, NEW e \in D, Sort(d) = Sort(e) PROVE d = e
      <3> DEFINE a == Place(d)
                 b == Place(e)
      <3>1. <<a, d.key[1], d.key[2]>> = <<b, e.key[1], e.key[2]>>
        BY <2>1
      <3> HIDE DEF a, b
      <3>2. d.key[1] = e.key[1] /\ d.key[2] = e.key[2]
        BY <3>1
      <3>3. d.key = e.key
        BY <3>2, <1>4
      <3>4. PICK x \in rows : d = device_summary(x, context)
        OBVIOUS
      <3>5. PICK y \in rows : e = device_summary(y, context)
        OBVIOUS
      <3>6. Key(x) = Key(y)
        BY <1>1, <3>3, <3>4, <3>5
      <3> QED
        BY <1>2, <3>4, <3>5, <3>6
    <2> QED
      BY <2>1
  <1>6. SortedBy(D, LAMBDA d, e : LexLess(Sort(d), Sort(e))) = order
    <2> HIDE DEF D, Sort
    <2> QED
      BY DEF SortedBy, UpToKey
  <1>7. devices(rows, context) = order
    <2> HIDE DEF order
    <2> QED
      BY <1>6 DEF devices
  <1>8. key \in [D -> SortKeys(3)] /\ \A d \in D : key[d] = Sort(d)
    BY <1>4
  <1> HIDE DEF key, D, Sort
  <1>9. \A d, e \in D : key[d] = key[e] => d = e
    BY <1>5, <1>8
  <1>10. Lists(order, D, UpToKey(D, key))
    BY <1>3, <1>8, <1>9, SortedUp
  <1> HIDE DEF order
  <1>11. order \in Seq(D) /\ Len(order) = Cardinality(D)
    BY <1>10, CutFacts, OverviewAssumption
  <1>12. {order[i] : i \in DOMAIN order} = D
    <2>1. DOMAIN order = 1 .. Cardinality(D)
      BY <1>11
    <2> QED
      BY <1>10, <2>1 DEF Lists
  <1> QED
    BY <1>3, <1>7, <1>11, <1>12 DEF D

\* What is in the scope of a plan.
Covers(plan, k) == k[1] \in plan.nets /\ (plan.scope = "device" => k = Target(plan))

\* The devices a report shows are the summaries of the scope's rows.
LEMMA ShownAre ==
    ASSUME NEW plan, NEW q, NEW p, IsPlan(plan, q, p), NEW r, AreReportReads(p, r), NEW timeline,
           NEW rep, Content(rep, plan, r, timeline)
    PROVE  LET rows == DeviceRows(plan, r)
               context == IncidentContext(ActiveRows(plan, r)) IN
           /\ Shown(rep) = {device_summary(x, context) : x \in rows}
           /\ {d.key : d \in Shown(rep)} = {Key(x) : x \in rows}
           /\ Len(rep.devices) = Cardinality(rows)
           /\ \A d \in Shown(rep) : Covers(plan, d.key)
  <1> DEFINE rows == DeviceRows(plan, r)
             context == IncidentContext(ActiveRows(plan, r))
             list == devices(rows, context)
  <1>1. rep.devices = list /\ \A x \in rows : x.net \in plan.nets
    BY DEF Content
  <1>2. AreRows(rows) /\ \A x \in rows : x.net \in Int /\ x.ieee \in Int
    BY ScopeRows
  <1> HIDE DEF context, rows
  <1>3. {list[i] : i \in DOMAIN list} = {device_summary(x, context) : x \in rows} /\ Len(list) = Cardinality(rows)
    BY <1>2, ListedDevices
  <1> HIDE DEF list
  <1>4. Shown(rep) = {device_summary(x, context) : x \in rows}
    BY <1>1, <1>3 DEF Shown
  <1>5. \A x : device_summary(x, context).key = Key(x)
    BY DEF device_summary
  <1>6. {d.key : d \in Shown(rep)} = {Key(x) : x \in rows}
    BY <1>4, <1>5
  <1>7. ASSUME NEW x \in rows PROVE Covers(plan, Key(x))
    <2>1. Key(x)[1] \in plan.nets
      BY <1>1 DEF Key
    <2>2. plan.scope = "device" => Key(x) = Target(plan)
      BY ScopeRows DEF rows
    <2> QED
      BY <2>1, <2>2 DEF Covers
  <1>8. \A d \in Shown(rep) : Covers(plan, d.key)
    BY <1>4, <1>5, <1>7
  <1> QED
    BY <1>1, <1>3, <1>4, <1>6, <1>8 DEF rows, context

\* Of the rows read, those of a scope are the ones it covers.
LEMMA CoveredRows ==
    ASSUME NEW plan, NEW q, NEW p, IsPlan(plan, q, p), plan.scope # "incident", NEW r, AreReportReads(p, r)
    PROVE  /\ DeviceRows(plan, r) \subseteq r.rows
           /\ \A x \in r.rows : Covers(plan, Key(x)) <=> x \in DeviceRows(plan, r)
  <1> DEFINE rows == DeviceRows(plan, r)
  <1>1. \A x : Key(x)[1] = x.net
    BY DEF Key
  <1>2. CASE plan.scope = "full"
    <2>1. plan.nets = p.nets /\ rows = r.rows
      BY <1>2, ScopeRows DEF IsPlan
    <2>2. \A x \in r.rows : x.net \in p.nets
      BY DEF AreReportReads
    <2> QED
      BY <1>1, <1>2, <2>1, <2>2 DEF Covers
  <1>3. CASE plan.scope = "network"
    <2>1. rows = {x \in r.rows : x.net \in plan.nets}
      BY <1>3, ScopeRows
    <2> HIDE DEF rows
    <2> QED
      BY <1>1, <1>3, <2>1 DEF Covers, rows
  <1>4. CASE plan.scope = "device"
    <2>1. rows = {x \in r.rows : Key(x) = Target(plan)} /\ plan.nets = {plan.net}
      BY <1>4, ScopeRows DEF IsPlan
    <2>2. Target(plan)[1] = plan.net
      BY DEF Target
    <2> HIDE DEF rows
    <2> QED
      BY <1>4, <2>1, <2>2 DEF Covers, rows
  <1> QED
    BY <1>2, <1>3, <1>4 DEF IsPlan

\* The keys of the routers at risk.
LEMMA RisksAre ==
    ASSUME NEW rows, NEW risk, NEW context
    PROVE  /\ \A d \in routers(rows, risk, context) :
                 \E x \in rows : d.key = Key(x) /\ x.type = "Router" /\ Key(x) \in risk
           /\ \A x \in rows : x.type = "Router" /\ Key(x) \in risk =>
                 \E d \in routers(rows, risk, context) : d.key = Key(x)
  <1> DEFINE Of(x) == [key |-> Key(x), text |-> x.text, seen |-> x.seen, linkquality |-> x.lqi,
                       availability |-> IF x.availability \in KNOWN_AVAILABILITIES THEN x.availability
                                        ELSE "unknown",
                       correlated |-> Cardinality(
                           IF Key(x) \in DOMAIN context.ids THEN context.ids[Key(x)] ELSE {})]
  <1>1. routers(rows, risk, context) = {Of(x) : x \in {y \in rows : y.type = "Router" /\ Key(y) \in risk}}
    BY DEF routers
  <1>2. \A x : Of(x).key = Key(x)
    OBVIOUS
  <1> HIDE DEF Of
  <1> QED
    BY <1>1, <1>2

\* A narrower report leaves out no device of its scope that the full one shows, and no
\* router at risk.
LEMMA NoDeviceIsLeftOut ==
    ASSUME NEW plan, NEW q, NEW p, IsPlan(plan, q, p), plan.scope # "incident",
           NEW r, AreReportReads(p, r), NEW timeline, NEW rep, Content(rep, plan, r, timeline),
           NEW all, NEW whole, IsPlan(all, whole, p), all.scope = "full",
           NEW full, Content(full, all, r, timeline)
    PROVE  /\ {d.key : d \in Shown(rep)} = {k \in {d.key : d \in Shown(full)} : Covers(plan, k)}
           /\ {d.key : d \in rep.risks} = {k \in {d.key : d \in full.risks} : Covers(plan, k)}
  <1> DEFINE rows == DeviceRows(plan, r)
             A == {d.key : d \in Shown(rep)}
             B == {d.key : d \in Shown(full)}
             C == {d.key : d \in rep.risks}
             D == {d.key : d \in full.risks}
             Risky(x) == x.type = "Router" /\ Key(x) \in r.risk
  <1>1. rows \subseteq r.rows /\ \A x \in r.rows : Covers(plan, Key(x)) <=> x \in rows
    BY CoveredRows
  <1>2. DeviceRows(all, r) = r.rows
    BY ScopeRows
  <1>3. A = {Key(x) : x \in rows} /\ B = {Key(x) : x \in r.rows}
    BY <1>2, ShownAre
  <1>4. /\ \A k \in C : \E x \in rows : k = Key(x) /\ Risky(x)
        /\ \A x \in rows : Risky(x) => Key(x) \in C
    <2> DEFINE context == IncidentContext(ActiveRows(plan, r))
    <2>1. rep.risks = routers(rows, r.risk, context)
      BY DEF Content
    <2> HIDE DEF context, rows
    <2> QED
      BY <2>1, RisksAre
  <1>5. /\ \A k \in D : \E x \in r.rows : k = Key(x) /\ Risky(x)
        /\ \A x \in r.rows : Risky(x) => Key(x) \in D
    <2> DEFINE context == IncidentContext(ActiveRows(all, r))
    <2>1. full.risks = routers(r.rows, r.risk, context)
      BY <1>2 DEF Content
    <2> HIDE DEF context
    <2> QED
      BY <2>1, RisksAre
  <1> HIDE DEF rows, A, B, C, D, Risky
  <1>6. A = {k \in B : Covers(plan, k)}
    <2>1. ASSUME NEW k \in A PROVE k \in B /\ Covers(plan, k)
      BY <1>1, <1>3
    <2>2. ASSUME NEW k \in B, Covers(plan, k) PROVE k \in A
      BY <1>1, <1>3, <2>2
    <2> QED
      BY <2>1, <2>2
  <1>7. C = {k \in D : Covers(plan, k)}
    <2>1. ASSUME NEW k \in C PROVE k \in D /\ Covers(plan, k)
      BY <1>1, <1>4, <1>5
    <2>2. ASSUME NEW k \in D, Covers(plan, k) PROVE k \in C
      <3>1. PICK x \in r.rows : k = Key(x) /\ Risky(x)
        BY <1>5
      <3> QED
        BY <1>1, <1>4, <2>2, <3>1
    <2> QED
      BY <2>1, <2>2
  <1> QED
    BY <1>6, <1>7 DEF A, B, C, D

\* A plan is about networks that there are.
LEMMA PlanNets ==
    ASSUME NEW plan, NEW q, NEW p, IsPlan(plan, q, p), NEW r, AreReportReads(p, r)
    PROVE  /\ plan.nets \subseteq p.nets /\ AreCards(plan.nets, r.cards)
           /\ \A x \in compose_dashboard_investigation_priorities(plan.nets, r.cards) :
                 /\ x.net \in plan.nets /\ x = [net |-> x.net, card |-> x.card]
                 /\ x.card = [id |-> x.card.id, type |-> x.card.type, priority |-> x.card.priority,
                              score |-> x.card.score, at |-> x.card.at, devices |-> x.card.devices,
                              text |-> x.card.text]
  <1>1. plan.nets \subseteq p.nets
    BY DEF IsPlan, AreReportReads
  <1>2. IsFiniteSet(plan.nets)
    BY <1>1, FS_Subset DEF AreReportReads, AreCards
  <1>3. AreCards(plan.nets, r.cards)
    BY <1>1, <1>2 DEF AreReportReads, AreCards
  <1>4. compose_dashboard_investigation_priorities(plan.nets, r.cards) \subseteq AllPriorities(plan.nets, r.cards)
    BY <1>3, PrioritiesAre
  <1>5. \A x \in AllPriorities(plan.nets, r.cards) :
           x.net \in plan.nets /\ x.card \in r.cards[x.net] /\ x = [net |-> x.net, card |-> x.card]
    BY DEF AllPriorities
  <1>6. \A n \in p.nets : \A c \in r.cards[n] :
           c = [id |-> c.id, type |-> c.type, priority |-> c.priority, score |-> c.score, at |-> c.at,
                devices |-> c.devices, text |-> c.text]
    BY DEF AreReportReads
  <1>7. ASSUME NEW x \in AllPriorities(plan.nets, r.cards)
        PROVE  x.card = [id |-> x.card.id, type |-> x.card.type, priority |-> x.card.priority,
                         score |-> x.card.score, at |-> x.card.at, devices |-> x.card.devices,
                              text |-> x.card.text]
    <2>1. x.net \in p.nets /\ x.card \in r.cards[x.net]
      BY <1>1, <1>5
    <2> QED
      BY <1>6, <2>1
  <1> QED
    BY <1>1, <1>3, <1>4, <1>5, <1>7

\* A priority whose card is narrowed to the devices in keep.
Narrow(x, keep) == [x EXCEPT !.card.devices = {d \in @ : <<x.net, d>> \in keep}]

\* Narrowing keeps the network, the card's id and the devices that are in keep.
LEMMA NarrowIs ==
    ASSUME NEW x, x = [net |-> x.net, card |-> x.card],
           x.card = [id |-> x.card.id, type |-> x.card.type, priority |-> x.card.priority,
                     score |-> x.card.score, at |-> x.card.at, devices |-> x.card.devices,
                              text |-> x.card.text],
           NEW keep
    PROVE  /\ Narrow(x, keep).net = x.net /\ Narrow(x, keep).card.id = x.card.id
           /\ Narrow(x, keep).card.devices = {d \in x.card.devices : <<x.net, d>> \in keep}
  <1> DEFINE new == {d \in x.card.devices : <<x.net, d>> \in keep}
             card == [x.card EXCEPT !.devices = new]
  <1>1. Narrow(x, keep) = [x EXCEPT !.card = card]
    BY DEF Narrow
  <1> HIDE DEF new
  <1>2. card.devices = new /\ card.id = x.card.id
    OBVIOUS
  <1> HIDE DEF card
  <1>3. [x EXCEPT !.card = card].net = x.net /\ [x EXCEPT !.card = card].card = card
    OBVIOUS
  <1> QED
    BY <1>1, <1>2, <1>3 DEF new

\* The priorities and warnings of a report keep to its scope, and its priorities leave out
\* none of a network or a device that the overview shows there.
LEMMA FindingsKeepToScope ==
    ASSUME NEW plan, NEW q, NEW p, IsPlan(plan, q, p), NEW r, AreReportReads(p, r), NEW timeline
    PROVE  LET found == Findings(plan, r, timeline)
               items == Items(plan, r, timeline) IN
           /\ \A x \in found.priorities :
                 /\ x.net \in plan.nets
                 /\ plan.scope = "device" => x.card.devices = {plan.dev}
                 /\ plan.scope = "incident" => /\ items # {}
                                               /\ \A d \in x.card.devices :
                                                     <<x.net, d>> \in UNION {DOMAIN i.affected : i \in items}
           /\ \A w \in found.warnings : w.net \in plan.nets
           /\ plan.scope = "full" =>
                 found.priorities = compose_dashboard_investigation_priorities(p.nets, r.cards)
           /\ plan.scope # "incident" =>
                 \A x \in compose_dashboard_investigation_priorities(p.nets, r.cards) :
                    x.net \in plan.nets /\ (plan.scope = "device" => plan.dev \in x.card.devices) =>
                       \E y \in found.priorities : y.net = x.net /\ y.card.id = x.card.id
  <1> DEFINE items == Items(plan, r, timeline)
             context == IncidentContext(ActiveRows(plan, r))
             found == Findings(plan, r, timeline)
             all == compose_dashboard_investigation_priorities(plan.nets, r.cards)
             named == UNION {DOMAIN i.affected : i \in items}
             affected == IF plan.scope = "incident" /\ items # {} THEN named ELSE context.affected
             route == {x.net : x \in {y \in all : y.card.type = "router_neighbourhood_review"}}
             warned == compose_dashboard_coverage_warnings(plan.nets, r.rows, r.facts, route)
             Naming(keep) == {x \in {Narrow(y, keep) : y \in all} : x.card.devices # {}}
  <1>1. /\ found.priorities = _filter_investigation_priorities(all, plan, affected)
        /\ found.warnings = _filter_coverage_warnings(warned, plan)
    BY DEF Findings, ScopedFindings
  <1>2. /\ plan.nets \subseteq p.nets /\ AreCards(plan.nets, r.cards)
        /\ \A x \in all :
              /\ x.net \in plan.nets /\ x = [net |-> x.net, card |-> x.card]
              /\ x.card = [id |-> x.card.id, type |-> x.card.type, priority |-> x.card.priority,
                           score |-> x.card.score, at |-> x.card.at, devices |-> x.card.devices,
                              text |-> x.card.text]
    BY PlanNets
  <1>c. items = {} /\ plan.scope = "incident" => context.affected = {}
    <2>1. items = {} => ActiveRows(plan, r) = {}
      <3>1. items = {} => IncidentRows(plan, r) = {}
        BY DEF Items
      <3> HIDE DEF items
      <3> QED
        BY <3>1 DEF ActiveRows
    <2>2. ActiveRows(plan, r) = {} => context.affected = {}
      BY DEF IncidentContext
    <2> QED
      BY <2>1, <2>2
  <1> HIDE DEF all, found, items, context, warned, route
  <1>3. ASSUME NEW keep, NEW x \in Naming(keep)
        PROVE  \E y \in all : /\ x.net = y.net /\ x.net \in plan.nets /\ x.card.devices # {}
                              /\ x.card.devices = {d \in y.card.devices : <<x.net, d>> \in keep}
    <2>1. PICK y \in all : x = Narrow(y, keep) /\ x.card.devices # {}
      OBVIOUS
    <2>y. /\ y = [net |-> y.net, card |-> y.card]
          /\ y.card = [id |-> y.card.id, type |-> y.card.type, priority |-> y.card.priority,
                       score |-> y.card.score, at |-> y.card.at, devices |-> y.card.devices,
                       text |-> y.card.text]
      BY <1>2, <2>1
    <2>n. /\ Narrow(y, keep).net = y.net
          /\ Narrow(y, keep).card.devices = {d \in y.card.devices : <<y.net, d>> \in keep}
      BY ONLY <2>y, NarrowIs
    <2>2. x.net = y.net /\ x.card.devices = {d \in y.card.devices : <<y.net, d>> \in keep}
      BY <2>1, <2>n
    <2> QED
      BY <1>2, <2>1, <2>2
  <1>f. /\ plan.scope = "full" => found.priorities = all
        /\ plan.scope = "network" => found.priorities = {x \in all : x.net = plan.net}
        /\ plan.scope = "device" => found.priorities = Naming({Target(plan)})
        /\ plan.scope = "incident" => found.priorities = Naming(affected)
    BY <1>1 DEF _filter_investigation_priorities, Narrow
  <1>4. ASSUME NEW x \in found.priorities
        PROVE  /\ x.net \in plan.nets
               /\ plan.scope = "device" => x.card.devices = {plan.dev}
               /\ plan.scope = "incident" => items # {} /\ \A d \in x.card.devices : <<x.net, d>> \in named
    <2>1. CASE plan.scope = "full"
      BY <1>2, <1>4, <1>f, <2>1
    <2>2. CASE plan.scope = "network"
      BY <1>2, <1>4, <1>f, <2>2
    <2>3. CASE plan.scope = "device"
      <3>1. x \in Naming({Target(plan)})
        BY <1>4, <1>f, <2>3
      <3>2. PICK y \in all : /\ x.net \in plan.nets /\ x.card.devices # {}
                             /\ x.card.devices = {d \in y.card.devices : <<x.net, d>> \in {Target(plan)}}
        BY <1>3, <3>1
      <3>3. \A d \in x.card.devices : d = plan.dev
        <4>1. ASSUME NEW d \in x.card.devices PROVE d = plan.dev
          <5>1. <<x.net, d>> = <<plan.net, plan.dev>>
            BY <3>2 DEF Target
          <5> QED
            BY <5>1
        <4> QED
          BY <4>1
      <3> QED
        BY <2>3, <3>2, <3>3
    <2>4. CASE plan.scope = "incident"
      <3>1. x \in Naming(affected)
        BY <1>4, <1>f, <2>4
      <3> HIDE DEF affected
      <3>2. PICK y \in all : /\ x.net \in plan.nets /\ x.card.devices # {}
                             /\ x.card.devices = {d \in y.card.devices : <<x.net, d>> \in affected}
        BY <1>3, <3>1
      <3>3. affected # {} /\ \A d \in x.card.devices : <<x.net, d>> \in affected
        BY <3>2
      <3>4. items # {}
        BY <1>c, <2>4, <3>3 DEF affected
      <3>5. affected = named
        BY <2>4, <3>4 DEF affected
      <3> QED
        BY <2>4, <3>2, <3>3, <3>4, <3>5
    <2> QED
      BY <2>1, <2>2, <2>3, <2>4 DEF IsPlan
  <1>5. \A w \in found.warnings : w.net \in plan.nets
    <2>1. \A w \in warned : w.net \in plan.nets
      BY <1>2, WarningsAre DEF warned, AreCards
    <2> QED
      BY <1>1, <2>1 DEF _filter_coverage_warnings
  <1>6. plan.scope = "full" => found.priorities = compose_dashboard_investigation_priorities(p.nets, r.cards)
    BY <1>f DEF all, IsPlan
  <1>7. ASSUME plan.scope # "incident", NEW x \in compose_dashboard_investigation_priorities(p.nets, r.cards),
               x.net \in plan.nets, plan.scope = "device" => plan.dev \in x.card.devices
        PROVE  \E y \in found.priorities : y.net = x.net /\ y.card.id = x.card.id
    <2>1. CASE plan.scope = "full"
      BY <1>6, <1>7, <2>1
    <2>2. ASSUME plan.scope \in {"network", "device"} PROVE x \in all
      <3>1. plan.nets = {x.net} /\ x.net \in p.nets
        BY <1>2, <1>7, <2>2 DEF IsPlan
      <3> QED
        BY <1>7, <3>1, OwnPriorities DEF all, AreReportReads
    <2>3. CASE plan.scope = "network"
      <3>1. x.net = plan.net
        BY <1>7, <2>3 DEF IsPlan
      <3> QED
        BY <1>f, <2>2, <2>3, <3>1
    <2>4. CASE plan.scope = "device"
      <3>1. x \in all /\ x.net = plan.net
        BY <1>7, <2>2, <2>4 DEF IsPlan
      <3>2. /\ x = [net |-> x.net, card |-> x.card]
            /\ x.card = [id |-> x.card.id, type |-> x.card.type, priority |-> x.card.priority,
                         score |-> x.card.score, at |-> x.card.at, devices |-> x.card.devices,
                         text |-> x.card.text]
        BY <1>2, <3>1
      <3> DEFINE keep == {Target(plan)}
                 y == Narrow(x, keep)
      <3>3. /\ y.net = x.net /\ y.card.id = x.card.id
            /\ y.card.devices = {d \in x.card.devices : <<x.net, d>> \in keep}
        BY ONLY <3>2, NarrowIs
      <3>4. <<x.net, plan.dev>> \in keep
        BY <3>1 DEF Target
      <3> HIDE DEF keep
      <3>5. y.card.devices # {}
        BY <1>7, <2>4, <3>3, <3>4
      <3>6. y \in Naming(keep)
        BY <3>1, <3>5
      <3>7. y \in found.priorities
        BY <1>f, <2>4, <3>6 DEF keep
      <3> QED
        BY <3>3, <3>7
    <2> QED
      BY <1>7, <2>1, <2>3, <2>4 DEF IsPlan
  <1> HIDE DEF named
  <1> QED
    BY <1>4, <1>5, <1>6, <1>7 DEF found, items, named

\* A network with a warning among many has one on its own.
LEMMA NetworkWarnings ==
    ASSUME NEW nets, IsFiniteSet(nets), \A n \in nets : n \in Int, NEW rows, NEW facts,
           NEW relevant, NEW more, NEW n \in nets, n \in relevant => n \in more,
           NEW w \in compose_dashboard_coverage_warnings(nets, rows, facts, relevant), w.net = n
    PROVE  \E v \in compose_dashboard_coverage_warnings({n}, rows, facts, more) : v.net = n
  <1> DEFINE own == compose_dashboard_coverage_warnings({n}, rows, facts, more)
             all == AllWarnings({n}, rows, facts, more)
  <1>1. ShownOn(n, rows, facts, relevant) \subseteq ShownOn(n, rows, facts, more)
    BY DEF ShownOn
  <1>2. w \in AllWarnings(nets, rows, facts, relevant) /\ WarningLimit >= 1
    BY WarningsAre
  <1>3. PICK l \in ShownOn(n, rows, facts, relevant) : w = [net |-> n, label |-> l]
    BY <1>2 DEF AllWarnings
  <1>4. all # {}
    BY <1>1, <1>3 DEF AllWarnings
  <1>5. IsFiniteSet({n}) /\ \A m \in {n} : m \in Int
    BY FS_Singleton
  <1> HIDE DEF own, all
  <1>6. own # {} /\ \A v \in own : v.net \in {n}
    BY <1>2, <1>4, <1>5, WarningsAre DEF own, all
  <1> QED
    BY <1>6 DEF own

\* Where the full report has a warning, so has the report of the network or the device.
LEMMA NoWarningIsLeftOut ==
    ASSUME NEW plan, NEW q, NEW p, IsPlan(plan, q, p), plan.scope # "incident",
           NEW r, AreReportReads(p, r), NEW timeline,
           NEW all, NEW whole, IsPlan(all, whole, p), all.scope = "full",
           NEW w \in Findings(all, r, timeline).warnings, w.net \in plan.nets
    PROVE  \E v \in Findings(plan, r, timeline).warnings : v.net = w.net
  <1> DEFINE Urgent(nets) == compose_dashboard_investigation_priorities(nets, r.cards)
             Route(nets) == {x.net : x \in {y \in Urgent(nets) : y.card.type = "router_neighbourhood_review"}}
             Warned(nets) == compose_dashboard_coverage_warnings(nets, r.rows, r.facts, Route(nets))
  <1>1. ASSUME NEW some PROVE Findings(some, r, timeline).warnings = _filter_coverage_warnings(Warned(some.nets), some)
    BY DEF Findings, ScopedFindings
  <1> HIDE DEF Warned
  <1>2. all.nets = p.nets
    BY DEF IsPlan
  <1>3. w \in Warned(p.nets)
    BY <1>1, <1>2 DEF _filter_coverage_warnings
  <1>4. \A v \in Warned(plan.nets) : v.net \in plan.nets => v \in Findings(plan, r, timeline).warnings
    BY <1>1 DEF _filter_coverage_warnings
  <1>5. CASE plan.scope = "full"
    <2>1. plan.nets = p.nets
      BY <1>5 DEF IsPlan
    <2> QED
      BY <1>3, <1>4, <2>1
  <1>6. CASE plan.scope \in {"network", "device"}
    <2> DEFINE n == w.net
    <2>1. plan.nets = {n} /\ n \in p.nets
      <3>1. plan.nets \subseteq p.nets
        BY PlanNets
      <3> QED
        BY <1>6, <3>1 DEF IsPlan
    <2>2. n \in Route(p.nets) => n \in Route({n})
      <3>1. ASSUME NEW x \in Urgent(p.nets), x.net = n PROVE x \in Urgent({n})
        BY <2>1, <3>1, OwnPriorities DEF AreReportReads
      <3> HIDE DEF Urgent, n
      <3> QED
        BY <3>1
    <2>3. IsFiniteSet(p.nets) /\ \A m \in p.nets : m \in Int
      BY DEF AreReportReads, AreCards
    <2> HIDE DEF Route, n
    <2>4. \E v \in Warned({n}) : v.net = n
      <3> DEFINE route == Route(p.nets)
                 more == Route({n})
      <3>1. n \in route => n \in more
        BY <2>2
      <3>2. w \in compose_dashboard_coverage_warnings(p.nets, r.rows, r.facts, route) /\ w.net = n
        BY <1>3 DEF Warned, n
      <3> HIDE DEF route, more
      <3>3. \E v \in compose_dashboard_coverage_warnings({n}, r.rows, r.facts, more) : v.net = n
        BY <2>1, <2>3, <3>1, <3>2, NetworkWarnings
      <3> QED
        BY <3>3 DEF Warned, more
    <2> QED
      BY <1>4, <2>1, <2>4 DEF n
  <1> QED
    BY <1>5, <1>6 DEF IsPlan

(***************************************************************************)
(* Reports: timelines and incidents                                        *)
(***************************************************************************)

\* A timeline is there only when it is asked for, and no longer than the limit.
Bounded(t, timeline) == Len(t) <= EventLimit /\ (~timeline => t = <<>>)

\* Sealing a timeline bounds it and adds nothing.
LEMMA SealedIs ==
    ASSUME NEW S, NEW t \in Seq(S), NEW timeline
    PROVE  /\ Sealed(t, timeline) \in Seq(S) /\ Bounded(Sealed(t, timeline), timeline)
           /\ ToSet(Sealed(t, timeline)) \subseteq ToSet(t)
  <1> DEFINE n == IF timeline THEN EventLimit ELSE 0
             s == NewestOf(t, n)
  <1>0. EventLimit \in Nat
    BY ReportAssumption
  <1>1. n \in Nat /\ n <= EventLimit /\ (~timeline => n = 0)
    <2>1. CASE timeline
      BY <1>0, <2>1
    <2>2. CASE ~timeline
      BY <1>0, <2>2
    <2> QED
      BY <2>1, <2>2
  <1> HIDE DEF n
  <1>2. s \in Seq(S) /\ Len(s) = (IF Len(t) < n THEN Len(t) ELSE n) /\ \A i \in 1 .. Len(s) : s[i] = t[i]
    BY <1>1, NewestOfFacts
  <1>3. Sealed(t, timeline) = s
    BY DEF Sealed, n
  <1> HIDE DEF s
  <1>4. Len(t) \in Nat /\ Len(s) \in Nat /\ Len(s) <= n /\ Len(s) <= Len(t)
    BY <1>1, <1>2
  <1>5. Bounded(s, timeline)
    <2>1. Len(s) <= EventLimit
      BY <1>0, <1>1, <1>4
    <2>2. ASSUME ~timeline PROVE s = <<>>
      <3>1. Len(s) = 0
        BY <1>1, <1>4, <2>2
      <3> QED
        BY <1>2, <3>1
    <2> QED
      BY <2>1, <2>2 DEF Bounded
  <1>6. DOMAIN s = 1 .. Len(s) /\ DOMAIN t = 1 .. Len(t)
    BY <1>2
  <1>7. ToSet(s) \subseteq ToSet(t)
    BY <1>2, <1>4, <1>6 DEF ToSet
  <1> QED
    BY <1>2, <1>3, <1>5, <1>7

\* The newest of some events.
LEMMA NewestEvents ==
    ASSUME NEW s, IsList(s), NEW I \in SUBSET (DOMAIN s)
    PROVE  LET t == NewestOf(Kept(s, I), EventLimit) IN
           /\ t \in Seq(RangeOf(s))
           /\ \A e \in ToSet(t) : \E i \in I : e = s[i]
  <1> DEFINE k == Kept(s, I)
             t == NewestOf(k, EventLimit)
  <1>1. k \in Seq(RangeOf(s)) /\ \A j \in DOMAIN k : \E i \in I : k[j] = s[i]
    BY KeptSequence DEF IsList
  <1> HIDE DEF k
  <1>2. /\ t \in Seq(RangeOf(s)) /\ Len(t) = (IF Len(k) < EventLimit THEN Len(k) ELSE EventLimit)
        /\ \A i \in 1 .. Len(t) : t[i] = k[i]
    BY <1>1, NewestOfFacts, ReportAssumption
  <1> HIDE DEF t
  <1>3. Len(k) \in Nat /\ Len(t) \in Nat /\ Len(t) <= Len(k)
    <2>1. EventLimit \in Nat
      BY ReportAssumption
    <2>2. Len(k) \in Nat /\ Len(t) \in Nat
      BY <1>1, <1>2
    <2> QED
      BY <1>2, <2>1, <2>2
  <1>4. DOMAIN t = 1 .. Len(t) /\ DOMAIN k = 1 .. Len(k)
    BY <1>1, <1>2
  <1>5. ASSUME NEW e \in ToSet(t) PROVE \E i \in I : e = s[i]
    <2>1. PICK j \in DOMAIN t : e = t[j]
      BY DEF ToSet
    <2>2. j \in DOMAIN k /\ e = k[j]
      BY <1>2, <1>3, <1>4, <2>1
    <2> QED
      BY <1>1, <2>2
  <1> QED
    BY <1>2, <1>5 DEF t, k

\* What a report lists of an incident.
ItemOf(plan, r, timeline, i) == IncidentItem(plan, r, DeviceRows(plan, r), timeline, i)
SealedOf(plan, r, timeline, i) == [ItemOf(plan, r, timeline, i) EXCEPT !.timeline = Sealed(@, timeline)]
IsItemOf(x, plan, r, timeline, i) ==
    /\ x.id = i.id /\ x.closed = i.closed /\ (i.nets # {} => x.nets = i.nets)
    /\ DOMAIN x.affected = _projection_refs_for_scope(plan, i)
    /\ \A y \in DeviceRows(plan, r) : Key(y) \in DOMAIN x.affected => x.affected[Key(y)] = y.badge
    /\ x.timeline \in Seq(RangeOf(r.events)) /\ \A e \in ToSet(x.timeline) : e.incident = i.id

\* The incident as it is composed, and as it is shown.
LEMMA ItemIs ==
    ASSUME NEW plan, NEW q, NEW p, IsPlan(plan, q, p), NEW r, AreReportReads(p, r), NEW timeline, NEW i
    PROVE  /\ IsItemOf(ItemOf(plan, r, timeline, i), plan, r, timeline, i)
           /\ IsItemOf(SealedOf(plan, r, timeline, i), plan, r, timeline, i)
           /\ Bounded(SealedOf(plan, r, timeline, i).timeline, timeline)
  <1> DEFINE rows == DeviceRows(plan, r)
             badges == device_decision_badges_for_devices(rows)
             refs == _projection_refs_for_scope(plan, i)
             affected == [k \in refs |-> IF k \in DOMAIN badges THEN badges[k]
                                         ELSE [status |-> "data_unavailable", priority |-> "none"]]
             I == {k \in DOMAIN r.events : r.events[k].incident = i.id}
             news == NewestOf(Kept(r.events, I), EventLimit)
             t == IF timeline THEN news ELSE <<>>
             own == IF i.nets = {} THEN {k[1] : k \in refs} ELSE i.nets
             x == ItemOf(plan, r, timeline, i)
             y == SealedOf(plan, r, timeline, i)
  <1>1. AreRows(rows)
    BY ScopeRows
  <1>2. x = [id |-> i.id, nets |-> own, closed |-> i.closed, affected |-> affected, timeline |-> t]
    BY DEF ItemOf, IncidentItem
  <1>3. y = [x EXCEPT !.timeline = Sealed(@, timeline)]
    BY DEF SealedOf
  <1> HIDE DEF rows, x, y
  <1>4. DOMAIN badges = {Key(z) : z \in rows} /\ \A z \in rows : badges[Key(z)] = z.badge
    BY <1>1, BadgesAre
  <1>n. i.nets # {} => own = i.nets
    OBVIOUS
  <1> HIDE DEF badges, refs, own
  <1>5. DOMAIN affected = refs /\ \A z \in rows : Key(z) \in DOMAIN affected => affected[Key(z)] = z.badge
    BY <1>4
  <1> HIDE DEF affected
  <1>6. t \in Seq(RangeOf(r.events)) /\ \A e \in ToSet(t) : e.incident = i.id
    <2>1. news \in Seq(RangeOf(r.events)) /\ \A e \in ToSet(news) : \E k \in I : e = r.events[k]
      BY NewestEvents DEF AreReportReads
    <2>2. \A e \in ToSet(news) : e.incident = i.id
      BY <2>1
    <2> HIDE DEF news
    <2>3. CASE timeline
      BY <2>1, <2>2, <2>3
    <2>4. CASE ~timeline
      <3>1. t = <<>>
        BY <2>4
      <3> HIDE DEF t
      <3>2. t \in Seq(RangeOf(r.events)) /\ DOMAIN t = {}
        BY <3>1
      <3> QED
        BY <3>2 DEF ToSet
    <2> QED
      BY <2>3, <2>4
  <1> HIDE DEF t
  <1>7. IsItemOf(x, plan, r, timeline, i)
    BY <1>n, <1>2, <1>5, <1>6 DEF IsItemOf, rows, refs
  <1>8. /\ Sealed(t, timeline) \in Seq(RangeOf(r.events)) /\ Bounded(Sealed(t, timeline), timeline)
        /\ ToSet(Sealed(t, timeline)) \subseteq ToSet(t)
    BY <1>6, SealedIs
  <1>9. y = [id |-> i.id, nets |-> own, closed |-> i.closed, affected |-> affected,
             timeline |-> Sealed(t, timeline)]
    BY <1>2, <1>3
  <1>10. IsItemOf(y, plan, r, timeline, i)
    BY <1>n, <1>5, <1>6, <1>8, <1>9 DEF IsItemOf, rows, refs
  <1>11. Bounded(y.timeline, timeline)
    BY <1>8, <1>9
  <1> QED
    BY <1>7, <1>10, <1>11 DEF x, y

\* A report lists each incident of its scope, and no other.
LEMMA IncidentsAre ==
    ASSUME NEW plan, NEW q, NEW p, IsPlan(plan, q, p), NEW r, AreReportReads(p, r), NEW timeline,
           NEW rep, Content(rep, plan, r, timeline)
    PROVE  /\ \A x \in rep.incidents : \E i \in IncidentRows(plan, r) :
                 IsItemOf(x, plan, r, timeline, i) /\ Bounded(x.timeline, timeline)
           /\ \A i \in IncidentRows(plan, r) : \E x \in rep.incidents : IsItemOf(x, plan, r, timeline, i)
           /\ rep.incidents = {SealedOf(plan, r, timeline, i) : i \in IncidentRows(plan, r)}
  <1> DEFINE H == IncidentRows(plan, r)
             Item(i) == ItemOf(plan, r, timeline, i)
             Shut(x) == [x EXCEPT !.timeline = Sealed(@, timeline)]
             Full(i) == SealedOf(plan, r, timeline, i)
  <1>1. rep.incidents = {Shut(x) : x \in {Item(i) : i \in H}}
    BY DEF Content, Items, ItemOf
  <1>2. \A i : Full(i) = Shut(Item(i))
    BY DEF SealedOf
  <1>3. \A i : IsItemOf(Full(i), plan, r, timeline, i) /\ Bounded(Full(i).timeline, timeline)
    BY ItemIs
  <1> HIDE DEF H, Item, Shut, Full
  <1>4. rep.incidents = {Full(i) : i \in H}
    BY <1>1, <1>2
  <1> QED
    BY <1>3, <1>4 DEF H, Full

\* The devices an incident names in a report: those in its scope, and all of them in a
\* report about the incident.
LEMMA RefsAre ==
    ASSUME NEW plan, NEW q, NEW p, IsPlan(plan, q, p), NEW r, AreReportReads(p, r),
           NEW i \in IncidentRows(plan, r)
    PROVE  LET refs == _projection_refs_for_scope(plan, i) IN
           /\ refs \subseteq i.devices
           /\ plan.scope # "incident" => \A k \in refs : Covers(plan, k)
           /\ \A k \in i.devices : Covers(plan, k) => k \in refs
  <1> DEFINE refs == _projection_refs_for_scope(plan, i)
  <1>1. \A k \in i.devices : k[1] \in p.nets
    BY RowsOfHistory
  <1>3. CASE plan.scope = "full"
    <2>1. refs = i.devices
      BY <1>3 DEF _projection_refs_for_scope
    <2>2. plan.nets = p.nets
      BY <1>3 DEF IsPlan
    <2> HIDE DEF refs
    <2> QED
      BY <1>1, <1>3, <2>1, <2>2 DEF Covers, refs
  <1>4. CASE plan.scope = "network"
    <2>1. refs = {k \in i.devices : k[1] = plan.net}
      BY <1>4 DEF _projection_refs_for_scope
    <2>2. plan.nets = {plan.net}
      BY <1>4 DEF IsPlan
    <2> HIDE DEF refs
    <2> QED
      BY <1>1, <1>4, <2>1, <2>2 DEF Covers, refs
  <1>5. CASE plan.scope = "incident"
    <2>1. refs = i.devices
      BY <1>5 DEF _projection_refs_for_scope
    <2> HIDE DEF refs
    <2> QED
      BY <1>1, <1>5, <2>1 DEF refs
  <1>6. CASE plan.scope = "device"
    <2>1. refs = {k \in i.devices : k = Target(plan)}
      BY <1>6 DEF _projection_refs_for_scope
    <2>2. Target(plan)[1] = plan.net
      BY DEF Target
    <2>3. plan.nets = {plan.net}
      BY <1>6 DEF IsPlan
    <2> HIDE DEF refs
    <2> QED
      BY <1>1, <1>6, <2>1, <2>2, <2>3 DEF Covers, refs
  <1> QED
    BY <1>3, <1>4, <1>5, <1>6 DEF IsPlan

\* A device is marked exactly when an active incident of the report names it, and has
\* there the decision it has in the list.
LEMMA DevicesAreMarked ==
    ASSUME NEW plan, NEW q, NEW p, IsPlan(plan, q, p), NEW r, AreReportReads(p, r), NEW timeline,
           NEW rep, Content(rep, plan, r, timeline), NEW d \in Shown(rep)
    PROVE  /\ d.affected <=> \E x \in rep.incidents : ~x.closed /\ d.key \in DOMAIN x.affected
           /\ \A x \in rep.incidents : d.key \in DOMAIN x.affected => x.affected[d.key] = d.decision
  <1> DEFINE rows == DeviceRows(plan, r)
             H == IncidentRows(plan, r)
             context == IncidentContext(ActiveRows(plan, r))
             Is(x, i) == IsItemOf(x, plan, r, timeline, i)
             Names(i, k) == k \in _projection_refs_for_scope(plan, i)
  <1>1. Shown(rep) = {device_summary(x, context) : x \in rows} /\ Covers(plan, d.key)
    BY ShownAre
  <1>2. context.affected = UNION {i.devices : i \in ActiveRows(plan, r)}
    BY DEF IncidentContext
  <1>t. plan.scope = "device" => d.key = Target(plan)
    BY <1>1 DEF Covers
  <1> HIDE DEF rows, context
  <1>3. PICK y \in rows : d = device_summary(y, context)
    BY <1>1
  <1>4. d.key = Key(y) /\ d.decision = y.badge /\ d.affected = (Key(y) \in context.affected)
    BY <1>3 DEF device_summary
  <1>5. /\ \A x \in rep.incidents : \E i \in H : Is(x, i)
        /\ \A i \in H : \E x \in rep.incidents : Is(x, i)
    BY IncidentsAre
  <1>6. \A x, i : Is(x, i) => /\ x.closed = i.closed
                              /\ \A k : k \in DOMAIN x.affected <=> Names(i, k)
                              /\ \A z \in rows : Key(z) \in DOMAIN x.affected => x.affected[Key(z)] = z.badge
    BY DEF IsItemOf, rows
  <1>7. \A i \in H : /\ \A k : Names(i, k) => k \in i.devices
                     /\ Names(i, d.key) <=> d.key \in i.devices
    BY <1>1, RefsAre
  <1>8. Key(y) \in context.affected <=> \E i \in H : ~i.closed /\ d.key \in i.devices
    BY <1>t, <1>2, <1>4 DEF ActiveRows
  <1> HIDE DEF H, Is, Names
  <1>9. (\E i \in H : ~i.closed /\ d.key \in i.devices)
           <=> \E x \in rep.incidents : ~x.closed /\ d.key \in DOMAIN x.affected
    <2>1. ASSUME NEW i \in H, ~i.closed, d.key \in i.devices
          PROVE  \E x \in rep.incidents : ~x.closed /\ d.key \in DOMAIN x.affected
      <3>1. PICK x \in rep.incidents : Is(x, i)
        BY <1>5
      <3> QED
        BY <1>6, <1>7, <2>1, <3>1
    <2>2. ASSUME NEW x \in rep.incidents, ~x.closed, d.key \in DOMAIN x.affected
          PROVE  \E i \in H : ~i.closed /\ d.key \in i.devices
      <3>1. PICK i \in H : Is(x, i)
        BY <1>5
      <3> QED
        BY <1>6, <1>7, <2>2, <3>1
    <2> QED
      BY <2>1, <2>2
  <1>10. \A x \in rep.incidents : d.key \in DOMAIN x.affected => x.affected[d.key] = d.decision
    BY <1>4, <1>5, <1>6
  <1>11. d.affected <=> Key(y) \in context.affected
    BY <1>4
  <1> QED
    BY <1>8, <1>9, <1>10, <1>11

\* The ids of the incidents that a report lists are those of the ones selected.
LEMMA ListedIds ==
    ASSUME NEW plan, NEW q, NEW p, IsPlan(plan, q, p), NEW r, AreReportReads(p, r), NEW timeline,
           NEW rep, Content(rep, plan, r, timeline)
    PROVE  {x.id : x \in rep.incidents} = {j.id : j \in Selected(plan, r)}
  <1> DEFINE H == IncidentRows(plan, r)
             S == Selected(plan, r)
             Is(x, i) == IsItemOf(x, plan, r, timeline, i)
  <1>1. /\ \A x \in rep.incidents : \E i \in H : Is(x, i)
        /\ \A i \in H : \E x \in rep.incidents : Is(x, i)
    BY IncidentsAre
  <1>2. /\ \A i \in H : \E j \in S : IsRowOf(i, j, r)
        /\ \A j \in S : \E i \in H : IsRowOf(i, j, r)
    BY RowsOfHistory
  <1>3. \A x, i : Is(x, i) => x.id = i.id
    BY DEF IsItemOf
  <1>4. \A i, j : IsRowOf(i, j, r) => i.id = j.id
    BY DEF IsRowOf
  <1> HIDE DEF H, S, Is
  <1>5. ASSUME NEW x \in rep.incidents PROVE \E j \in S : x.id = j.id
    <2>1. PICK i \in H : Is(x, i)
      BY <1>1
    <2> QED
      BY <1>2, <1>3, <1>4, <2>1
  <1>6. ASSUME NEW j \in S PROVE \E x \in rep.incidents : x.id = j.id
    <2>1. PICK i \in H : IsRowOf(i, j, r)
      BY <1>2
    <2> QED
      BY <1>1, <1>3, <1>4, <2>1
  <1> QED
    BY <1>5, <1>6 DEF S

\* Whether an incident of the full report concerns the scope of a plan.
Concerned(plan, i) == CASE plan.scope = "full" -> TRUE
                        [] plan.scope = "network" -> plan.net \in i.nets
                        [] plan.scope = "device" -> Target(plan) \in DOMAIN i.affected

\* A report of an incident has that incident; if the incidents did not change, a report of a
\* network or a device has those of the full one that concern it.
LEMMA NoIncidentIsLeftOut ==
    ASSUME NEW plan, NEW q, NEW p, IsPlan(plan, q, p),
           NEW r, AreReportReads(p, r), NEW timeline, NEW rep, Content(rep, plan, r, timeline),
           NEW all, NEW whole, IsPlan(all, whole, p), all.scope = "full",
           NEW full, Content(full, all, r, timeline)
    PROVE  /\ plan.scope = "incident" =>
                 {x.id : x \in rep.incidents} = {x.id : x \in full.incidents} \cap {plan.incident}
           /\ plan.scope # "incident" /\ Calm(r) =>
                 {x.id : x \in rep.incidents} = {x.id : x \in {y \in full.incidents : Concerned(plan, y)}}
  <1> DEFINE I == {x.id : x \in rep.incidents}
             F == {x.id : x \in full.incidents}
             S == Selected(plan, r)
  <1>1. Selected(all, r) = r.incidents
    BY DEF Selected
  <1>2. I = {j.id : j \in S} /\ F = {j.id : j \in r.incidents}
    BY <1>1, ListedIds
  <1>3. S \subseteq r.incidents
    BY RowsOfHistory
  <1>4. ASSUME plan.scope = "incident" PROVE I = F \cap {plan.incident}
    <2>1. S = {j \in r.incidents : j.id = plan.incident}
      BY <1>4 DEF Selected
    <2> HIDE DEF S, I, F
    <2> QED
      BY <1>2, <2>1
  <1>5. ASSUME plan.scope # "incident", Calm(r)
        PROVE  I = {x.id : x \in {y \in full.incidents : Concerned(plan, y)}}
    <2> DEFINE H == IncidentRows(all, r)
               Is(x, i) == IsItemOf(x, all, r, timeline, i)
    <2>1. /\ \A x \in full.incidents : \E i \in H : Is(x, i)
          /\ \A i \in H : \E x \in full.incidents : Is(x, i)
      BY IncidentsAre
    <2>2. /\ \A i \in H : \E j \in r.incidents : IsRowOf(i, j, r)
          /\ \A j \in r.incidents : \E i \in H : IsRowOf(i, j, r)
      BY <1>1, RowsOfHistory
    <2>3. ASSUME NEW x, NEW i, NEW j \in r.incidents, Is(x, i), IsRowOf(i, j, r)
          PROVE  x.id = j.id /\ (Concerned(plan, x) <=> j \in S)
      <3>1. i.id = j.id /\ i.devices = j.devices /\ i.nets = j.nets /\ j.nets # {}
        BY <1>5, <2>3 DEF IsRowOf, Calm, AreReportReads
      <3>2. x.id = i.id /\ x.nets = i.nets /\ DOMAIN x.affected = _projection_refs_for_scope(all, i)
        BY <2>3, <3>1 DEF IsItemOf
      <3>3. _projection_refs_for_scope(all, i) = i.devices
        BY DEF _projection_refs_for_scope
      <3>4. CASE plan.scope = "full"
        BY <3>1, <3>2, <3>4 DEF Concerned, Selected
      <3>5. CASE plan.scope = "network"
        BY <3>1, <3>2, <3>5 DEF Concerned, Selected
      <3>6. CASE plan.scope = "device"
        BY <3>1, <3>2, <3>3, <3>6 DEF Concerned, Selected
      <3> QED
        BY <1>5, <3>1, <3>2, <3>4, <3>5, <3>6 DEF IsPlan
    <2> HIDE DEF S, H, Is, F
    <2>4. ASSUME NEW j \in S PROVE \E x \in full.incidents : Concerned(plan, x) /\ x.id = j.id
      <3>1. PICK i \in H : IsRowOf(i, j, r)
        BY <1>3, <2>2
      <3>2. PICK x \in full.incidents : Is(x, i)
        BY <2>1
      <3> QED
        BY <1>3, <2>3, <3>1, <3>2
    <2>5. ASSUME NEW x \in full.incidents, Concerned(plan, x) PROVE \E j \in S : x.id = j.id
      <3>1. PICK i \in H : Is(x, i)
        BY <2>1
      <3>2. PICK j \in r.incidents : IsRowOf(i, j, r)
        BY <2>2
      <3> QED
        BY <2>3, <2>5, <3>1, <3>2
    <2> HIDE DEF I
    <2> QED
      BY <1>2, <2>4, <2>5
  <1> QED
    BY <1>4, <1>5

\* A priority of an incident's report names devices of one of its incidents only: it has one.
LEMMA PrioritiesNameOne ==
    ASSUME NEW plan, NEW q, NEW p, IsPlan(plan, q, p), plan.scope = "incident",
           NEW r, AreReportReads(p, r), NEW timeline, NEW rep, Content(rep, plan, r, timeline),
           NEW x \in rep.priorities
    PROVE  \E i \in rep.incidents : \A d \in x.card.devices : <<x.net, d>> \in DOMAIN i.affected
  <1> DEFINE items == Items(plan, r, timeline)
             H == IncidentRows(plan, r)
             Item(i) == ItemOf(plan, r, timeline, i)
             Is(y, i) == IsItemOf(y, plan, r, timeline, i)
  <1>1. items # {} /\ \A d \in x.card.devices : <<x.net, d>> \in UNION {DOMAIN i.affected : i \in items}
    <2>1. x \in Findings(plan, r, timeline).priorities
      BY DEF Content
    <2> QED
      BY <2>1, FindingsKeepToScope
  <1>2. \A i, j \in H : i = j
    <2>1. \A i \in H : i.id = plan.incident
      BY DEF IncidentRows, Selected
    <2>2. \A i, j \in H : i.id = j.id => i = j
      BY RowsOfHistory
    <2> HIDE DEF H
    <2> QED
      BY <2>1, <2>2
  <1>3. items = {Item(i) : i \in H} /\ \A i \in H : Is(Item(i), i)
    BY ItemIs DEF Items, ItemOf
  <1>4. \A i \in H : \E y \in rep.incidents : Is(y, i)
    BY IncidentsAre
  <1>5. \A y, i : Is(y, i) => DOMAIN y.affected = _projection_refs_for_scope(plan, i)
    BY DEF IsItemOf
  <1> HIDE DEF items, H, Item, Is
  <1>6. PICK i \in H : items = {Item(i)}
    BY <1>1, <1>2, <1>3
  <1>7. PICK y \in rep.incidents : Is(y, i)
    BY <1>4, <1>6
  <1>8. DOMAIN y.affected = DOMAIN Item(i).affected
    BY <1>3, <1>5, <1>6, <1>7
  <1>9. \A d \in x.card.devices : <<x.net, d>> \in DOMAIN Item(i).affected
    BY <1>1, <1>6
  <1> QED
    BY <1>8, <1>9

\* The active incidents that a report lists of network n; a device's report counts those
\* that still name the device.
ListedAt(rep, plan, n) ==
    {i \in rep.incidents : /\ ~i.closed /\ n \in i.nets
                           /\ plan.scope = "device" => DOMAIN i.affected # {}}

\* A network of a report counts the listed incidents that are active and touch it, and is
\* no calmer than one of its devices.
LEMMA NetworksOfReport ==
    ASSUME NEW plan, NEW q, NEW p, IsPlan(plan, q, p), NEW r, AreReportReads(p, r), NEW timeline,
           NEW rep, Content(rep, plan, r, timeline), NEW s \in rep.networks
    PROVE  /\ s.incidents = Cardinality(ListedAt(rep, plan, s.id))
           /\ s.severity # Missing <=> s.incidents > 0
           /\ \A d \in Shown(rep) : d.key[1] = s.id =>
                 AtLeast(DECISION_STATUS_ORDER, s.decision.status, d.decision.status)
  <1> DEFINE rows == DeviceRows(plan, r)
             H == IncidentRows(plan, r)
             active == ActiveRows(plan, r)
             context == IncidentContext(active)
             Full(i) == SealedOf(plan, r, timeline, i)
             Named(i) == plan.scope = "device" => Target(plan) \in i.devices
  <1>1. PICK n \in plan.nets : s = build_network_summary(n, rows, context, rep.priorities, rep.warnings)
    BY DEF Content
  <1>2. AreRows(rows)
    BY ScopeRows
  <1>3. /\ AreIncidents(H) /\ \A i, j \in H : i.id = j.id => i = j
        /\ \A i \in H : ~i.closed => i.nets # {}
    BY RowsOfHistory
  <1>4. active = {i \in H : ~i.closed /\ Named(i)}
    BY DEF ActiveRows
  <1>5. AreIncidents(active)
    <2> HIDE DEF active, H, Named
    <2>1. active \subseteq H
      BY <1>4
    <2> QED
      BY <1>3, <2>1, FS_Subset DEF AreIncidents
  <1>6. Shows(s, n, rows, active, rep.priorities, rep.warnings)
    <2> HIDE DEF rows, active
    <2> QED
      BY <1>1, <1>2, <1>5, NetworkShows DEF context
  <1>7. /\ s.id = n /\ s.incidents = Cardinality({i \in active : n \in i.nets})
        /\ s.severity # Missing <=> s.incidents > 0
        /\ \A x \in RowsOf(rows, n) : AtLeast(DECISION_STATUS_ORDER, s.decision.status, x.badge.status)
    <2> HIDE DEF rows, active
    <2> QED
      BY <1>6 DEF Shows, NoCalmer
  <1>8. Shown(rep) = {device_summary(x, context) : x \in rows}
    BY ShownAre
  <1>9. rep.incidents = {Full(i) : i \in H}
    BY IncidentsAre
  <1>10. \A i : /\ Full(i).id = i.id /\ Full(i).closed = i.closed /\ (i.nets # {} => Full(i).nets = i.nets)
                /\ DOMAIN Full(i).affected = _projection_refs_for_scope(plan, i)
    BY ItemIs DEF IsItemOf
  <1>11. \A i : plan.scope = "device" => (DOMAIN Full(i).affected # {} <=> Named(i))
    <2> HIDE DEF Full
    <2>1. \A i : plan.scope = "device" =>
             _projection_refs_for_scope(plan, i) = {k \in i.devices : k = Target(plan)}
      BY DEF _projection_refs_for_scope
    <2> QED
      BY <1>10, <2>1
  <1> HIDE DEF H, Full, rows, context
  <1>12. Cardinality(ListedAt(rep, plan, n)) = Cardinality({i \in active : n \in i.nets})
    <2> DEFINE A == {i \in active : n \in i.nets}
               B == ListedAt(rep, plan, n)
               f == [i \in A |-> Full(i)]
    <2>0. \A i \in A : i \in H /\ ~i.closed /\ Named(i) /\ n \in i.nets /\ i.nets # {}
      <3> HIDE DEF Named, active
      <3> QED
        BY <1>4
    <2>1. IsFiniteSet(A)
      BY <1>5, FS_Subset DEF AreIncidents
    <2>b. /\ \A i \in A : Full(i) \in B
          /\ \A x \in B : \E i \in A : Full(i) = x
      <3>1. ASSUME NEW i \in A PROVE Full(i) \in B
        <4>1. Full(i) \in rep.incidents /\ ~Full(i).closed /\ n \in Full(i).nets
          BY <1>9, <1>10, <2>0
        <4>2. plan.scope = "device" => DOMAIN Full(i).affected # {}
          <5> HIDE DEF A, Named
          <5> QED
            BY <1>11, <2>0
        <4> QED
          BY <4>1, <4>2 DEF ListedAt
      <3>2. ASSUME NEW x \in B PROVE \E i \in A : Full(i) = x
        <4>1. x \in rep.incidents /\ ~x.closed /\ n \in x.nets /\ (plan.scope = "device" => DOMAIN x.affected # {})
          BY DEF ListedAt
        <4>2. PICK i \in H : x = Full(i)
          BY <1>9, <4>1
        <4>3. ~i.closed /\ n \in i.nets
          BY <1>3, <1>10, <4>1, <4>2
        <4>4. Named(i)
          <5>1. plan.scope = "device" => DOMAIN Full(i).affected # {}
            BY <4>1, <4>2
          <5>2. plan.scope # "device" => Named(i)
            OBVIOUS
          <5> HIDE DEF Named
          <5> QED
            BY <1>11, <5>1, <5>2
        <4>5. i \in A
          BY <1>4, <4>3, <4>4
        <4> QED
          BY <4>2, <4>5
      <3> QED
        BY <3>1, <3>2
    <2> HIDE DEF A, B
    <2>2. f \in [A -> B] /\ \A i \in A : f[i] = Full(i)
      BY <2>b
    <2>3. \A x \in B : \E i \in A : f[i] = x
      BY <2>b, <2>2
    <2> HIDE DEF f
    <2>5. \A i, j \in A : f[i] = f[j] => i = j
      BY <1>3, <1>10, <2>0, <2>2
    <2>6. Cardinality(B) = Cardinality(A)
      BY <2>1, <2>2, <2>3, <2>5, SameCount
    <2> QED
      BY <2>6 DEF A, B
  <1>13. ASSUME NEW d \in Shown(rep), d.key[1] = s.id
         PROVE  AtLeast(DECISION_STATUS_ORDER, s.decision.status, d.decision.status)
    <2>1. PICK x \in rows : d = device_summary(x, context)
      BY <1>8
    <2>2. d.key = <<x.net, x.ieee>> /\ d.decision = x.badge
      BY <2>1 DEF device_summary, Key
    <2>3. d.key[1] = x.net
      BY <2>2
    <2>4. x \in RowsOf(rows, n)
      BY <1>7, <1>13, <2>3 DEF RowsOf
    <2> QED
      BY <1>7, <2>2, <2>4
  <1> QED
    BY <1>7, <1>12, <1>13

\* What a timeline may tell.
TellsOf(t, plan, r) ==
    /\ t \in Seq(RangeOf(r.events))
    /\ \A e \in ToSet(t) : IF plan.scope = "incident" THEN e.incident = plan.incident
                           ELSE Covers(plan, <<e.net, e.dev>>)

\* A timeline that tells nothing.
LEMMA TellsNothing ==
    ASSUME NEW plan, NEW r PROVE TellsOf(<<>>, plan, r)
  <1>1. <<>> \in Seq(RangeOf(r.events)) /\ ToSet(<<>>) = {}
    BY DEF ToSet
  <1> QED
    BY <1>1 DEF TellsOf

\* The timeline of a report is about its scope.
LEMMA TimelineIs ==
    ASSUME NEW plan, NEW q, NEW p, IsPlan(plan, q, p), NEW r, AreReportReads(p, r), NEW timeline
    PROVE  TellsOf(TimelineOf(plan, r, Items(plan, r, timeline), timeline), plan, r)
  <1> DEFINE items == Items(plan, r, timeline)
             told == TimelineOf(plan, r, items, timeline)
             Picked(I) == NewestOf(Kept(r.events, I), EventLimit)
             net == {k \in DOMAIN r.events : r.events[k].net = plan.net}
             dev == {k \in DOMAIN r.events : <<r.events[k].net, r.events[k].dev>> = Target(plan)}
             any == {k \in DOMAIN r.events : TRUE}
  <1>1. CASE ~timeline
    <2>1. told = <<>>
      BY <1>1 DEF TimelineOf
    <2> QED
      BY <2>1, TellsNothing
  <1>2. ASSUME NEW I \in SUBSET (DOMAIN r.events)
        PROVE  /\ Picked(I) \in Seq(RangeOf(r.events))
               /\ \A e \in ToSet(Picked(I)) : \E k \in I : e = r.events[k]
    BY NewestEvents DEF AreReportReads
  <1>e. \A k \in DOMAIN r.events : r.events[k].net \in p.nets
    BY DEF AreReportReads, RangeOf
  <1>3. CASE timeline /\ plan.scope = "full"
    <2>1. told = Picked(any)
      BY <1>3 DEF TimelineOf
    <2>2. any = DOMAIN r.events /\ plan.nets = p.nets
      BY <1>3 DEF IsPlan
    <2>3. told \in Seq(RangeOf(r.events)) /\ \A e \in ToSet(told) : \E k \in DOMAIN r.events : e = r.events[k]
      BY <1>2, <2>1, <2>2
    <2> HIDE DEF told
    <2>4. ASSUME NEW e \in ToSet(told) PROVE Covers(plan, <<e.net, e.dev>>)
      BY <1>3, <1>e, <2>2, <2>3 DEF Covers
    <2> QED
      BY <1>3, <2>3, <2>4 DEF TellsOf, told
  <1>4. CASE timeline /\ plan.scope = "network"
    <2>1. told = Picked(net)
      BY <1>4 DEF TimelineOf
    <2>2. plan.nets = {plan.net}
      BY <1>4 DEF IsPlan
    <2>3. told \in Seq(RangeOf(r.events)) /\ \A e \in ToSet(told) : \E k \in net : e = r.events[k]
      BY <1>2, <2>1
    <2> HIDE DEF told
    <2>4. ASSUME NEW e \in ToSet(told) PROVE Covers(plan, <<e.net, e.dev>>)
      BY <1>4, <2>2, <2>3 DEF Covers
    <2> QED
      BY <1>4, <2>3, <2>4 DEF TellsOf, told
  <1>5. CASE timeline /\ plan.scope = "device"
    <2>1. told = Picked(dev)
      BY <1>5 DEF TimelineOf
    <2>2. plan.nets = {plan.net} /\ Target(plan)[1] = plan.net
      BY <1>5 DEF IsPlan, Target
    <2>3. told \in Seq(RangeOf(r.events)) /\ \A e \in ToSet(told) : \E k \in dev : e = r.events[k]
      BY <1>2, <2>1
    <2> HIDE DEF told
    <2>4. ASSUME NEW e \in ToSet(told) PROVE Covers(plan, <<e.net, e.dev>>)
      <3>1. <<e.net, e.dev>> = Target(plan)
        BY <2>3
      <3> QED
        BY <2>2, <3>1 DEF Covers
    <2> QED
      BY <1>5, <2>3, <2>4 DEF TellsOf, told
  <1>6. CASE timeline /\ plan.scope = "incident"
    <2> DEFINE H == IncidentRows(plan, r)
               Item(i) == ItemOf(plan, r, timeline, i)
               i0 == CHOOSE x \in items : TRUE
    <2>1. told = IF items = {} THEN <<>> ELSE i0.timeline
      <3> HIDE DEF items
      <3> QED
        BY <1>6 DEF TimelineOf
    <2>2. items = {Item(i) : i \in H} /\ \A i \in H : IsItemOf(Item(i), plan, r, timeline, i)
      BY ItemIs DEF Items, ItemOf
    <2>3. \A i \in H : i.id = plan.incident
      BY <1>6 DEF IncidentRows, Selected
    <2> HIDE DEF items, told, H, Item
    <2>4. ASSUME items = {} PROVE TellsOf(told, plan, r)
      BY <2>1, <2>4, TellsNothing
    <2>5. ASSUME items # {} PROVE TellsOf(told, plan, r)
      <3>1. i0 \in items
        BY <2>5
      <3>2. told = i0.timeline
        BY <2>1, <2>5
      <3> HIDE DEF i0
      <3>3. PICK i \in H : i0 = Item(i)
        BY <2>2, <3>1
      <3>4. i0.timeline \in Seq(RangeOf(r.events)) /\ \A e \in ToSet(i0.timeline) : e.incident = i.id
        BY <2>2, <3>3 DEF IsItemOf
      <3> QED
        BY <1>6, <2>3, <3>2, <3>3, <3>4 DEF TellsOf
    <2> QED
      BY <2>4, <2>5 DEF told, items
  <1> QED
    BY <1>1, <1>3, <1>4, <1>5, <1>6 DEF IsPlan

\* A report's own timeline is bounded, and tells what the plan is about.
LEMMA TimelineOfReport ==
    ASSUME NEW plan, NEW q, NEW p, IsPlan(plan, q, p), NEW r, AreReportReads(p, r), NEW timeline,
           NEW rep, Content(rep, plan, r, timeline)
    PROVE  TellsOf(rep.timeline, plan, r) /\ Bounded(rep.timeline, timeline)
  <1> DEFINE told == TimelineOf(plan, r, Items(plan, r, timeline), timeline)
             S == RangeOf(r.events)
  <1>1. rep.timeline = Sealed(told, timeline)
    BY DEF Content
  <1>2. TellsOf(told, plan, r)
    BY TimelineIs
  <1> HIDE DEF told
  <1>3. told \in Seq(S)
    BY <1>2 DEF TellsOf
  <1>4. /\ Sealed(told, timeline) \in Seq(S) /\ Bounded(Sealed(told, timeline), timeline)
        /\ ToSet(Sealed(told, timeline)) \subseteq ToSet(told)
    BY <1>3, SealedIs
  <1> QED
    BY <1>1, <1>2, <1>4 DEF TellsOf

\* The summary of a report is one Home Assistant takes, of as many subjects as it has devices.
LEMMA SummaryOfReport ==
    ASSUME NEW plan, NEW q, NEW p, IsPlan(plan, q, p), NEW r, AreReportReads(p, r), NEW timeline,
           NEW rep, Content(rep, plan, r, timeline)
    PROVE  /\ validate_decision_count_summary(rep.summary) /\ rep.summary.subjects = rep.counts.devices
           /\ rep.counts.events = Len(rep.timeline)
  <1> DEFINE rows == DeviceRows(plan, r)
             s == decision_count_summary_from_badges(device_decision_badges_for_devices(rows),
                                                     Cardinality(rep.warnings))
  <1>1. /\ rep.summary = s /\ rep.counts.events = Len(rep.timeline)
        /\ rep.counts.devices = Len(rep.devices)
    BY DEF Content
  <1>2. AreRows(rows)
    BY ScopeRows
  <1>3. Len(rep.devices) = Cardinality(rows)
    BY ShownAre
  <1> HIDE DEF rows
  <1>4. Sums(s, rows, Cardinality(rep.warnings))
    BY <1>2, SummaryIs
  <1> HIDE DEF s
  <1> QED
    BY <1>1, <1>3, <1>4 DEF Sums

\* A report that has the content of its plan keeps to the plan.
LEMMA ContentKeeps ==
    ASSUME NEW plan, NEW q, NEW p, IsPlan(plan, q, p), NEW r, AreReportReads(p, r), NEW timeline,
           NEW rep, Content(rep, plan, r, timeline), NEW full,
           NEW all, NEW whole, all.scope = "full", IsPlan(all, whole, p), Content(full, all, r, timeline)
    PROVE  KeepsTo(q, p, r, timeline, plan, rep, full)
  <1> DEFINE InScope(k) == /\ k[1] \in plan.nets
                           /\ plan.scope = "device" => k = Target(plan)
             Listed(n) == {i \in rep.incidents : /\ ~i.closed /\ n \in i.nets
                                                 /\ plan.scope = "device" => DOMAIN i.affected # {}}
             Short(t) == Len(t) <= EventLimit /\ (~timeline => t = <<>>)
  <1>1. rep.refused = Missing /\ full.refused = Missing
    BY DEF Content
  <1>2. \A k : InScope(k) <=> Covers(plan, k)
    BY DEF Covers
  <1>3. \A t : Short(t) <=> Bounded(t, timeline)
    BY DEF Bounded
  <1>4. \A d \in Shown(rep) : InScope(d.key)
    BY <1>2, ShownAre
  <1>5. /\ \A x \in rep.priorities : /\ x.net \in plan.nets
                                     /\ plan.scope = "device" => x.card.devices = {plan.dev}
        /\ \A w \in rep.warnings : w.net \in plan.nets
    <2> DEFINE found == Findings(plan, r, timeline)
    <2>1. rep.priorities = found.priorities /\ rep.warnings = found.warnings
      BY DEF Content
    <2>2. /\ \A x \in found.priorities : /\ x.net \in plan.nets
                                         /\ plan.scope = "device" => x.card.devices = {plan.dev}
          /\ \A w \in found.warnings : w.net \in plan.nets
      BY FindingsKeepToScope
    <2> HIDE DEF found
    <2> QED
      BY <2>1, <2>2
  <1>6. plan.scope = "incident" =>
           \A x \in rep.priorities : \E i \in rep.incidents :
              \A d \in x.card.devices : <<x.net, d>> \in DOMAIN i.affected
    BY PrioritiesNameOne
  <1>7. \A e \in ToSet(rep.timeline) :
           IF plan.scope = "incident" THEN e.incident = q.incident ELSE InScope(<<e.net, e.dev>>)
    <2>1. TellsOf(rep.timeline, plan, r)
      BY TimelineOfReport
    <2>2. plan.scope = "incident" => plan.incident = q.incident
      BY DEF IsPlan
    <2> HIDE DEF InScope
    <2> QED
      BY <1>2, <2>1, <2>2 DEF TellsOf
  <1>8. /\ \A i \in rep.incidents : plan.scope # "incident" => \A k \in DOMAIN i.affected : InScope(k)
        /\ \A i \in rep.incidents : Short(i.timeline)
    <2>1. ASSUME NEW x \in rep.incidents
          PROVE  Short(x.timeline) /\ (plan.scope # "incident" => \A k \in DOMAIN x.affected : InScope(k))
      <3>1. PICK i \in IncidentRows(plan, r) : IsItemOf(x, plan, r, timeline, i) /\ Bounded(x.timeline, timeline)
        BY IncidentsAre
      <3>2. plan.scope # "incident" => \A k \in _projection_refs_for_scope(plan, i) : Covers(plan, k)
        BY RefsAre
      <3>3. DOMAIN x.affected = _projection_refs_for_scope(plan, i)
        BY <3>1 DEF IsItemOf
      <3> HIDE DEF Short, InScope
      <3> QED
        BY <1>2, <1>3, <3>1, <3>2, <3>3
    <2> HIDE DEF Short, InScope
    <2> QED
      BY <2>1
  <1>9. \A n \in rep.networks :
           /\ n.incidents = Cardinality(Listed(n.id)) /\ (n.severity # Missing <=> n.incidents > 0)
           /\ \A d \in Shown(rep) : d.key[1] = n.id =>
                 AtLeast(DECISION_STATUS_ORDER, n.decision.status, d.decision.status)
    <2>1. ASSUME NEW n \in rep.networks
          PROVE  n.incidents = Cardinality(ListedAt(rep, plan, n.id))
      BY NetworksOfReport
    <2>2. ASSUME NEW n \in rep.networks PROVE n.severity # Missing <=> n.incidents > 0
      BY NetworksOfReport
    <2>3. ASSUME NEW n \in rep.networks
          PROVE  \A d \in Shown(rep) : d.key[1] = n.id =>
                    AtLeast(DECISION_STATUS_ORDER, n.decision.status, d.decision.status)
      BY NetworksOfReport
    <2> QED
      BY <2>1, <2>2, <2>3 DEF ListedAt
  <1>10. \A d \in Shown(rep) :
            /\ d.affected <=> \E i \in rep.incidents : ~i.closed /\ d.key \in DOMAIN i.affected
            /\ \A i \in rep.incidents : d.key \in DOMAIN i.affected => i.affected[d.key] = d.decision
    BY DevicesAreMarked
  <1>11. /\ validate_decision_count_summary(rep.summary) /\ rep.summary.subjects = rep.counts.devices
         /\ rep.counts.events = Len(rep.timeline)
    BY SummaryOfReport
  <1>12. Short(rep.timeline)
    BY <1>3, TimelineOfReport
  <1>13. LeavesOutNothing(r, plan, rep, full)
    <2> DEFINE Ids(x) == {i.id : i \in x}
               KeysIn(x) == {d.key : d \in x}
               Concerns(i) == CASE plan.scope = "full" -> TRUE
                                [] plan.scope = "network" -> plan.net \in i.nets
                                [] plan.scope = "device" -> Target(plan) \in DOMAIN i.affected
               found == Findings(plan, r, timeline)
               whole_found == Findings(all, r, timeline)
    <2>1. rep.priorities = found.priorities /\ rep.warnings = found.warnings
      BY DEF Content
    <2>2. full.priorities = whole_found.priorities /\ full.warnings = whole_found.warnings
      BY DEF Content
    <2>3. \A i : Concerns(i) <=> Concerned(plan, i)
      BY DEF Concerned
    <2>4. plan.scope = "incident" => Ids(rep.incidents) = Ids(full.incidents) \cap {plan.incident}
      BY NoIncidentIsLeftOut
    <2>5. ASSUME plan.scope # "incident"
          PROVE  /\ KeysIn(Shown(rep)) = {k \in KeysIn(Shown(full)) : InScope(k)}
                 /\ KeysIn(rep.risks) = {k \in KeysIn(full.risks) : InScope(k)}
      <3>1. /\ KeysIn(Shown(rep)) = {k \in KeysIn(Shown(full)) : Covers(plan, k)}
            /\ KeysIn(rep.risks) = {k \in KeysIn(full.risks) : Covers(plan, k)}
        BY <2>5, NoDeviceIsLeftOut
      <3> HIDE DEF KeysIn, InScope
      <3> QED
        BY <1>2, <3>1
    <2>6. ASSUME plan.scope # "incident", Calm(r)
          PROVE  Ids(rep.incidents) = Ids({i \in full.incidents : Concerns(i)})
      <3>1. Ids(rep.incidents) = Ids({i \in full.incidents : Concerned(plan, i)})
        BY <2>6, NoIncidentIsLeftOut
      <3> HIDE DEF Ids, Concerns
      <3>2. {i \in full.incidents : Concerned(plan, i)} = {i \in full.incidents : Concerns(i)}
        BY <2>3
      <3> QED
        BY <3>1, <3>2
    <2>7. ASSUME plan.scope # "incident", NEW w \in full.warnings, w.net \in plan.nets
          PROVE  \E v \in rep.warnings : v.net = w.net
      BY <2>1, <2>2, <2>7, NoWarningIsLeftOut
    <2>8. ASSUME plan.scope # "incident", NEW x \in full.priorities, x.net \in plan.nets,
                 plan.scope = "device" => plan.dev \in x.card.devices
          PROVE  \E y \in rep.priorities : y.net = x.net /\ y.card.id = x.card.id
      <3>1. x \in compose_dashboard_investigation_priorities(p.nets, r.cards)
        BY <2>2, FindingsKeepToScope
      <3> HIDE DEF found, whole_found
      <3>2. \E y \in found.priorities : y.net = x.net /\ y.card.id = x.card.id
        BY <2>8, <3>1, FindingsKeepToScope DEF found
      <3> QED
        BY <2>1, <3>2
    <2> HIDE DEF Ids, KeysIn, Concerns, found, whole_found, InScope
    <2> QED
      BY <2>4, <2>5, <2>6, <2>7, <2>8 DEF LeavesOutNothing, Ids, KeysIn, Concerns, InScope
  <1> HIDE DEF InScope, Listed, Short
  <1> QED
    BY <1>1, <1>4, <1>5, <1>6, <1>7, <1>8, <1>9, <1>10, <1>11, <1>12, <1>13 DEF KeepsTo, InScope, Listed, Short

\* A report keeps to what was asked and agrees with itself, for every limit of its timelines and of
\* the overview's lists, whatever was stored and however the incidents changed between the plan and
\* the later reads (report_scope.py, report_composition.py).
THEOREM ReportKeepsToItsScope ==
    ASSUME NEW q, IsReportRequest(q), NEW p, NEW r, AreReportReads(p, r), NEW timeline
    PROVE  KeepsToItsScope(q, p, r, timeline)
  <1> DEFINE plan == resolve_report_scope_plan(q, p)
             rep == generate_report(q, p, r, timeline)
             whole == [q EXCEPT !.scope = "full"]
             all == resolve_report_scope_plan(whole, p)
             full == generate_report(whole, p, r, timeline)
  <1>1. /\ rep.refused = Missing => IsPlan(plan, q, p) /\ Content(rep, plan, r, timeline)
        /\ rep.refused # Missing => RightlyRefused(rep.refused, q, p)
    BY ContentIs
  <1>2. IsReportRequest(whole) /\ whole.scope = "full"
    BY DEF IsReportRequest
  <1> HIDE DEF whole
  <1>3. IsPlan(all, whole, p) /\ Content(full, all, r, timeline)
    <2>1. /\ full.refused = Missing => IsPlan(all, whole, p) /\ Content(full, all, r, timeline)
          /\ full.refused # Missing => RightlyRefused(full.refused, whole, p)
      BY <1>2, ContentIs
    <2>2. \A why : ~RightlyRefused(why, whole, p)
      BY <1>2 DEF RightlyRefused
    <2> QED
      BY <2>1, <2>2
  <1>4. all.scope = "full"
    BY <1>2, <1>3 DEF IsPlan
  <1> HIDE DEF plan, rep, all, full
  <1>5. CASE rep.refused = Missing
    <2>1. KeepsTo(q, p, r, timeline, plan, rep, full)
      BY <1>1, <1>3, <1>4, <1>5, ContentKeeps
    <2> QED
      BY <2>1 DEF KeepsToItsScope, plan, rep, full, whole
  <1>6. CASE rep.refused # Missing
    <2>1. KeepsTo(q, p, r, timeline, plan, rep, full)
      BY <1>1, <1>6 DEF KeepsTo
    <2> QED
      BY <2>1 DEF KeepsToItsScope, plan, rep, full, whole
  <1> QED
    BY <1>5, <1>6

\* The questions about reports are requests, and reads of what is stored.
ReportInput ==
    /\ topic = "seed report" => input[1] \subseteq PageRows /\ input[2] \in ReportRequests
    /\ topic = "report" => IsReportRequest(input.q) /\ AreReportReads(input.p, input.r)

\* An incident of the run's reports: of its two networks, with a severity.
IsRunIncident(i) ==
    /\ i.nets \subseteq {1, 2} /\ i.nets # {} /\ \A k \in i.devices : k[1] \in {1, 2}
    /\ i.open \in BOOLEAN /\ i.severity \in {"incident", "watch"}

\* The incidents of the run's reports: versions of one, and others.
LEMMA RunIncidents ==
    /\ \A i \in Versions : IsRunIncident(i) /\ i.id = 1
    /\ \A i \in Others : IsRunIncident(i) /\ i.id \in {2, 3}
    /\ IsFiniteSet(Others)
  <1>1. ASSUME NEW id, NEW nets, nets \subseteq {1, 2}, nets # {}, NEW keys, \A k \in keys : k[1] \in {1, 2}, NEW state
        PROVE  IsRunIncident(Incident(id, nets, keys, state)) /\ Incident(id, nets, keys, state).id = id
    <2> DEFINE i == Incident(id, nets, keys, state)
    <2>1. /\ i.id = id /\ i.nets = nets /\ i.devices = keys /\ i.open = (state = "open")
          /\ i.severity = IF id = 1 THEN "incident" ELSE "watch"
      BY DEF Incident
    <2> HIDE DEF i
    <2>2. i.open \in BOOLEAN /\ i.severity \in {"incident", "watch"}
      BY <2>1
    <2>3. IsRunIncident(i)
      BY <1>1, <2>1, <2>2 DEF IsRunIncident
    <2> QED
      BY <2>1, <2>3 DEF i
  <1> DEFINE one == {<<1, 1>>}
             two == {<<1, 1>>, <<2, 1>>}
             three == {<<2, 3>>}
  <1>2. /\ \A k \in one : k[1] \in {1, 2}
        /\ \A k \in two : k[1] \in {1, 2}
        /\ \A k \in three : k[1] \in {1, 2}
        /\ \A k \in {} : k[1] \in {1, 2}
    OBVIOUS
  <1> DEFINE a == Incident(1, {1}, one, "open")
             b == Incident(1, {1, 2}, two, "open")
             c == Incident(1, {1, 2}, two, "watching")
             e == Incident(1, {1}, one, "resolved")
             f == Incident(2, {2}, three, "watching")
             g == Incident(2, {2}, three, "resolved")
             h == Incident(3, {2}, {}, "open")
  <1>3. Versions = {a, b, c, e} /\ Others = {f, g, h}
    BY DEF Versions, Others
  <1> HIDE DEF one, two, three
  <1>4. /\ IsRunIncident(a) /\ a.id = 1 /\ IsRunIncident(b) /\ b.id = 1
        /\ IsRunIncident(c) /\ c.id = 1 /\ IsRunIncident(e) /\ e.id = 1
    BY <1>1, <1>2
  <1>5. IsRunIncident(f) /\ f.id = 2 /\ IsRunIncident(g) /\ g.id = 2 /\ IsRunIncident(h) /\ h.id = 3
    BY <1>1, <1>2
  <1> HIDE DEF a, b, c, e, f, g, h
  <1>6. IsFiniteSet({f, g, h})
    <2>1. IsFiniteSet({f})
      BY FS_Singleton
    <2>2. IsFiniteSet({f} \cup {g})
      BY <2>1, FS_AddElement
    <2>3. IsFiniteSet(({f} \cup {g}) \cup {h})
      BY <2>2, FS_AddElement
    <2>4. {f, g, h} = ({f} \cup {g}) \cup {h}
      OBVIOUS
    <2> QED
      BY <2>3, <2>4
  <1> QED
    BY <1>3, <1>4, <1>5, <1>6

\* The events of the run.
LEMMA RunEvents == IsList(ReportEvents) /\ \A e \in RangeOf(ReportEvents) : e.net \in {1, 2}
  <1> DEFINE a == [net |-> 1, dev |-> 1, incident |-> 1]
             b == [net |-> 2, dev |-> 3, incident |-> 2]
             c == [net |-> 2, dev |-> 1, incident |-> 1]
             e == [net |-> 2, dev |-> Missing, incident |-> Missing]
             f == [net |-> 1, dev |-> 1, incident |-> Missing]
             g == [net |-> 1, dev |-> 2, incident |-> 1]
  <1>1. ReportEvents = <<a, b, c, e, f, g>>
    BY DEF ReportEvents
  <1>2. a.net = 1 /\ b.net = 2 /\ c.net = 2 /\ e.net = 2 /\ f.net = 1 /\ g.net = 1
    OBVIOUS
  <1> HIDE DEF a, b, c, e, f, g
  <1>3. <<a, b, c, e, f, g>> \in Seq({a, b, c, e, f, g})
    OBVIOUS
  <1> DEFINE s == ReportEvents
  <1>4. s \in Seq({a, b, c, e, f, g})
    BY <1>1, <1>3
  <1> HIDE DEF s
  <1>5. IsList(s)
    BY <1>4, SequenceIsList
  <1>6. \A i \in DOMAIN s : s[i] \in {a, b, c, e, f, g}
    BY <1>4
  <1>7. \A x \in RangeOf(s) : x.net \in {1, 2}
    BY <1>2, <1>6 DEF RangeOf
  <1> QED
    BY <1>5, <1>7 DEF s

\* The requests of the run.
LEMMA RunRequests == \A q \in ReportRequests : IsReportRequest(q)
  <1> DEFINE Request(s, n, d, i) == [scope |-> s, net |-> n, dev |-> d, incident |-> i]
  <1>1. \A s \in {"full", "network", "incident", "device"} : \A n, d, i : IsReportRequest(Request(s, n, d, i))
    BY DEF IsReportRequest
  <1>2. \A q \in ReportRequests : \E s \in {"full", "network", "incident", "device"} :
           \E n, d, i : q = Request(s, n, d, i)
    BY DEF ReportRequests
  <1> HIDE DEF Request
  <1> QED
    BY <1>1, <1>2

\* The cards of the run are records of seven fields.
LEMMA CardRecords ==
    \A c \in PageCards : c = [id |-> c.id, type |-> c.type, priority |-> c.priority, score |-> c.score,
                              at |-> c.at, devices |-> c.devices, text |-> c.text]
  <1> DEFINE AsCard(id, type, level, score, at, ds, text) ==
                 [id |-> id, type |-> type, priority |-> level, score |-> score, at |-> at, devices |-> ds,
                  text |-> text]
  <1>1. ASSUME NEW id, NEW type, NEW level, NEW score, NEW at, NEW ds, NEW text
        PROVE  LET c == AsCard(id, type, level, score, at, ds, text) IN
               c = AsCard(c.id, c.type, c.priority, c.score, c.at, c.devices, c.text)
    OBVIOUS
  <1>2. PageCards = {AsCard(1, "router_neighbourhood_review", "Review first", 12, 5, {1, 2}, "formed"),
                     AsCard(2, "issue_cluster", "Worth checking", 7, Missing, {3}, "odd"),
                     AsCard(3, "issue_cluster", "Review first", 13, 4, {1}, "formed")}
    BY DEF PageCards
  <1>3. ASSUME NEW c \in PageCards
        PROVE  \E id, type, level, score, at, ds, text : c = AsCard(id, type, level, score, at, ds, text)
    <2> HIDE DEF AsCard
    <2> QED
      BY <1>2
  <1> QED
    BY <1>1, <1>3

\* The run asks with requests.
LEMMA ReportInputStart == RulesInit => ReportInput
  <1> SUFFICES ASSUME RulesInit PROVE ReportInput
    OBVIOUS
  <1>1. topic # "report"
    BY DEF RulesInit
  <1>2. ASSUME topic = "seed report" PROVE input[1] \subseteq PageRows /\ input[2] \in ReportRequests
    <2>1. SeedReport
      BY <1>2 DEF RulesInit
    <2>2. PICK rows \in {s \in SUBSET PageRows : \E x \in s : Key(x) = <<1, 1>>}, q \in ReportRequests :
              input = <<rows, q>>
      BY <2>1 DEF SeedReport
    <2> QED
      BY <2>2
  <1> QED
    BY <1>1, <1>2 DEF ReportInput

\* What the run stores at a moment: incidents of the run, told apart by their ids.
AreStored(incidents) ==
    /\ IsFiniteSet(incidents) /\ \A i \in incidents : IsRunIncident(i) /\ i.id \in 1 .. 3
    /\ \A i, j \in incidents : i.id = j.id => i = j

\* So are others and at most one version of the one that changes.
LEMMA StoredIncidents ==
    ASSUME NEW others \in SUBSET Others, \A i, j \in others : i.id = j.id => i = j,
           NEW v \in Versions, NEW some \in SUBSET {v}
    PROVE  AreStored(others \cup some)
  <1>1. /\ \A i \in others \cup some : IsRunIncident(i) /\ i.id \in 1 .. 3
        /\ \A i, j \in others \cup some : i.id = j.id => i = j
    BY RunIncidents
  <1>2. IsFiniteSet(others \cup some)
    <2>1. IsFiniteSet(others)
      BY RunIncidents, FS_Subset
    <2>2. IsFiniteSet(others \cup {v})
      BY <2>1, FS_AddElement
    <2>3. others \cup some \subseteq others \cup {v}
      OBVIOUS
    <2> QED
      BY <2>2, <2>3, FS_Subset
  <1> QED
    BY <1>1, <1>2 DEF AreStored

\* What the tables say of incidents of the run is of its two networks.
LEMMA StoredRefs ==
    ASSUME NEW incidents, AreStored(incidents), NEW id
    PROVE  /\ \A k \in KeysOf(incidents, id) : k[1] \in {1, 2}
           /\ NetsOf(incidents, id) \subseteq {1, 2}
           /\ (\E i \in incidents : i.id = id) => NetsOf(incidents, id) # {}
  <1>1. \A i \in incidents : i.nets \subseteq {1, 2} /\ i.nets # {} /\ \A k \in i.devices : k[1] \in {1, 2}
    BY DEF AreStored, IsRunIncident
  <1>2. \A k \in KeysOf(incidents, id) : \E i \in incidents : k \in i.devices
    BY DEF KeysOf
  <1>3. \A n \in NetsOf(incidents, id) : \E i \in incidents : n \in i.nets
    BY DEF NetsOf
  <1>4. ASSUME NEW i \in incidents, i.id = id PROVE i.nets \subseteq NetsOf(incidents, id)
    BY <1>4 DEF NetsOf
  <1> QED
    BY <1>1, <1>2, <1>3, <1>4

\* The reads of a question of the run are reads of what is stored: networks read later than
\* the rows still have those of an incident that was active then.
LEMMA RunReads ==
    ASSUME NEW p, NEW r, r.rows \subseteq PageRows, p.nets = {1, 2}, p.devices = {Key(x) : x \in r.rows},
           \A i \in p.incidents : i.nets \subseteq {1, 2}, AreStored(r.incidents),
           \A i \in r.incidents : ~i.closed => r.touched[i.id] # {},
           \A i \in r.incidents : \A k \in r.refs[i.id] : k[1] \in {1, 2},
           NEW none \in SUBSET PageCards, r.cards = <<none, PageCards>>, r.events = ReportEvents
    PROVE  AreReportReads(p, r)
  <1>1. AreRows(r.rows) /\ \A x \in r.rows : x.net \in p.nets /\ x.net \in Int /\ x.ieee \in Int
    <2>1. \A x \in PageRows : x.net \in {1, 2} /\ x.ieee \in Int
      <3>1. \A x \in PageRows : x.ieee \in Int
        BY DEF PageRows
      <3> QED
        BY <3>1, PageRowsAre
    <2>2. r.rows \in SUBSET PageRows
      OBVIOUS
    <2> QED
      BY <2>1, <2>2, SomeAre
  <1>2. \A k \in p.devices : k = <<k[1], k[2]>> /\ k[1] \in p.nets
    BY <1>1 DEF Key
  <1>3. AreIncidents(r.incidents)
    <2>1. Missing \notin {"incident", "watch"}
      BY TextAssumption
    <2> QED
      BY <2>1 DEF AreIncidents, AreStored, IsRunIncident
  <1>4. /\ \A i, j \in r.incidents : i.id = j.id => i = j
        /\ \A i \in r.incidents : /\ i.nets # {} /\ (~i.closed => r.touched[i.id] # {})
                                  /\ \A k \in r.refs[i.id] : k[1] \in p.nets
    BY DEF AreStored, IsRunIncident
  <1> DEFINE cards == <<none, PageCards>>
  <1>5. cards[1] = none /\ cards[2] = PageCards
    OBVIOUS
  <1>6. AreCards({1, 2}, cards)
    BY SomeAre
  <1>7. r.cards = cards
    OBVIOUS
  <1> HIDE DEF cards
  <1>8. \A n \in p.nets : \A c \in r.cards[n] :
           c = [id |-> c.id, type |-> c.type, priority |-> c.priority, score |-> c.score, at |-> c.at,
                devices |-> c.devices, text |-> c.text]
    <2>1. \A n \in p.nets : r.cards[n] \subseteq PageCards
      BY <1>5, <1>7
    <2> QED
      BY <2>1, CardRecords
  <1>9. AreCards(p.nets, r.cards)
    BY <1>6, <1>7
  <1>10. IsList(r.events) /\ \A e \in RangeOf(r.events) : e.net \in p.nets
    BY RunEvents
  <1>11. \A i \in p.incidents : i.nets \subseteq p.nets
    OBVIOUS
  <1> QED
    BY <1>1, <1>2, <1>3, <1>4, <1>8, <1>9, <1>10, <1>11 DEF AreReportReads

\* Every question about a report is a request with its reads.
LEMMA ReportInputStep == ReportInput /\ [RulesNext]_rulesVars => ReportInput'
  <1> SUFFICES ASSUME ReportInput, [RulesNext]_rulesVars PROVE ReportInput'
    OBVIOUS
  <1>1. CASE AskReport
    <2>1. topic = "seed report" /\ topic' = "report"
      BY <1>1 DEF AskReport
    <2> DEFINE rows == input[1]
               q == input[2]
    <2>2. rows \subseteq PageRows /\ q \in ReportRequests
      BY <2>1 DEF ReportInput
    <2>3. PICK before \in Versions, after \in {{v} : v \in Versions} \cup {{}}, cut \in 0 .. 6,
               others \in SUBSET Others, timeline \in BOOLEAN :
              LET At(read) == others \cup IF read <= cut THEN {before} ELSE after IN
              /\ \A i, j \in others : i.id = j.id => i = j
              /\ after = {} => before.closed
              /\ input' = [q |-> input[2], timeline |-> timeline,
                      p |-> [nets |-> {1, 2}, devices |-> {Key(x) : x \in input[1]},
                             incidents |-> {[id |-> i.id, nets |-> NetsOf(At(2), i.id),
                                             devices |-> KeysOf(At(3), i.id)] : i \in At(1)}],
                      r |-> [rows |-> input[1], risk |-> {<<1, 1>>}, nets |-> {1, 2}, incidents |-> At(4),
                             refs |-> [id \in 1 .. 3 |-> KeysOf(At(5), id)],
                             touched |-> [id \in 1 .. 3 |-> NetsOf(At(6), id)],
                             cards |-> <<IF timeline THEN {} ELSE PageCards, PageCards>>, events |-> ReportEvents,
                             facts |-> [n \in 1 .. 2 |-> CHOOSE f \in PageFacts : f.tracking = (n = 1)]]]
      BY <1>1 DEF AskReport
    <2> DEFINE At(read) == others \cup IF read <= cut THEN {before} ELSE after
               none == IF timeline THEN {} ELSE PageCards
               facts == [n \in 1 .. 2 |-> CHOOSE f \in PageFacts : f.tracking = (n = 1)]
               planned == {[id |-> i.id, nets |-> NetsOf(At(2), i.id),
                            devices |-> KeysOf(At(3), i.id)] : i \in At(1)}
               refs == [id \in 1 .. 3 |-> KeysOf(At(5), id)]
               touched == [id \in 1 .. 3 |-> NetsOf(At(6), id)]
               stored == At(4)
               last == At(6)
               p == [nets |-> {1, 2}, devices |-> {Key(x) : x \in rows}, incidents |-> planned]
               r == [rows |-> rows, risk |-> {<<1, 1>>}, nets |-> {1, 2}, incidents |-> stored,
                     refs |-> refs, touched |-> touched,
                     cards |-> <<none, PageCards>>, events |-> ReportEvents, facts |-> facts]
    <2>4. input' = [q |-> q, timeline |-> timeline, p |-> p, r |-> r]
      BY <2>3
    <2>5. none \in SUBSET PageCards
      OBVIOUS
    <2>a. \A i, j \in others : i.id = j.id => i = j
      BY <2>3
    <2>b. after = {} => before.closed
      BY <2>3
    <2>c. \E v \in Versions : after \subseteq {v}
      BY <2>3
    <2>d. \A read \in 1 .. 6 : AreStored(At(read))
      <3> SUFFICES ASSUME NEW read \in 1 .. 6 PROVE AreStored(At(read))
        OBVIOUS
      <3>1. CASE read <= cut
        <4>1. {before} \in SUBSET {before} /\ At(read) = others \cup {before}
          BY <3>1
        <4> HIDE DEF At
        <4>2. AreStored(others \cup {before})
          BY <2>a, <4>1, StoredIncidents
        <4> QED
          BY <4>1, <4>2
      <3>2. CASE ~(read <= cut)
        <4>1. At(read) = others \cup after
          BY <3>2
        <4>2. PICK v \in Versions : after \in SUBSET {v}
          BY <2>c
        <4> HIDE DEF At
        <4>3. AreStored(others \cup after)
          BY <2>a, <4>2, StoredIncidents
        <4> QED
          BY <4>1, <4>3
      <3> QED
        BY <3>1, <3>2
    <2>e. \A i \in stored : ~i.closed => \E j \in last : j.id = i.id
      <3> SUFFICES ASSUME NEW i \in stored, ~i.closed, i \notin others PROVE \E j \in last : j.id = i.id
        OBVIOUS
      <3>1. \A v \in Versions : v.id = 1
        BY RunIncidents
      <3>2. after \subseteq Versions
        BY <2>c
      <3>3. i \in {before} \cup after
        OBVIOUS
      <3>4. i.id = 1
        BY <3>1, <3>2, <3>3
      <3>5. CASE 6 <= cut
        <4>1. before \in last
          BY <3>5
        <4> HIDE DEF last
        <4> QED
          BY <3>1, <3>4, <4>1
      <3>6. CASE ~(6 <= cut)
        <4>1. last = others \cup after
          BY <3>6
        <4>2. after # {}
          <5> SUFFICES ASSUME after = {} PROVE FALSE
            OBVIOUS
          <5>1. i = before
            BY <3>3
          <5> QED
            BY <2>b, <5>1
        <4>3. PICK v \in after : TRUE
          BY <4>2
        <4> HIDE DEF last
        <4> QED
          BY <3>1, <3>2, <3>4, <4>1, <4>3
      <3> QED
        BY <3>5, <3>6
    <2>f. /\ AreStored(stored)
          /\ \A id \in 1 .. 3 : \A k \in refs[id] : k[1] \in {1, 2}
          /\ \A id \in 1 .. 3 : (\E j \in last : j.id = id) => touched[id] # {}
          /\ \A i \in planned : i.nets \subseteq {1, 2}
      <3>1. AreStored(At(2)) /\ AreStored(At(4)) /\ AreStored(At(5)) /\ AreStored(At(6))
        BY <2>d
      <3> HIDE DEF At
      <3>2. \A id \in 1 .. 3 : \A k \in refs[id] : k[1] \in {1, 2}
        BY <3>1, StoredRefs
      <3>3. \A id \in 1 .. 3 : (\E j \in last : j.id = id) => touched[id] # {}
        BY <3>1, StoredRefs
      <3>4. \A i \in planned : i.nets \subseteq {1, 2}
        <4>1. \A id : NetsOf(At(2), id) \subseteq {1, 2}
          BY <3>1, StoredRefs
        <4> QED
          BY <4>1
      <3> QED
        BY <3>1, <3>2, <3>3, <3>4
    <2> HIDE DEF At, planned, none, facts, rows, q, refs, touched, stored, last
    <2>7. /\ p.nets = {1, 2} /\ p.devices = {Key(x) : x \in rows} /\ p.incidents = planned
          /\ r.rows = rows /\ r.incidents = stored /\ r.cards = <<none, PageCards>>
          /\ r.events = ReportEvents /\ r.refs = refs /\ r.touched = touched
      OBVIOUS
    <2> HIDE DEF p, r
    <2>8. AreReportReads(p, r)
      <3>1. \A i \in stored : i.id \in 1 .. 3
        BY <2>f DEF AreStored
      <3>2. /\ \A i \in r.incidents : ~i.closed => r.touched[i.id] # {}
            /\ \A i \in r.incidents : \A k \in r.refs[i.id] : k[1] \in {1, 2}
        BY <2>e, <2>f, <2>7, <3>1
      <3>3. r.rows \subseteq PageRows /\ p.devices = {Key(x) : x \in r.rows}
        BY <2>2, <2>7
      <3>4. AreStored(r.incidents) /\ \A i \in p.incidents : i.nets \subseteq {1, 2}
        BY <2>f, <2>7
      <3> QED
        BY <2>5, <2>7, <3>2, <3>3, <3>4, RunReads
    <2>9. input'.q = q /\ input'.p = p /\ input'.r = r
      BY <2>4
    <2>10. IsReportRequest(q)
      BY <2>2, RunRequests
    <2> QED
      BY <2>1, <2>8, <2>9, <2>10 DEF ReportInput
  <1>2. CASE AskDiagnosis \/ AskTopology \/ AskStory \/ AskCards \/ AskPage \/ AskList \/ FollowList
    <2>1. topic' \notin {"seed report", "report"}
      BY <1>2 DEF AskDiagnosis, AskTopology, AskStory, AskCards, AskPage, AskList, FollowList
    <2> QED
      BY <2>1 DEF ReportInput
  <1>3. CASE UNCHANGED rulesVars
    BY <1>3 DEF ReportInput, rulesVars
  <1> QED
    BY <1>1, <1>2, <1>3 DEF RulesNext

\* So does every report of the run keep to its scope.
THEOREM ReportsOfTheRun ==
    RulesSpec => [](topic = "report" => KeepsToItsScope(input.q, input.p, input.r, input.timeline))
  <1>1. ReportInput => (topic = "report" => KeepsToItsScope(input.q, input.p, input.r, input.timeline))
    BY ReportKeepsToItsScope DEF ReportInput
  <1> QED
    BY <1>1, ReportInputStart, ReportInputStep, PTL DEF RulesSpec

\* Dashboards of torn reads are one statement, reports keep to their scope and walks through the
\* incident list miss nothing, in every state of the run (services/payload_builder.py,
\* services/report_composition.py, storage/incident_collection.py).
THEOREM PagesAlwaysAddUp == RulesSpec => []PagesAddUp
  <1>1. (topic = "page" => OneStatement(input))
        /\ (topic = "report" => KeepsToItsScope(input.q, input.p, input.r, input.timeline))
        /\ (topic = "list" => WalkMissesNothing(input.tables, input.q, input.others, input.pages))
           => PagesAddUp
    BY DEF PagesAddUp
  <1> QED
    BY <1>1, PagesOfTheRun, ReportsOfTheRun, WalksOfTheRun, PTL
=============================================================================
