--------------------------- MODULE IncidentLifecycle ---------------------------
(***************************************************************************)
(* IncidentLifecycleManager (diagnostics/incidents/lifecycle.py) and the   *)
(* rows of the incidents table it writes.                                  *)
(*                                                                         *)
(* The table has no uniqueness constraint on dedup_key: row[k] holds the   *)
(* rows of key k in a few slots, and sync() alone keeps at most one of     *)
(* them active.  A row's age is the time since its updated_at, counted up  *)
(* to Window (watch window plus resolution grace), which is all that the   *)
(* code compares.  sync() is one transaction; one that fails is a step     *)
(* that changes nothing.                                                   *)
(***************************************************************************)
EXTENDS Naturals

CONSTANTS
    Keys,      \* dedup keys
    Payloads,  \* what _needs_update compares: title, severity, devices ...
    None,
    Window,    \* incident_watch_window + incident_resolution_grace
    Slots      \* bound: rows of one key in the table at a time

ASSUME WindowAssumption == Window \in Nat
ASSUME NoneAssumption == None \notin Payloads

VARIABLES
    signal,   \* the active candidate of each key at the next evaluation
    row,      \* the incidents table
    quiet     \* history: time since a sync() saw a candidate of the key

vars == <<signal, row, quiet>>

Active == {"open", "watching"}
NoRow == [state |-> "none", payload |-> None, age |-> 0]
Row(s, p) == [state |-> s, payload |-> p, age |-> 0]

(***************************************************************************)
(* sync()                                                                  *)
(***************************************************************************)

ActiveSlots(k) == {s \in Slots : row[k][s].state \in Active}

\* get_incident_by_dedup_key: the most recently updated active row.
Newest(k) ==
    {s \in ActiveSlots(k) : \A t \in ActiveSlots(k) : row[k][s].age <= row[k][t].age}

Free(k) == {s \in Slots : row[k][s].state = "none"}

\* An insert happens only for a key without an active row.
Mut_Inserts(k) == \A s \in Slots : row[k][s].state # "open"
Inserts(k) == ActiveSlots(k) = {}

\* _needs_update or _reopen_incident
Mut_Rewritten(k, s) == s \in Newest(k) /\ row[k][s].payload # signal[k]
Rewritten(k, s) ==
    \/ row[k][s].state = "watching"
    \/ s \in Newest(k) /\ row[k][s].payload # signal[k]

\* What sync() makes of an active row whose key is a candidate.
Signalled(k, s) ==
    IF Rewritten(k, s) THEN Row("open", signal[k]) ELSE row[k][s]

\* _resolve_stale for an active row whose key is not a candidate.
Expired(r) == r.age >= Window
Mut_QuietedOpen(r) ==
    IF r.state = "watching" /\ Expired(r) THEN Row("resolved", r.payload) ELSE r
Quieted(r) ==
    IF r.state = "open" THEN Row("watching", r.payload)
    ELSE IF r.state = "watching" /\ Expired(r) THEN Row("resolved", r.payload)
    ELSE r

\* The rows of key k after sync(), with a new row in slot n if one is needed.
Synced(k, n) ==
    [s \in Slots |->
        IF signal[k] = None THEN Quieted(row[k][s])
        ELSE IF Inserts(k) /\ s = n THEN Row("open", signal[k])
        ELSE IF s \in ActiveSlots(k) THEN Signalled(k, s)
        ELSE row[k][s]]

Sync ==
    /\ \E at \in [Keys -> Slots] :
          /\ \A k \in Keys : signal[k] # None /\ Inserts(k) => at[k] \in Free(k)
          /\ row' = [k \in Keys |-> Synced(k, at[k])]
    /\ quiet' = [k \in Keys |-> IF signal[k] # None THEN 0 ELSE quiet[k]]
    /\ UNCHANGED signal

(***************************************************************************)
(* Everything around sync()                                                *)
(***************************************************************************)

\* purge_resolved_incident_batch
Purge(k, s) ==
    /\ row[k][s].state = "resolved"
    /\ row' = [row EXCEPT ![k][s] = NoRow]
    /\ UNCHANGED <<signal, quiet>>

PurgeSome == \E k \in Keys, s \in Slots : Purge(k, s)

SignalChanges ==
    /\ \E k \in Keys, p \in Payloads \cup {None} :
          signal' = [signal EXCEPT ![k] = p]
    /\ UNCHANGED <<row, quiet>>

Older(n) == IF n < Window THEN n + 1 ELSE n

\* Only the age of an active row is ever compared with the window.
Aged(r) ==
    IF r.state \in Active
      THEN [state |-> r.state, payload |-> r.payload, age |-> Older(r.age)]
      ELSE r

Tick ==
    /\ row' = [k \in Keys |-> [s \in Slots |-> Aged(row[k][s])]]
    /\ quiet' = [k \in Keys |-> Older(quiet[k])]
    /\ UNCHANGED signal

Init ==
    /\ signal = [k \in Keys |-> None]
    /\ row = [k \in Keys |-> [s \in Slots |-> NoRow]]
    /\ quiet = [k \in Keys |-> Window]

Next ==
    \/ Sync \/ SignalChanges \/ Tick
    \/ PurgeSome

\* The periodic evaluation keeps calling sync(), time passes, and maintenance
\* purges what is resolved (which also keeps the bound Slots from blocking Sync).
Spec ==
    Init /\ [][Next]_vars /\ WF_vars(Sync) /\ WF_vars(Tick) /\ WF_vars(PurgeSome)

(***************************************************************************)
(* Properties                                                              *)
(***************************************************************************)

RowType ==
    [state : {"none", "open", "watching", "resolved"},
     payload : Payloads \cup {None}, age : 0..Window]

\* Types: the rows of the incidents table and the signals sync() is given.
TypeOK ==
    /\ signal \in [Keys -> Payloads \cup {None}]
    /\ row \in [Keys -> [Slots -> RowType]]
    /\ quiet \in [Keys -> 0..Window]

\* Nothing in the schema enforces it: a key never has two active incidents,
\* however signals come, go and change between evaluations.
OneActivePerKey ==
    \A k \in Keys : \A s, t \in ActiveSlots(k) : s = t

\* An active incident is resolved only when no evaluation has seen its signal
\* for the whole watch window and grace.
NoPrematureResolve ==
    [][\A k \in Keys, s \in Slots :
          row[k][s].state \in Active /\ row'[k][s].state \notin Active
             => row'[k][s].state = "resolved" /\ quiet[k] >= Window]_vars

\* History does not change: a resolved incident stays as it is until the purge
\* removes it; a signal that returns later opens another incident.
ResolvedIsFinal ==
    [][\A k \in Keys, s \in Slots :
          row[k][s].state = "resolved" =>
             /\ row'[k][s].state \in {"resolved", "none"}
             /\ row'[k][s].payload \in {row[k][s].payload, None}]_vars

\* A signal that stays away is forgotten in the end: the incident it opened does
\* not stay active.
QuietKeysClose ==
    \A k \in Keys : <>[](signal[k] = None) => <>[](ActiveSlots(k) = {})

\* What a reader sees of a key.
Phase(k) ==
    IF \E s \in Slots : row[k][s].state = "open" THEN "open"
    ELSE IF ActiveSlots(k) # {} THEN "watching" ELSE "closed"

Promise == INSTANCE IncidentPromise WITH phase <- [k \in Keys |-> Phase(k)]

\* The rows keep the promise of IncidentPromise.
KeepsPromise == Promise!PSpec
=============================================================================
