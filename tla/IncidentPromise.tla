---------------------------- MODULE IncidentPromise ----------------------------
(***************************************************************************)
(* What the incident store promises a reader, one dedup key at a time: an  *)
(* incident is open while its signal is there, watched after the signal    *)
(* has gone, and closed only when the signal has been absent for the whole *)
(* watch window.  How many rows that takes is the store's business.        *)
(***************************************************************************)
EXTENDS Naturals

CONSTANTS Keys, Payloads, None, Window

VARIABLES
    signal,   \* the candidate the correlator would report for a key, or None
    quiet,    \* time since a synchronisation saw the signal, up to Window
    phase     \* what a reader sees for the key

pvars == <<signal, quiet, phase>>

SignalChanges ==
    /\ \E k \in Keys, p \in Payloads \cup {None} :
          signal' = [signal EXCEPT ![k] = p]
    /\ UNCHANGED <<quiet, phase>>

TimePasses ==
    /\ quiet' = [k \in Keys |-> IF quiet[k] < Window THEN quiet[k] + 1 ELSE quiet[k]]
    /\ UNCHANGED <<signal, phase>>

\* How one key may move when the candidates are synchronised.
Follows(k, next) ==
    \/ signal[k] # None /\ next = "open"
    \/ signal[k] = None /\ phase[k] = "open" /\ next = "watching"
    \/ signal[k] = None /\ phase[k] # "open" /\ next = phase[k]
    \/ signal[k] = None /\ phase[k] = "watching" /\ quiet[k] = Window /\ next = "closed"

Synchronised ==
    /\ phase' \in [Keys -> {"closed", "open", "watching"}]
    /\ \A k \in Keys : Follows(k, phase'[k])
    /\ quiet' = [k \in Keys |-> IF signal[k] # None THEN 0 ELSE quiet[k]]
    /\ UNCHANGED signal

PInit ==
    /\ signal = [k \in Keys |-> None]
    /\ quiet = [k \in Keys |-> Window]
    /\ phase = [k \in Keys |-> "closed"]

PNext == SignalChanges \/ TimePasses \/ Synchronised

PSpec == PInit /\ [][PNext]_pvars
=============================================================================
