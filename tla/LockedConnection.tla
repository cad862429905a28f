--------------------------- MODULE LockedConnection ---------------------------
(***************************************************************************)
(* LockedSQLiteConnection (db/locked_connection.py): one SQLite connection *)
(* shared by every thread of the process behind one RLock.                 *)
(*                                                                         *)
(* A unit of work is either a transaction() context, possibly nested, or a *)
(* bare repository write: execute() followed by commit() with no context   *)
(* around them.  The lock covers a transaction from BEGIN to its end, but  *)
(* each call of a bare write takes and releases it on its own, and Python's*)
(* sqlite3 opens an implicit transaction at the first statement.           *)
(*                                                                         *)
(* A write is <<thread, unit, index>>; what it writes does not matter.     *)
(* Transaction observers are test instrumentation and are left out.        *)
(***************************************************************************)
EXTENDS Naturals, FiniteSets

CONSTANTS
    Threads, NoOwner,
    MaxDepth,    \* bound: nesting of transaction() contexts
    MaxUnits,    \* bound: units of work per thread
    MaxWrites,   \* bound: writes per unit
    Faults       \* which SQLite calls may raise

ASSUME ThreadsAssumption == NoOwner \notin Threads
ASSUME BoundsAssumption ==
    MaxDepth \in Nat \ {0} /\ MaxUnits \in Nat /\ MaxWrites \in Nat \ {0}
ASSUME FaultsAssumption ==
    Faults \subseteq {"begin", "write", "commit", "rollback"}

VARIABLES
    owner, hold,           \* the RLock
    depth, rollbackOnly,   \* thread-local state of the connection
    act,                   \* what each thread is doing
    inTx, dirty, stored,   \* the physical connection and the database file
    poisoned,
    unit, wrote, kind, result   \* per thread, and per unit of work

lock == <<owner, hold>>
tls == <<depth, rollbackOnly>>
physical == <<inTx, dirty, stored, poisoned>>
work == <<unit, wrote, kind, result>>
vars == <<lock, tls, act, physical, work>>

Units == Threads \X (1..MaxUnits)
Writes == Threads \X (1..MaxUnits) \X (1..MaxWrites)
Current(t) == <<t, unit[t]>>
WritesOf(u) == {<<u[1], u[2], i>> : i \in 1..wrote[u]}

\* with self._lock: only the owner may enter while the lock is held.
CanLock(t) == owner \in {NoOwner, t}

\* commit() inside a context is deferred to the outermost exit.
Mut_Deferred(t) == depth[t] > 1
Deferred(t) == depth[t] > 0

StartUnit(t, k, r) ==
    /\ act[t] = "idle" /\ CanLock(t)
    /\ unit[t] < MaxUnits
    /\ unit' = [unit EXCEPT ![t] = @ + 1]
    /\ kind' = [kind EXCEPT ![<<t, unit[t] + 1>>] = k]
    /\ result' = [result EXCEPT ![<<t, unit[t] + 1>>] = r]

End(t, r) == result' = [result EXCEPT ![Current(t)] = r]

(***************************************************************************)
(* A bare write: execute(), then commit()                                  *)
(***************************************************************************)

\* The implicit BEGIN stays even when the statement itself fails.
BareExecute(t) ==
    /\ ~poisoned
    /\ inTx' = TRUE
    /\ \/ /\ StartUnit(t, "bare", "running")
          /\ wrote' = [wrote EXCEPT ![<<t, unit[t] + 1>>] = 1]
          /\ dirty' = dirty \cup {<<t, unit[t] + 1, 1>>}
          /\ act' = [act EXCEPT ![t] = "bare"]
       \/ /\ "write" \in Faults
          /\ StartUnit(t, "bare", "raised")
          /\ UNCHANGED <<wrote, dirty, act>>
    /\ UNCHANGED <<lock, tls, stored, poisoned>>

\* commit() commits whatever the connection holds.
BareCommit(t) ==
    /\ act[t] = "bare" /\ CanLock(t)
    /\ act' = [act EXCEPT ![t] = "idle"]
    /\ \/ /\ ~poisoned
          /\ stored' = stored \cup dirty
          /\ dirty' = {} /\ inTx' = FALSE
          /\ End(t, "ok")
       \/ /\ poisoned \/ "commit" \in Faults
          /\ End(t, "raised")
          /\ UNCHANGED <<stored, dirty, inTx>>
    /\ UNCHANGED <<lock, tls, poisoned, unit, wrote, kind>>

\* Every entry point raises once the connection is poisoned.
Unusable(t, k) ==
    /\ poisoned
    /\ StartUnit(t, k, "raised")
    /\ UNCHANGED <<lock, tls, act, physical, wrote>>

(***************************************************************************)
(* A LockedCursor keeps the lock until its rows are fetched                *)
(***************************************************************************)

OpenCursor(t) ==
    /\ act[t] = "idle" /\ owner = NoOwner /\ ~poisoned
    /\ owner' = t /\ hold' = 1
    /\ act' = [act EXCEPT ![t] = "reading"]
    /\ UNCHANGED <<tls, physical, work>>

Mut_ReleasePlain(t) == hold' = hold - 1 /\ owner' = NoOwner
Release(t) ==
    /\ hold' = hold - 1
    /\ owner' = IF hold = 1 THEN NoOwner ELSE owner

FetchAll(t) ==
    /\ act[t] = "reading"
    /\ Release(t)
    /\ act' = [act EXCEPT ![t] = "idle"]
    /\ UNCHANGED <<tls, physical, work>>

(***************************************************************************)
(* transaction()                                                           *)
(***************************************************************************)

\* _physical_rollback: when neither rollback path works the connection is
\* closed for good, which discards the uncommitted writes too.
PhysicalRollback ==
    /\ inTx' = FALSE /\ dirty' = {} /\ UNCHANGED stored
    /\ UNCHANGED poisoned \/ ("rollback" \in Faults /\ poisoned' = TRUE)

Begin(t) ==
    /\ ~poisoned /\ ~inTx
    /\ StartUnit(t, "tx", "running")
    /\ owner' = t /\ hold' = 1
    /\ depth' = [depth EXCEPT ![t] = 1]
    /\ rollbackOnly' = [rollbackOnly EXCEPT ![t] = FALSE]
    /\ act' = [act EXCEPT ![t] = "body"]
    /\ inTx' = TRUE
    /\ UNCHANGED <<dirty, stored, poisoned, wrote>>

\* _cleanup_failed_begin after a BEGIN that raised of itself, whether or not
\* it had begun.
BeginRaises(t) ==
    /\ "begin" \in Faults
    /\ ~poisoned /\ ~inTx
    /\ StartUnit(t, "tx", "raised")
    /\ PhysicalRollback
    /\ UNCHANGED <<lock, tls, act, wrote>>

\* BEGIN IMMEDIATE inside somebody's implicit transaction: SQLite refuses, and
\* was_in_transaction keeps the cleanup away from that transaction.
Mut_RefusedCleanup == PhysicalRollback
RefusedCleanup == UNCHANGED physical

BeginRefused(t) ==
    /\ ~poisoned /\ inTx
    /\ StartUnit(t, "tx", "refused")
    /\ RefusedCleanup
    /\ UNCHANGED <<lock, tls, act, wrote>>

EnterNested(t) ==
    /\ act[t] = "body" /\ depth[t] < MaxDepth
    /\ hold' = hold + 1
    /\ depth' = [depth EXCEPT ![t] = @ + 1]
    /\ UNCHANGED <<owner, rollbackOnly, act, physical, work>>

\* A repository write in a context: execute(), then a commit() that returns.
BodyWrite(t) ==
    /\ act[t] = "body" /\ wrote[Current(t)] < MaxWrites
    /\ LET w == <<t, unit[t], wrote[Current(t)] + 1>> IN
       IF Deferred(t)
         THEN dirty' = dirty \cup {w} /\ UNCHANGED stored
         ELSE dirty' = {} /\ stored' = stored \cup dirty \cup {w}
    /\ wrote' = [wrote EXCEPT ![Current(t)] = @ + 1]
    /\ UNCHANGED <<lock, tls, act, inTx, poisoned, unit, kind, result>>

\* rollback() inside a context.
RollbackCall(t) ==
    /\ act[t] = "body"
    /\ rollbackOnly' = [rollbackOnly EXCEPT ![t] = TRUE]
    /\ UNCHANGED <<lock, depth, act, physical, work>>

\* An exception leaves the innermost body.
Raise(t) ==
    /\ act[t] = "body"
    /\ act' = [act EXCEPT ![t] = "raising"]
    /\ UNCHANGED <<lock, tls, physical, work>>

\* The rollback-only mark of a body that raised.
Marked(t) == rollbackOnly[t] \/ act[t] = "raising"

\* Exit of a nested context; the enclosing body may catch its exception.
LeaveNested(t) ==
    /\ act[t] \in {"body", "raising"} /\ depth[t] > 1
    /\ depth' = [depth EXCEPT ![t] = @ - 1]
    /\ rollbackOnly' = [rollbackOnly EXCEPT ![t] = Marked(t)]
    /\ \E a \in {"body", act[t]} : act' = [act EXCEPT ![t] = a]
    /\ Release(t)
    /\ UNCHANGED <<physical, work>>

\* Exit of the outermost context: commit, or roll back and raise.
LeaveOutermost(t) ==
    /\ act[t] \in {"body", "raising"} /\ depth[t] = 1
    /\ \/ /\ ~Marked(t)
          /\ stored' = stored \cup dirty
          /\ dirty' = {} /\ inTx' = FALSE /\ UNCHANGED poisoned
          /\ End(t, "ok")
       \/ /\ Marked(t) \/ "commit" \in Faults
          /\ PhysicalRollback
          /\ End(t, "raised")
    /\ rollbackOnly' = [rollbackOnly EXCEPT ![t] = FALSE]
    /\ depth' = [depth EXCEPT ![t] = 0]
    /\ act' = [act EXCEPT ![t] = "idle"]
    /\ Release(t)
    /\ UNCHANGED <<unit, wrote, kind>>

(***************************************************************************)
(* The specification                                                       *)
(***************************************************************************)

Init ==
    /\ owner = NoOwner /\ hold = 0
    /\ depth = [t \in Threads |-> 0]
    /\ rollbackOnly = [t \in Threads |-> FALSE]
    /\ act = [t \in Threads |-> "idle"]
    /\ inTx = FALSE /\ dirty = {} /\ stored = {} /\ poisoned = FALSE
    /\ unit = [t \in Threads |-> 0]
    /\ wrote = [u \in Units |-> 0]
    /\ kind = [u \in Units |-> "none"]
    /\ result = [u \in Units |-> "none"]

Step(t) ==
    \/ BareExecute(t) \/ BareCommit(t)
    \/ \E k \in {"bare", "tx"} : Unusable(t, k)
    \/ OpenCursor(t) \/ FetchAll(t)
    \/ Begin(t) \/ BeginRaises(t) \/ BeginRefused(t)
    \/ EnterNested(t) \/ BodyWrite(t) \/ RollbackCall(t) \/ Raise(t)
    \/ LeaveNested(t) \/ LeaveOutermost(t)

Next == \E t \in Threads : Step(t)

LockSpec == Init /\ [][Next]_vars

(***************************************************************************)
(* Properties                                                              *)
(***************************************************************************)

\* Types: the RLock, the thread-local state and the physical connection; a context
\* never gets deeper than the bound (LockedSQLiteConnection).
TypeOK ==
    /\ owner \in Threads \cup {NoOwner} /\ hold \in Nat
    /\ depth \in [Threads -> 0..MaxDepth]
    /\ rollbackOnly \in [Threads -> BOOLEAN]
    /\ act \in [Threads -> {"idle", "bare", "reading", "body", "raising"}]
    /\ inTx \in BOOLEAN /\ poisoned \in BOOLEAN
    /\ dirty \subseteq Writes /\ stored \subseteq Writes
    /\ unit \in [Threads -> 0..MaxUnits]
    /\ wrote \in [Units -> 0..MaxWrites]
    /\ kind \in [Units -> {"none", "bare", "tx"}]
    /\ result \in [Units -> {"none", "running", "ok", "raised", "refused"}]

\* Whatever raises, the lock is held exactly by the contexts and the cursor that
\* are open: no path releases it twice or keeps it.
LockMatchesContexts ==
    /\ owner = NoOwner <=> hold = 0
    /\ \A t \in Threads :
          /\ owner = t <=> act[t] \in {"body", "raising", "reading"}
          /\ owner = t => hold = IF act[t] = "reading" THEN 1 ELSE depth[t]

\* A transaction is in the file completely once it returned and not at all
\* before that or when it raised, whatever its nested contexts caught.
AllOrNothing ==
    \A u \in Units : kind[u] = "tx" =>
        /\ result[u] = "ok" => WritesOf(u) \subseteq stored
        /\ result[u] # "ok" => WritesOf(u) \cap stored = {}

\* No other thread ever finds a piece of a transaction on the connection, to
\* read or to commit it.
NoForeignTransaction ==
    owner = NoOwner => \A w \in dirty : kind[<<w[1], w[2]>>] = "bare"

\* A bare write that has been executed is never lost to another thread: its own
\* commit() finds it on the connection or already in the file.
BareWriteSurvives ==
    \A t \in Threads : act[t] = "bare" => <<t, unit[t], 1>> \in dirty \cup stored
=============================================================================
