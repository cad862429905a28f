--------------------------- MODULE MCServicesProofs ---------------------------
(***************************************************************************)
(* Proofs about the three services of MCServices, for every value of their *)
(* constants.  Each service has an inductive invariant of its own; a step  *)
(* of one leaves the variables of the others alone.  Last, proofs about    *)
(* LockedConnection, through which the services write, for every set of    *)
(* threads, every nesting depth and every choice of the SQLite calls that  *)
(* may raise.                                                              *)
(***************************************************************************)
EXTENDS MCServices, FiniteSetTheorems, WellFoundedInduction, TLAPS

----------------------------------------------------------------------------
(* The database file: invariant *)

FileTypes ==
    /\ db \in [run : [Versions -> 0..Statements], recorded : SUBSET Versions, later : BOOLEAN,
               rows : Nat, sound : BOOLEAN]
    /\ boot \in [pc : {"down", "migrating", "gated", "up", "failed"}, at : 0..Statements]
    /\ bk.pc \in {"none", "copy", "validate", "sync", "replace", "directory", "done", "failed",
                  "killed", "lost"}
    /\ bk = [pc |-> bk.pc, tmp |-> bk.tmp, from |-> bk.from, synced |-> bk.synced,
             name |-> bk.name, overwrite |-> bk.overwrite]
    /\ bk.from \in Nat
    /\ cli \in [pc : {"none", "open", "apply", "done", "refused"}]

\* A recorded script has run to its end; the one that is running has at least
\* the statements in the file that it has passed; and whoever has looked at
\* the schema and found it current still has it current, because schema_
\* migrations only grows.
SchemaInv ==
    /\ \A v \in db.recorded : Complete(v)
    /\ boot.pc = "migrating" /\ Pending # {} => boot.at <= db.run[NextVersion]
    /\ boot.pc \in {"gated", "up"} => db.recorded = Versions
    /\ cli.pc \in {"open", "apply"} => CurrentSchema
    /\ \A d \in purged : d.whole /\ (d.by = "command" => ~d.later)

\* A copy of a state that the database has had since the backup began.
WholeCopy(f) == \E n \in bk.from..db.rows : f = Copy(n)

\* The destination is touched once, and what replaces it has been copied
\* whole and synced before; only a power failure can take its name away.
BackupInv ==
    /\ bk.pc # "none" => (IF bk.name = "old" THEN dest = first ELSE WholeCopy(dest) /\ bk.synced)
    /\ bk.pc \in {"copy", "validate", "sync", "replace", "failed", "lost"} => bk.name = "old"
    /\ bk.pc \in {"directory", "done"} => bk.name # "old"
    /\ bk.pc = "none" => bk.name = "old"
    /\ bk.pc = "copy" => bk.from <= db.rows
    /\ bk.pc \in {"validate", "sync", "replace"} => WholeCopy(bk.tmp)
    /\ bk.pc = "replace" => bk.synced
    /\ bk.pc \in {"directory", "done", "failed"} => bk.tmp = NoFile

FileInv == FileTypes /\ SchemaInv /\ BackupInv

----------------------------------------------------------------------------
(* The database file: proofs *)

\* migrate() finds the lowest version that is not recorded, if there is one.
LEMMA LowestPending ==
    ASSUME NEW S \in SUBSET Nat, S # {}
    PROVE  (CHOOSE v \in S : \A w \in S : v <= w) \in S
<1>1. \E m \in S : \A y \in S : ~(<<y, m>> \in OpToRel(<, Nat))
  BY WFMin, NatLessThanWellFounded, Zenon
<1>2. PICK m \in S : \A y \in S : ~(<<y, m>> \in OpToRel(<, Nat))
  BY <1>1
<1>3. \A y \in S : y < m => <<y, m>> \in OpToRel(<, Nat)
  BY DEF OpToRel
<1>4. \A y \in S : ~(y < m)
  BY <1>2, <1>3, Zenon
<1>5. \A w \in S : m <= w
  BY <1>4
<1> QED BY <1>5

\* So the version migrate() goes on with is one of this release.
LEMMA NextIsPending ==
    ASSUME Pending # {}
    PROVE  NextVersion \in Pending /\ NextVersion \in Versions
<1>1. Pending \in SUBSET Nat
  BY FilesAssumption DEF Pending
<1> QED BY <1>1, LowestPending DEF NextVersion, Pending

\* The file of an earlier release keeps the invariant.
LEMMA FilesInit == SfInit => FileInv
<1> SUFFICES ASSUME SfInit PROVE FileInv
  OBVIOUS
<1>1. PICK n \in Versions \cup {0}, later \in BOOLEAN :
          db = [run |-> [v \in Versions |-> IF v <= n THEN Statements ELSE 0],
                recorded |-> {v \in Versions : v <= n}, later |-> later, rows |-> 0,
                sound |-> TRUE]
  BY DEF SfInit
<1>2. FileTypes
  BY <1>1, FilesAssumption DEF SfInit, FileTypes
<1>3. SchemaInv
  BY <1>1, FilesAssumption DEF SfInit, SchemaInv, Complete
<1>4. BackupInv
  BY DEF SfInit, BackupInv
<1> QED BY <1>2, <1>3, <1>4 DEF FileInv

\* Steps that leave the schema and everyone who looked at it alone.
LEMMA SchemaUntouched ==
    ASSUME SchemaInv, db'.run = db.run, db'.recorded = db.recorded, db'.later = db.later,
           boot' = boot \/ boot'.pc \in {"down", "failed"},
           cli' = cli \/ cli'.pc \in {"none", "done", "refused"},
           purged' = purged
    PROVE  SchemaInv'
BY DEF SchemaInv, Complete, Pending, NextVersion, CurrentSchema

\* Steps of the others leave the backup alone, however the rows grow.
LEMMA BackupUntouched ==
    ASSUME FileTypes, BackupInv, UNCHANGED <<bk, dest, first>>, db'.rows \in Nat, db.rows <= db'.rows
    PROVE  BackupInv'
<1>1. ASSUME NEW f, WholeCopy(f) PROVE WholeCopy(f)'
  BY <1>1 DEF WholeCopy, FileTypes, Copy
<1> QED BY <1>1 DEF BackupInv, FileTypes

\* Every step of the file and of those who open it keeps the invariant.
LEMMA FileStep == FileInv /\ [SfNext]_sfVars => FileInv'
<1> SUFFICES ASSUME FileInv, [SfNext]_sfVars PROVE FileInv'
  OBVIOUS
<1> USE FilesAssumption DEF FileInv
<1>1. CASE Start
  <2>1. FileTypes'
    <3>1. boot' = [pc |-> "migrating", at |-> 0]
      BY <1>1 DEF Start, FileTypes
    <3> QED BY <1>1, <3>1 DEF Start, FileTypes
  <2>2. SchemaInv'
    <3>1. Pending # {} => 0 <= db.run[NextVersion]
      BY NextIsPending DEF FileTypes
    <3> QED BY <1>1, <3>1 DEF Start, FileTypes, SchemaInv, Complete, Pending, NextVersion, CurrentSchema
  <2> QED BY <1>1, <2>1, <2>2, BackupUntouched DEF Start, FileTypes
<1>2. CASE RunStatement
  <2> DEFINE v == NextVersion
  <2>1. v \in Pending /\ v \in Versions
    BY <1>2, NextIsPending DEF RunStatement
  <2>2. CASE v \in Alters /\ db.run[v] > boot.at
    <3>1. FileTypes'
      BY <1>2, <2>2 DEF RunStatement, FileTypes
    <3>2. SchemaInv'
      BY <1>2, <2>2, SchemaUntouched DEF RunStatement, FileTypes
    <3> QED BY <1>2, <2>2, <3>1, <3>2, BackupUntouched DEF RunStatement, FileTypes
  <2>3. CASE ~(v \in Alters /\ db.run[v] > boot.at)
    <3> DEFINE n == IF db.run[v] > boot.at THEN db.run[v] ELSE boot.at + 1
    <3>1. /\ boot' = [boot EXCEPT !.at = @ + 1]
          /\ db' = [db EXCEPT !.run[v] = n]
          /\ UNCHANGED <<bk, dest, first, cli, purged, kills>>
          /\ boot.pc = "migrating" /\ boot.at < Statements
      BY <1>2, <2>3 DEF RunStatement
    <3>2. n \in 0..Statements /\ boot.at + 1 <= n /\ boot.at + 1 \in 0..Statements
      BY <2>1, <3>1 DEF FileTypes
    <3>3. db'.run = [db.run EXCEPT ![v] = n] /\ db'.recorded = db.recorded
          /\ db'.later = db.later /\ db'.rows = db.rows /\ db'.sound = db.sound
      BY <3>1 DEF FileTypes
    <3> HIDE DEF n, v
    <3>4. FileTypes'
      BY <2>1, <3>1, <3>2, <3>3 DEF FileTypes
    <3>5. v' = v /\ Pending' = Pending /\ CurrentSchema' = CurrentSchema
      BY <3>3 DEF v, NextVersion, Pending, CurrentSchema
    <3>6. SchemaInv'
      <4>1. \A w \in db.recorded : db'.run[w] = db.run[w]
        BY <2>1, <3>3 DEF Pending, FileTypes
      <4>2. boot'.at <= db'.run[v]
        BY <2>1, <3>1, <3>2, <3>3 DEF FileTypes
      <4> QED BY <3>1, <3>3, <3>5, <4>1, <4>2 DEF v, SchemaInv, Complete, FileTypes
    <3> QED BY <3>1, <3>3, <3>4, <3>6, BackupUntouched DEF FileTypes
  <2> QED BY <2>2, <2>3
<1>3. CASE RecordVersion
  <2>1. NextVersion \in Pending /\ NextVersion \in Versions
    BY <1>3, NextIsPending DEF RecordVersion
  <2>2. db' = [db EXCEPT !.recorded = @ \cup {NextVersion}] /\ boot' = [boot EXCEPT !.at = 0]
        /\ UNCHANGED <<bk, dest, first, cli, purged, kills>>
        /\ boot.pc = "migrating" /\ boot.at = Statements
    BY <1>3 DEF RecordVersion
  <2>3. FileTypes'
    BY <2>1, <2>2 DEF FileTypes
  <2>4. Complete(NextVersion)
    BY <1>3, <2>1, <2>2 DEF SchemaInv, Complete, FileTypes, RecordVersion
  <2>5. (Pending # {} => 0 <= db.run[NextVersion])'
    <3>1. ASSUME (Pending # {})' PROVE (NextVersion \in Versions)'
      <4>1. Pending' \in SUBSET Nat /\ Pending' # {}
        BY <3>1 DEF Pending
      <4>2. (CHOOSE v \in Pending' : \A w \in Pending' : v <= w) \in Pending'
        BY <4>1, LowestPending, Zenon
      <4> QED BY <4>2 DEF NextVersion, Pending
    <3> QED BY <3>1, <2>3 DEF FileTypes
  <2>6. SchemaInv'
    <3>1. /\ db'.recorded = db.recorded \cup {NextVersion} /\ db'.run = db.run
          /\ db'.later = db.later
      BY <2>2 DEF FileTypes
    <3>2. \A w \in db'.recorded : Complete(w)'
      BY <2>4, <3>1 DEF SchemaInv, Complete
    <3>3. boot'.pc = "migrating" /\ boot'.at = 0
      BY <2>2 DEF FileTypes
    <3>4. cli'.pc \in {"open", "apply"} => CurrentSchema'
      BY <2>1, <2>2, <3>1 DEF SchemaInv, CurrentSchema, FileTypes
    <3> QED BY <2>2, <2>5, <3>2, <3>3, <3>4 DEF SchemaInv
  <2> QED BY <2>2, <2>3, <2>6, BackupUntouched DEF FileTypes
<1>4. CASE Gates
  <2>1. FileTypes'
    BY <1>4 DEF Gates, FileTypes
  <2>2. SchemaInv'
    BY <1>4 DEF Gates, FileTypes, SchemaInv, Complete, Pending, CurrentSchema
  <2> QED BY <1>4, <2>1, <2>2, BackupUntouched DEF Gates, FileTypes
<1>5. CASE FirstRetention
  <2>1. FileTypes'
    BY <1>5 DEF FirstRetention, FileTypes
  <2>2. SchemaInv'
    BY <1>5 DEF FirstRetention, FileTypes, SchemaInv, Complete, CurrentSchema, Deletion
  <2> QED BY <1>5, <2>1, <2>2, BackupUntouched DEF FirstRetention, FileTypes
<1>6. CASE Write
  <2>1. FileTypes'
    BY <1>6 DEF Write, FileTypes
  <2>2. SchemaInv'
    BY <1>6, SchemaUntouched DEF Write, FileTypes
  <2> QED BY <1>6, <2>1, <2>2, BackupUntouched DEF Write, FileTypes
<1>7. CASE \E o \in BOOLEAN : StartBackup(o)
  <2>1. PICK o \in BOOLEAN : StartBackup(o)
    BY <1>7
  <2>2. FileTypes'
    BY <2>1 DEF StartBackup, FileTypes
  <2>3. SchemaInv'
    BY <2>1, SchemaUntouched DEF StartBackup
  <2>4. BackupInv'
    BY <2>1 DEF StartBackup, FileTypes, BackupInv
  <2> QED BY <2>2, <2>3, <2>4
<1>8. CASE CopyPages
  <2>1. FileTypes'
    BY <1>8 DEF CopyPages, FileTypes
  <2>2. SchemaInv'
    BY <1>8, SchemaUntouched DEF CopyPages
  <2>3. BackupInv'
    BY <1>8 DEF CopyPages, FileTypes, BackupInv, WholeCopy
  <2> QED BY <2>1, <2>2, <2>3
<1>9. CASE ValidateCopy
  <2>1. FileTypes'
    BY <1>9 DEF ValidateCopy, Failed, FileTypes
  <2>2. SchemaInv'
    BY <1>9, SchemaUntouched DEF ValidateCopy
  <2>3. BackupInv'
    BY <1>9 DEF ValidateCopy, Failed, FileTypes, BackupInv, WholeCopy
  <2> QED BY <2>1, <2>2, <2>3
<1>10. CASE SyncCopy
  <2>1. FileTypes'
    BY <1>10 DEF SyncCopy, FileTypes
  <2>2. SchemaInv'
    BY <1>10, SchemaUntouched DEF SyncCopy
  <2>3. BackupInv'
    BY <1>10 DEF SyncCopy, FileTypes, BackupInv, WholeCopy
  <2> QED BY <2>1, <2>2, <2>3
<1>11. CASE ReplaceDestination
  <2>1. FileTypes'
    BY <1>11 DEF ReplaceDestination, FileTypes
  <2>2. SchemaInv'
    BY <1>11, SchemaUntouched DEF ReplaceDestination
  <2>3. BackupInv'
    BY <1>11 DEF ReplaceDestination, FileTypes, BackupInv, WholeCopy
  <2> QED BY <2>1, <2>2, <2>3
<1>12. CASE BackupRaises
  <2>1. FileTypes'
    BY <1>12 DEF BackupRaises, Failed, FileTypes
  <2>2. SchemaInv'
    BY <1>12, SchemaUntouched DEF BackupRaises
  <2>3. BackupInv'
    BY <1>12 DEF BackupRaises, Failed, FileTypes, BackupInv
  <2> QED BY <2>1, <2>2, <2>3
<1>13. CASE Preflight
  <2>1. FileTypes'
    BY <1>13 DEF Preflight, FileTypes
  <2>2. SchemaInv'
    BY <1>13 DEF Preflight, FileTypes, SchemaInv, Complete, Pending, NextVersion, CurrentSchema
  <2> QED BY <1>13, <2>1, <2>2, BackupUntouched DEF Preflight, FileTypes
<1>14. CASE OpenExisting
  <2>1. FileTypes'
    BY <1>14 DEF OpenExisting, FileTypes
  <2>2. SchemaInv'
    BY <1>14 DEF OpenExisting, FileTypes, SchemaInv, Complete, Pending, NextVersion, CurrentSchema
  <2> QED BY <1>14, <2>1, <2>2, BackupUntouched DEF OpenExisting, FileTypes
<1>15. CASE Apply
  <2>1. FileTypes'
    BY <1>15 DEF Apply, FileTypes
  <2>2. SchemaInv'
    BY <1>15 DEF Apply, FileTypes, SchemaInv, Complete, Pending, NextVersion, CurrentSchema,
                 Deletion
  <2> QED BY <1>15, <2>1, <2>2, BackupUntouched DEF Apply, FileTypes
<1>16. CASE KillCore
  <2>1. FileTypes'
    BY <1>16 DEF KillCore, FileTypes
  <2>2. SchemaInv'
    BY <1>16, SchemaUntouched DEF KillCore, FileTypes
  <2> QED BY <1>16, <2>1, <2>2, BackupUntouched DEF KillCore, FileTypes
<1>17. CASE KillBackup
  <2>1. FileTypes'
    BY <1>17 DEF KillBackup, FileTypes, Ended
  <2>2. SchemaInv'
    BY <1>17, SchemaUntouched DEF KillBackup
  <2>3. BackupInv'
    BY <1>17 DEF KillBackup, FileTypes, BackupInv, WholeCopy, Ended
  <2> QED BY <2>1, <2>2, <2>3
<1>18. CASE PowerFails
  <2>1. FileTypes'
    BY <1>18 DEF PowerFails, FileTypes, Ended
  <2>2. SchemaInv'
    BY <1>18, SchemaUntouched DEF PowerFails, FileTypes
  <2>3. BackupInv'
    <3>1. first' = first /\ db' = db
      BY <1>18 DEF PowerFails
    <3>2. bk.name # "old" => bk.pc # "none" /\ bk.synced
      BY DEF BackupInv
    <3>3. CASE /\ dest' = IF bk.name # "old" /\ ~bk.synced THEN Torn ELSE dest
               /\ bk' = [bk EXCEPT !.pc = IF @ \in Ended THEN @ ELSE "killed",
                                   !.name = IF @ = "new" THEN "durable" ELSE @]
      <4>1. dest' = dest /\ bk'.from = bk.from /\ bk'.tmp = bk.tmp /\ bk'.synced = bk.synced
        BY <3>2, <3>3 DEF FileTypes
      <4>2. \A f : WholeCopy(f) => WholeCopy(f)'
        BY <3>1, <4>1 DEF WholeCopy, Copy
      <4>3. /\ bk'.name = IF bk.name = "new" THEN "durable" ELSE bk.name
            /\ bk'.pc = IF bk.pc \in Ended THEN bk.pc ELSE "killed"
        BY <3>3 DEF FileTypes
      <4> QED BY <3>1, <3>2, <4>1, <4>2, <4>3 DEF BackupInv, Ended
    <3>4. CASE /\ bk.name = "new" /\ dest' = first
               /\ bk' = [bk EXCEPT !.pc = "lost", !.tmp = dest, !.name = "old"]
      BY <3>1, <3>4 DEF FileTypes, BackupInv
    <3> QED BY <1>18, <3>3, <3>4 DEF PowerFails
  <2> QED BY <2>1, <2>2, <2>3
<1>19. CASE Damage
  <2>1. FileTypes'
    BY <1>19 DEF Damage, FileTypes
  <2>2. SchemaInv'
    BY <1>19, SchemaUntouched DEF Damage, FileTypes
  <2> QED BY <1>19, <2>1, <2>2, BackupUntouched DEF Damage, FileTypes
<1>20. CASE SyncDirectory
  <2>1. FileTypes'
    BY <1>20 DEF SyncDirectory, FileTypes
  <2>2. SchemaInv'
    BY <1>20, SchemaUntouched DEF SyncDirectory
  <2>3. BackupInv'
    BY <1>20 DEF SyncDirectory, FileTypes, BackupInv, WholeCopy
  <2> QED BY <2>1, <2>2, <2>3
<1>21. CASE UNCHANGED sfVars
  <2>1. FileTypes'
    BY <1>21 DEF sfVars, FileTypes
  <2>2. SchemaInv'
    BY <1>21, SchemaUntouched DEF sfVars
  <2> QED BY <1>21, <2>1, <2>2, BackupUntouched DEF sfVars, FileTypes
<1> QED
  BY <1>1, <1>2, <1>3, <1>4, <1>5, <1>6, <1>7, <1>8, <1>9, <1>10, <1>11, <1>12,
     <1>13, <1>14, <1>15, <1>16, <1>17, <1>18, <1>19, <1>20, <1>21 DEF SfNext

\* What the invariant says of the properties of the file.
LEMMA FileProperties == FileInv => SchemaIsHonest /\ BackupIsWhole
<1> SUFFICES ASSUME FileInv PROVE SchemaIsHonest /\ BackupIsWhole
  OBVIOUS
<1>1. SchemaIsHonest
  BY DEF FileInv, SchemaInv, SchemaIsHonest
<1>2. BackupIsWhole
  <2>1. CASE bk.name # "old"
    <3>1. bk.pc \in {"directory", "done", "killed"}
      BY <2>1 DEF FileInv, FileTypes, BackupInv
    <3>2. PICK n \in bk.from..db.rows : dest = Copy(n)
      BY <2>1, <3>1 DEF FileInv, BackupInv, WholeCopy
    <3> QED BY <3>1, <3>2 DEF FileInv, FileTypes, BackupInv, BackupIsWhole, Copy
  <2>2. CASE bk.name = "old"
    BY <2>2 DEF FileInv, FileTypes, BackupInv, BackupIsWhole
  <2> QED BY <2>1, <2>2
<1> QED BY <1>1, <1>2

----------------------------------------------------------------------------
(* The application context: invariant *)

PhaseSet == {"collector", "discovery", "threads", "serving",
             "stop_storage", "stop_collector", "stop_evaluation", "cancel_dashboard",
             "stop_discovery", "drain_discovery", "offline", "closed"}

ServiceTypes ==
    /\ version \in Nat /\ phase \in PhaseSet /\ link \in BOOLEAN
    /\ dash \in [at : {"idle", "timer", "built", "told"}, built : Nat, again : BOOLEAN]
    /\ svc \in [pending : BOOLEAN, timer : BOOLEAN, publishing : BOOLEAN,
                read : Nat \cup {NoValue}, stopped : BOOLEAN, failed : BOOLEAN, drops : Nat]
    /\ broker \in [avail : {"online", "offline"}, states : Nat \cup {NoValue}]

\* Until the discovery service is handed to the dashboard scheduler nobody but
\* the starting thread uses it; the broker has "offline" whenever the link is
\* down; and every statement of close() leaves something behind that the
\* later ones rely on, since whoever could undo it has stopped before.
QuietInv ==
    /\ At(phase) < At("threads") => /\ ~svc.timer /\ ~svc.publishing
                                    /\ link => svc.read # NoValue
    /\ ~link => broker.avail = "offline"
    /\ At(phase) > At("cancel_dashboard") => dash.at = "idle"
    /\ At(phase) > At("stop_discovery") => svc.stopped /\ ~svc.pending /\ ~svc.timer
    /\ At(phase) > At("drain_discovery") => ~svc.publishing
    /\ phase = "closed" => ~link

ServiceInv == ServiceTypes /\ QuietInv

----------------------------------------------------------------------------
(* The application context: proofs *)

\* The phases are pairwise different, so a phase has one position.
LEMMA PhasesDiffer == \A i, j \in 1..12 : Phases[i] = Phases[j] => i = j
BY DEF Phases

\* At finds the position of a phase.
LEMMA AtIsInverse == \A i \in 1..12 : At(Phases[i]) = i
<1>1. DOMAIN Phases = 1..12
  BY DEF Phases
<1>2. SUFFICES ASSUME NEW i \in 1..12 PROVE At(Phases[i]) = i
  OBVIOUS
<1>3. \E j \in DOMAIN Phases : Phases[j] = Phases[i]
  BY <1>1
<1>4. At(Phases[i]) \in DOMAIN Phases /\ Phases[At(Phases[i])] = Phases[i]
  BY <1>3 DEF At
<1> QED BY <1>1, <1>4, PhasesDiffer

\* The positions of the phases, by name.
LEMMA AtValues ==
    /\ At("collector") = 1 /\ At("discovery") = 2 /\ At("threads") = 3
    /\ At("serving") = 4 /\ At("stop_storage") = 5 /\ At("stop_collector") = 6
    /\ At("stop_evaluation") = 7 /\ At("cancel_dashboard") = 8
    /\ At("stop_discovery") = 9 /\ At("drain_discovery") = 10
    /\ At("offline") = 11 /\ At("closed") = 12
<1>1. /\ Phases[1] = "collector" /\ Phases[2] = "discovery" /\ Phases[3] = "threads"
      /\ Phases[4] = "serving" /\ Phases[5] = "stop_storage" /\ Phases[6] = "stop_collector"
      /\ Phases[7] = "stop_evaluation" /\ Phases[8] = "cancel_dashboard"
      /\ Phases[9] = "stop_discovery" /\ Phases[10] = "drain_discovery"
      /\ Phases[11] = "offline" /\ Phases[12] = "closed"
  BY DEF Phases
<1>2. \A i \in {1, 2, 3, 4, 5, 6, 7, 8, 9, 10, 11, 12} : At(Phases[i]) = i
  BY AtIsInverse
<1> QED BY <1>1, <1>2

\* A statement of bootstrap() or close() moves to the next phase.
LEMMA PhaseSteps ==
    ASSUME phase \in PhaseSet
    PROVE  /\ At(phase) \in 1..12
           /\ phase # "closed" /\ GoOn => /\ phase' \in PhaseSet
                                          /\ At(phase') = At(phase) + 1
<1>1. At(phase) \in 1..12 /\ (phase # "closed" => At(phase) \in 1..11)
  BY AtValues DEF PhaseSet
<1>2. \A i \in 1..12 : Phases[i] \in PhaseSet
  BY DEF Phases, PhaseSet
<1> QED BY <1>1, <1>2, AtIsInverse DEF GoOn

\* Who can still ask for a dashboard: nobody once the evaluation has stopped.
LEMMA NobodyRuns ==
    ASSUME phase \in PhaseSet, At(phase) > At("cancel_dashboard")
    PROVE  Running = {}
BY AtValues, PhaseSteps DEF Running, Between

\* The context before bootstrap().
LEMMA ServicesStart == SvInit => ServiceInv
<1> SUFFICES ASSUME SvInit PROVE ServiceInv
  OBVIOUS
<1>1. link \in BOOLEAN
  BY Zenon DEF SvInit
<1>2. ServiceTypes
  BY <1>1 DEF SvInit, ServiceTypes, PhaseSet
<1>3. QuietInv
  BY AtValues DEF SvInit, QuietInv
<1> QED BY <1>2, <1>3 DEF ServiceInv

\* Steps that touch neither the phase nor the services.
LEMMA ServicesUntouched ==
    ASSUME ServiceInv, UNCHANGED <<phase, dash, svc, link, broker>>, version' \in Nat
    PROVE  ServiceInv'
BY DEF ServiceInv, ServiceTypes, QuietInv

\* Steps of bootstrap() and close() that only move on.
LEMMA MovedOn ==
    ASSUME ServiceInv, GoOn, UNCHANGED <<version, dash, svc, link, broker>>,
           phase \notin {"discovery", "cancel_dashboard", "stop_discovery", "drain_discovery",
                          "offline", "closed"}
    PROVE  ServiceInv'
<1>1. phase' \in PhaseSet /\ At(phase') = At(phase) + 1 /\ At(phase) \in 1..7
  BY PhaseSteps, AtValues DEF ServiceInv, ServiceTypes, PhaseSet
<1>2. phase' # "closed"
  BY <1>1, AtValues
<1> QED BY <1>1, <1>2, AtValues DEF ServiceInv, ServiceTypes, QuietInv

\* Every step of the context and its services keeps the invariant.
LEMMA ServiceStep == ServiceInv /\ [SvNext]_svVars => ServiceInv'
<1> SUFFICES ASSUME ServiceInv, [SvNext]_svVars PROVE ServiceInv'
  OBVIOUS
<1>t. ServiceTypes /\ QuietInv /\ phase \in PhaseSet /\ At(phase) \in 1..12
  BY PhaseSteps DEF ServiceInv, ServiceTypes
<1>1. CASE \/ CollectorStatus
           \/ \E b \in Browsers : \/ RunCallback(b) \/ OpenStream(b) \/ Subscribe(b)
                                 \/ Receive(b) \/ Leave(b)
  <2>1. UNCHANGED <<version, phase, dash, svc, link, broker>>
    BY <1>1 DEF RunCallback, CollectorStatus, OpenStream, Subscribe, Receive, Leave
  <2> QED BY <1>t, <2>1, ServicesUntouched DEF ServiceTypes
<1>2. CASE \E src \in {"collector", "evaluation", "storage", "api"} : notify_committed_mutation(src)
  <2>1. At(phase) <= At("cancel_dashboard")
    BY <1>2, <1>t, NobodyRuns, AtValues DEF notify_committed_mutation
  <2>2. /\ version' = version + 1 /\ UNCHANGED <<phase, svc, link, broker>>
        /\ Schedule
    BY <1>2 DEF notify_committed_mutation
  <2>3. dash' \in [at : {"idle", "timer", "built", "told"}, built : Nat, again : BOOLEAN]
    <3>1. CASE dash.at = "idle"
      BY <2>2, <3>1, <1>t DEF Schedule, ServiceTypes
    <3>2. CASE dash.at # "idle"
      <4>1. (dash.at # "timer") \in BOOLEAN
        BY Zenon
      <4> QED BY <2>2, <3>2, <4>1, <1>t DEF Schedule, ServiceTypes
    <3> QED BY <3>1, <3>2
  <2>4. ServiceTypes'
    BY <2>2, <2>3, <1>t DEF ServiceTypes
  <2>5. QuietInv'
    BY <2>1, <2>2, <1>t, AtValues DEF QuietInv
  <2> QED BY <2>4, <2>5 DEF ServiceInv
<1>3. CASE BuildDashboard
  <2>1. ServiceTypes'
    BY <1>3, <1>t DEF BuildDashboard, ServiceTypes
  <2>2. QuietInv'
    BY <1>3, <1>t DEF BuildDashboard, ServiceTypes, QuietInv
  <2> QED BY <2>1, <2>2 DEF ServiceInv
<1>4. CASE PublishDashboard
  <2>1. dash.at = "built" /\ dash' = [dash EXCEPT !.at = "told"]
        /\ UNCHANGED <<version, phase, svc, link, broker>>
    BY <1>4 DEF PublishDashboard
  <2>2. ServiceTypes'
    BY <2>1, <1>t DEF ServiceTypes
  <2>3. QuietInv'
    BY <2>1, <1>t DEF ServiceTypes, QuietInv
  <2> QED BY <2>2, <2>3 DEF ServiceInv
<1>5. CASE HandToDiscovery
  <2>1. dash.at = "told" /\ UNCHANGED <<version, phase, link, broker>>
    BY <1>5 DEF HandToDiscovery
  <2>2. At(phase) <= At("cancel_dashboard")
    BY <2>1, <1>t, AtValues DEF QuietInv
  <2>3. dash' \in [at : {"idle", "timer", "built", "told"}, built : Nat, again : BOOLEAN]
    BY <1>5, <1>t DEF HandToDiscovery, ServiceTypes
  <2>4. svc' = svc \/ (At(phase) >= At("threads") /\ svc' = schedule_update(svc))
    <3>1. CASE Between("threads", "closed")
      <4>1. svc' = schedule_update(svc)
        BY <1>5, <3>1 DEF HandToDiscovery
      <4> QED BY <3>1, <4>1 DEF Between
    <3>2. CASE ~Between("threads", "closed")
      BY <1>5, <3>2 DEF HandToDiscovery
    <3> QED BY <3>1, <3>2
  <2>5. svc'.publishing = svc.publishing /\ svc'.read = svc.read
        /\ svc' \in [pending : BOOLEAN, timer : BOOLEAN, publishing : BOOLEAN,
                     read : Nat \cup {NoValue}, stopped : BOOLEAN, failed : BOOLEAN, drops : Nat]
    <3>1. (svc.timer \/ ~svc.publishing) \in BOOLEAN
      BY Zenon
    <3> QED BY <2>4, <3>1, <1>t DEF schedule_update, ServiceTypes
  <2>6. ServiceTypes'
    BY <2>1, <2>3, <2>5, <1>t DEF ServiceTypes
  <2>7. QuietInv'
    BY <2>1, <2>2, <2>4, <2>5, <1>t, AtValues DEF QuietInv
  <2> QED BY <2>6, <2>7 DEF ServiceInv
<1>6. CASE RunDebouncedUpdate
  <2>1. svc.timer /\ UNCHANGED <<version, phase, dash, link, broker>>
    BY <1>6 DEF RunDebouncedUpdate
  <2>2. At(phase) >= At("threads") /\ At(phase) <= At("stop_discovery")
    BY <2>1, <1>t, AtValues DEF QuietInv
  <2>3. ServiceTypes'
    BY <1>6, <2>1, <1>t DEF RunDebouncedUpdate, ServiceTypes
  <2>4. QuietInv'
    BY <2>1, <2>2, <1>t, AtValues DEF QuietInv
  <2> QED BY <2>3, <2>4 DEF ServiceInv
<1>7. CASE ReadForDiscovery
  <2>1. svc.publishing /\ svc' = [svc EXCEPT !.read = SummaryStates(version, CollectorConnected)]
        /\ UNCHANGED <<version, phase, dash, link, broker>>
    BY <1>7 DEF ReadForDiscovery
  <2>2. SummaryStates(version, CollectorConnected) \in Nat
    BY <1>t DEF SummaryStates, Unknown, ServiceTypes
  <2>3. ServiceTypes'
    BY <2>1, <2>2, <1>t DEF ServiceTypes
  <2>4. QuietInv'
    BY <2>1, <1>t DEF ServiceTypes, QuietInv
  <2> QED BY <2>3, <2>4 DEF ServiceInv
<1>8. CASE EndPublish
  <2>1. svc.publishing /\ svc.read # NoValue /\ Publish(svc.read)
        /\ UNCHANGED <<version, phase, dash, link>>
    BY <1>8 DEF EndPublish
  <2>2. broker' \in [avail : {"online", "offline"}, states : Nat \cup {NoValue}]
        /\ broker'.avail = broker.avail
    BY <2>1, <1>t DEF Publish, ServiceTypes
  <2> DEFINE t == svc.timer \/ (svc.pending /\ ~svc.stopped)
             f == ~link
  <2>3. t \in BOOLEAN /\ f \in BOOLEAN
    BY Zenon
  <2>4. svc' = [svc EXCEPT !.publishing = FALSE, !.read = NoValue, !.failed = f, !.timer = t]
    BY <1>8 DEF EndPublish
  <2>5. At(phase) > At("stop_discovery") => ~t
    BY <1>t DEF QuietInv
  <2> HIDE DEF t, f
  <2>6. ServiceTypes'
    BY <2>1, <2>2, <2>3, <2>4, <1>t DEF ServiceTypes
  <2>7. svc'.publishing = FALSE /\ svc'.timer = t
        /\ svc'.stopped = svc.stopped /\ svc'.pending = svc.pending
    BY <2>4, <1>t DEF ServiceTypes
  <2>8. At(phase) >= At("threads") 
    BY <2>1, <1>t, AtValues DEF QuietInv
  <2>9. QuietInv'
    BY <2>1, <2>2, <2>5, <2>7, <2>8, <1>t, AtValues DEF QuietInv
  <2> QED BY <2>6, <2>9 DEF ServiceInv
<1>9. CASE LoseLink
  <2>1. ServiceTypes'
    <3>1. link' = FALSE /\ svc' = [svc EXCEPT !.drops = @ + 1]
          /\ broker' = [broker EXCEPT !.avail = "offline"] /\ UNCHANGED <<version, phase, dash>>
      BY <1>9 DEF LoseLink
    <3>2. link' \in BOOLEAN
      BY <3>1, Zenon
    <3> QED BY <3>1, <3>2, <1>t DEF ServiceTypes
  <2>2. QuietInv'
    BY <1>9, <1>t DEF LoseLink, ServiceTypes, QuietInv
  <2> QED BY <2>1, <2>2 DEF ServiceInv
<1>10. CASE Reconnect
  <2>1. At(phase) >= At("threads") /\ phase # "closed" /\ link' = TRUE
        /\ UNCHANGED <<version, phase, dash, svc, broker>>
    BY <1>10, AtValues DEF Reconnect, Between
  <2>2. link' \in BOOLEAN
    BY <2>1, Zenon
  <2>3. ServiceTypes'
    BY <2>1, <2>2, <1>t DEF ServiceTypes
  <2>4. QuietInv'
    BY <2>1, <1>t, AtValues DEF QuietInv
  <2> QED BY <2>3, <2>4 DEF ServiceInv
<1>11. CASE StartCollector \/ StartThreads \/ Shutdown \/ StopEvaluation
  BY <1>11, <1>t, MovedOn DEF StartCollector, StartThreads, Shutdown, StopEvaluation
<1>12. CASE StopCollector
  BY <1>12, <1>t, MovedOn DEF StopCollector
<1>13. CASE StartConnect
  <2>1. PICK up \in BOOLEAN :
          /\ link' = up
          /\ broker' = IF up THEN [broker EXCEPT !.avail = "online"] ELSE broker
          /\ svc' = IF up THEN [svc EXCEPT !.read = SummaryStates(version, CollectorConnected)]
                    ELSE [svc EXCEPT !.failed = TRUE]
    BY <1>13 DEF StartConnect
  <2>2. phase = "discovery" /\ svc.read = NoValue /\ UNCHANGED <<version, phase, dash>>
    BY <1>13 DEF StartConnect
  <2>3. SummaryStates(version, CollectorConnected) \in Nat
    BY <1>t DEF SummaryStates, Unknown, ServiceTypes
  <2>4. ~link /\ broker.avail = "offline"
    BY <2>2, <1>t, AtValues DEF QuietInv
  <2>5. ServiceTypes'
    <3>1. CASE up
      BY <2>1, <2>2, <2>3, <3>1, <1>t DEF ServiceTypes
    <3>2. CASE ~up
      BY <2>1, <2>2, <3>2, <1>t DEF ServiceTypes
    <3> QED BY <3>1, <3>2
  <2>6. QuietInv'
    <3>1. CASE up
      BY <2>1, <2>2, <2>3, <3>1, <1>t, AtValues, ServicesAssumption DEF ServiceTypes, QuietInv
    <3>2. CASE ~up
      BY <2>1, <2>2, <2>4, <3>2, <1>t, AtValues DEF ServiceTypes, QuietInv
    <3> QED BY <3>1, <3>2
  <2> QED BY <2>5, <2>6 DEF ServiceInv
<1>14. CASE StartPublish
  <2>1. phase = "discovery" /\ GoOn /\ UNCHANGED <<version, dash, link>>
    BY <1>14 DEF StartPublish
  <2>2. phase' \in PhaseSet /\ At(phase') = 3 /\ phase' # "closed"
    BY <2>1, <1>t, PhaseSteps, AtValues
  <2>3. broker' \in [avail : {"online", "offline"}, states : Nat \cup {NoValue}]
        /\ broker'.avail = broker.avail
    BY <1>14, <1>t DEF StartPublish, Publish, ServiceTypes
  <2> DEFINE f == ~link
  <2>4. f \in BOOLEAN
    BY Zenon
  <2>5. svc' = [svc EXCEPT !.read = NoValue, !.failed = f]
    BY <1>14 DEF StartPublish
  <2> HIDE DEF f
  <2>6. ServiceTypes'
    BY <2>1, <2>2, <2>3, <2>4, <2>5, <1>t DEF ServiceTypes
  <2>7. QuietInv'
    BY <2>1, <2>2, <2>3, <1>t, AtValues DEF QuietInv
  <2> QED BY <2>6, <2>7 DEF ServiceInv
<1>15. CASE CancelDashboard
  <2>1. phase = "cancel_dashboard" /\ UNCHANGED <<version, svc, link, broker>>
    BY <1>15 DEF CancelDashboard
  <2>2. CASE dash.at \in {"idle", "timer"}
    <3>1. GoOn /\ dash' = [dash EXCEPT !.at = "idle", !.again = FALSE]
      BY <1>15, <2>2 DEF CancelDashboard
    <3>2. phase' \in PhaseSet /\ At(phase') = 9 /\ phase' # "closed"
      BY <2>1, <3>1, <1>t, PhaseSteps, AtValues
    <3>3. ServiceTypes'
      BY <2>1, <3>1, <3>2, <1>t DEF ServiceTypes
    <3>4. QuietInv'
      BY <2>1, <3>1, <3>2, <1>t, AtValues DEF ServiceTypes, QuietInv
    <3> QED BY <3>3, <3>4 DEF ServiceInv
  <2>3. CASE dash.at \notin {"idle", "timer"}
    <3>1. phase' = phase /\ dash' = [dash EXCEPT !.again = FALSE]
      BY <1>15, <2>3 DEF CancelDashboard
    <3>2. ServiceTypes'
      BY <2>1, <3>1, <1>t DEF ServiceTypes
    <3>3. QuietInv'
      BY <2>1, <3>1, <1>t DEF ServiceTypes, QuietInv
    <3> QED BY <3>2, <3>3 DEF ServiceInv
  <2> QED BY <2>2, <2>3
<1>16. CASE StopDiscovery
  <2>1. phase = "stop_discovery" /\ GoOn /\ UNCHANGED <<version, dash, link, broker>>
        /\ svc' = [svc EXCEPT !.stopped = TRUE, !.pending = FALSE, !.timer = FALSE]
    BY <1>16 DEF StopDiscovery
  <2>2. phase' \in PhaseSet /\ At(phase') = 10 /\ phase' # "closed"
    BY <2>1, <1>t, PhaseSteps, AtValues
  <2>3. ServiceTypes'
    BY <2>1, <2>2, <1>t DEF ServiceTypes
  <2>4. QuietInv'
    BY <2>1, <2>2, <1>t, AtValues DEF ServiceTypes, QuietInv
  <2> QED BY <2>3, <2>4 DEF ServiceInv
<1>17. CASE DrainDiscovery
  <2>1. phase = "drain_discovery" /\ ~svc.publishing /\ GoOn
        /\ UNCHANGED <<version, dash, svc, link, broker>>
    BY <1>17 DEF DrainDiscovery
  <2>2. phase' \in PhaseSet /\ At(phase') = 11 /\ phase' # "closed"
    BY <2>1, <1>t, PhaseSteps, AtValues
  <2> QED BY <2>1, <2>2, <1>t, AtValues DEF ServiceInv, ServiceTypes, QuietInv
<1>18. CASE PublishOffline
  <2>1. phase = "offline" /\ GoOn /\ UNCHANGED <<version, dash, svc>> /\ link' = FALSE
        /\ broker' = IF link THEN [broker EXCEPT !.avail = "offline"] ELSE broker
    BY <1>18 DEF PublishOffline
  <2>2. phase' \in PhaseSet /\ At(phase') = 12
    BY <2>1, <1>t, PhaseSteps, AtValues
  <2>3. link' \in BOOLEAN
    BY <2>1, Zenon
  <2>4. broker' \in [avail : {"online", "offline"}, states : Nat \cup {NoValue}]
        /\ broker'.avail = "offline"
    BY <2>1, <1>t DEF ServiceTypes, QuietInv
  <2>5. ServiceTypes'
    BY <2>1, <2>2, <2>3, <2>4, <1>t DEF ServiceTypes
  <2>6. QuietInv'
    BY <2>1, <2>2, <2>4, <1>t, AtValues DEF QuietInv
  <2> QED BY <2>5, <2>6 DEF ServiceInv
<1>19. CASE UNCHANGED svVars
  BY <1>19, <1>t, ServicesUntouched DEF svVars, ServiceTypes
<1> QED
  BY <1>1, <1>2, <1>3, <1>4, <1>5, <1>6, <1>7, <1>8, <1>9, <1>10, <1>11, <1>12,
     <1>13, <1>14, <1>15, <1>16, <1>17, <1>18, <1>19 DEF SvNext

\* When the context is closed nothing is armed and the broker has "offline".
LEMMA ServiceProperties == ServiceInv => ClosedIsQuiet
BY AtValues DEF ServiceInv, QuietInv, ClosedIsQuiet

----------------------------------------------------------------------------
(* The last word: what still comes to a browser *)

\* The items on their way to a browser: in its queue, then waiting to be put.
Coming(b) == queues[b] \o calls[b]

OnlyEvents(w, from) == \A j \in DOMAIN w : j > from => w[j] = 0

Reaches(w, d, shown) ==
    d.newer < QueueSize =>
       \/ OnlyEvents(w, 0) /\ shown >= d.v
       \/ \E i \in DOMAIN w : w[i] = d.v /\ OnlyEvents(w, i) /\ Len(w) - i <= d.newer

Dues == [v : Nat, newer : 0..QueueSize]

\* What the tail of a sequence of versions holds.
LEMMA TailFacts ==
    ASSUME NEW w \in Seq(Nat), w # <<>>
    PROVE  /\ Tail(w) \in Seq(Nat) /\ Len(Tail(w)) = Len(w) - 1 /\ Head(w) = w[1] /\ Head(w) \in Nat
           /\ DOMAIN Tail(w) = 1..Len(w) - 1 /\ DOMAIN w = 1..Len(w) /\ Len(w) \in Nat \ {0}
           /\ \A j \in 1..Len(w) - 1 : Tail(w)[j] = w[j + 1]
OBVIOUS

\* What a sequence of versions holds after one more is appended.
LEMMA AppendFacts ==
    ASSUME NEW w \in Seq(Nat), NEW x \in Nat
    PROVE  /\ Append(w, x) \in Seq(Nat) /\ Len(Append(w, x)) = Len(w) + 1
           /\ DOMAIN w = 1..Len(w) /\ Len(w) \in Nat /\ DOMAIN Append(w, x) = 1..Len(w) + 1
           /\ Append(w, x)[Len(w) + 1] = x
           /\ \A j \in 1..Len(w) : Append(w, x)[j] = w[j]
OBVIOUS

\* An event that is no dashboard moves the due one no further than it counts.
LEMMA EventPublished ==
    ASSUME NEW w \in Seq(Nat), NEW d \in Dues, NEW shown \in Nat, Reaches(w, d, shown)
    PROVE  Reaches(Append(w, 0), [d EXCEPT !.newer = IF @ < QueueSize THEN @ + 1 ELSE @], shown)
<1> DEFINE n == [d EXCEPT !.newer = IF @ < QueueSize THEN @ + 1 ELSE @]
           a == Append(w, 0)
<1>1. n.v = d.v /\ n.newer = (IF d.newer < QueueSize THEN d.newer + 1 ELSE d.newer)
  BY DEF Dues
<1>2. /\ Len(a) = Len(w) + 1 /\ DOMAIN w = 1..Len(w) /\ Len(w) \in Nat /\ DOMAIN a = 1..Len(w) + 1
      /\ a[Len(w) + 1] = 0
      /\ \A j \in 1..Len(w) : a[j] = w[j]
  BY AppendFacts
<1>3. d.newer \in Nat /\ d.v \in Nat /\ QueueSize \in Nat
  BY ServicesAssumption DEF Dues
<1> HIDE DEF n, a
<1>4. SUFFICES ASSUME n.newer < QueueSize
               PROVE  \/ OnlyEvents(a, 0) /\ shown >= n.v
                      \/ \E i \in DOMAIN a : a[i] = n.v /\ OnlyEvents(a, i) /\ Len(a) - i <= n.newer
  BY DEF Reaches, n, a
<1>5. d.newer < QueueSize /\ n.newer = d.newer + 1
  BY <1>1, <1>3, <1>4
<1>6. CASE OnlyEvents(w, 0) /\ shown >= d.v
  <2>1. OnlyEvents(a, 0)
    BY <1>2, <1>6 DEF OnlyEvents
  <2> QED BY <1>1, <1>6, <2>1
<1>7. ASSUME NEW i \in DOMAIN w, w[i] = d.v, OnlyEvents(w, i), Len(w) - i <= d.newer
      PROVE  i \in DOMAIN a /\ a[i] = n.v /\ OnlyEvents(a, i) /\ Len(a) - i <= n.newer
  <2>1. OnlyEvents(a, i)
    BY <1>2, <1>7 DEF OnlyEvents
  <2> QED BY <1>1, <1>2, <1>3, <1>5, <1>7, <2>1
<1> QED BY <1>5, <1>6, <1>7 DEF Reaches

\* A dashboard that is published is the newest, and nothing follows it yet.
LEMMA DashboardPublished ==
    ASSUME NEW w \in Seq(Nat), NEW item \in Nat, NEW shown
    PROVE  Reaches(Append(w, item), [v |-> item, newer |-> 0], shown)
<1>1. OnlyEvents(Append(w, item), Len(w) + 1)
  BY AppendFacts DEF OnlyEvents
<1> QED BY <1>1, AppendFacts DEF Reaches

\* What is taken out in front leaves the rest.
LEMMA RestFollows ==
    ASSUME NEW w \in Seq(Nat), w # <<>>, NEW i \in Nat, OnlyEvents(w, i)
    PROVE  /\ i > 0 => OnlyEvents(Tail(w), i - 1)
           /\ i = 0 => OnlyEvents(Tail(w), 0)
BY TailFacts DEF OnlyEvents

\* The browser takes an item: it shows the due dashboard from then on, or
\* still has it to come.
LEMMA ItemReceived ==
    ASSUME NEW w \in Seq(Nat), w # <<>>, NEW d \in Dues, NEW shown \in Nat, Reaches(w, d, shown)
    PROVE  Reaches(Tail(w), d, IF Head(w) = 0 THEN shown ELSE Head(w))
<1> DEFINE s == IF Head(w) = 0 THEN shown ELSE Head(w)
           t == Tail(w)
<1>1. /\ Len(t) = Len(w) - 1 /\ Head(w) = w[1] /\ Head(w) \in Nat
      /\ DOMAIN t = 1..Len(w) - 1 /\ DOMAIN w = 1..Len(w) /\ Len(w) \in Nat \ {0}
      /\ \A j \in 1..Len(w) - 1 : t[j] = w[j + 1]
  BY TailFacts
<1>2. d.newer \in Nat /\ d.v \in Nat
  BY DEF Dues
<1>3. SUFFICES ASSUME d.newer < QueueSize
               PROVE  \/ OnlyEvents(t, 0) /\ s >= d.v
                      \/ \E i \in DOMAIN t : t[i] = d.v /\ OnlyEvents(t, i) /\ Len(t) - i <= d.newer
  BY DEF Reaches
<1>4. CASE OnlyEvents(w, 0) /\ shown >= d.v
  <2>1. OnlyEvents(t, 0)
    BY <1>4, RestFollows
  <2>2. Head(w) = 0
    BY <1>1, <1>4 DEF OnlyEvents
  <2> QED BY <1>4, <2>1, <2>2
<1>5. ASSUME NEW i \in DOMAIN w, w[i] = d.v, OnlyEvents(w, i), Len(w) - i <= d.newer
      PROVE  \/ OnlyEvents(t, 0) /\ s >= d.v
             \/ \E k \in DOMAIN t : t[k] = d.v /\ OnlyEvents(t, k) /\ Len(t) - k <= d.newer
  <2>1. i \in Nat /\ i > 0
    BY <1>1
  <2>2. OnlyEvents(t, i - 1)
    BY <1>5, <2>1, RestFollows
  <2>3. CASE i = 1
    <3>1. s >= d.v
      BY <1>1, <1>2, <1>5, <2>3
    <3> QED BY <2>2, <2>3, <3>1
  <2>4. CASE i > 1
    <3>1. i - 1 \in DOMAIN t
      BY <1>1, <1>5, <2>1, <2>4
    <3>2. t[i - 1] = d.v
      BY <1>1, <1>5, <2>1, <3>1
    <3>3. Len(t) - (i - 1) <= d.newer
      BY <1>1, <1>2, <1>5, <2>1
    <3> QED BY <2>2, <3>1, <3>2, <3>3
  <2> QED BY <2>1, <2>3, <2>4
<1> HIDE DEF s, t
<1> QED BY <1>3, <1>4, <1>5 DEF Reaches

\* A full queue drops its first item: the due dashboard is not that one unless
\* a queue full of events came after it.
LEMMA ItemDropped ==
    ASSUME NEW w \in Seq(Nat), Len(w) > QueueSize, NEW d \in Dues, NEW shown \in Nat,
           Reaches(w, d, shown)
    PROVE  Reaches(Tail(w), d, shown)
<1> DEFINE t == Tail(w)
<1>0. w # <<>> /\ QueueSize \in Nat \ {0}
  BY ServicesAssumption
<1>1. /\ Len(t) = Len(w) - 1
      /\ DOMAIN t = 1..Len(w) - 1 /\ DOMAIN w = 1..Len(w) /\ Len(w) \in Nat \ {0}
      /\ \A j \in 1..Len(w) - 1 : t[j] = w[j + 1]
  BY <1>0, TailFacts
<1>2. d.newer \in Nat /\ d.v \in Nat
  BY DEF Dues
<1>3. SUFFICES ASSUME d.newer < QueueSize
               PROVE  \/ OnlyEvents(t, 0) /\ shown >= d.v
                      \/ \E i \in DOMAIN t : t[i] = d.v /\ OnlyEvents(t, i) /\ Len(t) - i <= d.newer
  BY DEF Reaches
<1>4. CASE OnlyEvents(w, 0) /\ shown >= d.v
  <2>1. OnlyEvents(t, 0)
    BY <1>0, <1>4, RestFollows
  <2> QED BY <1>4, <2>1
<1>5. ASSUME NEW i \in DOMAIN w, w[i] = d.v, OnlyEvents(w, i), Len(w) - i <= d.newer
      PROVE  \E k \in DOMAIN t : t[k] = d.v /\ OnlyEvents(t, k) /\ Len(t) - k <= d.newer
  <2>1. i \in Nat /\ i > 1
    BY <1>0, <1>1, <1>2, <1>3, <1>5
  <2>2. OnlyEvents(t, i - 1)
    BY <1>0, <1>5, <2>1, RestFollows
  <2>3. i - 1 \in DOMAIN t
    BY <1>1, <1>5, <2>1
  <2>4. t[i - 1] = d.v
    BY <1>1, <1>5, <2>1, <2>3
  <2>5. Len(t) - (i - 1) <= d.newer
    BY <1>1, <1>2, <1>5, <2>1
  <2> QED BY <2>2, <2>3, <2>4, <2>5
<1> HIDE DEF t
<1> QED BY <1>3, <1>4, <1>5 DEF Reaches

\* How the steps of a queue and its callbacks look on their concatenation.
LEMMA Concatenations ==
    ASSUME NEW q \in Seq(Nat), NEW c \in Seq(Nat), NEW x \in Nat
    PROVE  /\ q \o c \in Seq(Nat) /\ Len(q \o c) = Len(q) + Len(c)
           /\ q \o Append(c, x) = Append(q \o c, x)
           /\ c # <<>> => Append(q, Head(c)) \o Tail(c) = q \o c
           /\ q # <<>> => Tail(q) \o c = Tail(q \o c) /\ Head(q \o c) = Head(q) /\ q \o c # <<>>
           /\ q # <<>> /\ c # <<>> => Append(Tail(q), Head(c)) \o Tail(c) = Tail(q \o c)
<1>1. q \o c \in Seq(Nat) /\ Len(q \o c) = Len(q) + Len(c)
  OBVIOUS
<1>2. q \o Append(c, x) = Append(q \o c, x)
  OBVIOUS
<1>3. ASSUME NEW r \in Seq(Nat), c # <<>> PROVE Append(r, Head(c)) \o Tail(c) = r \o c
  BY <1>3, SMTT(30)
<1>4. ASSUME q # <<>> PROVE Tail(q) \o c = Tail(q \o c) /\ Head(q \o c) = Head(q) /\ q \o c # <<>>
  <2>1. Head(q \o c) = Head(q) /\ q \o c # <<>>
    BY <1>4
  <2>2. Tail(q) \o c = Tail(q \o c)
    BY <1>4, SMTT(30)
  <2> QED BY <2>1, <2>2
<1>5. ASSUME q # <<>>, c # <<>> PROVE Append(Tail(q), Head(c)) \o Tail(c) = Tail(q \o c)
  <2>1. Tail(q) \in Seq(Nat)
    BY <1>5
  <2>2. Append(Tail(q), Head(c)) \o Tail(c) = Tail(q) \o c
    BY <1>3, <1>5, <2>1
  <2> QED BY <1>4, <1>5, <2>2
<1> QED BY <1>1, <1>2, <1>3, <1>4, <1>5

\* Who is subscribed has been sent a dashboard before, its queue keeps to its
\* bound, and the newest dashboard published to it is what it shows or what
\* still comes, unless a queue full of events has been published since.
StreamInv ==
    /\ Subscribed \subseteq Browsers
    /\ calls \in [Browsers -> Seq(Nat)] /\ due \in [Browsers -> Dues]
    /\ screen \in [Browsers -> Nat \cup {NoValue}]
    /\ \A b \in Subscribed : /\ queues[b] \in Seq(Nat) /\ Len(queues[b]) <= QueueSize
                             /\ screen[b] \in Nat
                             /\ Reaches(Coming(b), due[b], screen[b])
    /\ \A b \in Browsers \ Subscribed : calls[b] = <<>> /\ due[b].v = 0

streamVars == <<queues, calls, screen, due>>

\* The streams are in order before anyone subscribes.
LEMMA StreamStart == SvInit => StreamInv
<1> SUFFICES ASSUME SvInit PROVE StreamInv
  OBVIOUS
<1>1. Subscribed = {}
  BY DEF SvInit, Subscribed
<1>2. [v |-> 0, newer |-> 0] \in Dues
  BY ServicesAssumption DEF Dues
<1> QED BY <1>1, <1>2 DEF SvInit, StreamInv

\* Steps of the others.
LEMMA StreamUntouched ==
    ASSUME StreamInv, UNCHANGED streamVars
    PROVE  StreamInv'
BY DEF StreamInv, streamVars, Subscribed, Coming, Reaches, OnlyEvents

\* What is published reaches the calls of everyone subscribed.
LEMMA StreamPublished ==
    ASSUME StreamInv, NEW item \in Nat, PublishSync(item), Noted(item), UNCHANGED <<queues, screen>>
    PROVE  StreamInv'
<1>1. Subscribed' = Subscribed
  BY DEF Subscribed
<1>2. \A b \in Browsers : calls[b] \in Seq(Nat) /\ due[b] \in Dues
  BY DEF StreamInv
<1>3. /\ calls' \in [Browsers -> Seq(Nat)]
      /\ \A b \in Browsers : calls'[b] = IF b \in Subscribed THEN Append(calls[b], item) ELSE calls[b]
  BY <1>2, AppendFacts DEF PublishSync
<1> DEFINE after(d) == IF item # 0 THEN [v |-> item, newer |-> 0]
                       ELSE [d EXCEPT !.newer = IF @ < QueueSize THEN @ + 1 ELSE @]
<1>4. \A d \in Dues : after(d) \in Dues
  BY ServicesAssumption DEF Dues
<1>5. /\ due' = [b \in Browsers |-> IF b \notin Subscribed THEN due[b] ELSE after(due[b])]
  BY DEF Noted
<1> HIDE DEF after
<1>6. /\ due' \in [Browsers -> Dues]
      /\ \A b \in Browsers : due'[b] = IF b \notin Subscribed THEN due[b] ELSE after(due[b])
  BY <1>2, <1>4, <1>5
<1>7. ASSUME NEW b \in Subscribed PROVE Reaches(Coming(b)', due'[b], screen'[b])
  <2>1. b \in Browsers /\ queues[b] \in Seq(Nat) /\ screen[b] \in Nat
        /\ Reaches(Coming(b), due[b], screen[b])
    BY <1>7 DEF StreamInv
  <2>2. Coming(b) \in Seq(Nat) /\ Coming(b)' = Append(Coming(b), item)
    <3>1. calls[b] \in Seq(Nat) /\ calls'[b] = Append(calls[b], item) /\ queues'[b] = queues[b]
      BY <1>2, <1>3, <1>7, <2>1
    <3>2. /\ queues[b] \o calls[b] \in Seq(Nat)
          /\ queues[b] \o Append(calls[b], item) = Append(queues[b] \o calls[b], item)
      BY <2>1, <3>1, Concatenations
    <3> QED BY <3>1, <3>2 DEF Coming
  <2>3. due'[b] = after(due[b]) /\ due[b] \in Dues
    BY <1>2, <1>6, <1>7, <2>1
  <2>4. CASE item # 0
    BY <2>2, <2>3, <2>4, DashboardPublished DEF after
  <2>5. CASE item = 0
    BY <2>1, <2>2, <2>3, <2>5, EventPublished DEF after
  <2> QED BY <2>4, <2>5
<1> QED BY <1>1, <1>3, <1>6, <1>7 DEF StreamInv

\* A callback puts its item, at the price of the oldest when the queue is full.
LEMMA CallbackRuns ==
    ASSUME StreamInv, NEW b, RunCallback(b)
    PROVE  StreamInv'
<1>1. /\ b \in Subscribed /\ calls[b] # <<>> /\ b \in Browsers /\ UNCHANGED <<screen, due>>
      /\ queues' = [queues EXCEPT ![b] = Put(@, Head(calls[b]))]
      /\ calls' = [calls EXCEPT ![b] = Tail(@)]
  BY DEF RunCallback, StreamInv
<1> DEFINE q == queues[b]
           c == calls[b]
<1>2. /\ q \in Seq(Nat) /\ c \in Seq(Nat) /\ Len(q) <= QueueSize /\ screen[b] \in Nat
      /\ due[b] \in Dues /\ Reaches(q \o c, due[b], screen[b])
  BY <1>1 DEF StreamInv, Coming
<1>3. /\ Subscribed' = Subscribed
      /\ queues'[b] = Put(q, Head(c)) /\ calls'[b] = Tail(c)
      /\ \A x \in Subscribed \ {b} : queues'[x] = queues[x] /\ calls'[x] = calls[x]
      /\ \A x \in Browsers \ Subscribed : calls'[x] = calls[x]
  BY <1>1 DEF Subscribed, StreamInv
<1>4. Tail(c) \in Seq(Nat) /\ Head(c) \in Nat /\ Len(c) \in Nat \ {0} /\ Len(q) \in Nat
  BY <1>1, <1>2, TailFacts
<1>5. calls' \in [Browsers -> Seq(Nat)]
  BY <1>1, <1>4 DEF StreamInv
<1> HIDE DEF q, c
<1>6. /\ Put(q, Head(c)) \in Seq(Nat) /\ Len(Put(q, Head(c))) <= QueueSize
      /\ Reaches(Put(q, Head(c)) \o Tail(c), due[b], screen[b])
  <2>1. CASE Len(q) < QueueSize
    <3>1. Put(q, Head(c)) = Append(q, Head(c))
      BY <2>1 DEF Put
    <3>2. Append(q, Head(c)) \o Tail(c) = q \o c
      BY <1>1, <1>2, Concatenations DEF c
    <3>3. Append(q, Head(c)) \in Seq(Nat) /\ Len(Append(q, Head(c))) = Len(q) + 1
      BY <1>2, <1>4, AppendFacts
    <3>4. Len(q) + 1 <= QueueSize
      BY <1>4, <2>1, ServicesAssumption
    <3> QED BY <1>2, <3>1, <3>2, <3>3, <3>4
  <2>2. CASE ~(Len(q) < QueueSize)
    <3>1. Put(q, Head(c)) = Append(Tail(q), Head(c)) /\ q # <<>> /\ Len(q) = QueueSize
      BY <1>2, <1>4, <2>2, ServicesAssumption DEF Put
    <3>2. Tail(q) \in Seq(Nat) /\ Len(Tail(q)) = Len(q) - 1
      BY <1>2, <3>1, TailFacts
    <3>3. Append(Tail(q), Head(c)) \o Tail(c) = Tail(q \o c)
      BY <1>1, <1>2, <3>1, Concatenations DEF c
    <3>4. q \o c \in Seq(Nat) /\ Len(q \o c) > QueueSize
      BY <1>2, <1>4, <3>1, Concatenations
    <3>5. Reaches(Tail(q \o c), due[b], screen[b])
      BY <1>2, <3>4, ItemDropped
    <3>6. /\ Append(Tail(q), Head(c)) \in Seq(Nat)
          /\ Len(Append(Tail(q), Head(c))) = Len(Tail(q)) + 1
      BY <1>4, <3>2, AppendFacts
    <3>7. Len(Tail(q)) + 1 <= QueueSize
      BY <1>4, <3>1, <3>2
    <3> QED BY <3>1, <3>3, <3>5, <3>6, <3>7
  <2> QED BY <2>1, <2>2
<1>7. ASSUME NEW x \in Subscribed'
      PROVE  /\ queues'[x] \in Seq(Nat) /\ Len(queues'[x]) <= QueueSize
             /\ screen'[x] \in Nat /\ Reaches(Coming(x)', due'[x], screen'[x])
  <2>1. CASE x = b
    BY <1>1, <1>2, <1>3, <1>6, <2>1 DEF Coming
  <2>2. CASE x # b
    <3>1. Coming(x)' = Coming(x) /\ queues'[x] = queues[x]
      BY <1>3, <1>7, <2>2 DEF Coming
    <3> QED BY <1>1, <1>3, <1>7, <2>2, <3>1 DEF StreamInv
  <2> QED BY <2>1, <2>2
<1> QED BY <1>1, <1>3, <1>5, <1>7 DEF StreamInv

\* The stream takes an item and the browser may redraw.
LEMMA ItemSent ==
    ASSUME StreamInv, NEW b, Receive(b)
    PROVE  StreamInv'
<1>1. /\ b \in Subscribed /\ queues[b] # <<>> /\ b \in Browsers /\ UNCHANGED <<calls, due>>
      /\ queues' = [queues EXCEPT ![b] = Tail(@)]
      /\ screen' = [screen EXCEPT ![b] = IF Head(queues[b]) = 0 THEN @ ELSE Head(queues[b])]
  BY DEF Receive, StreamInv
<1> DEFINE q == queues[b]
           c == calls[b]
           shown == IF Head(q) = 0 THEN screen[b] ELSE Head(q)
<1>2. /\ q \in Seq(Nat) /\ c \in Seq(Nat) /\ Len(q) <= QueueSize /\ screen[b] \in Nat
      /\ due[b] \in Dues /\ Reaches(q \o c, due[b], screen[b])
  BY <1>1 DEF StreamInv, Coming
<1>3. /\ Subscribed' = Subscribed
      /\ queues'[b] = Tail(q) /\ screen'[b] = shown
      /\ \A x \in Subscribed \ {b} : queues'[x] = queues[x] /\ screen'[x] = screen[x]
  BY <1>1 DEF Subscribed, StreamInv
<1>4. Tail(q) \in Seq(Nat) /\ Head(q) \in Nat /\ Len(Tail(q)) = Len(q) - 1 /\ Len(q) \in Nat
  BY <1>1, <1>2, TailFacts
<1>5. shown \in Nat
  BY <1>2, <1>4
<1>6. screen' \in [Browsers -> Nat \cup {NoValue}]
  BY <1>1, <1>5 DEF StreamInv
<1>7. Reaches(Tail(q) \o c, due[b], shown)
  <2>1. /\ q \o c \in Seq(Nat) /\ Tail(q) \o c = Tail(q \o c) /\ Head(q \o c) = Head(q)
        /\ q \o c # <<>>
    BY <1>1, <1>2, Concatenations DEF q
  <2>2. Reaches(Tail(q \o c), due[b], IF Head(q \o c) = 0 THEN screen[b] ELSE Head(q \o c))
    BY <1>2, <2>1, ItemReceived
  <2> QED BY <2>1, <2>2
<1> HIDE DEF q, c, shown
<1>8. ASSUME NEW x \in Subscribed'
      PROVE  /\ queues'[x] \in Seq(Nat) /\ Len(queues'[x]) <= QueueSize
             /\ screen'[x] \in Nat /\ Reaches(Coming(x)', due'[x], screen'[x])
  <2>1. CASE x = b
    <3>1. calls'[b] = c
      BY <1>1 DEF c
    <3>2. Len(Tail(q)) <= QueueSize
      BY <1>2, <1>4, ServicesAssumption
    <3> QED BY <1>1, <1>3, <1>4, <1>5, <1>7, <2>1, <3>1, <3>2 DEF Coming
  <2>2. CASE x # b
    <3>1. Coming(x)' = Coming(x)
      BY <1>1, <1>3, <1>8, <2>2 DEF Coming
    <3> QED BY <1>1, <1>3, <1>8, <2>2, <3>1 DEF StreamInv
  <2> QED BY <2>1, <2>2
<1> QED BY <1>1, <1>3, <1>6, <1>8 DEF StreamInv

\* A browser opens its stream, subscribes and leaves: its first dashboard is on
\* the screen before its queue exists, and its queue takes everything with it.
LEMMA StreamOpens ==
    ASSUME StreamInv, version \in Nat, NEW b \in Browsers, OpenStream(b) \/ Subscribe(b) \/ Leave(b)
    PROVE  StreamInv'
<1>1. CASE OpenStream(b)
  <2>1. /\ screen[b] = NoValue /\ screen' = [screen EXCEPT ![b] = version]
        /\ UNCHANGED <<queues, calls, due>>
    BY <1>1 DEF OpenStream
  <2>2. b \notin Subscribed
    BY <2>1, ServicesAssumption DEF StreamInv
  <2>3. Subscribed' = Subscribed /\ \A x \in Subscribed : screen'[x] = screen[x] /\ Coming(x)' = Coming(x)
    BY <2>1, <2>2 DEF StreamInv, Subscribed, Coming
  <2>4. screen' \in [Browsers -> Nat \cup {NoValue}]
    BY <2>1 DEF StreamInv
  <2> QED BY <2>1, <2>3, <2>4 DEF StreamInv
<1>2. CASE Subscribe(b)
  <2>1. /\ screen[b] # NoValue /\ b \notin Subscribed /\ UNCHANGED <<calls, screen, due>>
        /\ queues' = [x \in Subscribed \cup {b} |-> IF x = b THEN <<>> ELSE queues[x]]
    BY <1>2 DEF Subscribe
  <2>2. /\ Subscribed' = Subscribed \cup {b} /\ queues'[b] = <<>>
        /\ \A x \in Subscribed : queues'[x] = queues[x]
    BY <2>1 DEF Subscribed
  <2>3. Coming(b)' = <<>> /\ screen[b] \in Nat /\ due[b].v = 0
    BY <2>1, <2>2 DEF StreamInv, Coming
  <2>4. Reaches(Coming(b)', due'[b], screen'[b])
    BY <2>1, <2>3 DEF Reaches, OnlyEvents
  <2>5. \A x \in Subscribed : Coming(x)' = Coming(x)
    BY <2>1, <2>2 DEF Coming
  <2> QED BY <2>1, <2>2, <2>3, <2>4, <2>5, ServicesAssumption DEF StreamInv
<1>3. CASE Leave(b)
  <2>1. /\ b \in Subscribed
        /\ queues' = [x \in Subscribed \ {b} |-> queues[x]]
        /\ screen' = [screen EXCEPT ![b] = NoValue]
        /\ due' = [due EXCEPT ![b] = [v |-> 0, newer |-> 0]]
        /\ calls' = [calls EXCEPT ![b] = <<>>]
    BY <1>3 DEF Leave
  <2>2. /\ Subscribed' = Subscribed \ {b}
        /\ \A x \in Subscribed' : queues'[x] = queues[x]
    BY <2>1 DEF Subscribed
  <2>3. /\ calls' \in [Browsers -> Seq(Nat)] /\ calls'[b] = <<>>
        /\ \A x \in Browsers \ {b} : calls'[x] = calls[x]
    BY <2>1 DEF StreamInv
  <2>4. [v |-> 0, newer |-> 0] \in Dues
    BY ServicesAssumption DEF Dues
  <2>5. /\ due' \in [Browsers -> Dues] /\ due'[b].v = 0
        /\ \A x \in Browsers \ {b} : due'[x] = due[x]
    BY <2>1, <2>4 DEF StreamInv
  <2>6. /\ screen' \in [Browsers -> Nat \cup {NoValue}]
        /\ \A x \in Browsers \ {b} : screen'[x] = screen[x]
    BY <2>1 DEF StreamInv
  <2>7. \A x \in Subscribed' : Coming(x)' = Coming(x) /\ x \in Browsers \ {b}
    BY <2>2, <2>3 DEF StreamInv, Coming
  <2> QED BY <2>2, <2>3, <2>5, <2>6, <2>7 DEF StreamInv
<1> QED BY <1>1, <1>2, <1>3

\* Every step of the context keeps the streams whole.
LEMMA StreamStep ==
    ASSUME StreamInv, version \in Nat, dash.built \in Nat, [SvNext]_svVars
    PROVE  StreamInv'
<1>1. CASE \E b \in Browsers : RunCallback(b) \/ OpenStream(b) \/ Subscribe(b) \/ Receive(b) \/ Leave(b)
  BY <1>1, CallbackRuns, StreamOpens, ItemSent
<1>2. CASE CollectorStatus \/ StopCollector
                \/ \E src \in {"collector", "evaluation", "storage", "api"} : notify_committed_mutation(src)
  <2>1. PublishSync(0) /\ Noted(0) /\ UNCHANGED <<queues, screen>>
    BY <1>2 DEF CollectorStatus, StopCollector, notify_committed_mutation
  <2> QED BY <2>1, StreamPublished
<1>3. CASE PublishDashboard
  <2>1. PublishSync(dash.built) /\ Noted(dash.built) /\ UNCHANGED <<queues, screen>>
    BY <1>3 DEF PublishDashboard
  <2> QED BY <2>1, StreamPublished
<1>4. CASE \/ BuildDashboard \/ HandToDiscovery \/ RunDebouncedUpdate \/ ReadForDiscovery
           \/ EndPublish \/ LoseLink \/ Reconnect \/ StartCollector \/ StartConnect \/ StartPublish
           \/ StartThreads \/ Shutdown \/ StopEvaluation \/ CancelDashboard \/ StopDiscovery
           \/ DrainDiscovery \/ PublishOffline \/ UNCHANGED svVars
  <2>1. UNCHANGED streamVars
    BY <1>4 DEF BuildDashboard, HandToDiscovery, RunDebouncedUpdate, ReadForDiscovery, EndPublish,
                LoseLink, Reconnect, StartCollector, StartConnect, StartPublish, StartThreads,
                Shutdown, StopEvaluation, CancelDashboard, StopDiscovery, DrainDiscovery,
                PublishOffline, svVars, streamVars
  <2> QED BY <2>1, StreamUntouched
<1> QED BY <1>1, <1>2, <1>3, <1>4 DEF SvNext

----------------------------------------------------------------------------
(* The last word: what the broker retains *)

\* What the discovery service has read or published is as new as the last
\* update it took on, unless another one is pending; and a pending update has
\* a timer or a publication that will arm one.
Owed == /\ svc.pending => svc.timer \/ svc.publishing
        /\ svc.publishing /\ ~svc.pending /\ svc.read # NoValue =>
              svc.read = Unknown \/ svc.read >= asked
        /\ ~svc.publishing /\ ~svc.pending /\ ~svc.failed =>
              broker.states \in {NoValue, Unknown} \/ broker.states >= asked

RetainedInv ==
    /\ asked \in Nat /\ asked <= version /\ dash.built <= version
    /\ At(phase) < At("threads") => asked = 0
    /\ At(phase) >= At("threads") /\ ~svc.publishing => svc.read = NoValue
    /\ ~svc.stopped => Owed

\* Before the discovery service runs nothing is owed to the broker.
LEMMA RetainedStart == SvInit => RetainedInv
BY AtValues DEF SvInit, RetainedInv, Owed

\* Steps that leave the service and the broker's states alone.
LEMMA RetainedUntouched ==
    ASSUME RetainedInv, version \in Nat, version' \in Nat, version <= version',
           dash'.built <= version', UNCHANGED <<phase, asked>>,
           svc'.pending = svc.pending, svc'.timer = svc.timer, svc'.publishing = svc.publishing,
           svc'.read = svc.read, svc'.stopped = svc.stopped, svc'.failed = svc.failed,
           broker'.states = broker.states
    PROVE  RetainedInv'
<1>1. asked' <= version'
  BY DEF RetainedInv
<1>2. Owed' <=> Owed
  BY DEF Owed
<1> QED BY <1>1, <1>2 DEF RetainedInv

\* Statements of bootstrap() and close() that only move on.
LEMMA RetainedMovesOn ==
    ASSUME ServiceInv, RetainedInv, GoOn, phase \notin {"discovery", "closed"},
           UNCHANGED <<version, asked>>, dash'.built = dash.built,
           svc' = svc \/ svc'.stopped, svc'.publishing = svc.publishing, svc'.read = svc.read,
           broker'.states = broker.states
    PROVE  RetainedInv'
<1>1. /\ phase \in PhaseSet /\ At(phase) \in 1..12 /\ At(phase') = At(phase) + 1
      /\ At(phase) # 2
  BY PhaseSteps, AtValues DEF ServiceInv, ServiceTypes, PhaseSet
<1>2. /\ At(phase') < At("threads") <=> At(phase) < At("threads")
      /\ At(phase') >= At("threads") <=> At(phase) >= At("threads")
  BY <1>1, AtValues
<1>3. ~svc'.stopped => Owed'
  BY DEF RetainedInv, Owed
<1> QED BY <1>2, <1>3 DEF RetainedInv

\* Every step of the context keeps the broker's states owed.
LEMMA RetainedStep ==
    ASSUME ServiceInv, RetainedInv, [SvNext]_svVars
    PROVE  RetainedInv'
<1>t. ServiceTypes /\ QuietInv /\ phase \in PhaseSet /\ At(phase) \in 1..12 /\ version \in Nat
  BY PhaseSteps DEF ServiceInv, ServiceTypes
<1>r. /\ asked \in Nat /\ asked <= version /\ dash.built <= version /\ dash.built \in Nat
      /\ At(phase) < At("threads") => asked = 0
      /\ At(phase) >= At("threads") /\ ~svc.publishing => svc.read = NoValue
      /\ ~svc.stopped => Owed
  BY <1>t DEF RetainedInv, ServiceTypes
<1>1. CASE \/ CollectorStatus
           \/ \E b \in Browsers : \/ RunCallback(b) \/ OpenStream(b) \/ Subscribe(b)
                                 \/ Receive(b) \/ Leave(b)
  <2>1. UNCHANGED <<version, phase, dash, svc, link, broker, asked>>
    BY <1>1 DEF RunCallback, CollectorStatus, OpenStream, Subscribe, Receive, Leave
  <2> QED BY <1>t, <1>r, <2>1, RetainedUntouched
<1>2. CASE \E src \in {"collector", "evaluation", "storage", "api"} : notify_committed_mutation(src)
  <2>1. /\ version' = version + 1 /\ UNCHANGED <<phase, svc, link, broker, asked>> /\ Schedule
    BY <1>2 DEF notify_committed_mutation
  <2>2. dash'.built = dash.built
    BY <2>1, <1>t DEF Schedule, ServiceTypes
  <2> QED BY <1>t, <1>r, <2>1, <2>2, RetainedUntouched
<1>3. CASE BuildDashboard
  <2>1. dash'.built = version /\ UNCHANGED <<version, phase, svc, link, broker, asked>>
    BY <1>3, <1>t DEF BuildDashboard, ServiceTypes
  <2> QED BY <1>t, <2>1, RetainedUntouched
<1>4. CASE PublishDashboard
  <2>1. dash'.built = dash.built /\ UNCHANGED <<version, phase, svc, link, broker, asked>>
    BY <1>4, <1>t DEF PublishDashboard, ServiceTypes
  <2> QED BY <1>t, <1>r, <2>1, RetainedUntouched
<1>5. CASE HandToDiscovery
  <2>1. dash'.built = dash.built /\ UNCHANGED <<version, phase, link, broker>>
    BY <1>5, <1>t DEF HandToDiscovery, ServiceTypes
  <2>2. CASE ~Between("threads", "closed")
    <3>1. UNCHANGED <<svc, asked>>
      BY <1>5, <2>2 DEF HandToDiscovery
    <3> QED BY <1>t, <1>r, <2>1, <3>1, RetainedUntouched
  <2>3. CASE Between("threads", "closed") /\ svc.stopped
    <3>1. UNCHANGED <<svc, asked>>
      BY <1>5, <2>3 DEF HandToDiscovery, schedule_update
    <3> QED BY <1>t, <1>r, <2>1, <3>1, RetainedUntouched
  <2>4. CASE Between("threads", "closed") /\ ~svc.stopped
    <3> DEFINE t == svc.timer \/ ~svc.publishing
    <3>1. svc' = [svc EXCEPT !.pending = TRUE, !.timer = t] /\ asked' = dash.built
      BY <1>5, <2>4 DEF HandToDiscovery, schedule_update
    <3>2. t \/ svc.publishing
      OBVIOUS
    <3> HIDE DEF t
    <3>3. /\ svc'.pending = TRUE /\ svc'.timer = t /\ svc'.publishing = svc.publishing
          /\ svc'.read = svc.read
      BY <3>1, <1>t DEF ServiceTypes
    <3>4. Owed'
      BY <3>2, <3>3 DEF Owed
    <3>5. At(phase) >= At("threads")
      BY <2>4 DEF Between
    <3> QED BY <1>r, <1>t, <2>1, <3>1, <3>3, <3>4, <3>5, AtValues DEF RetainedInv
  <2> QED BY <2>2, <2>3, <2>4
<1>6. CASE RunDebouncedUpdate
  <2>1. svc.timer /\ UNCHANGED <<version, phase, dash, link, broker, asked>>
    BY <1>6 DEF RunDebouncedUpdate
  <2>2. At(phase) >= At("threads")
    BY <2>1, <1>t, AtValues DEF QuietInv
  <2>3. CASE svc.stopped \/ ~svc.pending \/ svc.publishing
    <3>1. svc' = [svc EXCEPT !.timer = FALSE]
      BY <1>6, <2>3 DEF RunDebouncedUpdate
    <3>2. /\ svc'.pending = svc.pending /\ svc'.publishing = svc.publishing
          /\ svc'.read = svc.read /\ svc'.stopped = svc.stopped /\ svc'.failed = svc.failed
      BY <3>1, <1>t DEF ServiceTypes
    <3>3. ~svc.stopped => Owed'
      BY <1>r, <2>1, <2>3, <3>2 DEF Owed
    <3> QED BY <1>r, <2>1, <3>2, <3>3 DEF RetainedInv
  <2>4. CASE ~(svc.stopped \/ ~svc.pending \/ svc.publishing)
    <3>1. svc' = [svc EXCEPT !.timer = FALSE, !.pending = FALSE, !.publishing = TRUE]
      BY <1>6, <2>4 DEF RunDebouncedUpdate
    <3>2. svc.read = NoValue
      BY <1>r, <2>2, <2>4
    <3>3. /\ svc'.pending = FALSE /\ svc'.publishing = TRUE
          /\ svc'.read = NoValue
      BY <3>1, <3>2, <1>t DEF ServiceTypes
    <3>4. Owed'
      BY <3>3 DEF Owed
    <3> QED BY <1>r, <2>1, <3>3, <3>4 DEF RetainedInv
  <2> QED BY <2>3, <2>4
<1>7. CASE ReadForDiscovery
  <2>1. /\ svc.publishing /\ svc' = [svc EXCEPT !.read = SummaryStates(version, CollectorConnected)]
        /\ UNCHANGED <<version, phase, dash, link, broker, asked>>
    BY <1>7 DEF ReadForDiscovery
  <2>2. SummaryStates(version, CollectorConnected) \in {Unknown, version}
    BY DEF SummaryStates
  <2>3. /\ svc'.pending = svc.pending /\ svc'.publishing = svc.publishing /\ svc'.timer = svc.timer
        /\ svc'.read \in {Unknown, version} /\ svc'.stopped = svc.stopped
    BY <2>1, <2>2, <1>t DEF ServiceTypes
  <2>4. Owed'
    BY <1>r, <1>t, <2>1, <2>3 DEF Owed
  <2> QED BY <1>r, <2>1, <2>3, <2>4 DEF RetainedInv
<1>8. CASE EndPublish
  <2>1. /\ svc.publishing /\ svc.read # NoValue /\ Publish(svc.read)
        /\ UNCHANGED <<version, phase, dash, link, asked>>
    BY <1>8 DEF EndPublish
  <2> DEFINE t == svc.timer \/ (svc.pending /\ ~svc.stopped)
             f == ~link
  <2>2. svc' = [svc EXCEPT !.publishing = FALSE, !.read = NoValue, !.failed = f, !.timer = t]
    BY <1>8 DEF EndPublish
  <2>3. (svc.pending /\ ~svc.stopped => t) /\ (~f <=> link)
    OBVIOUS
  <2> HIDE DEF t, f
  <2>4. /\ svc'.publishing = FALSE /\ svc'.timer = t /\ svc'.read = NoValue /\ svc'.failed = f
        /\ svc'.stopped = svc.stopped /\ svc'.pending = svc.pending
    BY <2>2, <1>t DEF ServiceTypes
  <2>5. link => broker'.states = svc.read
    BY <2>1, <1>t DEF Publish, ServiceTypes
  <2>6. ~svc.stopped => Owed'
    BY <1>r, <2>1, <2>3, <2>4, <2>5 DEF Owed
  <2> QED BY <1>r, <2>1, <2>4, <2>6 DEF RetainedInv
<1>9. CASE LoseLink
  <2>1. /\ svc' = [svc EXCEPT !.drops = @ + 1] /\ broker' = [broker EXCEPT !.avail = "offline"]
        /\ UNCHANGED <<version, phase, dash, asked>>
    BY <1>9 DEF LoseLink
  <2>2. /\ svc'.pending = svc.pending /\ svc'.timer = svc.timer /\ svc'.publishing = svc.publishing
        /\ svc'.read = svc.read /\ svc'.stopped = svc.stopped /\ svc'.failed = svc.failed
        /\ broker'.states = broker.states
    BY <2>1, <1>t DEF ServiceTypes
  <2> QED BY <1>t, <1>r, <2>1, <2>2, RetainedUntouched
<1>10. CASE Reconnect
  <2>1. UNCHANGED <<version, phase, dash, svc, broker, asked>>
    BY <1>10 DEF Reconnect
  <2> QED BY <1>t, <1>r, <2>1, RetainedUntouched
<1>11. CASE StartCollector \/ StartThreads \/ Shutdown \/ StopCollector \/ StopEvaluation \/ DrainDiscovery
  <2>1. /\ GoOn /\ phase \notin {"discovery", "closed"}
        /\ UNCHANGED <<version, dash, svc, broker, asked>>
    BY <1>11 DEF StartCollector, StartThreads, Shutdown, StopCollector, StopEvaluation, DrainDiscovery
  <2> QED BY <2>1, RetainedMovesOn
<1>12. CASE StartConnect
  <2>1. /\ phase = "discovery" /\ UNCHANGED <<version, phase, dash, asked>>
        /\ broker'.states = broker.states /\ svc'.pending = svc.pending
        /\ svc'.timer = svc.timer /\ svc'.publishing = svc.publishing /\ svc'.stopped = svc.stopped
    BY <1>12, <1>t DEF StartConnect, ServiceTypes
  <2>2. asked = 0 /\ At(phase) < At("threads") /\ ~svc.publishing
    BY <1>r, <1>t, <2>1, AtValues DEF QuietInv
  <2>3. ~svc.stopped => Owed'
    BY <1>r, <1>t, <2>1, <2>2, ServicesAssumption DEF Owed, ServiceTypes
  <2> QED BY <1>r, <2>1, <2>2, <2>3, AtValues DEF RetainedInv
<1>13. CASE StartPublish
  <2>1. phase = "discovery" /\ GoOn /\ UNCHANGED <<version, dash, link, asked>>
    BY <1>13 DEF StartPublish
  <2>2. At(phase') = 3 /\ asked = 0 /\ ~svc.publishing
    BY <1>r, <1>t, <2>1, PhaseSteps, AtValues DEF QuietInv
  <2> DEFINE f == ~link
  <2>3. svc' = [svc EXCEPT !.read = NoValue, !.failed = f]
    BY <1>13 DEF StartPublish
  <2> HIDE DEF f
  <2>4. /\ svc'.pending = svc.pending /\ svc'.timer = svc.timer /\ svc'.read = NoValue
        /\ svc'.publishing = svc.publishing /\ svc'.stopped = svc.stopped
    BY <2>3, <1>t DEF ServiceTypes
  <2>5. broker'.states \in Nat \cup {NoValue}
    BY <1>13, <1>t DEF StartPublish, Publish, ServiceTypes
  <2>6. ~svc.stopped => Owed'
    BY <1>r, <2>1, <2>2, <2>4, <2>5 DEF Owed
  <2> QED BY <1>r, <2>1, <2>2, <2>4, <2>6, AtValues DEF RetainedInv
<1>14. CASE CancelDashboard
  <2>1. phase = "cancel_dashboard" /\ UNCHANGED <<version, svc, broker, asked>>
    BY <1>14 DEF CancelDashboard
  <2>2. dash'.built = dash.built
    BY <1>14, <1>t DEF CancelDashboard, ServiceTypes
  <2>3. GoOn \/ UNCHANGED phase
    BY <1>14 DEF CancelDashboard
  <2>4. CASE GoOn
    BY <2>1, <2>2, <2>4, RetainedMovesOn
  <2>5. CASE UNCHANGED phase
    BY <1>t, <1>r, <2>1, <2>2, <2>5, RetainedUntouched
  <2> QED BY <2>3, <2>4, <2>5
<1>15. CASE StopDiscovery
  <2>1. /\ phase = "stop_discovery" /\ GoOn /\ UNCHANGED <<version, dash, broker, asked>>
        /\ svc'.stopped /\ svc'.publishing = svc.publishing /\ svc'.read = svc.read
    BY <1>15, <1>t DEF StopDiscovery, ServiceTypes
  <2> QED BY <2>1, RetainedMovesOn
<1>16. CASE PublishOffline
  <2>1. /\ phase = "offline" /\ GoOn /\ UNCHANGED <<version, dash, svc, asked>>
        /\ broker'.states = broker.states
    BY <1>16, <1>t DEF PublishOffline, ServiceTypes
  <2> QED BY <2>1, RetainedMovesOn
<1>17. CASE UNCHANGED svVars
  BY <1>17, <1>t, <1>r, RetainedUntouched DEF svVars
<1> QED
  BY <1>1, <1>2, <1>3, <1>4, <1>5, <1>6, <1>7, <1>8, <1>9, <1>10, <1>11, <1>12,
     <1>13, <1>14, <1>15, <1>16, <1>17 DEF SvNext

\* At rest nothing is on its way to anyone and no update is pending: what came
\* last has arrived.
LEMMA LastWord == ServiceInv /\ StreamInv /\ RetainedInv => LastWordArrives
<1> SUFFICES ASSUME ServiceInv, StreamInv, RetainedInv, AtRest PROVE LastWordArrives
  BY DEF LastWordArrives
<1>1. ASSUME NEW b \in Subscribed, queues[b] = <<>>, due[b].newer < QueueSize
      PROVE  screen[b] >= due[b].v
  <2>1. Coming(b) = <<>>
    BY <1>1 DEF AtRest, Coming
  <2>2. Reaches(Coming(b), due[b], screen[b])
    BY DEF StreamInv
  <2> QED BY <1>1, <2>1, <2>2 DEF Reaches
<1>2. ASSUME ~svc.failed, ~svc.stopped, broker.states \notin {NoValue, Unknown}
      PROVE  broker.states >= asked
  BY <1>2 DEF AtRest, RetainedInv, Owed
<1> QED BY <1>1, <1>2 DEF LastWordArrives

----------------------------------------------------------------------------
(* Browser sessions: invariant *)

\* The cookie that a grant was handed out with.
CookieOf(sid, g) ==
    [sid |-> sid, issued_at |-> g.at, expires_at |-> g.at + g.ttl,
     binding |-> [key |-> g.secret, of |-> g.token], signed |-> g.secret]

\* Sessions are numbered as they are issued, and a cookie says of its session
\* what was in force when it was issued.
AccessInv ==
    /\ core \in Configs /\ clock \in 0..MaxClock
    /\ IsFiniteSet(issued)
    /\ DOMAIN grants = 1..Cardinality(issued)
    /\ \A s \in DOMAIN grants :
          grants[s] \in [token : Tokens, secret : Secrets, ttl : Ttls, at : 0..MaxClock]
    /\ \A c \in issued : c.sid \in DOMAIN grants /\ c = CookieOf(c.sid, grants[c.sid])

----------------------------------------------------------------------------
(* Browser sessions: proofs *)

\* The fields of a configuration that loads.
LEMMA ConfigFields ==
    ASSUME core \in Configs
    PROVE  /\ core.mode \in Modes /\ core.token \in Tokens \cup {None}
           /\ core.secret \in Secrets \cup {None} /\ core.ttl \in Ttls
           /\ core.cors = {} \/ core.cors = {Canonical(Panel)}
           /\ core.mode = "authenticated" => core.token # None
           /\ core.mode = "home_assistant_ingress" <=> core.trusted # {}
           /\ core.mode # "home_assistant_ingress" => ~core.proxyOnly
BY DEF Configs, Modes

\* A cookie is issued under the next number, which no cookie has yet.
LEMMA IssueStep ==
    ASSUME AccessInv, NEW r, create_auth_session(r)
    PROVE  AccessInv'
<1> DEFINE n == Cardinality(issued) + 1
           g == [token |-> core.token, secret |-> core.secret, ttl |-> core.ttl, at |-> clock]
<1>1. /\ browser_sessions_enabled
      /\ issued' = issued \cup {Cookie(n)}
      /\ grants' = [s \in DOMAIN grants \cup {n} |-> IF s = n THEN g ELSE grants[s]]
      /\ UNCHANGED <<core, clock>>
  BY DEF create_auth_session
<1>2. Cardinality(issued) \in Nat
  BY FS_CardinalityType DEF AccessInv
<1>3. n \notin DOMAIN grants
  BY <1>2 DEF AccessInv
<1>4. Cookie(n) = CookieOf(n, g) /\ Cookie(n).sid = n
  BY DEF Cookie, CookieOf, api_credential_binding
<1>5. Cookie(n) \notin issued
  BY <1>3, <1>4 DEF AccessInv
<1>6. IsFiniteSet(issued') /\ Cardinality(issued') = n
  BY <1>1, <1>5, FS_AddElement DEF AccessInv
<1>7. g \in [token : Tokens, secret : Secrets, ttl : Ttls, at : 0..MaxClock]
  BY <1>1, ConfigFields DEF AccessInv, browser_sessions_enabled
<1>8. DOMAIN grants' = 1..Cardinality(issued')
  BY <1>1, <1>2, <1>6 DEF AccessInv
<1> HIDE DEF g, n
<1>9. \A s \in DOMAIN grants' :
          grants'[s] \in [token : Tokens, secret : Secrets, ttl : Ttls, at : 0..MaxClock]
  BY <1>1, <1>7 DEF AccessInv
<1>10. \A c \in issued' : c.sid \in DOMAIN grants' /\ c = CookieOf(c.sid, grants'[c.sid])
  BY <1>1, <1>3, <1>4 DEF AccessInv
<1> QED BY <1>1, <1>6, <1>8, <1>9, <1>10 DEF AccessInv, CookieOf

\* Every configuration that loads starts without sessions.
LEMMA AccessStart == AcInit => AccessInv
BY FS_EmptySet, SessionAssumption DEF AcInit, AccessInv

\* Every step keeps the cookies in agreement with what they were issued under.
LEMMA AccessStep == AccessInv /\ [AcNext]_acVars => AccessInv'
<1> SUFFICES ASSUME AccessInv, [AcNext]_acVars PROVE AccessInv'
  OBVIOUS
<1>1. ASSUME NEW r, create_auth_session(r) PROVE AccessInv'
  BY <1>1, IssueStep
<1>2. ASSUME NEW r, delete_auth_session(r) PROVE AccessInv'
  BY <1>2 DEF delete_auth_session, AccessInv, CookieOf
<1>3. ASSUME NEW r, get_auth_session(r) PROVE AccessInv'
  BY <1>3 DEF get_auth_session, AccessInv, CookieOf
<1>4. ASSUME NEW c \in Configs, Restart(c) PROVE AccessInv'
  BY <1>4 DEF Restart, AccessInv, CookieOf
<1>5. CASE Tick
  BY <1>5, SessionAssumption DEF Tick, AccessInv, CookieOf
<1>6. CASE ClockSetBack
  BY <1>6, SessionAssumption DEF ClockSetBack, AccessInv, CookieOf
<1>7. CASE UNCHANGED acVars
  BY <1>7 DEF acVars, AccessInv, CookieOf
<1> QED BY <1>1, <1>2, <1>3, <1>4, <1>5, <1>6, <1>7 DEF AcNext

\* What one cookie is worth.
LEMMA LoadedCookie ==
    ASSUME NEW c
    PROVE  load_session_cookie(<<c>>) <=> /\ browser_sessions_enabled
                                          /\ c \notin {None, Bad}
                                          /\ c.signed = core.secret
                                          /\ validate_claims(c)
<1>1. Len(<<c>>) = 1 /\ DOMAIN <<c>> = {1} /\ <<c>>[1] = c /\ <<c>> # <<>>
  OBVIOUS
<1>2. CASE c = Bad
  BY <1>1, <1>2 DEF load_session_cookie, extract_session_cookie_value
<1>3. CASE c # Bad
  <2>1. extract_session_cookie_value(<<c>>) = c
    BY <1>1, <1>3 DEF extract_session_cookie_value
  <2> QED BY <2>1 DEF load_session_cookie
<1> QED BY <1>2, <1>3

\* Only a cookie that loads makes a session.
LEMMA SessionIdentity ==
    ASSUME NEW req, authenticate_request(req).method = "session"
    PROVE  load_session_cookie(req.cookie) /\ authenticate_request(req).sid = req.cookie[1].sid
BY DEF authenticate_request, Denied, Identity

\* Another origin on the panel's host is not the panel.
LEMMA ElsewhereRefused ==
    ASSUME core \in Configs
    PROVE  ~OriginAllowed(Elsewhere)
<1>1. Elsewhere # Bad => /\ Canonical(Elsewhere) = [scheme |-> "http", host |-> "panel", port |-> 8080]
  BY DEF Canonical, Elsewhere, DefaultPort
<1>2. Canonical(Here) # [scheme |-> "http", host |-> "panel", port |-> 8080]
  BY DEF Canonical, Here, DefaultPort
<1>3. Canonical(Panel) # [scheme |-> "http", host |-> "panel", port |-> 8080]
  BY DEF Canonical, Panel, DefaultPort
<1> QED BY <1>1, <1>2, <1>3, ConfigFields DEF OriginAllowed

\* What an accepted session rests on.
LEMMA SessionsRest == AccessInv => SessionsRestOnLiveCredentials
<1> SUFFICES ASSUME AccessInv,
                    NEW r \in Requests({"read"}, {<<c>> : c \in issued},
                                       {None, Here, Elsewhere, Panel}, CsrfTokens),
                    authenticate_request(r).method = "session"
             PROVE  LET g == grants[r.cookie[1].sid] IN
                    /\ g.token = core.token /\ g.secret = core.secret
                    /\ clock < g.at + g.ttl /\ clock < g.at + core.ttl
                    /\ g.at <= clock + Skew
                    /\ MutationAllowed(r) =>
                          /\ r.csrf \notin {None, Bad} /\ r.csrf.sid = r.cookie[1].sid
                          /\ r.origin # Elsewhere
  BY DEF SessionsRestOnLiveCredentials
<1>1. PICK c \in issued : r.cookie = <<c>>
  BY DEF Requests
<1>2. r.cookie[1] = c
  BY <1>1
<1>3. load_session_cookie(<<c>>) /\ authenticate_request(r).sid = c.sid
  BY <1>1, <1>2, SessionIdentity
<1>4. c.signed = core.secret /\ validate_claims(c)
  BY <1>3, LoadedCookie
<1> DEFINE g == grants[c.sid]
<1>5. c.sid \in DOMAIN grants /\ c = CookieOf(c.sid, g)
      /\ g \in [token : Tokens, secret : Secrets, ttl : Ttls, at : 0..MaxClock]
  BY DEF AccessInv
<1>t. /\ clock \in Nat /\ core.ttl \in Nat /\ core \in Configs
      /\ g.at \in Nat /\ g.ttl \in Nat
  <2>1. Ttls \subseteq Nat /\ 0..MaxClock \subseteq Nat
    BY SessionAssumption
  <2>2. core.ttl \in Ttls /\ g.ttl \in Ttls /\ g.at \in 0..MaxClock
    BY <1>5, ConfigFields DEF AccessInv
  <2> QED BY <2>1, <2>2 DEF AccessInv
<1>6. /\ c.binding = [key |-> g.secret, of |-> g.token] /\ c.signed = g.secret
      /\ c.issued_at = g.at /\ c.expires_at = g.at + g.ttl
  BY <1>5 DEF CookieOf
<1>7. g.token = core.token /\ g.secret = core.secret
  <2>1. c.binding = [key |-> core.secret, of |-> core.token]
    BY <1>4 DEF validate_claims, api_credential_binding
  <2> QED BY <1>6, <2>1
<1>8. clock < g.at + g.ttl /\ clock < g.at + core.ttl /\ g.at <= clock + Skew
  BY <1>4, <1>t, <1>6, SessionAssumption DEF validate_claims
<1>9. MutationAllowed(r) =>
         /\ r.csrf \notin {None, Bad} /\ r.csrf.sid = c.sid
         /\ r.origin # Elsewhere
  BY <1>3, <1>t, ElsewhereRefused DEF MutationAllowed, validate_csrf_token
<1> QED BY <1>2, <1>7, <1>8, <1>9

\* The markers are no kinds, users, tokens or cookies.
LEMMA Markers ==
    /\ None # "trusted_without_identity" /\ None # "trusted_with_identity" /\ None # "untrusted"
    /\ None # "someone" /\ Bad # "someone"
    /\ None \notin Tokens /\ None \notin Secrets /\ Bad \notin Tokens
<1>1. \A x \in {"trusted_without_identity", "trusted_with_identity", "untrusted", "someone"}
              \cup Tokens \cup CookieSet : x # None /\ x # Bad
  BY MarkersAssumption
<1> QED BY <1>1, SessionAssumption

\* A request without bearer from outside the trusted peers.
Stranger(r) == /\ core.mode = "home_assistant_ingress" /\ r.auth = None
               /\ r.peer \notin core.trusted

\* The boundary lets the status through where it would stop a protected
\* route only for strangers of an ingress that is the only way in.
LEMMA StatusBoundary ==
    ASSUME NEW r, NEW q, q.auth = r.auth, q.peer = r.peer, q.user = r.user,
           r.route = "status", q.route \in {"read", "login"}, r.auth = None \/ q.route = "read"
    PROVE  /\ Stranger(r) => Boundary(r) = Passed("untrusted", None)
           /\ Boundary(q) = IF Stranger(r) /\ core.proxyOnly THEN Stopped ELSE Boundary(r)
<1>1. Bearer(q) = Bearer(r)
  BY DEF Bearer
<1>2. Bearer(r) \in {"absent", "valid", "invalid"} /\ (Bearer(r) = "absent" <=> r.auth = None)
  BY DEF Bearer
<1>3. PublicRoute(r.route) /\ path_allows_direct_bearer(r.route)
  BY DEF PublicRoute, path_allows_direct_bearer
<1>4. ~PublicRoute(q.route) /\ (q.route = "read" => path_allows_direct_bearer(q.route))
  BY DEF PublicRoute, path_allows_direct_bearer
<1>5. CASE core.mode # "home_assistant_ingress"
  BY <1>5 DEF Boundary, Stranger
<1>6. CASE core.mode = "home_assistant_ingress" /\ Bearer(r) # "absent"
  BY <1>1, <1>2, <1>3, <1>4, <1>6 DEF Boundary, Stranger
<1>7. CASE core.mode = "home_assistant_ingress" /\ Bearer(r) = "absent"
  BY <1>1, <1>2, <1>3, <1>4, <1>7 DEF Boundary, Stranger
<1> QED BY <1>5, <1>6, <1>7

\* What the boundary makes of a request.
LEMMA BoundaryKinds ==
    ASSUME NEW r, core \in Configs
    PROVE  LET at == Boundary(r) IN
           /\ core.mode # "home_assistant_ingress" => at = Passed(None, None)
           /\ core.mode = "home_assistant_ingress" /\ at.passed /\ r.auth = None =>
                 \/ at.user # None
                 \/ at.kind = "trusted_without_identity"
                 \/ Stranger(r)
<1>1. core.mode # "home_assistant_ingress" => Boundary(r) = Passed(None, None)
  BY DEF Boundary
<1>2. CASE core.mode = "home_assistant_ingress" /\ r.auth = None
  <2>1. Bearer(r) = "absent"
    BY <1>2 DEF Bearer
  <2> QED BY <1>1, <1>2, <2>1 DEF Boundary, Passed, Stopped, Stranger
<1> QED BY <1>1, <1>2

\* The status names the identity of a protected read.
LEMMA StatusMethod ==
    ASSUME core \in Configs, NEW r, NEW q, q.auth = r.auth, q.peer = r.peer, q.user = r.user,
           q.cookie = r.cookie, r.route = "status", q.route = "read"
    PROVE  SessionStatus(r).method = authenticate_request(q).method
<1>1. /\ Stranger(r) => Boundary(r) = Passed("untrusted", None)
      /\ Boundary(q) = IF Stranger(r) /\ core.proxyOnly THEN Stopped ELSE Boundary(r)
  BY StatusBoundary
<1>2. Bearer(q) = Bearer(r) /\ (Bearer(r) = "valid" => core.token # None)
  BY DEF Bearer
<1>3. CASE Stranger(r) /\ core.proxyOnly
  <2>1. authenticate_request(q).method = "denied"
    BY <1>1, <1>3 DEF authenticate_request, Stopped, Denied
  <2>2. SessionStatus(r).method = "denied"
    BY <1>1, <1>3 DEF SessionStatus, Passed, Status, Stranger
  <2> QED BY <2>1, <2>2
<1>4. CASE ~(Stranger(r) /\ core.proxyOnly)
  <2>1. Boundary(q) = Boundary(r)
    BY <1>1, <1>4
  <2>2. CASE ~Boundary(r).passed \/ r.auth # None \/ Boundary(r).user # None
    BY <1>2, <2>1, <2>2 DEF authenticate_request, SessionStatus, Denied, Identity, Status
  <2>3. CASE Boundary(r).passed /\ r.auth = None /\ Boundary(r).user = None
    <3> DEFINE at == Boundary(r)
    <3>1. CASE at.kind = "trusted_without_identity"
      BY <2>1, <2>3, <3>1 DEF authenticate_request, SessionStatus, Denied, Status
    <3>2. CASE at.kind # "trusted_without_identity"
      <4>1. ~(core.mode = "home_assistant_ingress" /\ core.proxyOnly)
        BY <1>4, <2>3, <3>2, BoundaryKinds
      <4>2. core.mode = "home_assistant_ingress" =>
               (SessionAvailable(at) <=> browser_sessions_enabled)
        BY <2>3, <3>2, <4>1 DEF SessionAvailable
      <4>3. load_session_cookie(r.cookie) => browser_sessions_enabled
        BY DEF load_session_cookie
      <4> QED BY <2>1, <2>3, <3>2, <4>1, <4>2, <4>3
              DEF authenticate_request, SessionStatus, Denied, Identity, Status
    <3> QED BY <3>1, <3>2
  <2> QED BY <2>2, <2>3
<1> QED BY <1>3, <1>4

\* A cookie is dropped only when it is worth nothing.
LEMMA StatusCleared ==
    ASSUME NEW r, SessionStatus(r).cleared
    PROVE  ~load_session_cookie(r.cookie)
BY DEF SessionStatus, Status

\* A cookie issued now loads now.
LEMMA FreshCookieLoads ==
    ASSUME core \in Configs, clock \in 0..MaxClock, browser_sessions_enabled
    PROVE  load_session_cookie(<<Cookie(0)>>)
<1> DEFINE c == Cookie(0)
<1>1. /\ c.sid = 0 /\ c.issued_at = clock /\ c.expires_at = clock + core.ttl
      /\ c.binding = api_credential_binding(core.token, core.secret) /\ c.signed = core.secret
  BY DEF Cookie
<1>2. core.ttl \in Nat \ {0} /\ clock \in Nat /\ Skew \in Nat
  <2>1. Ttls \subseteq Nat \ {0} /\ 0..MaxClock \subseteq Nat
    BY SessionAssumption
  <2>2. core.ttl \in Ttls
    BY ConfigFields
  <2> QED BY <2>1, <2>2, SessionAssumption
<1>3. validate_claims(c)
  BY <1>1, <1>2 DEF validate_claims
<1>4. c \in CookieSet
  <2>1. core.token \in Tokens /\ core.secret \in Secrets /\ core.ttl \in Ttls
    BY ConfigFields DEF browser_sessions_enabled
  <2>2. api_credential_binding(core.token, core.secret) \in [key : Secrets, of : Tokens]
    BY <2>1 DEF api_credential_binding
  <2>3. clock + core.ttl \in {t + d : t \in 0..MaxClock, d \in Ttls}
    BY <2>1
  <2> QED BY <2>1, <2>2, <2>3 DEF Cookie, CookieSet
<1>5. c \notin {None, Bad}
  BY <1>4, MarkersAssumption
<1> HIDE DEF c
<1>6. load_session_cookie(<<c>>)
  BY <1>1, <1>3, <1>5, LoadedCookie
<1> QED BY <1>6 DEF c

\* When the status offers a login, this is what is known of the request.
LEMMA Offered ==
    ASSUME core \in Configs, NEW r, r.auth = None,
           SessionStatus(r).method = "denied", SessionStatus(r).offered
    PROVE  LET at == Boundary(r) IN
           /\ at.passed /\ at.user = None /\ at.kind # "trusted_without_identity"
           /\ browser_sessions_enabled
           /\ ~(core.mode = "home_assistant_ingress" /\ core.proxyOnly)
BY DEF SessionStatus, Status, SessionAvailable

\* A browser that is told to log in can do so, and its session opens the door.
LEMMA OfferHolds ==
    ASSUME core \in Configs, clock \in 0..MaxClock,
           NEW r, r.auth = None, r.route = "status", r.origin = None,
           SessionStatus(r).method = "denied", SessionStatus(r).offered,
           NEW login, login.route = "login", login.auth = core.token, login.origin = None,
           NEW read, read.route = "read", read.auth = None, read.peer = r.peer,
           read.user = r.user, read.cookie = <<Cookie(0)>>
    PROVE  /\ BootstrapAllowed(login)
           /\ authenticate_request(read) = [method |-> "session", sid |-> 0]
<1>1. /\ Boundary(r).passed /\ Boundary(r).user = None
      /\ Boundary(r).kind # "trusted_without_identity"
      /\ browser_sessions_enabled
      /\ ~(core.mode = "home_assistant_ingress" /\ core.proxyOnly)
  BY Offered
<1>2. BootstrapAllowed(login)
  <2>1. Bearer(login) = "valid"
    BY <1>1 DEF Bearer, browser_sessions_enabled
  <2>2. Boundary(login).passed
    BY <1>1, <2>1 DEF Boundary, Passed
  <2> QED BY <2>1, <2>2 DEF BootstrapAllowed
<1>3. authenticate_request(read) = [method |-> "session", sid |-> 0]
  <2>1. Boundary(read) = Boundary(r)
    BY <1>1, StatusBoundary DEF Stranger
  <2>2. ~trusted_local_open
    BY <1>1 DEF trusted_local_open, browser_sessions_enabled
  <2>3. load_session_cookie(read.cookie)
    BY <1>1, FreshCookieLoads
  <2>4. read.cookie[1].sid = 0
    BY DEF Cookie
  <2> QED BY <1>1, <2>1, <2>2, <2>3, <2>4 DEF authenticate_request
<1> QED BY <1>2, <1>3

\* The posture page and an anonymous read agree.
LEMMA PostureHolds ==
    ASSUME core \in Configs, NEW r, r.auth = None, r.user = None, r.route = "read",
           r.cookie = <<>>
    PROVE  authenticate_request(r).method = "denied" <=> auth_required
<1>1. ~load_session_cookie(r.cookie)
  <2>1. extract_session_cookie_value(<<>>) \in {None, Bad}
    BY DEF extract_session_cookie_value
  <2> QED BY <2>1 DEF load_session_cookie
<1>2. CASE core.mode = "home_assistant_ingress"
  <2>1. auth_required
    BY <1>2, ConfigFields DEF auth_required
  <2>2. Boundary(r) \in {Stopped, Passed("trusted_without_identity", None), Passed("untrusted", None)}
    BY <1>2 DEF Boundary, Bearer
  <2>3. ~trusted_local_open
    BY <1>2 DEF trusted_local_open
  <2>4. authenticate_request(r).method = "denied"
    BY <1>1, <2>2, <2>3 DEF authenticate_request, Stopped, Passed, Denied
  <2> QED BY <2>1, <2>4
<1>3. CASE core.mode # "home_assistant_ingress"
  <2>1. Boundary(r) = Passed(None, None)
    BY <1>3, BoundaryKinds
  <2>2. authenticate_request(r) = IF trusted_local_open THEN Identity("trusted_local") ELSE Denied
    BY <1>1, <2>1, Markers DEF authenticate_request, Passed
  <2>3. trusted_local_open <=> core.token = None
    BY <1>3, ConfigFields DEF trusted_local_open, Modes
  <2>4. auth_required <=> core.token # None
    BY <1>3 DEF auth_required, browser_sessions_enabled
  <2> QED BY <2>2, <2>3, <2>4 DEF Identity, Denied
<1> QED BY <1>2, <1>3

\* The status of every request is true.
LEMMA StatusTrue == AccessInv => StatusTellsTheTruth
<1> SUFFICES ASSUME AccessInv PROVE StatusTellsTheTruth
  OBVIOUS
<1>t. core \in Configs /\ clock \in 0..MaxClock
  BY DEF AccessInv
<1>1. ASSUME NEW r \in Requests({"status"}, CookieHeaders, {None}, {None})
      PROVE  LET s  == SessionStatus(r)
                 id == authenticate_request([r EXCEPT !.route = "read"]) IN
             /\ s.method = id.method
             /\ s.cleared => ~load_session_cookie(r.cookie)
             /\ s.method = "denied" /\ s.offered /\ r.auth = None =>
                   /\ BootstrapAllowed([r EXCEPT !.route = "login", !.auth = core.token])
                   /\ authenticate_request([r EXCEPT !.route = "read", !.cookie = <<Cookie(0)>>])
                         = [method |-> "session", sid |-> 0]
  <2> DEFINE q == [r EXCEPT !.route = "read"]
             login == [r EXCEPT !.route = "login", !.auth = core.token]
             read == [r EXCEPT !.route = "read", !.cookie = <<Cookie(0)>>]
  <2>1. r.route = "status" /\ r.origin = None
    BY DEF Requests
  <2>2. /\ q.auth = r.auth /\ q.peer = r.peer /\ q.user = r.user /\ q.cookie = r.cookie
        /\ q.route = "read"
    BY DEF Requests
  <2>3. login.route = "login" /\ login.auth = core.token /\ login.origin = None
    BY DEF Requests
  <2>4. /\ read.route = "read" /\ read.auth = r.auth /\ read.peer = r.peer
        /\ read.user = r.user /\ read.cookie = <<Cookie(0)>>
    BY DEF Requests
  <2> HIDE DEF q, login, read
  <2>5. SessionStatus(r).method = authenticate_request(q).method
    BY <1>t, <2>1, <2>2, StatusMethod
  <2>6. SessionStatus(r).cleared => ~load_session_cookie(r.cookie)
    BY StatusCleared
  <2>7. ASSUME SessionStatus(r).method = "denied", SessionStatus(r).offered, r.auth = None
        PROVE  BootstrapAllowed(login) /\ authenticate_request(read) = [method |-> "session", sid |-> 0]
    BY <1>t, <2>1, <2>3, <2>4, <2>7, OfferHolds
  <2> QED BY <2>5, <2>6, <2>7 DEF q, login, read
<1>2. ASSUME NEW r \in Requests({"read"}, {<<>>}, {None}, {None}), r.auth = None, r.user = None
      PROVE  authenticate_request(r).method = "denied" <=> auth_required
  <2>1. r.route = "read" /\ r.cookie = <<>>
    BY DEF Requests
  <2> QED BY <1>t, <1>2, <2>1, PostureHolds
<1> QED BY <1>1, <1>2 DEF StatusTellsTheTruth

----------------------------------------------------------------------------
(* The three services together *)

IInv ==
    /\ part = "access" => AccessInv
    /\ part = "services" => ServiceInv /\ StreamInv /\ RetainedInv
    /\ part = "files" => FileInv

\* Whatever service a behaviour is of, its invariant holds throughout.
THEOREM Invariance == Spec => []IInv
<1>1. MCInit => IInv
  BY AccessStart, ServicesStart, StreamStart, RetainedStart, FilesInit DEF MCInit, IInv
<1>2. IInv /\ [MCNext]_<<part, acVars, svVars, sfVars, vars>> => IInv'
  <2> SUFFICES ASSUME IInv, [MCNext]_<<part, acVars, svVars, sfVars, vars>> PROVE IInv'
    OBVIOUS
  <2>1. part' = part
    BY DEF MCNext
  <2>2. CASE part = "access"
    <3>1. [AcNext]_acVars
      BY <2>2 DEF MCNext
    <3>2. AccessInv'
      BY <2>2, <3>1, AccessStep DEF IInv
    <3> QED BY <2>1, <2>2, <3>2 DEF IInv
  <2>3. CASE part = "services"
    <3>1. [SvNext]_svVars
      BY <2>3 DEF MCNext
    <3>2. ServiceInv /\ StreamInv /\ RetainedInv
      BY <2>3 DEF IInv
    <3>3. version \in Nat /\ dash.built \in Nat
      BY <3>2 DEF ServiceInv, ServiceTypes
    <3>4. ServiceInv' /\ StreamInv' /\ RetainedInv'
      BY <3>1, <3>2, <3>3, ServiceStep, StreamStep, RetainedStep
    <3> QED BY <2>1, <2>3, <3>4 DEF IInv
  <2>4. CASE part = "files"
    <3>1. [SfNext]_sfVars
      BY <2>4 DEF MCNext
    <3>2. FileInv'
      BY <2>4, <3>1, FileStep DEF IInv
    <3> QED BY <2>1, <2>4, <3>2 DEF IInv
  <2>5. CASE part \notin {"access", "services", "files"}
    BY <2>1, <2>5 DEF IInv
  <2> QED BY <2>2, <2>3, <2>4, <2>5
<1> QED BY <1>1, <1>2, PTL DEF Spec

\* The public session status (api/routes.py get_auth_session) repeats the
\* precedence of authenticate_request (api/auth.py) in its own words: the two
\* agree on every request, in every configuration that loads.
THEOREM StatusIsTrue == Spec => []AccessStatusTellsTheTruth
<1>1. IInv => AccessStatusTellsTheTruth
  BY StatusTrue DEF IInv, AccessStatusTellsTheTruth
<1> QED BY <1>1, Invariance, PTL

\* No session outlives its credentials, its lifetime or a change of either
\* (security/browser_sessions.py), for any number of restarts and sessions.
THEOREM SessionsAreLive == Spec => []AccessRestsOnLiveCredentials
<1>1. IInv => AccessRestsOnLiveCredentials
  BY SessionsRest DEF IInv, AccessRestsOnLiveCredentials
<1> QED BY <1>1, Invariance, PTL

\* Every watcher gets the last word: no interleaving of commits, publications,
\* callbacks, reads and joining or leaving browsers (mqtt/events.py, the event
\* stream of main.py) loses the newest dashboard of a browser whose queue was
\* not overrun, and no update asked for while one is being published is lost to
\* the broker (mqtt_discovery/service.py); for any number of browsers and any
\* size of the queues.
THEOREM LastWordIsDelivered == Spec => []WatchersGetTheLastWord
<1>1. IInv => WatchersGetTheLastWord
  BY LastWord DEF IInv, WatchersGetTheLastWord
<1> QED BY <1>1, Invariance, PTL

\* close() (app/context.py) stops its services in an order in which none can
\* start another again.
THEOREM ContextIsQuiet == Spec => []ClosedContextIsQuiet
<1>1. IInv => ClosedContextIsQuiet
  BY ServiceProperties DEF IInv, ClosedContextIsQuiet
<1> QED BY <1>1, Invariance, PTL

\* schema_migrations never runs ahead of the schema; nothing is deleted before
\* every migration of this release has run to its end (db/connection.py), and the
\* maintenance command (cli_storage.py) deletes nothing from the file of a later
\* release; for any number of migrations, statements and kills.
THEOREM SchemaStaysHonest == Spec => []FileSchemaIsHonest
<1>1. IInv => FileSchemaIsHonest
  BY FileProperties DEF IInv, FileSchemaIsHonest
<1> QED BY <1>1, Invariance, PTL

\* A backup (storage/backup.py) is all or nothing, whatever fails when.
THEOREM BackupStaysWhole == Spec => []FileBackupIsWhole
<1>1. IInv => FileBackupIsWhole
  BY FileProperties DEF IInv, FileBackupIsWhole
<1> QED BY <1>1, Invariance, PTL

(***************************************************************************)
(* The shared connection: invariant.  None of the properties is inductive  *)
(* by itself.  A transaction is atomic because of what is on the           *)
(* connection while the lock is free and while a context is open, so the   *)
(* invariant says, next to the bookkeeping of the lock, whose writes are   *)
(* uncommitted at any moment.                                              *)
(***************************************************************************)

InContext(t) == act[t] \in {"body", "raising"}
UnitOf(w) == <<w[1], w[2]>>

\* transaction() keeps depth in step with the contexts that are open.
DepthMatches == \A t \in Threads : depth[t] > 0 <=> InContext(t)

\* The unit a thread works on is the one it started last.
UnitsMatch ==
    /\ \A t \in Threads : InContext(t) =>
          /\ unit[t] > 0
          /\ kind[Current(t)] = "tx" /\ result[Current(t)] = "running"
    /\ \A t \in Threads : act[t] = "bare" =>
          unit[t] > 0 /\ kind[Current(t)] = "bare"
    /\ \A t \in Threads : \A n \in 1..MaxUnits :
          n > unit[t] => kind[<<t, n>>] = "none" /\ wrote[<<t, n>>] = 0

\* Uncommitted writes belong to the open transaction, or else to bare writes.
DirtyIsOwned ==
    /\ \A t \in Threads : InContext(t) => inTx
    /\ dirty # {} => inTx
    /\ \A t \in Threads : InContext(t) => \A w \in dirty : UnitOf(w) = Current(t)
    /\ (\A t \in Threads : ~InContext(t)) => \A w \in dirty : kind[UnitOf(w)] = "bare"
    /\ \A t \in Threads : InContext(t) =>
          \A i \in 1..wrote[Current(t)] : <<t, unit[t], i>> \in dirty

\* What is in the file was put there by a bare write or by a whole transaction.
StoredIsDone ==
    /\ \A w \in stored :
          \/ kind[UnitOf(w)] = "bare"
          \/ kind[UnitOf(w)] = "tx" /\ result[UnitOf(w)] = "ok"
    /\ \A t \in Threads : \A n \in 1..MaxUnits :
          kind[<<t, n>>] = "tx" /\ result[<<t, n>>] = "ok" =>
             \A i \in 1..wrote[<<t, n>>] : <<t, n, i>> \in stored

LockIInv ==
    /\ TypeOK /\ LockMatchesContexts /\ DepthMatches /\ UnitsMatch
    /\ DirtyIsOwned /\ StoredIsDone /\ BareWriteSurvives

(***************************************************************************)
(* Units and writes                                                        *)
(***************************************************************************)

\* A unit is a thread and a number.
LEMMA UnitParts ==
    /\ \A t \in Threads : \A n \in 1..MaxUnits : <<t, n>> \in Units
    /\ \A u \in Units : /\ u[1] \in Threads /\ u[2] \in 1..MaxUnits
                        /\ u = <<u[1], u[2]>>
  BY DEF Units

\* A write is a unit and an index.
LEMMA WriteParts ==
    /\ \A t \in Threads : \A n \in 1..MaxUnits : \A i \in 1..MaxWrites : <<t, n, i>> \in Writes
    /\ \A w \in Writes : /\ w[1] \in Threads /\ w[2] \in 1..MaxUnits
                         /\ UnitOf(w) \in Units
  BY DEF Units, Writes, UnitOf

\* A thread that is at rest and may take the lock finds it free, and no context
\* is open anywhere.
LEMMA FreeLock ==
    ASSUME LockIInv, NEW t \in Threads, ~InContext(t), act[t] # "reading", CanLock(t)
    PROVE  owner = NoOwner /\ hold = 0 /\ \A s \in Threads : ~InContext(s) /\ act[s] # "reading"
  BY ThreadsAssumption DEF LockIInv, LockMatchesContexts, InContext, CanLock, TypeOK

(***************************************************************************)
(* The invariant holds                                                     *)
(***************************************************************************)

\* The first state satisfies it.
LEMMA InitIInv == Init => LockIInv
  <1> SUFFICES ASSUME Init PROVE LockIInv
    OBVIOUS
  <1> USE DEF Init, InContext, Current
  <1>1. TypeOK
    <2>1. rollbackOnly \in [Threads -> BOOLEAN] /\ inTx \in BOOLEAN /\ poisoned \in BOOLEAN
      BY Zenon
    <2>2. 0 \in 0..MaxDepth /\ 0 \in 0..MaxUnits /\ 0 \in 0..MaxWrites
      BY BoundsAssumption
    <2>3. /\ depth \in [Threads -> 0..MaxDepth]
          /\ unit \in [Threads -> 0..MaxUnits] /\ wrote \in [Units -> 0..MaxWrites]
      BY <2>2, Zenon
    <2> QED
      BY <2>1, <2>3 DEF TypeOK
  <1>2. LockMatchesContexts /\ DepthMatches /\ DirtyIsOwned /\ BareWriteSurvives
    BY ThreadsAssumption DEF LockMatchesContexts, DepthMatches, DirtyIsOwned, BareWriteSurvives
  <1>3. UnitsMatch /\ StoredIsDone
    BY UnitParts DEF UnitsMatch, StoredIsDone
  <1> QED
    BY <1>1, <1>2, <1>3 DEF LockIInv

(***************************************************************************)
(* Units that start and end                                                *)
(***************************************************************************)

\* What StartUnit does: unit n of thread t becomes current, all others stay.
NewUnit(t, n, k, r) ==
    /\ n = unit[t] + 1 /\ n \in 1..MaxUnits /\ <<t, n>> \in Units
    /\ unit' \in [Threads -> 0..MaxUnits]
    /\ kind' \in [Units -> {"none", "bare", "tx"}]
    /\ result' \in [Units -> {"none", "running", "ok", "raised", "refused"}]
    /\ unit'[t] = n /\ \A s \in Threads : s # t => unit'[s] = unit[s]
    /\ kind'[<<t, n>>] = k /\ result'[<<t, n>>] = r
    /\ \A u \in Units : u # <<t, n>> => kind'[u] = kind[u] /\ result'[u] = result[u]

\* What End does: the current unit gets its result, all others stay.
UnitEnded(t, r) ==
    /\ unit[t] \in 1..MaxUnits /\ <<t, unit[t]>> \in Units
    /\ result' \in [Units -> {"none", "running", "ok", "raised", "refused"}]
    /\ result'[<<t, unit[t]>>] = r
    /\ \A u \in Units : u # <<t, unit[t]>> => result'[u] = result[u]

\* A unit that starts is a new one.
LEMMA UnitStarts ==
    ASSUME TypeOK, NEW t \in Threads, NEW k \in {"bare", "tx"},
           NEW r \in {"running", "raised", "refused"}, StartUnit(t, k, r)
    PROVE  NewUnit(t, unit[t] + 1, k, r)
  <1>1. unit[t] + 1 \in 1..MaxUnits
    BY BoundsAssumption DEF StartUnit, TypeOK
  <1>2. <<t, unit[t] + 1>> \in Units
    BY <1>1, UnitParts
  <1> QED
    BY <1>1, <1>2 DEF StartUnit, TypeOK, NewUnit

\* The unit that ends is the current one.
LEMMA EndUnit ==
    ASSUME TypeOK, NEW t \in Threads, unit[t] > 0,
           NEW r \in {"ok", "raised"}, End(t, r)
    PROVE  UnitEnded(t, r)
  <1>1. unit[t] \in 1..MaxUnits
    BY BoundsAssumption DEF TypeOK
  <1>2. <<t, unit[t]>> \in Units
    BY <1>1, UnitParts
  <1> QED
    BY <1>1, <1>2 DEF End, TypeOK, Current, UnitEnded

\* A new unit has no past: what earlier units recorded and wrote stays theirs.
OthersStand(t, n) ==
    /\ kind[<<t, n>>] = "none" /\ wrote[<<t, n>>] = 0
    /\ \A s \in Threads : s # t /\ act[s] = "bare" =>
          unit'[s] > 0 /\ kind'[<<s, unit'[s]>>] = "bare"
    /\ \A s \in Threads : \A m \in 1..MaxUnits :
          m > unit'[s] => kind'[<<s, m>>] = "none" /\ wrote'[<<s, m>>] = 0
    /\ \A w \in dirty : kind'[UnitOf(w)] = kind[UnitOf(w)]
    /\ StoredIsDone'

\* Starting a unit disturbs no other.
LEMMA FreshUnit ==
    ASSUME LockIInv, NEW t \in Threads, NEW n, NEW k, NEW r, r # "ok",
           NewUnit(t, n, k, r), \A u \in Units : u # <<t, n>> => wrote'[u] = wrote[u],
           UNCHANGED stored, \A s \in Threads : ~InContext(s)
    PROVE  OthersStand(t, n)
  <1>1. kind[<<t, n>>] = "none" /\ wrote[<<t, n>>] = 0
    BY BoundsAssumption DEF LockIInv, UnitsMatch, NewUnit, TypeOK
  <1>2. ASSUME NEW s \in Threads, s # t, act[s] = "bare"
        PROVE  unit'[s] > 0 /\ kind'[<<s, unit'[s]>>] = "bare"
    <2>1. unit[s] > 0 /\ kind[<<s, unit[s]>>] = "bare"
      BY <1>2 DEF LockIInv, UnitsMatch, Current
    <2>2. <<s, unit[s]>> \in Units /\ <<s, unit[s]>> # <<t, n>>
      BY <1>2, <2>1, UnitParts, BoundsAssumption DEF LockIInv, TypeOK
    <2> QED
      BY <1>2, <2>1, <2>2 DEF NewUnit
  <1>3. ASSUME NEW s \in Threads, NEW m \in 1..MaxUnits, m > unit'[s]
        PROVE  kind'[<<s, m>>] = "none" /\ wrote'[<<s, m>>] = 0
    <2>1. <<s, m>> \in Units /\ <<s, m>> # <<t, n>> /\ m > unit[s]
      BY <1>3, UnitParts, BoundsAssumption DEF NewUnit, LockIInv, TypeOK
    <2> QED
      BY <2>1 DEF NewUnit, LockIInv, UnitsMatch
  <1>4. \A w \in dirty \cup stored : UnitOf(w) \in Units /\ UnitOf(w) # <<t, n>>
    BY <1>1, WriteParts DEF LockIInv, TypeOK, DirtyIsOwned, StoredIsDone
  <1>5. \A w \in dirty : kind'[UnitOf(w)] = kind[UnitOf(w)]
    BY <1>4 DEF NewUnit
  <1>6. StoredIsDone'
    BY <1>4, UnitParts DEF LockIInv, StoredIsDone, NewUnit
  <1> QED
    BY <1>1, <1>2, <1>3, <1>5, <1>6 DEF OthersStand

\* A unit that fails at once leaves the connection as it found it.
LEMMA FailedUnit ==
    ASSUME LockIInv, NEW t \in Threads, NEW k \in {"bare", "tx"},
           NEW r \in {"raised", "refused"}, StartUnit(t, k, r), act[t] = "idle",
           \A s \in Threads : ~InContext(s),
           inTx' \in BOOLEAN, poisoned' \in BOOLEAN, inTx => inTx',
           UNCHANGED <<owner, hold, depth, rollbackOnly, act, dirty, stored, wrote>>
    PROVE  LockIInv'
  <1> DEFINE n == unit[t] + 1
  <1>1. NewUnit(t, n, k, r)
    BY UnitStarts DEF LockIInv
  <1> HIDE DEF n
  <1>2. OthersStand(t, n)
    <2>1. \A u \in Units : u # <<t, n>> => wrote'[u] = wrote[u]
      OBVIOUS
    <2>2. r # "ok" /\ stored' = stored
      OBVIOUS
    <2> QED
      BY <1>1, <2>1, <2>2, FreshUnit
  <1>3. TypeOK'
    BY <1>1 DEF LockIInv, TypeOK, NewUnit
  <1>4. LockMatchesContexts' /\ DepthMatches'
    BY DEF LockIInv, LockMatchesContexts, DepthMatches, InContext
  <1>5. UnitsMatch'
    BY <1>2 DEF OthersStand, UnitsMatch, InContext, Current
  <1>6. DirtyIsOwned'
    BY <1>2 DEF OthersStand, LockIInv, DirtyIsOwned, InContext
  <1>7. BareWriteSurvives'
    BY <1>1 DEF LockIInv, BareWriteSurvives, NewUnit
  <1> QED
    BY <1>2, <1>3, <1>4, <1>5, <1>6, <1>7 DEF OthersStand, LockIInv

(***************************************************************************)
(* Steps that only move the lock and the contexts                          *)
(***************************************************************************)

\* Whose writes are on the connection depends on who is in a context, and on
\* nothing else that the lock or the thread-local state record.
LEMMA Bookkeeping ==
    ASSUME LockIInv, UNCHANGED <<physical, work>>, TypeOK', LockMatchesContexts', DepthMatches',
           \A s \in Threads : InContext(s)' <=> InContext(s),
           \A s \in Threads : act'[s] = "bare" <=> act[s] = "bare"
    PROVE  LockIInv'
  <1> USE DEF physical, work
  <1>1. UnitsMatch'
    BY DEF LockIInv, UnitsMatch, Current
  <1>2. DirtyIsOwned'
    BY DEF LockIInv, DirtyIsOwned, Current
  <1>3. StoredIsDone' /\ BareWriteSurvives'
    BY DEF LockIInv, StoredIsDone, BareWriteSurvives
  <1> QED
    BY <1>1, <1>2, <1>3 DEF LockIInv

\* Cursors, nested contexts, rollback() and exceptions.
LEMMA LockSteps ==
    ASSUME LockIInv, NEW t \in Threads,
           \/ OpenCursor(t) \/ FetchAll(t) \/ EnterNested(t) \/ RollbackCall(t)
           \/ Raise(t) \/ LeaveNested(t)
    PROVE  LockIInv'
  <1> USE BoundsAssumption, ThreadsAssumption
      DEF LockIInv, TypeOK, LockMatchesContexts, DepthMatches, InContext, physical, work, lock, tls
  <1>1. CASE OpenCursor(t)
    <2>1. TypeOK' /\ LockMatchesContexts' /\ DepthMatches'
      BY <1>1 DEF OpenCursor
    <2>2. /\ UNCHANGED <<physical, work>>
          /\ \A s \in Threads : InContext(s)' <=> InContext(s)
          /\ \A s \in Threads : act'[s] = "bare" <=> act[s] = "bare"
      BY <1>1 DEF OpenCursor
    <2> QED
      BY <2>1, <2>2, Bookkeeping
  <1>2. CASE FetchAll(t)
    <2>1. TypeOK' /\ LockMatchesContexts' /\ DepthMatches'
      BY <1>2 DEF FetchAll, Release
    <2>2. /\ UNCHANGED <<physical, work>>
          /\ \A s \in Threads : InContext(s)' <=> InContext(s)
          /\ \A s \in Threads : act'[s] = "bare" <=> act[s] = "bare"
      BY <1>2 DEF FetchAll
    <2> QED
      BY <2>1, <2>2, Bookkeeping
  <1>3. CASE EnterNested(t)
    <2>1. TypeOK' /\ LockMatchesContexts' /\ DepthMatches'
      BY <1>3 DEF EnterNested
    <2>2. /\ UNCHANGED <<physical, work>>
          /\ \A s \in Threads : InContext(s)' <=> InContext(s)
          /\ \A s \in Threads : act'[s] = "bare" <=> act[s] = "bare"
      BY <1>3 DEF EnterNested
    <2> QED
      BY <2>1, <2>2, Bookkeeping
  <1>4. CASE RollbackCall(t)
    <2>1. TypeOK' /\ LockMatchesContexts' /\ DepthMatches'
      BY <1>4 DEF RollbackCall
    <2>2. /\ UNCHANGED <<physical, work>>
          /\ \A s \in Threads : InContext(s)' <=> InContext(s)
          /\ \A s \in Threads : act'[s] = "bare" <=> act[s] = "bare"
      BY <1>4 DEF RollbackCall
    <2> QED
      BY <2>1, <2>2, Bookkeeping
  <1>5. CASE Raise(t)
    <2>1. TypeOK' /\ LockMatchesContexts' /\ DepthMatches'
      BY <1>5 DEF Raise
    <2>2. /\ UNCHANGED <<physical, work>>
          /\ \A s \in Threads : InContext(s)' <=> InContext(s)
          /\ \A s \in Threads : act'[s] = "bare" <=> act[s] = "bare"
      BY <1>5 DEF Raise
    <2> QED
      BY <2>1, <2>2, Bookkeeping
  <1>6. CASE LeaveNested(t)
    <2>1. TypeOK' /\ LockMatchesContexts' /\ DepthMatches'
      BY <1>6 DEF LeaveNested, Release, Marked
    <2>2. /\ UNCHANGED <<physical, work>>
          /\ \A s \in Threads : InContext(s)' <=> InContext(s)
          /\ \A s \in Threads : act'[s] = "bare" <=> act[s] = "bare"
      BY <1>6 DEF LeaveNested
    <2> QED
      BY <2>1, <2>2, Bookkeeping
  <1> QED
    BY <1>1, <1>2, <1>3, <1>4, <1>5, <1>6

(***************************************************************************)
(* Bare writes                                                             *)
(***************************************************************************)

\* execute() of a bare write.
LEMMA BareExecuteKeeps ==
    ASSUME LockIInv, NEW t \in Threads, BareExecute(t)
    PROVE  LockIInv'
  <1>1. /\ act[t] = "idle" /\ owner = NoOwner /\ ~poisoned
        /\ \A s \in Threads : ~InContext(s)
    BY FreeLock DEF BareExecute, StartUnit, InContext
  <1>2. CASE StartUnit(t, "bare", "raised") /\ UNCHANGED <<wrote, dirty, act>>
    <2>1. UNCHANGED <<owner, hold, depth, rollbackOnly, act, dirty, stored, wrote>>
          /\ inTx' = TRUE /\ poisoned' = poisoned
      BY <1>2 DEF BareExecute, lock, tls
    <2> QED
      BY <1>1, <1>2, <2>1, FailedUnit DEF LockIInv, TypeOK
  <1>3. CASE StartUnit(t, "bare", "running") /\ act' = [act EXCEPT ![t] = "bare"]
             /\ wrote' = [wrote EXCEPT ![<<t, unit[t] + 1>>] = 1]
             /\ dirty' = dirty \cup {<<t, unit[t] + 1, 1>>}
    <2> DEFINE n == unit[t] + 1
    <2>1. NewUnit(t, n, "bare", "running")
      BY <1>3, UnitStarts DEF LockIInv
    <2>2. /\ wrote' = [wrote EXCEPT ![<<t, n>>] = 1] /\ dirty' = dirty \cup {<<t, n, 1>>}
          /\ act' = [act EXCEPT ![t] = "bare"] /\ inTx' = TRUE
          /\ UNCHANGED <<owner, hold, depth, rollbackOnly, stored, poisoned>>
      BY <1>3 DEF BareExecute, lock, tls
    <2> HIDE DEF n
    <2>3. \A u \in Units : u # <<t, n>> => wrote'[u] = wrote[u]
      BY <2>2 DEF LockIInv, TypeOK
    <2>4. OthersStand(t, n)
      BY <1>1, <2>1, <2>2, <2>3, FreshUnit
    <2>5. TypeOK'
      <3>1. <<t, n, 1>> \in Writes /\ 1 \in 0..MaxWrites
        BY <2>1, WriteParts, BoundsAssumption DEF NewUnit
      <3> QED
        BY <2>1, <2>2, <3>1 DEF LockIInv, TypeOK, NewUnit
    <2>6. LockMatchesContexts' /\ DepthMatches'
      BY <1>1, <2>2 DEF LockIInv, LockMatchesContexts, DepthMatches, InContext, TypeOK
    <2>7. \A s \in Threads : ~InContext(s)'
      BY <1>1, <2>2 DEF LockIInv, InContext, TypeOK
    <2>8. UnitsMatch'
      <3>1. unit'[t] > 0 /\ kind'[<<t, unit'[t]>>] = "bare"
        BY <2>1 DEF NewUnit
      <3>2. \A s \in Threads : s # t /\ act'[s] = "bare" => act[s] = "bare"
        BY <2>2 DEF LockIInv, TypeOK
      <3> QED
        BY <2>4, <2>7, <3>1, <3>2 DEF OthersStand, UnitsMatch, Current
    <2>9. DirtyIsOwned'
      <3>1. UnitOf(<<t, n, 1>>) = <<t, n>>
        BY DEF UnitOf
      <3> QED
        BY <1>1, <2>1, <2>2, <2>4, <2>7, <3>1 DEF OthersStand, LockIInv, DirtyIsOwned, NewUnit
    <2>10. BareWriteSurvives'
      BY <2>1, <2>2 DEF LockIInv, TypeOK, BareWriteSurvives, NewUnit
    <2> QED
      BY <2>4, <2>5, <2>6, <2>8, <2>9, <2>10 DEF OthersStand, LockIInv
  <1> QED
    BY <1>2, <1>3 DEF BareExecute


\* commit() of a bare write.
LEMMA BareCommitKeeps ==
    ASSUME LockIInv, NEW t \in Threads, BareCommit(t)
    PROVE  LockIInv'
  <1>1. \A s \in Threads : ~InContext(s)
    BY FreeLock DEF BareCommit, InContext
  <1>2. /\ act[t] = "bare" /\ act' = [act EXCEPT ![t] = "idle"]
        /\ UNCHANGED <<owner, hold, depth, rollbackOnly, poisoned, unit, wrote, kind>>
    BY DEF BareCommit, lock, tls
  <1>3. PICK r \in {"ok", "raised"} :
           /\ End(t, r)
           /\ \/ r = "ok" /\ stored' = stored \cup dirty /\ dirty' = {} /\ inTx' = FALSE
              \/ r = "raised" /\ UNCHANGED <<stored, dirty, inTx>>
    BY DEF BareCommit
  <1>4. unit[t] > 0 /\ kind[<<t, unit[t]>>] = "bare"
    BY <1>2 DEF LockIInv, UnitsMatch, Current
  <1>5. UnitEnded(t, r)
    BY <1>3, <1>4, EndUnit DEF LockIInv
  <1>6. TypeOK'
    BY <1>2, <1>3, <1>5 DEF LockIInv, TypeOK, UnitEnded
  <1>7. LockMatchesContexts' /\ DepthMatches' /\ \A s \in Threads : ~InContext(s)'
    BY <1>1, <1>2 DEF LockIInv, LockMatchesContexts, DepthMatches, InContext, TypeOK
  <1>8. UnitsMatch'
    BY <1>2, <1>7 DEF LockIInv, UnitsMatch, TypeOK, Current
  <1>9. DirtyIsOwned'
    BY <1>1, <1>2, <1>3, <1>7 DEF LockIInv, DirtyIsOwned
  <1>10. StoredIsDone'
    <2>1. \A w \in stored' : /\ UnitOf(w) \in Units
                             /\ \/ kind[UnitOf(w)] = "bare"
                                \/ kind[UnitOf(w)] = "tx" /\ result[UnitOf(w)] = "ok"
      BY <1>1, <1>3, WriteParts DEF LockIInv, TypeOK, DirtyIsOwned, StoredIsDone
    <2>2. \A u \in Units : kind[u] = "tx" => result'[u] = result[u]
      BY <1>4, <1>5 DEF UnitEnded
    <2> QED
      BY <1>2, <1>3, <2>1, <2>2, UnitParts DEF LockIInv, StoredIsDone
  <1>11. BareWriteSurvives'
    BY <1>2, <1>3 DEF LockIInv, BareWriteSurvives, TypeOK
  <1> QED
    BY <1>6, <1>7, <1>8, <1>9, <1>10, <1>11 DEF LockIInv

(***************************************************************************)
(* Transactions                                                            *)
(***************************************************************************)

\* Calls on a poisoned connection, and a BEGIN that does not succeed.  The
\* rollback after a BEGIN that raised finds nothing to discard.
LEMMA NoBeginKeeps ==
    ASSUME LockIInv, NEW t \in Threads,
           \/ \E k \in {"bare", "tx"} : Unusable(t, k)
           \/ BeginRaises(t) \/ BeginRefused(t)
    PROVE  LockIInv'
  <1>1. PICK k \in {"bare", "tx"}, r \in {"raised", "refused"} : StartUnit(t, k, r)
    BY DEF Unusable, BeginRaises, BeginRefused
  <1>2. act[t] = "idle" /\ \A s \in Threads : ~InContext(s)
    BY <1>1, FreeLock DEF StartUnit, InContext
  <1>3. /\ UNCHANGED <<owner, hold, depth, rollbackOnly, act, dirty, stored, wrote>>
        /\ inTx' \in BOOLEAN /\ poisoned' \in BOOLEAN
        /\ inTx => inTx'
    <2>1. CASE \E q \in {"bare", "tx"} : Unusable(t, q)
      BY <2>1 DEF Unusable, LockIInv, TypeOK, lock, tls, physical
    <2>2. CASE BeginRaises(t)
      BY <2>2 DEF BeginRaises, PhysicalRollback, LockIInv, TypeOK, DirtyIsOwned, lock, tls
    <2>3. CASE BeginRefused(t)
      BY <2>3 DEF BeginRefused, RefusedCleanup, LockIInv, TypeOK, lock, tls, physical
    <2> QED
      BY <2>1, <2>2, <2>3
  <1> QED
    BY <1>1, <1>2, <1>3, FailedUnit

\* BEGIN IMMEDIATE succeeds only on a connection with nothing uncommitted.
LEMMA BeginKeeps ==
    ASSUME LockIInv, NEW t \in Threads, Begin(t)
    PROVE  LockIInv'
  <1> DEFINE n == unit[t] + 1
  <1>1. act[t] = "idle" /\ owner = NoOwner /\ \A s \in Threads : ~InContext(s) /\ act[s] # "reading"
    BY FreeLock DEF Begin, StartUnit, InContext
  <1>2. NewUnit(t, n, "tx", "running")
    BY UnitStarts DEF LockIInv, Begin
  <1> HIDE DEF n
  <1>3. /\ owner' = t /\ hold' = 1 /\ depth' = [depth EXCEPT ![t] = 1]
        /\ rollbackOnly' = [rollbackOnly EXCEPT ![t] = FALSE]
        /\ act' = [act EXCEPT ![t] = "body"]
        /\ inTx' = TRUE /\ dirty = {} /\ UNCHANGED <<dirty, stored, poisoned, wrote>>
    BY DEF Begin, LockIInv, DirtyIsOwned
  <1>4. \A u \in Units : u # <<t, n>> => wrote'[u] = wrote[u]
    BY <1>3
  <1>5. OthersStand(t, n)
    BY <1>1, <1>2, <1>3, <1>4, FreshUnit
  <1>6. TypeOK'
    BY <1>2, <1>3, BoundsAssumption DEF LockIInv, TypeOK, NewUnit
  <1>7. /\ \A s \in Threads : s # t => act'[s] = act[s] /\ ~InContext(s)'
        /\ act'[t] = "body"
    BY <1>1, <1>3 DEF LockIInv, TypeOK, InContext
  <1>8. LockMatchesContexts' /\ DepthMatches'
    BY <1>1, <1>3, <1>7, ThreadsAssumption
       DEF LockIInv, LockMatchesContexts, DepthMatches, InContext, TypeOK
  <1>9. unit'[t] = n /\ n > 0 /\ kind'[<<t, n>>] = "tx" /\ result'[<<t, n>>] = "running"
    BY <1>2 DEF NewUnit
  <1>10. UnitsMatch'
    BY <1>5, <1>7, <1>9 DEF OthersStand, UnitsMatch, Current, InContext
  <1>11. DirtyIsOwned'
    BY <1>3, <1>5, <1>7, <1>9 DEF OthersStand, DirtyIsOwned, Current, InContext
  <1>12. BareWriteSurvives'
    BY <1>2, <1>3, <1>7 DEF LockIInv, BareWriteSurvives, NewUnit
  <1> QED
    BY <1>5, <1>6, <1>8, <1>10, <1>11, <1>12 DEF OthersStand, LockIInv

\* While a context is open its commit() calls are deferred.
LEMMA BodyWriteKeeps ==
    ASSUME LockIInv, NEW t \in Threads, BodyWrite(t)
    PROVE  LockIInv'
  <1> DEFINE u == <<t, unit[t]>>
             i == wrote[<<t, unit[t]>>] + 1
  <1>1. act[t] = "body" /\ unit[t] > 0 /\ kind[u] = "tx" /\ result[u] = "running"
    BY DEF BodyWrite, LockIInv, UnitsMatch, InContext, Current
  <1>2. u \in Units /\ unit[t] \in 1..MaxUnits
    BY <1>1, UnitParts, BoundsAssumption DEF LockIInv, TypeOK
  <1>3. i \in 1..MaxWrites /\ <<t, unit[t], i>> \in Writes
    BY <1>2, WriteParts, BoundsAssumption DEF BodyWrite, LockIInv, TypeOK, Current
  <1>4. /\ dirty' = dirty \cup {<<t, unit[t], i>>}
        /\ wrote' = [wrote EXCEPT ![u] = i]
        /\ UNCHANGED <<owner, hold, depth, rollbackOnly, act, inTx, poisoned, unit, kind, result, stored>>
    BY <1>1 DEF BodyWrite, LockIInv, DepthMatches, InContext, Deferred, Current, lock, tls
  <1>5. /\ wrote'[u] = i /\ i = wrote[u] + 1 /\ wrote[u] \in Nat
        /\ \A v \in Units : v # u => wrote'[v] = wrote[v]
    BY <1>2, <1>4 DEF LockIInv, TypeOK
  <1>6. TypeOK'
    BY <1>2, <1>3, <1>4 DEF LockIInv, TypeOK
  <1> HIDE DEF i
  <1>7. LockMatchesContexts' /\ DepthMatches'
    BY <1>4 DEF LockIInv, LockMatchesContexts, DepthMatches, InContext
  <1>8. UnitsMatch'
    BY <1>2, <1>4, <1>5, UnitParts DEF LockIInv, UnitsMatch, InContext, Current, TypeOK
  <1>9. \A s \in Threads : InContext(s) => s = t
    BY <1>1 DEF LockIInv, LockMatchesContexts, InContext
  <1>10. DirtyIsOwned'
    <2>1. UnitOf(<<t, unit[t], i>>) = u
      BY DEF UnitOf
    <2>2. \A j \in 1..wrote'[u] : <<t, unit[t], j>> \in dirty'
      BY <1>1, <1>4, <1>5 DEF LockIInv, DirtyIsOwned, InContext, Current
    <2> QED
      BY <1>1, <1>4, <1>9, <2>1, <2>2 DEF LockIInv, DirtyIsOwned, InContext, Current
  <1>11. StoredIsDone'
    BY <1>1, <1>4, <1>5, UnitParts DEF LockIInv, StoredIsDone
  <1>12. BareWriteSurvives'
    BY <1>4 DEF LockIInv, BareWriteSurvives
  <1> QED
    BY <1>6, <1>7, <1>8, <1>10, <1>11, <1>12 DEF LockIInv

\* The outermost exit stores the whole transaction or discards all of it, and
\* nothing else is on the connection then.
LEMMA LeaveOutermostKeeps ==
    ASSUME LockIInv, NEW t \in Threads, LeaveOutermost(t)
    PROVE  LockIInv'
  <1> DEFINE u == <<t, unit[t]>>
  <1>1. /\ InContext(t) /\ unit[t] > 0 /\ kind[u] = "tx" /\ result[u] = "running"
        /\ owner = t /\ hold = 1 /\ depth[t] = 1
    BY DEF LeaveOutermost, LockIInv, UnitsMatch, LockMatchesContexts, InContext, Current
  <1>2. /\ dirty' = {} /\ inTx' = FALSE
        /\ owner' = NoOwner /\ hold' = 0
        /\ rollbackOnly' = [rollbackOnly EXCEPT ![t] = FALSE]
        /\ depth' = [depth EXCEPT ![t] = 0] /\ act' = [act EXCEPT ![t] = "idle"]
        /\ UNCHANGED <<unit, wrote, kind>>
    BY <1>1 DEF LeaveOutermost, PhysicalRollback, Release, LockIInv, TypeOK
  <1>3. PICK r \in {"ok", "raised"} :
           /\ End(t, r)
           /\ \/ r = "ok" /\ stored' = stored \cup dirty
              \/ r = "raised" /\ stored' = stored
    BY DEF LeaveOutermost, PhysicalRollback
  <1>4. UnitEnded(t, r)
    BY <1>1, <1>3, EndUnit DEF LockIInv
  <1>5. TypeOK'
    <2>1. poisoned' \in BOOLEAN
      BY DEF LeaveOutermost, PhysicalRollback, LockIInv, TypeOK
    <2>2. rollbackOnly' \in [Threads -> BOOLEAN]
      BY <1>2 DEF LockIInv, TypeOK
    <2>3. inTx' \in BOOLEAN
      BY <1>2
    <2> QED
      BY <1>2, <1>3, <1>4, <2>1, <2>2, <2>3, BoundsAssumption DEF LockIInv, TypeOK, UnitEnded
  <1>6. \A s \in Threads : ~InContext(s)' /\ (s # t => ~InContext(s) /\ act'[s] = act[s] /\ act[s] # "reading")
    BY <1>1, <1>2 DEF LockIInv, LockMatchesContexts, InContext, TypeOK
  <1>7. LockMatchesContexts' /\ DepthMatches'
    BY <1>1, <1>2, <1>6, ThreadsAssumption
       DEF LockIInv, LockMatchesContexts, DepthMatches, InContext, TypeOK
  <1>8. UnitsMatch'
    BY <1>2, <1>6 DEF LockIInv, UnitsMatch, Current, TypeOK
  <1>9. DirtyIsOwned'
    BY <1>2, <1>6 DEF DirtyIsOwned
  <1>10. StoredIsDone'
    <2>1. \A w \in dirty : UnitOf(w) = u
      BY <1>1 DEF LockIInv, DirtyIsOwned, Current
    <2>2. \A w \in stored : UnitOf(w) \in Units /\ UnitOf(w) # u
      BY <1>1, WriteParts DEF LockIInv, TypeOK, StoredIsDone
    <2>3. \A i \in 1..wrote[u] : <<t, unit[t], i>> \in dirty
      BY <1>1 DEF LockIInv, DirtyIsOwned, Current
    <2>4. \A w \in stored' : \/ kind'[UnitOf(w)] = "bare"
                             \/ kind'[UnitOf(w)] = "tx" /\ result'[UnitOf(w)] = "ok"
      BY <1>1, <1>2, <1>3, <1>4, <2>1, <2>2 DEF LockIInv, StoredIsDone, UnitEnded
    <2>5. ASSUME NEW s \in Threads, NEW n \in 1..MaxUnits,
                 kind'[<<s, n>>] = "tx", result'[<<s, n>>] = "ok"
          PROVE  \A i \in 1..wrote'[<<s, n>>] : <<s, n, i>> \in stored'
      <3>1. CASE <<s, n>> = u
        BY <1>2, <1>3, <1>4, <2>3, <2>5, <3>1 DEF UnitEnded
      <3>2. CASE <<s, n>> # u
        BY <1>2, <1>3, <1>4, <2>5, <3>2, UnitParts DEF UnitEnded, LockIInv, StoredIsDone
      <3> QED
        BY <3>1, <3>2
    <2> QED
      BY <2>4, <2>5 DEF StoredIsDone
  <1>11. BareWriteSurvives'
    <2>1. ASSUME NEW s \in Threads, act'[s] = "bare"
          PROVE  <<s, unit[s], 1>> \in stored
      <3>1. s # t /\ act[s] = "bare"
        BY <1>2, <2>1 DEF LockIInv, TypeOK
      <3>2. <<s, unit[s], 1>> \notin dirty
        BY <1>1, <3>1 DEF LockIInv, DirtyIsOwned, UnitOf, Current
      <3> QED
        BY <3>1, <3>2 DEF LockIInv, BareWriteSurvives
    <2> QED
      BY <1>2, <1>3, <2>1 DEF BareWriteSurvives
  <1> QED
    BY <1>5, <1>7, <1>8, <1>9, <1>10, <1>11 DEF LockIInv

(***************************************************************************)
(* The theorems                                                            *)
(***************************************************************************)

\* Every step keeps the invariant.
LEMMA NextIInv == LockIInv /\ [Next]_vars => LockIInv'
  <1> SUFFICES ASSUME LockIInv, [Next]_vars PROVE LockIInv'
    OBVIOUS
  <1>1. CASE UNCHANGED vars
    BY <1>1 DEF vars, lock, tls, physical, work, LockIInv, TypeOK, LockMatchesContexts,
       DepthMatches, UnitsMatch, DirtyIsOwned, StoredIsDone, BareWriteSurvives, InContext, Current
  <1>2. ASSUME NEW t \in Threads, Step(t) PROVE LockIInv'
    BY <1>2, BareExecuteKeeps, BareCommitKeeps, LockSteps, NoBeginKeeps, BeginKeeps,
       BodyWriteKeeps, LeaveOutermostKeeps DEF Step
  <1> QED
    BY <1>1, <1>2 DEF Next

\* The invariant holds in every reachable state.
THEOREM LockInvariance == LockSpec => []LockIInv
  BY InitIInv, NextIInv, PTL DEF LockSpec

\* The lock, the thread-local state and the connection keep their types.
THEOREM TypeCorrect == LockSpec => []TypeOK
  <1>1. LockIInv => TypeOK
    BY DEF LockIInv
  <1> QED
    BY <1>1, LockInvariance, PTL

\* Whatever raises in BEGIN, the body, COMMIT or the rollback, the RLock is held
\* exactly by the contexts and the cursor that are open: it is never kept.
THEOREM LockIsReturned == LockSpec => []LockMatchesContexts
  <1>1. LockIInv => LockMatchesContexts
    BY DEF LockIInv
  <1> QED
    BY <1>1, LockInvariance, PTL

\* transaction() is atomic: its writes are in the file all together once it
\* returned, and none of them before that or when it raised.
THEOREM Atomicity == LockSpec => []AllOrNothing
  <1>1. LockIInv => AllOrNothing
    <2> SUFFICES ASSUME LockIInv, NEW u \in Units, kind[u] = "tx"
                 PROVE  /\ result[u] = "ok" => WritesOf(u) \subseteq stored
                        /\ result[u] # "ok" => WritesOf(u) \cap stored = {}
      BY DEF AllOrNothing
    <2>1. u[1] \in Threads /\ u[2] \in 1..MaxUnits /\ u = <<u[1], u[2]>>
      BY UnitParts
    <2>2. ASSUME result[u] = "ok" PROVE WritesOf(u) \subseteq stored
      BY <2>1, <2>2 DEF LockIInv, StoredIsDone, WritesOf
    <2>3. ASSUME result[u] # "ok", NEW w \in stored, w \in WritesOf(u) PROVE FALSE
      <3>1. UnitOf(w) = u
        BY <2>1, <2>3 DEF WritesOf, UnitOf
      <3> QED
        BY <2>3, <3>1 DEF LockIInv, StoredIsDone
    <2> QED
      BY <2>2, <2>3
  <1> QED
    BY <1>1, LockInvariance, PTL

\* A thread that takes the free lock finds no piece of a transaction of another
\* thread on the connection (transaction()).
THEOREM Isolation == LockSpec => []NoForeignTransaction
  <1>1. LockIInv => NoForeignTransaction
    BY ThreadsAssumption
       DEF LockIInv, NoForeignTransaction, LockMatchesContexts, DirtyIsOwned, InContext, UnitOf
  <1> QED
    BY <1>1, LockInvariance, PTL

\* Between the execute() and the commit() of a bare write the connection is free:
\* whatever transactions other threads commit or roll back there, the write is
\* still on the connection or already in the file.
THEOREM BareWritesAreKept == LockSpec => []BareWriteSurvives
  <1>1. LockIInv => BareWriteSurvives
    BY DEF LockIInv
  <1> QED
    BY <1>1, LockInvariance, PTL
=============================================================================
