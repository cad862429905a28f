---------------------------- MODULE StorageFiles ----------------------------
(***************************************************************************)
(* The database file and the processes that open it: Core starting up     *)
(* (db/connection.py migrate, the integrity gates and the first retention  *)
(* of app/context.py bootstrap), an online backup (storage/backup.py) and  *)
(* the maintenance command (cli_storage.py).  A process can be killed and  *)
(* the power can fail between any two steps.                               *)
(*                                                                         *)
(* Data: the rows are a version number that grows with every write; a      *)
(* migration script is the number of its statements that are in the file,  *)
(* each of them committed as it runs (executescript has no transaction).   *)
(***************************************************************************)
EXTENDS Integers, FiniteSets

CONSTANTS NoFile,
          Versions,     \* the migrations this release ships: 1 .. n
          Alters,       \* those that add a column and so run only once
          Statements,   \* statements per script
          MaxRows,      \* bound on writes
          MaxKills      \* bound on killed processes and power failures

ASSUME FilesAssumption == /\ Versions \subseteq Nat \ {0} /\ Alters \subseteq Versions
                          /\ Statements \in Nat \ {0}

VARIABLES db,      \* [run, recorded, later, rows, sound]: the database file
          boot,    \* Core: [pc, at]
          bk,      \* the backup command: [pc, tmp, from, synced, name, overwrite]
          dest,    \* the file at the backup's destination
          first,   \* history: that file when the backup started
          cli,     \* storage maintenance --apply: [pc]
          purged,  \* history: who deleted expired rows, and from which schema
          kills
sfVars == <<db, boot, bk, dest, first, cli, purged, kills>>

Torn == [kind |-> "torn", rows |-> 0]
Other == [kind |-> "other", rows |-> 0]
Copy(n) == [kind |-> "copy", rows |-> n]

\* The highest recorded version is the one this release knows.
CurrentSchema == db.recorded = Versions /\ ~db.later
Complete(v) == db.run[v] = Statements

\* What a deletion leaves in the history: by whom, and whether the schema it
\* worked on had all of this release and something of a later one.
Deletion(who) == [by |-> who, whole |-> \A v \in Versions : Complete(v), later |-> db.later]

----------------------------------------------------------------------------
(* Core starts: migrate(), the gates, retention, then it serves.  migrate() *)
(* looks for its own versions only: a file of a later release has them all. *)

Pending == Versions \ db.recorded
NextVersion == CHOOSE v \in Pending : \A w \in Pending : v <= w

Start == /\ boot.pc = "down"
         /\ boot' = [boot EXCEPT !.pc = "migrating", !.at = 0]
         /\ UNCHANGED <<db, bk, dest, first, cli, purged, kills>>

\* One statement of executescript: an ALTER TABLE that is already in the file
\* raises, everything else says IF NOT EXISTS or can be run again.
RunStatement ==
    /\ boot.pc = "migrating" /\ Pending # {} /\ boot.at < Statements
    /\ IF NextVersion \in Alters /\ db.run[NextVersion] > boot.at
       THEN boot' = [boot EXCEPT !.pc = "failed"] /\ UNCHANGED db
       ELSE /\ boot' = [boot EXCEPT !.at = @ + 1]
            /\ db' = [db EXCEPT !.run[NextVersion] = IF @ > boot.at THEN @ ELSE boot.at + 1]
    /\ UNCHANGED <<bk, dest, first, cli, purged, kills>>

Mut_RecordVersion ==
    /\ boot.pc = "migrating" /\ Pending # {} /\ boot.at = Statements - 1
    /\ db' = [db EXCEPT !.recorded = @ \cup {NextVersion}]
    /\ boot' = [boot EXCEPT !.at = 0]
    /\ UNCHANGED <<bk, dest, first, cli, purged, kills>>

\* The row in schema_migrations is committed after the whole script.
RecordVersion ==
    /\ boot.pc = "migrating" /\ Pending # {} /\ boot.at = Statements
    /\ db' = [db EXCEPT !.recorded = @ \cup {NextVersion}]
    /\ boot' = [boot EXCEPT !.at = 0]
    /\ UNCHANGED <<bk, dest, first, cli, purged, kills>>

\* quick_check and foreign_key_check
SoundFile == db.sound

\* run_startup_integrity_gates: before anything is deleted.
Gates == /\ boot.pc = "migrating" /\ Pending = {}
         /\ boot' = [boot EXCEPT !.pc = IF SoundFile THEN "gated" ELSE "failed"]
         /\ UNCHANGED <<db, bk, dest, first, cli, purged, kills>>

FirstRetention == /\ boot.pc = "gated" /\ db.rows < MaxRows
                  /\ purged' = purged \cup {Deletion("core")}
                  /\ db' = [db EXCEPT !.rows = @ + 1]
                  /\ boot' = [boot EXCEPT !.pc = "up"]
                  /\ UNCHANGED <<bk, dest, first, cli, kills>>

Write == /\ boot.pc = "up" /\ db.rows < MaxRows
         /\ db' = [db EXCEPT !.rows = @ + 1]
         /\ UNCHANGED <<boot, bk, dest, first, cli, purged, kills>>

----------------------------------------------------------------------------
(* zigbeelens storage backup *)

StartBackup(overwrite) ==
    /\ bk.pc = "none"
    /\ dest = NoFile \/ overwrite
    /\ first' = dest
    /\ bk' = [bk EXCEPT !.pc = "copy", !.tmp = Torn, !.from = db.rows, !.overwrite = overwrite]
    /\ UNCHANGED <<db, boot, dest, cli, purged, kills>>

\* The backup API copies page by page and starts over when another connection
\* wrote in between: what it ends with is one committed state of the source.
CopyPages == /\ bk.pc = "copy"
             /\ bk' = [bk EXCEPT !.pc = "validate", !.tmp = Copy(db.rows)]
             /\ UNCHANGED <<db, boot, dest, first, cli, purged, kills>>

\* The finally of backup_sqlite_database: the temporary file is removed.
Failed == [bk EXCEPT !.pc = "failed", !.tmp = NoFile]

\* _validate_backup_file, on the copy
ValidateCopy == /\ bk.pc = "validate"
                /\ bk' = IF db.sound THEN [bk EXCEPT !.pc = "sync"] ELSE Failed
                /\ UNCHANGED <<db, boot, dest, first, cli, purged, kills>>

Mut_SyncCopy == /\ bk.pc = "sync"
                /\ bk' = [bk EXCEPT !.pc = "replace"]
                /\ UNCHANGED <<db, boot, dest, first, cli, purged, kills>>

SyncCopy == /\ bk.pc = "sync"
            /\ bk' = [bk EXCEPT !.pc = "replace", !.synced = TRUE]
            /\ UNCHANGED <<db, boot, dest, first, cli, purged, kills>>

\* os.replace: the name goes from the old file to the new one at once.
ReplaceDestination == /\ bk.pc = "replace"
                      /\ dest' = bk.tmp
                      /\ bk' = [bk EXCEPT !.pc = "directory", !.tmp = NoFile, !.name = "new"]
                      /\ UNCHANGED <<db, boot, first, cli, purged, kills>>

\* The directory is synced too, but a backup whose directory cannot be synced
\* is reported like any other.
SyncDirectory == /\ bk.pc = "directory"
                 /\ \E name \in {"new", "durable"} :
                       bk' = [bk EXCEPT !.pc = "done", !.name = name]
                 /\ UNCHANGED <<db, boot, dest, first, cli, purged, kills>>

\* Any step can raise (a full disk, an unreadable source).
BackupRaises == /\ bk.pc \in {"copy", "sync", "replace"}
                /\ bk' = Failed
                /\ UNCHANGED <<db, boot, dest, first, cli, purged, kills>>

----------------------------------------------------------------------------
(* zigbeelens storage maintenance --apply *)

\* The read-only look: an unsupported or damaged file is left alone.
Preflight == /\ cli.pc = "none"
             /\ cli' = [cli EXCEPT !.pc = IF CurrentSchema /\ SoundFile THEN "open" ELSE "refused"]
             /\ UNCHANGED <<db, boot, bk, dest, first, purged, kills>>

\* Database.open_existing runs no migration; both checks are made again.
OpenExisting == /\ cli.pc = "open"
                /\ cli' = [cli EXCEPT !.pc = IF CurrentSchema /\ SoundFile THEN "apply" ELSE "refused"]
                /\ UNCHANGED <<db, boot, bk, dest, first, purged, kills>>

Apply == /\ cli.pc = "apply" /\ db.rows < MaxRows
         /\ purged' = purged \cup {Deletion("command")}
         /\ db' = [db EXCEPT !.rows = @ + 1]
         /\ cli' = [cli EXCEPT !.pc = "done"]
         /\ UNCHANGED <<boot, bk, dest, first, kills>>

----------------------------------------------------------------------------
KillCore == /\ kills < MaxKills /\ boot.pc # "down"
            /\ boot' = [boot EXCEPT !.pc = "down"]
            /\ kills' = kills + 1
            /\ UNCHANGED <<db, bk, dest, first, cli, purged>>

Ended == {"none", "done", "failed", "killed", "lost"}

KillBackup == /\ kills < MaxKills /\ bk.pc \notin Ended
              /\ bk' = [bk EXCEPT !.pc = "killed"]
              /\ kills' = kills + 1
              /\ UNCHANGED <<db, boot, dest, first, cli, purged>>

\* What was not synced may be gone after a power failure: the contents of the
\* copy, or the name it was given.
PowerFails ==
    /\ kills < MaxKills /\ kills' = kills + 1
    /\ boot' = [boot EXCEPT !.pc = "down"]
    /\ \/ /\ dest' = IF bk.name # "old" /\ ~bk.synced THEN Torn ELSE dest
          /\ bk' = [bk EXCEPT !.pc = IF @ \in Ended THEN @ ELSE "killed",
                              !.name = IF @ = "new" THEN "durable" ELSE @]
       \/ /\ bk.name = "new"
          /\ dest' = first
          /\ bk' = [bk EXCEPT !.pc = "lost", !.tmp = dest, !.name = "old"]
    /\ cli' = IF cli.pc \in {"open", "apply"} THEN [cli EXCEPT !.pc = "none"] ELSE cli
    /\ UNCHANGED <<db, first, purged>>

Damage == /\ db.sound /\ kills < MaxKills
          /\ db' = [db EXCEPT !.sound = FALSE]
          /\ kills' = kills + 1
          /\ UNCHANGED <<boot, bk, dest, first, cli, purged>>

\* A file of an earlier release has a prefix of the migrations, one of a later
\* release has them all and more (docs/upgrades.md, "Rollback").
SfInit ==
        /\ \E n \in Versions \cup {0}, later \in BOOLEAN :
              /\ later => \A v \in Versions : v <= n
              /\ db = [run |-> [v \in Versions |-> IF v <= n THEN Statements ELSE 0],
                       recorded |-> {v \in Versions : v <= n}, later |-> later, rows |-> 0,
                       sound |-> TRUE]
        /\ boot = [pc |-> "down", at |-> 0]
        /\ bk = [pc |-> "none", tmp |-> NoFile, from |-> 0, synced |-> FALSE, name |-> "old",
                 overwrite |-> FALSE]
        /\ dest \in {NoFile, Other} /\ first = NoFile
        /\ cli = [pc |-> "none"] /\ purged = {} /\ kills = 0

SfNext ==
        \/ Start \/ RunStatement \/ RecordVersion \/ Gates \/ FirstRetention \/ Write
        \/ (\E o \in BOOLEAN : StartBackup(o))
        \/ CopyPages \/ ValidateCopy \/ SyncCopy \/ ReplaceDestination \/ SyncDirectory \/ BackupRaises
        \/ Preflight \/ OpenExisting \/ Apply
        \/ KillCore \/ KillBackup \/ PowerFails \/ Damage

----------------------------------------------------------------------------
(* Properties *)

\* The table of migrations never runs ahead of the schema, wherever Core is
\* killed.  Nothing is deleted, by the first retention of a start or by the
\* maintenance command that races with it, from a file that lacks a statement of
\* this release's migrations; and the command, unlike Core, deletes nothing from
\* the file of a later release either.
SchemaIsHonest ==
    /\ \A v \in db.recorded : Complete(v)
    /\ \A d \in purged : d.whole /\ (d.by = "command" => ~d.later)

\* A backup is all or nothing: whatever fails, is killed or loses power, the
\* destination is the file it was or a whole copy of a state the database had
\* since the backup began; a backup that was reported is there, unless the power
\* failed when its directory could not be synced; and a backup that ended by
\* itself leaves no temporary file.
BackupIsWhole ==
    /\ bk.pc # "none" =>
         \/ dest = first /\ bk.pc # "done"
         \/ /\ bk.pc \in {"directory", "done", "killed"} /\ dest.kind = "copy"
            /\ bk.from <= dest.rows /\ dest.rows <= db.rows
    /\ bk.pc \in {"done", "failed"} => bk.tmp = NoFile
=============================================================================
