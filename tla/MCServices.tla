----------------------------- MODULE MCServices -----------------------------
(***************************************************************************)
(* Three services of Core that share no state, and the SQLite connection   *)
(* they write through, checked in one run: a behaviour is a behaviour of   *)
(* one of the four, chosen at the start, while the variables of the others *)
(* keep one fixed value.                                                   *)
(***************************************************************************)
EXTENDS AccessControl, AppServices, StorageFiles, LockedConnection, TLC

VARIABLE part

acIdle == /\ core = None /\ clock = 0 /\ jar = None /\ issued = {} /\ grants = <<>>
svIdle == /\ version = 0 /\ phase = "closed" /\ dash = None /\ queues = <<>> /\ calls = <<>>
          /\ screen = None /\ due = None /\ svc = None /\ link = FALSE /\ broker = None
          /\ asked = 0
sfIdle == /\ db = None /\ boot = None /\ bk = None /\ dest = NoFile /\ first = NoFile
          /\ cli = None /\ purged = {} /\ kills = 0

MCInit == \/ part = "access" /\ AcInit /\ svIdle /\ sfIdle /\ Init
          \/ part = "services" /\ SvInit /\ acIdle /\ sfIdle /\ Init
          \/ part = "files" /\ SfInit /\ acIdle /\ svIdle /\ Init
          \/ part = "connection" /\ Init /\ acIdle /\ svIdle /\ sfIdle

MCNext == \/ part = "access" /\ AcNext /\ UNCHANGED <<part, svVars, sfVars, vars>>
          \/ part = "services" /\ SvNext /\ UNCHANGED <<part, acVars, sfVars, vars>>
          \/ part = "files" /\ SfNext /\ UNCHANGED <<part, acVars, svVars, vars>>
          \/ part = "connection" /\ Next /\ UNCHANGED <<part, acVars, svVars, sfVars>>

Spec == MCInit /\ [][MCNext]_<<part, acVars, svVars, sfVars, vars>>

\* Which token, which secret and which thread is which matters to no property.
Symmetric == Permutations(Tokens) \cup Permutations(Secrets) \cup Permutations(Threads)

\* The properties of the three services, each for the behaviours of its own part; those of
\* LockedConnection hold of a connection at rest too.

\* get_auth_session agrees with authenticate_request (AccessControl).
AccessStatusTellsTheTruth == part = "access" => StatusTellsTheTruth

\* What a session opens rests on the credentials in force (AccessControl).
AccessRestsOnLiveCredentials == part = "access" => SessionsRestOnLiveCredentials

\* Browsers and broker get the last dashboard (AppServices).
WatchersGetTheLastWord == part = "services" => LastWordArrives

\* close() leaves nothing running (AppServices).
ClosedContextIsQuiet == part = "services" => ClosedIsQuiet

\* schema_migrations never runs ahead of the schema (StorageFiles).
FileSchemaIsHonest == part = "files" => SchemaIsHonest

\* A backup is all or nothing (StorageFiles).
FileBackupIsWhole == part = "files" => BackupIsWhole
=============================================================================
