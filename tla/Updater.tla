-------------------------------- MODULE Updater --------------------------------
(***************************************************************************)
(* Updates of the installed application: packages arrive by upload (app.py) *)
(* or download (backup_manager/update_repository.py), a root helper         *)
(* (scripts/update-helper.py) installs them or rolls them back.  The unit   *)
(* and the command line may run it at the same time.                        *)
(*                                                                         *)
(* A restored database is another file at the same path: moved are the      *)
(* processes that still have the old one open.  SQLite refuses to begin     *)
(* writing to a file that was replaced; a transaction that has begun ends   *)
(* in the file nobody will open again.                                      *)
(***************************************************************************)
EXTENDS Naturals, FiniteSets

CONSTANTS
  Helpers,       \* processes that run update-helper.py
  Ops,           \* rows of update_operations, by id
  Latest,        \* versions that packages install: 1..Latest; 0 is installed at first
  MaxFaults      \* bound: killed processes

ASSUME UpdaterAssumption ==
  /\ Ops \subseteq Nat \ {0} /\ IsFiniteSet(Ops) /\ Ops # {}
  /\ Latest \in Nat \ {0} /\ MaxFaults \in Nat
  /\ "none" \notin Helpers /\ "fetch" \notin Helpers

VARIABLES
  app,           \* the version the application's files are of
  db,            \* the rows of the database in place
  incoming,      \* operations whose package is where the helper looks for it
  staged,        \* operations with a directory in staging
  backup,        \* the directories under updates/<uuid>
  used,          \* operations that exist or existed: their uuid is not given again
  writer,        \* the helper that writes in the file in place
  pc, op,        \* per helper: where it is, the operation
  moved,         \* processes whose open file was replaced
  fetch,         \* the download worker is at its download
  faults

vars == <<app, db, incoming, staged, backup, used, writer, pc, op, moved,
          fetch, faults>>

NoHelper == "none"
Installed == 0..Latest

\* Some files of one version, some of another.
Mixed == Latest + 1
App == Installed \cup {Mixed}

\* saved: backup_path is set.
Row == [status : {"none", "uploaded", "rejected", "ready", "success", "failed"},
        target : Installed, saved : BOOLEAN]
Created(v, s) == [status |-> s, target |-> v, saved |-> FALSE]
NoRow == [status |-> "none", target |-> 0, saved |-> FALSE]
Rows == [Ops -> Row]
NoBackup == [made |-> FALSE, whole |-> FALSE]
Begun == [made |-> TRUE, whole |-> FALSE]

-----------------------------------------------------------------------------
Init ==
  /\ app = 0
  /\ db = [o \in Ops |-> NoRow]
  /\ incoming = {} /\ staged = {}
  /\ backup = [o \in Ops |-> NoBackup]
  /\ used = {} /\ writer = NoHelper
  /\ pc = [h \in Helpers |-> "idle"]
  /\ op = [h \in Helpers |-> 0] /\ moved = {}
  /\ fetch = FALSE
  /\ faults = 0

Packages == <<used, incoming, fetch>>
Disk == <<app, staged, backup>>
Process == <<op, moved>>

Goto(h, l) == pc' = [pc EXCEPT ![h] = l]
Done(h) ==
  /\ Goto(h, "idle")
  /\ op' = [op EXCEPT ![h] = 0] /\ moved' = moved \ {h}
Status(o) == db[o].status

\* A connection of its own sees the file in place and waits for its writer.
Free == writer = NoHelper
Left(h) == IF writer = h THEN NoHelper ELSE writer

NextOp == {o \in Ops \ used : \A q \in Ops : q < o => q \in used}

-----------------------------------------------------------------------------
(* The helper                                                              *)

\* A process that starts while files are replaced has the one version or the other.
Code == IF app = Mixed THEN Installed ELSE {app}

\* validate_package: the package can be read and is newer than the code that
\* reads it.
Valid(v, o) == o \in incoming /\ db[o].target > v

\* record_validation
Recorded(o) == IF Status(o) = "uploaded" THEN [db EXCEPT ![o].status = "ready"] ELSE db

Refuse(h, o) == op' = [op EXCEPT ![h] = o] /\ Goto(h, "failing")

Validate(h) ==
  /\ pc[h] = "idle"
  /\ \E o \in used, v \in Code :
       IF Valid(v, o)
       THEN Free /\ db' = Recorded(o) /\ UNCHANGED <<op, pc>>
       ELSE Refuse(h, o) /\ UNCHANGED db
  /\ UNCHANGED <<writer, faults, moved>> /\ UNCHANGED Disk /\ UNCHANGED Packages

\* safe_extract: the directory must not exist.
Stageable(o) == o \notin staged

Stage(h) ==
  /\ pc[h] = "idle"
  /\ \E o \in used, v \in Code :
       IF Status(o) = "ready" /\ Valid(v, o) /\ Stageable(o)
       THEN staged' = staged \cup {o} /\ UNCHANGED <<op, pc>>
       ELSE Refuse(h, o) /\ UNCHANGED staged
  /\ UNCHANGED <<db, writer, faults, app, backup, moved>>
  /\ UNCHANGED Packages

\* apply up to its first write; update-apply wants a ready operation, the unit takes
\* the first one.
Extract(h) ==
  /\ pc[h] = "idle"
  /\ \E o \in used, v \in Code :
       /\ Status(o) = "ready"
       /\ op' = [op EXCEPT ![h] = o]
       /\ IF Valid(v, o) /\ Stageable(o)
          THEN staged' = staged \cup {o} /\ Goto(h, "begin")
          ELSE Goto(h, "failing") /\ UNCHANGED staged
  /\ UNCHANGED <<db, writer, faults, app, backup, moved>>
  /\ UNCHANGED Packages

\* Mutant: the first write is committed at once.
Committed(h) == NoHelper

\* The first write opens the transaction that ends with the operation: nobody
\* else sees 'applying' or 'rolling_back'.
Written(h) == h

\* It waits fifteen seconds for another writer.
Begin(h) ==
  /\ pc[h] \in {"begin", "begin undo"}
  /\ \/ /\ h \notin moved /\ Free
        /\ writer' = Written(h)
        /\ Goto(h, IF pc[h] = "begin" THEN "backup" ELSE "undo")
     \/ /\ h \in moved \/ ~Free
        /\ Goto(h, "failing")
        /\ UNCHANGED writer
  /\ UNCHANGED <<db, faults>> /\ UNCHANGED Disk /\ UNCHANGED Packages /\ UNCHANGED Process

\* create_backup: the files that exist, then what is committed.
CreateBackup(h) ==
  /\ pc[h] = "backup"
  /\ IF backup[op[h]].made
     THEN Goto(h, "failing") /\ UNCHANGED backup
     ELSE /\ backup' = [backup EXCEPT ![op[h]] = [made |-> TRUE, whole |-> TRUE, app |-> app, db |-> db]]
          /\ Goto(h, "apply files")
  /\ UNCHANGED <<db, writer, faults, app, staged>>
  /\ UNCHANGED Packages /\ UNCHANGED Process

\* The services stop, the files are replaced one by one; any of it may fail.
ApplyFiles(h) ==
  /\ pc[h] = "apply files"
  /\ \/ app' = Mixed /\ UNCHANGED pc
     \/ app = Mixed /\ app' = db[op[h]].target /\ Goto(h, "migrate")
     \/ UNCHANGED app /\ Goto(h, "restore")
  /\ UNCHANGED <<db, writer, faults, staged, backup>>
  /\ UNCHANGED Packages /\ UNCHANGED Process

\* run_migrations has a connection of its own, which the helper's transaction
\* keeps from writing; without a migration it only reads.
RunMigrations(h) ==
  /\ pc[h] = "migrate"
  /\ \E pending \in BOOLEAN : Goto(h, IF pending /\ ~Free THEN "restore" ELSE "start")
  /\ UNCHANGED <<db, writer, faults>> /\ UNCHANGED Disk /\ UNCHANGED Packages /\ UNCHANGED Process

\* The services start, success is committed; or they do not start.
Succeed(h) ==
  /\ pc[h] = "start"
  /\ \/ /\ db' = [db EXCEPT ![op[h]].status = "success", ![op[h]].saved = TRUE]
        /\ writer' = Left(h)
        /\ Done(h)
     \/ Goto(h, "restore") /\ UNCHANGED <<db, writer, op, moved>>
  /\ UNCHANGED <<faults, app, staged, backup>>
  /\ UNCHANGED Packages

\* Mutant: the application is left as it is.
Kept(o) == app

\* restore_backup puts back the files the backup has (files that were added stay,
\* app is about the others).
Restored(o) == backup[o].app

RestoreFiles(h) ==
  /\ pc[h] \in {"restore", "undo"}
  /\ app' = Restored(op[h])
  /\ Goto(h, IF pc[h] = "restore" THEN "restore db" ELSE "undo db")
  /\ UNCHANGED <<db, writer, faults, staged, backup>>
  /\ UNCHANGED Packages /\ UNCHANGED Process

\* Then the database.  What the helper wrote is in the file that was replaced,
\* 'rolled_back' as well; or its last write fails.  The services may not start either.
RestoreDatabase(h) ==
  /\ pc[h] \in {"restore db", "undo db"}
  /\ db' = backup[op[h]].db
  /\ writer' = Left(h)
  /\ moved' = {g \in Helpers \ {h} : pc[g] \in {"begin", "begin undo"}}
             \cup IF fetch THEN {"fetch"} ELSE {}
  /\ \/ Goto(h, "failing") /\ UNCHANGED op
     \/ pc[h] = "undo db" /\ Goto(h, "idle") /\ op' = [op EXCEPT ![h] = 0]
  /\ UNCHANGED <<faults, app, staged, backup>>
  /\ UNCHANGED Packages

\* The handler's own connection; it gives up when it cannot write.
Failing(h) ==
  /\ pc[h] = "failing"
  /\ writer' = Left(h)
  /\ IF writer \in {NoHelper, h}
     THEN db' = [db EXCEPT ![op[h]].status = IF @ = "none" THEN @ ELSE "failed"]
     ELSE UNCHANGED db
  /\ Done(h)
  /\ UNCHANGED <<faults>> /\ UNCHANGED Disk /\ UNCHANGED Packages

RollBack(h) ==
  /\ pc[h] = "idle"
  /\ \E o \in used :
       /\ op' = [op EXCEPT ![h] = o]
       /\ Goto(h, IF Status(o) \in {"failed", "success"} /\ db[o].saved THEN "begin undo" ELSE "failing")
  /\ UNCHANGED <<db, writer, faults, moved>> /\ UNCHANGED Disk /\ UNCHANGED Packages

\* A kill rolls the transaction back and leaves everything else as it is; a
\* backup it interrupts has no manifest.
Killed(h) ==
  /\ pc[h] # "idle" /\ faults < MaxFaults
  /\ faults' = faults + 1
  /\ writer' = Left(h)
  /\ backup' = IF pc[h] = "backup" /\ ~backup[op[h]].made
               THEN [backup EXCEPT ![op[h]] = Begun] ELSE backup
  /\ Done(h)
  /\ UNCHANGED <<db, app, staged>>
  /\ UNCHANGED Packages

-----------------------------------------------------------------------------
(* Packages arrive                                                         *)

World == <<app, staged, backup, writer, pc, op, moved, faults>>

\* handle_update_upload: the package is accepted or refused, by a process that may
\* run an older version's code; or the request ends after the row was committed.
Upload ==
  /\ Free
  /\ \E o \in NextOp, v \in 1..Latest, s \in {"uploaded", "ready", "rejected"} :
       /\ db' = [db EXCEPT ![o] = Created(v, s)]
       /\ used' = used \cup {o}
       /\ incoming' = IF s = "rejected" THEN incoming ELSE incoming \cup {o}
  /\ UNCHANGED <<fetch>> /\ UNCHANGED World

\* run_download_once takes a queued row (queue_download does not queue a release
\* twice) if check_updates has not found another release since.
TakeDownload ==
  /\ ~fetch /\ Free
  /\ fetch' = TRUE
  /\ UNCHANGED <<db, used, incoming>> /\ UNCHANGED World

\* The package is moved to the download's name; the operation that is created
\* ready has a name of its own.  A replaced database refuses what it writes.
Package ==
  /\ fetch /\ "fetch" \notin moved /\ Free
  /\ \/ \E o \in NextOp :
          /\ db' = [db EXCEPT ![o] = Created(Latest, "ready")]
          /\ used' = used \cup {o}
     \/ UNCHANGED <<db, used>>
  /\ fetch' = FALSE
  /\ UNCHANGED <<incoming>> /\ UNCHANGED World

\* It is killed, waits too long, or finds its database replaced: the row stays.
DownloadEnds ==
  /\ fetch /\ fetch' = FALSE
  /\ moved' = moved \ {"fetch"}
  /\ \/ "fetch" \in moved /\ UNCHANGED faults
     \/ faults < MaxFaults /\ faults' = faults + 1
  /\ UNCHANGED <<used, db, incoming>>
  /\ UNCHANGED <<app, staged, backup, writer, pc, op>>

-----------------------------------------------------------------------------
Help(h) ==
  \/ Validate(h) \/ Stage(h) \/ Extract(h) \/ Begin(h) \/ CreateBackup(h)
  \/ ApplyFiles(h) \/ RunMigrations(h) \/ Succeed(h)
  \/ RestoreFiles(h) \/ RestoreDatabase(h) \/ Failing(h) \/ RollBack(h)

Arrive == Upload \/ TakeDownload \/ Package \/ DownloadEnds

Next == (\E h \in Helpers : Help(h) \/ Killed(h)) \/ Arrive

Spec == Init /\ [][Next]_vars

-----------------------------------------------------------------------------
(* Properties                                                              *)

Changing == {"backup", "apply files", "migrate", "start", "restore", "restore db", "undo", "undo db"}

TypeOK ==
  /\ app \in App /\ db \in Rows
  /\ used \subseteq Ops /\ incoming \subseteq used /\ staged \subseteq used
  /\ writer \in Helpers \cup {NoHelper}
  /\ pc \in [Helpers -> Changing \cup {"idle", "begin", "begin undo", "failing"}]
  /\ op \in [Helpers -> Ops \cup {0}] /\ moved \subseteq Helpers \cup {"fetch"}
  /\ fetch \in BOOLEAN

\* One helper at a time changes the application and the database, and it writes
\* in the file that is in place: the lock is the transaction it keeps open.
OneInstaller ==
  /\ TypeOK
  /\ \A h \in Helpers : pc[h] \in Changing => writer = h /\ h \notin moved

\* Unless a helper was killed, the version that is installed is the first one or
\* one the database in place knows, with a whole backup of what was before: a
\* failed update has been undone, a success can be (docs/UPDATES.md).
Reversible ==
  faults = 0 /\ writer = NoHelper =>
    \/ app = 0
    \/ \E o \in Ops : db[o].saved /\ db[o].target = app /\ backup[o].whole
=============================================================================
