------------------------------ MODULE Lifecycle ------------------------------
(***************************************************************************)
(* Retention, trash and purge of backup files (backup_manager/lifecycle.py *)
(* and the trash handlers of app.py): the timer, the command line and the  *)
(* web application move and unlink files that rows of one SQLite file      *)
(* describe.                                                               *)
(*                                                                         *)
(* A file operation takes effect at once, for everybody and for good; the  *)
(* rows change when the writing connection commits.  db is what is         *)
(* committed, tx the writer's working copy.  A tick is a day: no run and   *)
(* no request lasts that long (TimeoutStartSec=1800).                      *)
(***************************************************************************)
EXTENDS Naturals, FiniteSets

CONSTANTS
  Runners,            \* processes that may be inside execute
  MaxBackups,         \* bound: rows of backups
  Rejected,           \* rejected rows of ftp_received_files
  MaxCount, MaxAge,   \* effective policy; 0 means unlimited
  TrashRetention,     \* days in the trash
  RejectedRetention,  \* days a rejected file stays where it is
  MaxRequests,        \* bound: web requests
  MaxCrashes,         \* bound: processes that die
  MaxRot,             \* bound: files whose content decays
  NoOne, Web, Saver   \* nobody, the web application, a process storing a backup

ASSUME LifecycleAssumption ==
  /\ MaxBackups \in Nat /\ MaxCount \in Nat /\ MaxAge \in Nat
  /\ TrashRetention \in Nat \ {0} /\ RejectedRetention \in Nat \ {0}
  /\ MaxRequests \in Nat /\ MaxCrashes \in Nat /\ MaxRot \in Nat
  /\ Runners \cap {NoOne, Web, Saver} = {}
  /\ NoOne # Web /\ NoOne # Saver /\ Web # Saver
  /\ Rejected \cap 1..MaxBackups = {} /\ NoOne \notin 1..MaxBackups

VARIABLES
  db, tx, writer,     \* committed tables, the writer's copy, the writer
  place,              \* the directory each file is in
  rotten,             \* files whose SHA-256 no longer matches their row
  pc, todo,           \* where each runner is, and the rows it has still to handle
  web,                \* the request being served
  saving,             \* the backup being stored, or NoOne
  misled,             \* history: runs whose choice a request has overtaken
  requests, crashes

vars == <<db, tx, writer, place, rotten, pc, todo, web, saving, misled, requests, crashes>>

Backups == 1..MaxBackups     \* in the order of received_at, id

\* path: relative_path is not NULL; age: days until the age limit; left: days
\* until trash_expires_at.
Row == [status : {"absent", "validating", "available", "trashed", "deleted"},
        path : BOOLEAN, age : 0..MaxAge, left : 0..TrashRetention]
NoRow == [status |-> "absent", path |-> FALSE, age |-> 0, left |-> 0]

\* A rejected file; left: days until the next retention of it ends.
Reject == [status : {"rejected", "trashed", "purged"}, left : Nat]

Tables == [rows : [Backups -> Row], rejects : [Rejected -> Reject]]

Idle == [op |-> "none", step |-> "none", todo |-> {}]
Request == [op : {"none", "restore", "trash", "purge"},
            step : {"none", "move", "unlink", "update"}, todo : SUBSET Backups]

-----------------------------------------------------------------------------
(* Queries and updates of the tables                                       *)

Available(d) == {b \in Backups : d.rows[b].status = "available"}
Trashed(d) == {b \in Backups : d.rows[b].status = "trashed"}
Newer(d, b) == {c \in Available(d) : c > b}

\* Mutant: one backup less than the policy keeps.
CandidatesOffByOne(d) ==
  {b \in Available(d) : \/ MaxCount > 0 /\ Cardinality(Newer(d, b)) + 1 >= MaxCount
                        \/ MaxAge > 0 /\ d.rows[b].age = 0}

\* The policy gives a backup up: too many newer ones, or too old.
Surplus(d, b) ==
  \/ MaxCount > 0 /\ Cardinality(Newer(d, b)) >= MaxCount
  \/ MaxAge > 0 /\ d.rows[b].age = 0

Candidates(d) == {b \in Available(d) : Surplus(d, b)}

SetRow(d, b, row) == [d EXCEPT !.rows[b] = row]

\* UPDATE ... WHERE id=? AND backup_status='available'
TrashAvailable(d, b) ==
  IF b \in Available(d)
  THEN SetRow(d, b, [d.rows[b] EXCEPT !.status = "trashed", !.left = TrashRetention])
  ELSE d

\* The updates of the web handlers and of the purge name the row by id alone.
TrashRow(d, b) == SetRow(d, b, [d.rows[b] EXCEPT !.status = "trashed", !.left = TrashRetention])
RestoreRow(d, b) == SetRow(d, b, [d.rows[b] EXCEPT !.status = "available", !.left = 0])
DeleteRow(d, b) == SetRow(d, b, [d.rows[b] EXCEPT !.status = "deleted", !.path = FALSE, !.left = 0])

\* Mutant: purge_expired forgets trash_expires_at and takes every candidate too.
ExpiredAny(d) == Trashed(d) \cup Available(d)

\* Mutant: purge_expired wants one day more than the trash keeps.
ExpiredLate(d) == {b \in Trashed(d) : d.rows[b].left > TrashRetention}

Expired(d) == {b \in Trashed(d) : d.rows[b].left = 0}

\* Rejected files a run moves to the trash, or unlinks from it.
DueRejects(d, status) == {x \in Rejected : d.rejects[x].status = status /\ d.rejects[x].left = 0}

SetRejects(d, xs, status, left) ==
  [d EXCEPT !.rejects = [x \in Rejected |->
      IF x \in xs THEN [status |-> status, left |-> left] ELSE d.rejects[x]]]

Moved(xs, from, to) == [x \in DOMAIN place |-> IF x \in xs /\ place[x] = from THEN to ELSE place[x]]

Less(n) == IF n = 0 THEN 0 ELSE n - 1
AgeTables(d) ==
  [d EXCEPT
     !.rows = [b \in Backups |-> [d.rows[b] EXCEPT !.age = Less(@), !.left = Less(@)]],
     !.rejects = [x \in Rejected |-> [d.rejects[x] EXCEPT !.left = Less(@)]]]

-----------------------------------------------------------------------------
Init ==
  /\ db = [rows    |-> [b \in Backups |-> NoRow],
           rejects |-> [x \in Rejected |-> [status |-> "rejected", left |-> RejectedRetention]]]
  /\ tx = db
  /\ writer = NoOne
  /\ place = [x \in Backups \cup Rejected |-> IF x \in Rejected THEN "rejected" ELSE "none"]
  /\ rotten = {}
  /\ pc = [r \in Runners |-> "idle"]
  /\ todo = [r \in Runners |-> {}]
  /\ web = Idle
  /\ saving = NoOne
  /\ misled = {}
  /\ requests = 0
  /\ crashes = 0

Commit(d) == db' = d /\ tx' = d /\ writer' = NoOne
Write(p, d) == tx' = d /\ writer' = p /\ db' = db
Rollback(p) == IF writer = p THEN tx' = db /\ writer' = NoOne /\ db' = db
                             ELSE UNCHANGED <<db, tx, writer>>
NoWrite == UNCHANGED <<db, tx, writer>>
Goto(r, l) == pc' = [pc EXCEPT ![r] = l]
Put(x, there) == place' = [place EXCEPT ![x] = there]

\* The runs that have made their choice still count the backup a request trashes now.
Overtaken == misled \cup {r \in Runners : pc[r] = "begin"}

IsNewest(b, bs) == b \in bs /\ \A c \in bs : c <= b
IsOldest(b, bs) == b \in bs /\ \A c \in bs : b <= c

-----------------------------------------------------------------------------
(* execute: a retention run                                                *)

\* The candidates are read before the run writes anything, each with the path
\* its row has now.
Select(r) ==
  /\ pc[r] = "idle"
  /\ todo' = [todo EXCEPT ![r] = {<<b, db.rows[b].path>> : b \in Candidates(db)}]
  /\ misled' = misled \ {r}
  /\ Goto(r, "begin")
  /\ NoWrite
  /\ UNCHANGED <<place, rotten, web, saving, requests, crashes>>

\* _new_run inserts the lifecycle run: from here on the runner is the writer.
Begin(r) ==
  /\ pc[r] = "begin"
  /\ writer = NoOne
  /\ Write(r, db)
  /\ Goto(r, "move")
  /\ UNCHANGED <<place, rotten, todo, web, saving, requests, crashes, misled>>

\* One candidate: its file is moved if it is where its row says (and if the
\* move does not fail), its row is trashed if it is still available.
MoveOne(r) ==
  /\ pc[r] = "move"
  /\ \E c \in todo[r] :
       LET b == c[1] IN
         /\ IsNewest(b, {q[1] : q \in todo[r]})
         /\ c[2]
         /\ \/ /\ place[b] = "backups"
               /\ Put(b, "trash")
               /\ Write(r, TrashAvailable(tx, b))
            \/ UNCHANGED place /\ NoWrite
         /\ todo' = [todo EXCEPT ![r] = @ \ {c}]
  /\ UNCHANGED <<rotten, pc, web, saving, requests, crashes, misled>>

\* resolve_inside raises for a row without a path: the run fails, the files it
\* has moved stay moved.
AbortRun(r) ==
  /\ pc[r] = "move"
  /\ \E c \in todo[r] : IsNewest(c[1], {q[1] : q \in todo[r]}) /\ ~c[2]
  /\ Rollback(r)
  /\ todo' = [todo EXCEPT ![r] = {}]
  /\ Goto(r, "idle")
  /\ UNCHANGED <<place, rotten, web, saving, requests, crashes, misled>>

\* trash_rejected, then the SELECT of purge_expired.
TrashRejected(r) ==
  /\ pc[r] = "move"
  /\ todo[r] = {}
  /\ LET xs == {x \in DueRejects(tx, "rejected") : place[x] = "rejected"} IN
       /\ place' = Moved(xs, "rejected", "trash")
       /\ Write(r, SetRejects(tx, xs, "trashed", TrashRetention))
  /\ todo' = [todo EXCEPT ![r] = {<<b, TRUE>> : b \in Expired(tx)}]
  /\ Goto(r, "purge")
  /\ UNCHANGED <<rotten, web, saving, requests, crashes, misled>>

\* purge_expired, one backup: unlinked if it is in the trash, deleted anyway.
PurgeOne(r) ==
  /\ pc[r] = "purge"
  /\ \E c \in todo[r] :
       LET b == c[1] IN
         /\ place' = Moved({b}, "trash", "none")
         /\ Write(r, DeleteRow(tx, b))
         /\ todo' = [todo EXCEPT ![r] = @ \ {c}]
  /\ UNCHANGED <<rotten, pc, web, saving, requests, crashes, misled>>

\* purge_expired, the rejected files.
PurgeRejected(r) ==
  /\ pc[r] = "purge"
  /\ todo[r] = {}
  /\ LET xs == DueRejects(tx, "trashed") IN
       /\ place' = Moved(xs, "trash", "none")
       /\ Write(r, SetRejects(tx, xs, "purged", 0))
  /\ Goto(r, "end")
  /\ UNCHANGED <<rotten, todo, web, saving, requests, crashes, misled>>

EndRun(r) ==
  /\ pc[r] = "end"
  /\ Commit(tx)
  /\ misled' = IF r \in misled THEN Overtaken \ {r} ELSE misled
  /\ Goto(r, "idle")
  /\ UNCHANGED <<place, rotten, todo, web, saving, requests, crashes>>

-----------------------------------------------------------------------------
(* The web application: one request at a time                              *)

Ask(op, step, bs) ==
  /\ web = Idle
  /\ requests < MaxRequests
  /\ requests' = requests + 1
  /\ web' = [op |-> op, step |-> step, todo |-> bs]
  /\ NoWrite
  /\ UNCHANGED <<place, rotten, pc, todo, saving, crashes, misled>>

\* restore: what it reads, and the hash it recomputes, before it moves.
AskRestore(b) ==
  /\ b \in Trashed(db) /\ db.rows[b].path
  /\ place[b] = "trash"
  /\ b \notin rotten
  /\ Ask("restore", "move", {b})

\* move_backup_to_trash
AskTrash(b) ==
  /\ b \in Available(db) /\ db.rows[b].path
  /\ place[b] = "backups"
  /\ Ask("trash", "move", {b})

\* purge_backup of one backup; empty_trash of all.
AskPurge(b) == b \in Trashed(db) /\ Ask("purge", "unlink", {b})
AskEmptyTrash == Trashed(db) # {} /\ Ask("purge", "unlink", Trashed(db))

WebIs(op, step) == web.op = op /\ web.step = step

\* Mutant: a file that has gone meanwhile does not fail the request.
WebMoveAnyway ==
  /\ web.step = "move"
  /\ \E b \in web.todo :
       place' = IF web.op = "restore" THEN Moved({b}, "trash", "backups")
                                      ELSE Moved({b}, "backups", "trash")
  /\ web' = [web EXCEPT !.step = "update"]
  /\ NoWrite
  /\ UNCHANGED <<rotten, pc, todo, saving, requests, crashes, misled>>

\* atomic_move; a file that has gone meanwhile fails the request.
WebMove ==
  /\ web.step = "move"
  /\ \E b \in web.todo :
       LET from == IF web.op = "restore" THEN "trash" ELSE "backups"
           to   == IF web.op = "restore" THEN "backups" ELSE "trash" IN
         /\ place' = Moved({b}, from, to)
         /\ web' = IF place[b] = from THEN [web EXCEPT !.step = "update"] ELSE Idle
  /\ NoWrite
  /\ UNCHANGED <<rotten, pc, todo, saving, requests, crashes, misled>>

RestoreUpdate ==
  /\ WebIs("restore", "update")
  /\ writer = NoOne
  /\ \E b \in web.todo : Commit(RestoreRow(db, b))
  /\ web' = Idle
  /\ UNCHANGED <<place, rotten, pc, todo, saving, requests, crashes, misled>>

TrashUpdate ==
  /\ WebIs("trash", "update")
  /\ writer = NoOne
  /\ \E b \in web.todo : Commit(TrashRow(db, b))
  /\ misled' = Overtaken
  /\ web' = Idle
  /\ UNCHANGED <<place, rotten, pc, todo, saving, requests, crashes>>

\* purge_backup, the file: refused when the row is no longer trashed or the
\* hash diverges.
PurgeUnlink ==
  /\ WebIs("purge", "unlink")
  /\ \E b \in web.todo :
       /\ IsOldest(b, web.todo)
       /\ \/ /\ b \notin Trashed(IF writer = Web THEN tx ELSE db) \/ (place[b] = "trash" /\ b \in rotten)
             /\ web' = [web EXCEPT !.todo = @ \ {b}]
             /\ UNCHANGED place
          \/ /\ b \in Trashed(IF writer = Web THEN tx ELSE db)
             /\ place[b] = "trash" => b \notin rotten
             /\ place' = Moved({b}, "trash", "none")
             /\ web' = [web EXCEPT !.step = "update"]
  /\ NoWrite
  /\ UNCHANGED <<rotten, pc, todo, saving, requests, crashes, misled>>

\* purge_backup, the row.
PurgeUpdate ==
  /\ WebIs("purge", "update")
  /\ writer \in {NoOne, Web}
  /\ \E b \in web.todo :
       /\ IsOldest(b, web.todo)
       /\ Write(Web, DeleteRow(tx, b))
       /\ web' = [web EXCEPT !.step = "unlink", !.todo = @ \ {b}]
  /\ UNCHANGED <<place, rotten, pc, todo, saving, requests, crashes, misled>>

PurgeEnd ==
  /\ WebIs("purge", "unlink")
  /\ web.todo = {}
  /\ IF writer = Web THEN Commit(tx) ELSE NoWrite
  /\ web' = Idle
  /\ UNCHANGED <<place, rotten, pc, todo, saving, requests, crashes, misled>>

\* SQLite gives the request up after 15 s: the rows stay, and so does what
\* the request did to the files.
WebLocked ==
  /\ web.step = "update"
  /\ writer \notin {NoOne, Web}
  /\ web' = Idle
  /\ NoWrite
  /\ UNCHANGED <<place, rotten, pc, todo, saving, requests, crashes, misled>>

-----------------------------------------------------------------------------
(* A backup arrives; processes die; files decay; days pass                 *)

\* save_ssh_backup and the importer: the row is inserted, the file moved in.
SaveStart ==
  /\ writer = NoOne
  /\ \E b \in Backups :
       /\ IsOldest(b, {c \in Backups : db.rows[c].status = "absent" /\ place[c] = "none"})
       /\ Write(Saver, SetRow(db, b, [NoRow EXCEPT !.status = "validating", !.path = TRUE, !.age = MaxAge]))
       /\ Put(b, "backups")
       /\ saving' = b
  /\ UNCHANGED <<rotten, pc, todo, web, requests, crashes, misled>>

SaveEnd ==
  /\ writer = Saver
  /\ Commit(SetRow(tx, saving, [tx.rows[saving] EXCEPT !.status = "available"]))
  /\ saving' = NoOne
  /\ UNCHANGED <<place, rotten, pc, todo, web, requests, crashes, misled>>

Die(p) ==
  /\ crashes < MaxCrashes
  /\ crashes' = crashes + 1
  /\ Rollback(p)
  /\ UNCHANGED <<place, rotten, requests, misled>>

RunnerDies(r) ==
  /\ pc[r] # "idle"
  /\ Die(r)
  /\ Goto(r, "idle")
  /\ todo' = [todo EXCEPT ![r] = {}]
  /\ UNCHANGED <<web, saving>>

WebDies == web # Idle /\ Die(Web) /\ web' = Idle /\ UNCHANGED <<pc, todo, saving>>

SaverDies == saving # NoOne /\ Die(Saver) /\ saving' = NoOne /\ UNCHANGED <<pc, todo, web>>

Rot(b) ==
  /\ place[b] # "none"
  /\ Cardinality(rotten) < MaxRot
  /\ rotten' = rotten \cup {b}
  /\ NoWrite
  /\ UNCHANGED <<place, pc, todo, web, saving, requests, crashes, misled>>

Tick ==
  /\ \A r \in Runners : pc[r] = "idle"
  /\ web = Idle /\ saving = NoOne
  /\ Commit(AgeTables(db))
  /\ UNCHANGED <<place, rotten, pc, todo, web, saving, requests, crashes, misled>>

Execute(r) ==
  \/ Select(r) \/ Begin(r) \/ MoveOne(r) \/ AbortRun(r)
  \/ TrashRejected(r) \/ PurgeOne(r) \/ PurgeRejected(r) \/ EndRun(r)

Serve == \/ WebMove \/ RestoreUpdate \/ TrashUpdate
         \/ PurgeUnlink \/ PurgeUpdate \/ PurgeEnd \/ WebLocked

Next ==
  \/ \E r \in Runners : Execute(r) \/ RunnerDies(r)
  \/ \E b \in Backups : AskRestore(b) \/ AskTrash(b) \/ AskPurge(b) \/ Rot(b)
  \/ AskEmptyTrash
  \/ Serve
  \/ SaveStart
  \/ SaveEnd
  \/ WebDies
  \/ SaverDies
  \/ Tick

Spec == Init /\ [][Next]_vars

\* The timer starts runs for ever; a request and a save, once begun, end.
LiveSpec == Spec /\ (\A r \in Runners : WF_vars(Execute(r))) /\ WF_vars(Serve) /\ WF_vars(SaveEnd)

-----------------------------------------------------------------------------
(* Properties                                                              *)

\* Every variable keeps its type.
TypeOK ==
  /\ db \in Tables /\ tx \in Tables
  /\ writer \in Runners \cup {NoOne, Web, Saver}
  /\ place \in [Backups \cup Rejected -> {"none", "rejected", "backups", "trash"}]
  /\ rotten \in SUBSET Backups
  /\ pc \in [Runners -> {"idle", "begin", "move", "purge", "end"}]
  /\ todo \in [Runners -> SUBSET (Backups \X BOOLEAN)]
  /\ web \in Request
  /\ saving \in Backups \cup {NoOne}
  /\ misled \in SUBSET Runners
  /\ requests \in 0..MaxRequests
  /\ crashes \in 0..MaxCrashes

\* A backup the database calls available still exists, in its directory or in
\* the trash, whichever processes died, raced or gave up (execute, restore,
\* purge_backup, save_ssh_backup); and every variable keeps its type.
NoBackupLost ==
  /\ TypeOK
  /\ \A b \in Available(db) : place[b] \in {"backups", "trash"}

\* BACKUP_LIFECYCLE.md:5: no cleaning unlinks an available backup; a file
\* disappears only after its row was committed as trashed, never in the run
\* that trashed it.
UnlinkedOnlyFromTrash ==
  [][\A b \in Backups : place[b] # "none" /\ place'[b] = "none"
       => db.rows[b].status = "trashed"]_vars

\* A backup that retention trashes is too old, or MaxCount newer backups are
\* still available when the run commits: execute reads its candidates before
\* its transaction begins (lifecycle.py:171), and saves, restores, purges and
\* other runs commit in between.  The runs whose choice a request of the trash
\* has overtaken are left out; NewestStay says what happens to them.
RetentionRespectsPolicy ==
  [][\A r \in Runners \ misled, b \in Backups :
       writer = r /\ b \in Available(db) /\ b \in Trashed(db') => Surplus(db', b)]_vars

\* BACKUP_LIFECYCLE.md: the newest backups are kept.  Not so: a request may
\* trash a newer backup after candidates was read, and the run, which looks at
\* nothing but the status of its own candidates, trashes the older one too.
NewestStay ==
  [][\A b \in Backups :
       writer \in Runners /\ b \in Available(db) /\ b \in Trashed(db') => Surplus(db', b)]_vars

\* A row that makes every later run fail: available, without a path.
Poisoned == \E b \in Available(db) : ~db.rows[b].path

\* An expired backup leaves the trash, unless a poisoned row stops the runs.
ExpiredEventuallyLeaves ==
  \A b \in Backups : (b \in Trashed(db) /\ db.rows[b].left = 0) ~> (b \notin Trashed(db) \/ Poisoned)
=============================================================================
