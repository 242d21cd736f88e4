-------------------------------- MODULE Jobs --------------------------------
(***************************************************************************)
(* The job engine of backup_manager/jobs.py: manual and scheduled runs of  *)
(* backup jobs, executed by processes that call run_once (the systemd      *)
(* worker unit and `cli jobs-run-once`), over one SQLite file.             *)
(*                                                                         *)
(* SQLite admits one writing connection at a time.  A connection becomes   *)
(* the writer at its first INSERT, UPDATE or DELETE and stays the writer   *)
(* until it commits or rolls back; every other connection keeps reading    *)
(* the committed tables.  db is what is committed, tx the writer's working *)
(* copy.  Times are kept as what is left of them (ticks), so behaviours    *)
(* need no last instant.                                                   *)
(***************************************************************************)
EXTENDS Naturals, FiniteSets

\* "dry_run" stands for 'dry_run' and 'manual'.
Methods == {"ssh", "ftp", "dry_run"}

CONSTANTS
  Workers,        \* processes that may be inside run_once
  JobIds,         \* rows of backup_jobs
  Equipment,      \* rows of equipment
  EquipmentOf,    \* the equipment each job is made for
  MethodOf,       \* the method it is made with
  Periods,        \* ticks between two occurrences of a schedule
  RunTimeout,     \* settings.job_run_timeout_seconds, in ticks
  ConfiguredTTL,  \* settings.job_worker_lock_seconds, in ticks
  OpTimeout,      \* ticks an OLT has to deliver its files
  MaxRuns,        \* bound: rows of backup_job_runs
  MaxCrashes,     \* bound: worker processes that die
  MaxEdits,       \* bound: administrative changes
  NoOne           \* no process, no job, no run

ASSUME JobsAssumption ==
  /\ EquipmentOf \in [JobIds -> Equipment]
  /\ MethodOf \in [JobIds -> Methods]
  /\ Periods \in Nat \ {0}
  /\ RunTimeout \in Nat \ {0}
  /\ ConfiguredTTL \in Nat
  /\ OpTimeout \in Nat \ {0}
  /\ MaxRuns \in Nat
  /\ MaxCrashes \in Nat
  /\ MaxEdits \in Nat
  /\ NoOne \notin Workers
  /\ NoOne \notin JobIds
  /\ NoOne \notin 1..MaxRuns

VARIABLES
  db,       \* the committed tables
  tx,       \* the tables as the writing connection sees them
  writer,   \* the worker whose transaction is open, or NoOne
  pc,       \* where each worker is in run_once
  seen,     \* run ids a worker fetched and has still to handle
  due,      \* job ids a worker fetched from due_jobs and has still to queue
  cur,      \* the run a worker is executing
  late,     \* a tick has passed since the worker committed its claim
  web,      \* the job a web request has checked and is about to queue
  disk,     \* backup files stored for each run
  execs,    \* times a run was handed to its method
  crashes, edits

vars == <<db, tx, writer, pc, seen, due, cur, late, web, disk, execs, crashes, edits>>

RunIds == 1..MaxRuns
LockTTL == IF ConfiguredTTL > RunTimeout + 1 THEN ConfiguredTTL ELSE RunTimeout + 1

Statuses == {"absent", "queued", "running", "success", "failed", "timeout"}
Finished == {"success", "failed", "timeout"}
Active == {"queued", "running"}

\* What a run copies from its job when it is queued: job_id, equipment_id, method.
Tasks == [job : JobIds, equipment : Equipment, method : Methods]

\* left: ticks until mark_timeouts gives a running run up; op, opLeft: the
\* olt_ftp operation the run waits for and what its deadline leaves; copies:
\* backups rows the run made.
Run == [status : Statuses, task : Tasks \cup {NoOne}, left : 0..RunTimeout,
        op : {"none", "waiting", "closed"}, opLeft : 0..OpTimeout, copies : Nat]
NoRun == [status |-> "absent", task |-> NoOne, left |-> 0,
          op |-> "none", opLeft |-> 0, copies |-> 0]

\* "paused" stands for 'paused' and 'disabled'; wait is the time to next_run_at,
\* Never when that is NULL.
JobStatuses == {"active", "paused", "deleted"}
Never == Periods + 1
Job == [status : JobStatuses \cup {"absent"}, enabled : BOOLEAN, wait : 0..Never,
        equipment : Equipment, method : Methods]
NoJob(j) == [status |-> "absent", enabled |-> FALSE, wait |-> Never,
             equipment |-> EquipmentOf[j], method |-> MethodOf[j]]

Keys == ({"job"} \X JobIds) \cup ({"equipment"} \X Equipment)
Lock == [by : Workers \cup {NoOne}, left : 0..LockTTL]
Free == [by |-> NoOne, left |-> 0]

\* off: equipment that is not active; keyed: equipment with an active credential.
Tables == [runs : [RunIds -> Run], jobs : [JobIds -> Job], locks : [Keys -> Lock],
           off : SUBSET Equipment, keyed : SUBSET Equipment]

\* Mutant: process_run takes the job's lock and forgets the equipment's.
JobLockOnly(task) == {<<"job", task.job>>}

LocksOf(task) == {<<"job", task.job>>, <<"equipment", task.equipment>>}

-----------------------------------------------------------------------------
(* Queries and updates of the tables                                       *)

\* The query of queue_run: of the job, or of its equipment.
HasActiveRun(d, j) ==
  \E r \in RunIds : /\ d.runs[r].status \in Active
                    /\ \/ d.runs[r].task.job = j
                       \/ d.runs[r].task.equipment = d.jobs[j].equipment

Runnable(d, j) == d.jobs[j].status = "active" /\ d.jobs[j].equipment \notin d.off

\* The id an INSERT into backup_job_runs would receive.
NextRun(d) == {r \in RunIds : /\ d.runs[r].status = "absent"
                              /\ \A q \in 1..(r - 1) : d.runs[q].status # "absent"}

SetRun(d, r, run) == [d EXCEPT !.runs[r] = run]

\* active_credential
HasCredential(d, e) == e \in d.keyed

SetJob(d, j, job) == [d EXCEPT !.jobs[j] = job]

TaskOf(d, j) == [job |-> j, equipment |-> d.jobs[j].equipment, method |-> d.jobs[j].method]
QueueRun(d, r, j) == SetRun(d, r, [NoRun EXCEPT !.status = "queued", !.task = TaskOf(d, j)])

\* calculate_next_run: strictly in the future, at most one period away.
NextOccurrence == 1..Periods

\* create_job
NewJob(j, on, n) == [NoJob(j) EXCEPT !.status = "active", !.enabled = on, !.wait = IF on THEN n ELSE Never]

DueJobs(d) == {j \in JobIds : Runnable(d, j) /\ d.jobs[j].enabled /\ d.jobs[j].wait = 0}

\* Mutants: mark_timeouts without its status filter; mark_timeouts only for runs
\* that wait for FTP files.
AnyOldRun(d) == {r \in RunIds : d.runs[r].status # "absent" /\ d.runs[r].left = 0}
ExpiredWaiting(d) == {r \in RunIds : /\ d.runs[r].status = "running"
                                     /\ d.runs[r].left = 0
                                     /\ d.runs[r].op = "waiting"}

ExpiredRuns(d) == {r \in RunIds : d.runs[r].status = "running" /\ d.runs[r].left = 0}

MarkTimeouts(d, rs) ==
  [d EXCEPT !.runs = [r \in RunIds |->
      IF r \in rs THEN [d.runs[r] EXCEPT !.status = "timeout", !.left = 0] ELSE d.runs[r]]]

\* Mutant: acquire_lock no longer deletes expired locks.
KeepExpired(d) == d

DropExpired(d) ==
  [d EXCEPT !.locks = [k \in Keys |-> IF d.locks[k].left = 0 THEN Free ELSE d.locks[k]]]

AcquireLocks(d, w, task) ==
  [d EXCEPT !.locks = [k \in Keys |->
      IF k \in LocksOf(task) THEN [by |-> w, left |-> LockTTL] ELSE d.locks[k]]]

ReleaseLocks(d, w, task) ==
  [d EXCEPT !.locks = [k \in Keys |->
      IF k \in LocksOf(task) /\ d.locks[k].by = w THEN Free ELSE d.locks[k]]]

LocksFree(d, task) == \A k \in LocksOf(task) : d.locks[k].by = NoOne

\* UPDATE ... SET status='running' ... WHERE id=? AND status='queued': its
\* effect on a run that is no longer queued is nothing, and nobody looks.
StartRun(d, r) ==
  IF d.runs[r].status = "queued"
  THEN SetRun(d, r, [d.runs[r] EXCEPT !.status = "running", !.left = RunTimeout])
  ELSE d

FinishRun(d, r, s) == SetRun(d, r, [d.runs[r] EXCEPT !.status = s, !.left = 0])

OpenOperation(d, r) ==
  SetRun(d, r, [d.runs[r] EXCEPT !.op = "waiting", !.opLeft = OpTimeout])

\* trigger_olt_backup inserts its operation before it talks to the OLT.
Opened(d, r) == IF d.runs[r].task.method = "ftp" THEN OpenOperation(d, r) ELSE d

CloseOperation(d, r) ==
  LET op == d.runs[r].op IN
  SetRun(d, r, [d.runs[r] EXCEPT !.op = IF op = "waiting" THEN "closed" ELSE op, !.opLeft = 0])

StoreBackup(d, r) == SetRun(d, r, [d.runs[r] EXCEPT !.copies = @ + 1])

Less(n) == IF n = 0 THEN 0 ELSE n - 1
Nearer(n) == IF n = Never THEN Never ELSE Less(n)

AgeTables(d) ==
  [d EXCEPT
     !.runs = [r \in RunIds |-> [d.runs[r] EXCEPT !.left = Less(@), !.opLeft = Less(@)]],
     !.jobs = [j \in JobIds |-> [d.jobs[j] EXCEPT !.wait = Nearer(@)]],
     !.locks = [k \in Keys |-> [d.locks[k] EXCEPT !.left = Less(@)]]]

-----------------------------------------------------------------------------
Init ==
  /\ \E on \in BOOLEAN, made \in SUBSET JobIds, keyed \in SUBSET Equipment :
       db = [runs  |-> [r \in RunIds |-> NoRun],
             jobs  |-> [j \in JobIds |-> IF j \in made THEN NewJob(j, on, 1) ELSE NoJob(j)],
             locks |-> [k \in Keys |-> Free],
             off   |-> {}, keyed |-> keyed]
  /\ tx = db
  /\ writer = NoOne
  /\ pc = [w \in Workers |-> "idle"]
  /\ seen = [w \in Workers |-> {}]
  /\ due = [w \in Workers |-> {}]
  /\ cur = [w \in Workers |-> NoOne]
  /\ late = [w \in Workers |-> FALSE]
  /\ web = NoOne
  /\ disk = [r \in RunIds |-> 0]
  /\ execs = [r \in RunIds |-> 0]
  /\ crashes = 0
  /\ edits = 0

Commit(d) == db' = d /\ tx' = d /\ writer' = NoOne
Write(w, d) == tx' = d /\ writer' = w /\ db' = db
Rollback == tx' = db /\ writer' = NoOne /\ db' = db
NoWrite == UNCHANGED <<db, tx, writer>>
Goto(w, l) == pc' = [pc EXCEPT ![w] = l]

-----------------------------------------------------------------------------
(* run_once                                                                *)

\* The process starts and mark_timeouts reads the expired runs, outside any
\* transaction.
Wake(w) ==
  /\ pc[w] = "idle"
  /\ Goto(w, "sweep")
  /\ seen' = [seen EXCEPT ![w] = ExpiredRuns(db)]
  /\ NoWrite
  /\ UNCHANGED <<due, cur, late, web, disk, execs, crashes, edits>>

\* mark_timeouts updates the runs it read, by id; acquire_lock("scheduler")
\* deletes the expired locks.  The scheduler lock itself is inserted and
\* deleted inside this transaction, so no other connection ever sees it.
Sweep(w) ==
  /\ pc[w] = "sweep"
  /\ writer = NoOne
  /\ LET d == DropExpired(MarkTimeouts(db, seen[w])) IN
       /\ Write(w, d)
       /\ due' = [due EXCEPT ![w] = DueJobs(d)]
  /\ seen' = [seen EXCEPT ![w] = {}]
  /\ Goto(w, "enqueue")
  /\ UNCHANGED <<cur, late, web, disk, execs, crashes, edits>>

\* One iteration of enqueue_due_jobs: queue_run refuses a job whose equipment
\* already has an active run, and the schedule advances either way.
EnqueueDue(w) ==
  /\ pc[w] = "enqueue"
  /\ \E j \in due[w] :
       \E n \in NextOccurrence :
         LET d == SetJob(tx, j, [tx.jobs[j] EXCEPT !.wait = n]) IN
         /\ \/ /\ ~HasActiveRun(d, j)
               /\ \E r \in NextRun(d) : Write(w, QueueRun(d, r, j))
            \/ /\ HasActiveRun(d, j) \/ NextRun(d) = {}
               /\ Write(w, d)
         /\ due' = [due EXCEPT ![w] = @ \ {j}]
  /\ UNCHANGED <<pc, seen, cur, late, web, disk, execs, crashes, edits>>

\* Mutant: the worker also picks up runs that are running.
SelectActive(w) ==
  /\ pc[w] = "enqueue"
  /\ due[w] = {}
  /\ seen' = [seen EXCEPT ![w] = {r \in RunIds : tx.runs[r].status \in Active}]
  /\ Goto(w, "loop")
  /\ NoWrite
  /\ UNCHANGED <<due, cur, late, web, disk, execs, crashes, edits>>

\* SELECT ... WHERE status='queued': the list the rest of the cycle works on.
SelectQueued(w) ==
  /\ pc[w] = "enqueue"
  /\ due[w] = {}
  /\ seen' = [seen EXCEPT ![w] = {r \in RunIds : tx.runs[r].status = "queued"}]
  /\ Goto(w, "loop")
  /\ NoWrite
  /\ UNCHANGED <<due, cur, late, web, disk, execs, crashes, edits>>

IsFirst(r, rs) == r \in rs /\ \A q \in rs : r <= q

\* process_run up to its commit: both locks are free, the claim is persisted.
Claim(w) ==
  /\ pc[w] = "loop"
  /\ \E r \in seen[w] :
       LET d == DropExpired(tx)
           task == tx.runs[r].task IN
         /\ IsFirst(r, seen[w])
         /\ LocksFree(d, task)
         /\ Commit(StartRun(AcquireLocks(d, w, task), r))
         /\ cur' = [cur EXCEPT ![w] = r]
         /\ seen' = [seen EXCEPT ![w] = @ \ {r}]
  /\ late' = [late EXCEPT ![w] = FALSE]
  /\ Goto(w, "claimed")
  /\ UNCHANGED <<due, web, disk, execs, crashes, edits>>

\* process_run returns "skipped": a lock is taken, a lock already inserted is
\* released, the run stays queued.
SkipLocked(w) ==
  /\ pc[w] = "loop"
  /\ \E r \in seen[w] :
       LET d == DropExpired(tx) IN
         /\ IsFirst(r, seen[w])
         /\ ~LocksFree(d, tx.runs[r].task)
         /\ Write(w, d)
         /\ seen' = [seen EXCEPT ![w] = @ \ {r}]
  /\ UNCHANGED <<pc, due, cur, late, web, disk, execs, crashes, edits>>

\* The method starts: perform_backup writes its ssh.backup_started audit row,
\* trigger_olt_backup inserts its operation, and both then talk to the device.
OpenDevice(w) ==
  /\ pc[w] = "claimed"
  /\ writer = NoOne
  /\ LET r == cur[w]
         m == db.runs[r].task.method IN
       /\ m \in {"ssh", "ftp"}
       /\ db.runs[r].task.equipment \notin db.off
       /\ HasCredential(db, db.runs[r].task.equipment)
       /\ Write(w, Opened(db, r))
       /\ execs' = [execs EXCEPT ![r] = @ + 1]
  /\ Goto(w, "device")
  /\ UNCHANGED <<seen, due, cur, late, web, disk, crashes, edits>>

\* The run ends, its locks are released; nothing is committed yet.
Return(w, d) ==
  /\ Write(w, ReleaseLocks(d, w, d.runs[cur[w]].task))
  /\ cur' = [cur EXCEPT ![w] = NoOne]
  /\ late' = [late EXCEPT ![w] = FALSE]
  /\ Goto(w, "loop")
  /\ UNCHANGED <<seen, due, web, crashes, edits>>

\* A dry run, a simulated failure, or a refusal before the device is reached.
RunLocally(w) ==
  /\ pc[w] = "claimed"
  /\ writer = NoOne
  /\ \E s \in {"success", "failed"} :
       /\ s = "success" => db.runs[cur[w]].task.method = "dry_run"
       /\ Return(w, FinishRun(db, cur[w], s))
  /\ execs' = [execs EXCEPT ![cur[w]] = @ + 1]
  /\ UNCHANGED disk

\* perform_backup stored the file and its row, process_run records success.
DeviceSaved(w) ==
  /\ pc[w] = "device"
  /\ tx.runs[cur[w]].task.method = "ssh"
  /\ disk' = [disk EXCEPT ![cur[w]] = @ + 1]
  /\ Return(w, FinishRun(StoreBackup(tx, cur[w]), cur[w], "success"))
  /\ UNCHANGED execs

\* Mutant: an accepted command is taken for a received file.
WaitingIsSuccess(w) ==
  /\ pc[w] = "device"
  /\ tx.runs[cur[w]].task.method = "ftp"
  /\ Return(w, FinishRun(tx, cur[w], "success"))
  /\ UNCHANGED <<disk, execs>>

\* The OLT accepted its commands: the run waits for the FTP files.
DeviceWaiting(w) ==
  /\ pc[w] = "device"
  /\ tx.runs[cur[w]].task.method = "ftp"
  /\ Return(w, tx)
  /\ UNCHANGED <<disk, execs>>

DeviceFailed(w) ==
  /\ pc[w] = "device"
  /\ tx.runs[cur[w]].task.method # "ftp"
  /\ Return(w, FinishRun(tx, cur[w], "failed"))
  /\ UNCHANGED <<disk, execs>>

\* The OLT refuses a command or its session is lost: fail_operation closes the
\* operation, and the run fails.
TriggerFailed(w) ==
  /\ pc[w] = "device"
  /\ tx.runs[cur[w]].task.method = "ftp"
  /\ LET r == cur[w] IN Return(w, FinishRun(CloseOperation(tx, r), r, "failed"))
  /\ UNCHANGED <<disk, execs>>

\* The cycle is over: the connection's context manager commits.
EndCycle(w) ==
  /\ pc[w] = "loop"
  /\ seen[w] = {}
  /\ Commit(tx)
  /\ Goto(w, "idle")
  /\ UNCHANGED <<seen, due, cur, late, web, disk, execs, crashes, edits>>

\* The process is killed, or an exception other than SSHBackupError (disk
\* full, "database is locked" after 15 s) leaves run_once: the connection
\* rolls back.
Crash(w) ==
  /\ pc[w] # "idle"
  /\ crashes < MaxCrashes
  /\ crashes' = crashes + 1
  /\ IF writer = w THEN Rollback ELSE NoWrite
  /\ Goto(w, "idle")
  /\ seen' = [seen EXCEPT ![w] = {}]
  /\ due' = [due EXCEPT ![w] = {}]
  /\ cur' = [cur EXCEPT ![w] = NoOne]
  /\ late' = [late EXCEPT ![w] = FALSE]
  /\ UNCHANGED <<web, disk, execs, edits>>

-----------------------------------------------------------------------------
(* The FTP importer, as far as it touches runs                             *)

WaitingOn(r) == writer = NoOne /\ db.runs[r].op = "waiting"

\* What the importer does to a run is guarded by status='running'.
FinishWaiting(d, r, s) == IF d.runs[r].status = "running" THEN FinishRun(d, r, s) ELSE d

\* complete_received_file: the last expected file arrived in time, the
\* operation succeeds and so does its run.
OltCompleted(r) ==
  /\ WaitingOn(r)
  /\ db.runs[r].opLeft > 0
  /\ Commit(FinishWaiting(StoreBackup(CloseOperation(db, r), r), r, "success"))
  /\ disk' = [disk EXCEPT ![r] = @ + 1]
  /\ UNCHANGED <<pc, seen, due, cur, late, web, execs, crashes, edits>>

\* complete_received_file, past the deadline: the file is kept, the operation
\* expires, and the run is left as it is.
OltLate(r) ==
  /\ WaitingOn(r)
  /\ db.runs[r].opLeft = 0
  /\ Commit(StoreBackup(CloseOperation(db, r), r))
  /\ disk' = [disk EXCEPT ![r] = @ + 1]
  /\ UNCHANGED <<pc, seen, due, cur, late, web, execs, crashes, edits>>

\* expire_due_operations: the deadline passed and no file came.
OltExpired(r) ==
  /\ WaitingOn(r)
  /\ db.runs[r].opLeft = 0
  /\ Commit(FinishWaiting(CloseOperation(db, r), r, "timeout"))
  /\ UNCHANGED <<pc, seen, due, cur, late, web, disk, execs, crashes, edits>>

-----------------------------------------------------------------------------
(* The web application, one request at a time                              *)

\* queue_run, the checks: the request reads the committed tables.
WebCheck(j) ==
  /\ web = NoOne
  /\ NextRun(db) # {}
  /\ Runnable(db, j)
  /\ ~HasActiveRun(db, j)
  /\ web' = j
  /\ NoWrite
  /\ UNCHANGED <<pc, seen, due, cur, late, disk, execs, crashes, edits>>

\* queue_run, the INSERT, once the write lock is free.
WebInsert ==
  /\ web # NoOne
  /\ writer = NoOne
  /\ \E r \in NextRun(db) : Commit(QueueRun(db, r, web))
  /\ web' = NoOne
  /\ UNCHANGED <<pc, seen, due, cur, late, disk, execs, crashes, edits>>

\* The INSERT finds the database locked for 15 s, or fails.
WebGiveUp ==
  /\ web # NoOne
  /\ web' = NoOne
  /\ NoWrite
  /\ UNCHANGED <<pc, seen, due, cur, late, disk, execs, crashes, edits>>

Edit(d) ==
  /\ writer = NoOne
  /\ web = NoOne
  /\ edits < MaxEdits
  /\ edits' = edits + 1
  /\ Commit(d)
  /\ UNCHANGED <<pc, seen, due, cur, late, web, disk, execs, crashes>>

\* A job is made once: its id bounds these requests.
Request(d) ==
  /\ writer = NoOne
  /\ web = NoOne
  /\ Commit(d)
  /\ UNCHANGED <<pc, seen, due, cur, late, web, disk, execs, crashes, edits>>

\* handle_job_create: the job and, for the SSH job of a new equipment, its first
\* run, in one transaction.
CreateJob(j) ==
  /\ db.jobs[j].status = "absent"
  /\ EquipmentOf[j] \notin db.off
  /\ \E on \in BOOLEAN, n \in NextOccurrence :
       LET d == SetJob(db, j, NewJob(j, on, n)) IN
         \/ Request(d)
         \/ /\ MethodOf[j] = "ssh" /\ ~HasActiveRun(d, j)
            /\ \E r \in NextRun(d) : Request(QueueRun(d, r, j))

\* handle_equipment_run_now without an active job of the method: one is made and
\* queued, or nothing is kept.
RunNow(j) ==
  /\ db.jobs[j].status = "absent" /\ MethodOf[j] # "ftp"
  /\ \A i \in JobIds :
       db.jobs[i].equipment = EquipmentOf[j] /\ db.jobs[i].method = MethodOf[j] => ~Runnable(db, i)
  /\ EquipmentOf[j] \notin db.off /\ ~HasActiveRun(db, j)
  /\ \E r \in NextRun(db) : Request(QueueRun(SetJob(db, j, NewJob(j, FALSE, 0)), r, j))

\* archive_equipment: the equipment, its credentials and every job of its.
Archive(e) ==
  Edit([db EXCEPT !.off = @ \cup {e}, !.keyed = @ \ {e},
                  !.jobs = [j \in JobIds |->
                      IF db.jobs[j].equipment = e /\ db.jobs[j].status = "active"
                      THEN [db.jobs[j] EXCEPT !.status = "paused"] ELSE db.jobs[j]]])

\* handle_job_status: pause, resume, delete; nothing asks what the status was.
SetJobStatus(j) ==
  /\ db.jobs[j].status # "absent"
  /\ \E s \in JobStatuses : Edit(SetJob(db, j, [db.jobs[j] EXCEPT !.status = s]))

\* update_job: another method, a new schedule or none.
UpdateJob(j) ==
  /\ db.jobs[j].status \notin {"absent", "deleted"}
  /\ \E m \in Methods, on \in BOOLEAN, n \in NextOccurrence :
       Edit(SetJob(db, j, [db.jobs[j] EXCEPT !.method = m, !.enabled = on,
                                             !.wait = IF on THEN n ELSE Never]))

SetEquipmentActive(e) ==
  Edit([db EXCEPT !.off = IF e \in @ THEN @ \ {e} ELSE @ \cup {e}])

\* At most one credential of an equipment is active: the one that was activated
\* last, unless it was created inactive, deactivated or deleted.
Key(e, on) == Edit([db EXCEPT !.keyed = IF on THEN @ \cup {e} ELSE @ \ {e}])

\* create_credential deactivates the others, also when the new one is not to be active.
CreateCredential(e) == \E on \in BOOLEAN : Key(e, on)

\* handle_credential_edit and handle_credential_toggle, of any of its credentials.
SwitchCredential(e) == \E on \in BOOLEAN : Key(e, on)

\* handle_credential_delete of the active one.
DeleteCredential(e) == HasCredential(db, e) /\ Key(e, FALSE)

\* import_configuration, a schedule: the job it finds gets the file's equipment,
\* method and status and keeps its next_run_at; the job it makes has none.
Imported(job, e, m, s, on) ==
  [job EXCEPT !.equipment = e, !.method = m, !.status = s, !.enabled = on]

\* A file lists some of the equipment, which is made active or not, and some jobs.
ImportConfiguration ==
  \E off \in SUBSET Equipment, e \in Equipment, m \in Methods, s \in JobStatuses, on \in BOOLEAN,
     listed \in SUBSET JobIds :
    Edit([db EXCEPT !.off = off,
                    !.jobs = [j \in JobIds |->
                        IF j \in listed THEN Imported(db.jobs[j], e, m, s, on) ELSE db.jobs[j]]])

-----------------------------------------------------------------------------
\* A tick is a minute.  A worker that has committed its claim reaches its next
\* write, or fails for want of the write lock, within SQLite's 15 s busy
\* timeout: at most one tick passes meanwhile.
Tick ==
  /\ \A w \in Workers : pc[w] = "claimed" => ~late[w]
  /\ db' = AgeTables(db)
  /\ tx' = AgeTables(tx)
  /\ late' = [w \in Workers |-> pc[w] = "claimed"]
  /\ UNCHANGED <<writer, pc, seen, due, cur, web, disk, execs, crashes, edits>>

RunOnce(w) ==
  \/ Wake(w)
  \/ Sweep(w)
  \/ EnqueueDue(w)
  \/ SelectQueued(w)
  \/ Claim(w)
  \/ SkipLocked(w)
  \/ OpenDevice(w)
  \/ RunLocally(w)
  \/ DeviceSaved(w)
  \/ DeviceWaiting(w)
  \/ DeviceFailed(w)
  \/ TriggerFailed(w)
  \/ EndCycle(w)

Next ==
  \/ \E w \in Workers : RunOnce(w) \/ Crash(w)
  \/ \E r \in RunIds : OltCompleted(r) \/ OltLate(r) \/ OltExpired(r)
  \/ \E j \in JobIds : WebCheck(j) \/ CreateJob(j) \/ RunNow(j) \/ SetJobStatus(j) \/ UpdateJob(j)
  \/ \E e \in Equipment : SetEquipmentActive(e) \/ Archive(e)
  \/ \E e \in Equipment : CreateCredential(e) \/ SwitchCredential(e) \/ DeleteCredential(e)
  \/ ImportConfiguration
  \/ WebInsert
  \/ WebGiveUp
  \/ Tick

Spec == Init /\ [][Next]_vars

\* The systemd timer starts run_once again and again, every device session has
\* its timeouts, and time passes.
LiveSpec == Spec /\ (\A w \in Workers : WF_vars(RunOnce(w))) /\ WF_vars(Tick)

-----------------------------------------------------------------------------
(* Properties                                                              *)

\* Every variable keeps its type; the transaction's owner is a worker.
TypeOK ==
  /\ db \in Tables
  /\ tx \in Tables
  /\ writer \in Workers \cup {NoOne}
  /\ pc \in [Workers -> {"idle", "sweep", "enqueue", "loop", "claimed", "device"}]
  /\ seen \in [Workers -> SUBSET RunIds]
  /\ due \in [Workers -> SUBSET JobIds]
  /\ cur \in [Workers -> RunIds \cup {NoOne}]
  /\ late \in [Workers -> BOOLEAN]
  /\ web \in JobIds \cup {NoOne}
  /\ disk \in [RunIds -> Nat]
  /\ execs \in [RunIds -> Nat]
  /\ crashes \in 0..MaxCrashes
  /\ edits \in 0..MaxEdits

Executing(w) == pc[w] \in {"claimed", "device"}
EquipmentOfRun(w) == db.runs[cur[w]].task.equipment

\* Two workers never execute runs against one equipment at the same time, not
\* even when they overlap for longer than a lock's configured lifetime: what
\* the two locks of process_run and the lock lifetime of run_once are for.
EquipmentExclusion ==
  \A v, w \in Workers :
    v # w /\ Executing(v) /\ Executing(w) => EquipmentOfRun(v) # EquipmentOfRun(w)

\* A run the database reports as successful made a backup, and every backup
\* row it made has its file: process_run, save_ssh_backup and
\* complete_received_file commit in that order whatever dies in between.
SuccessIsBacked ==
  \A r \in RunIds :
    /\ db.runs[r].copies <= disk[r]
    /\ db.runs[r].status = "success" /\ db.runs[r].task.method # "dry_run"
         => db.runs[r].copies > 0

\* With one worker a run is handed to its method at most once, whatever crashes
\* (a run that was interrupted is timed out, never repeated): no device gets the
\* same backup command twice for one request.
ExecutedAtMostOnce == \A r \in RunIds : execs[r] <= 1

\* With one worker and the OLT deadline shorter than the run timeout, no
\* committed result is ever replaced, by mark_timeouts or by the importer.
ResultsAreFinal ==
  [][\A r \in RunIds : db.runs[r].status \in Finished
       => db'.runs[r].status = db.runs[r].status]_vars

\* A run that is running ends, even when its worker dies: mark_timeouts.
RunningEventuallyEnds ==
  \A r \in RunIds : db.runs[r].status = "running" ~> db.runs[r].status \in Finished

\* A queued run is claimed, even when the locks it needs belong to a worker
\* that died: they expire.
QueuedEventuallyStarts ==
  \A r \in RunIds : db.runs[r].status = "queued" ~> db.runs[r].status # "queued"
=============================================================================
