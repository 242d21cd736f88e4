----------------------------- MODULE JobsProofs -----------------------------
(***************************************************************************)
(* What Jobs guarantees for any number of jobs, devices and runs and for   *)
(* every timeout: with any number of workers, type correctness, equipment  *)
(* exclusion and that a success is backed by a file; with one worker, that *)
(* no run is executed twice and no result is replaced.                     *)
(*                                                                         *)
(* Exclusion: a worker that executes a run owns, in the committed          *)
(* tables, the two locks of the run's job.  Between its claim and its next *)
(* write nobody else removes them, because they live longer than the one   *)
(* tick that may pass; from that write on nobody else can write at all.    *)
(***************************************************************************)
EXTENDS Jobs, TLAPS

\* e follows from d by statements of worker w: rows keep their task, and no lock
\* of another worker that is still alive is touched.
Step(d, e, w) ==
  /\ e \in Tables
  /\ \A r \in RunIds : d.runs[r].status # "absent"
       => e.runs[r].status # "absent" /\ e.runs[r].task = d.runs[r].task
  /\ \A r \in RunIds : e.runs[r].status # "absent" /\ d.runs[r].status = "absent"
       => e.runs[r].task \in Tasks
  /\ \A k \in Keys : d.locks[k].left > 0 /\ d.locks[k].by \notin {NoOne, w}
       => e.locks[k] = d.locks[k]

Sound(d) == \A r \in RunIds : d.runs[r].status # "absent" => d.runs[r].task \in Tasks

Owns(d, r, w) ==
  /\ d.runs[r].status # "absent"
  /\ \A k \in LocksOf(d.runs[r].task) : d.locks[k].by = w

\* The locks outlive what may pass before w's next write.
Outlive(d, r, l) ==
  \A k \in LocksOf(d.runs[r].task) : d.locks[k].left > 0 /\ (~l => d.locks[k].left > 1)

WriterOf(w) == writer = w <=> pc[w] \in {"enqueue", "loop", "device"}
WriterInv == \A w \in Workers : WriterOf(w)
TxInv == writer = NoOne => tx = db
GrowInv == \A r \in RunIds : db.runs[r].status # "absent" => tx.runs[r].status # "absent"
SoundInv == Sound(db) /\ Sound(tx)
SeenOf(w) == \A r \in seen[w] :
  /\ pc[w] \in {"sweep", "claimed"} => db.runs[r].status # "absent"
  /\ pc[w] \in {"loop", "device"} => tx.runs[r].status # "absent"
SeenInv == \A w \in Workers : SeenOf(w)
ClaimOf(w) ==
  /\ Executing(w) => cur[w] \in RunIds /\ Owns(db, cur[w], w)
  /\ pc[w] = "claimed" => /\ Owns(tx, cur[w], w)
                          /\ Outlive(db, cur[w], late[w])
                          /\ Outlive(tx, cur[w], late[w])
ClaimInv == \A w \in Workers : ClaimOf(w)

IInv == TypeOK /\ WriterInv /\ TxInv /\ GrowInv /\ SoundInv /\ SeenInv /\ ClaimInv

-----------------------------------------------------------------------------
(* The statements                                                          *)

\* A lock lives for two ticks at least.
LEMMA LockTTLFact == LockTTL \in Nat /\ LockTTL > 1
BY JobsAssumption DEF LockTTL

\* Replacing one row of backup_job_runs.
LEMMA SetRunStep ==
  ASSUME NEW d \in Tables, NEW r \in RunIds, NEW run \in Run, NEW w,
         d.runs[r].status # "absent" => run.status # "absent" /\ run.task = d.runs[r].task,
         d.runs[r].status = "absent" /\ run.status # "absent" => run.task \in Tasks
  PROVE  Step(d, SetRun(d, r, run), w)
BY DEF Step, SetRun, Tables

\* The values the statements write are of the columns' types.
LEMMA Ranges ==
  /\ 0 \in 0..RunTimeout /\ RunTimeout \in 0..RunTimeout
  /\ 0 \in 0..OpTimeout /\ OpTimeout \in 0..OpTimeout
  /\ {"absent", "queued", "running", "timeout"} \subseteq Statuses
  /\ Finished \subseteq Statuses
  /\ "absent" \notin Finished
BY JobsAssumption DEF Statuses, Finished

\* What a run is given comes from the row of its job.
LEMMA TaskFact ==
  ASSUME NEW d \in Tables, NEW j \in JobIds
  PROVE  TaskOf(d, j) \in Tasks
<1>1. d.jobs[j] \in Job
  BY DEF Tables
<1> QED
  BY <1>1 DEF Job, TaskOf, Tasks

\* The locks of a task are rows of job_locks.
LEMMA LocksFact ==
  ASSUME NEW task \in Tasks
  PROVE  LocksOf(task) \subseteq Keys
BY DEF Tasks, LocksOf, Keys

\* A new job is one.
LEMMA NewJobFact ==
  ASSUME NEW j \in JobIds, NEW on \in BOOLEAN, NEW n \in 0..Periods
  PROVE  NewJob(j, on, n) \in Job /\ NoJob(j) \in Job
<1>1. EquipmentOf[j] \in Equipment /\ MethodOf[j] \in Methods
  BY JobsAssumption
<1>2. Never \in 0..Never /\ n \in 0..Never
  BY JobsAssumption DEF Never
<1>3. NoJob(j) \in Job
  BY <1>1, <1>2 DEF NoJob, Job
<1> QED
  BY <1>1, <1>2, <1>3 DEF NewJob, NoJob, Job, JobStatuses

LEMMA QueueRunStep ==
  ASSUME NEW d \in Tables, NEW r \in NextRun(d), NEW j \in JobIds, NEW w
  PROVE  Step(d, QueueRun(d, r, j), w)
<1>1. TaskOf(d, j) \in Tasks
  BY TaskFact
<1> DEFINE row(task) == [NoRun EXCEPT !.status = "queued", !.task = task]
<1>2. ASSUME NEW task \in Tasks
      PROVE  row(task) \in Run /\ row(task).task = task
  BY Ranges DEF NoRun, Run
<1>3. QueueRun(d, r, j) = SetRun(d, r, row(TaskOf(d, j)))
  BY DEF QueueRun
<1>4. row(TaskOf(d, j)) \in Run /\ row(TaskOf(d, j)).task \in Tasks
  BY <1>1, <1>2
<1>5. r \in RunIds /\ d.runs[r].status = "absent"
  BY DEF NextRun
<1> HIDE DEF row
<1> QED
  BY <1>3, <1>4, <1>5, SetRunStep

LEMMA MarkTimeoutsStep ==
  ASSUME NEW d \in Tables, NEW rs \in SUBSET RunIds, NEW w,
         \A r \in rs : d.runs[r].status # "absent"
  PROVE  Step(d, MarkTimeouts(d, rs), w)
<1> DEFINE given == [r \in RunIds |->
      IF r \in rs THEN [d.runs[r] EXCEPT !.status = "timeout", !.left = 0] ELSE d.runs[r]]
<1>1. \A r \in RunIds : d.runs[r] \in Run
  BY DEF Tables
<1>2. \A run \in Run : /\ [run EXCEPT !.status = "timeout", !.left = 0] \in Run
                       /\ [run EXCEPT !.status = "timeout", !.left = 0].task = run.task
                       /\ [run EXCEPT !.status = "timeout", !.left = 0].status = "timeout"
  BY Ranges DEF Run
<1>3. /\ given \in [RunIds -> Run]
      /\ \A r \in RunIds : given[r].task = d.runs[r].task
      /\ \A r \in RunIds : given[r].status = "absent" <=> d.runs[r].status = "absent"
  BY <1>1, <1>2
<1> HIDE DEF given
<1>4. [d EXCEPT !.runs = given] \in Tables
  BY <1>3 DEF Tables
<1>5. [d EXCEPT !.runs = given].runs = given /\ [d EXCEPT !.runs = given].locks = d.locks
  BY DEF Tables
<1>6. Step(d, [d EXCEPT !.runs = given], w)
  BY <1>3, <1>4, <1>5 DEF Step
<1> QED
  BY <1>6 DEF MarkTimeouts, given

LEMMA DropExpiredStep ==
  ASSUME NEW d \in Tables, NEW w
  PROVE  Step(d, DropExpired(d), w)
<1> DEFINE kept == [k \in Keys |-> IF d.locks[k].left = 0 THEN Free ELSE d.locks[k]]
<1>1. kept \in [Keys -> Lock]
  BY LockTTLFact DEF Tables, Lock, Free
<1>2. \A k \in Keys : d.locks[k].left > 0 => kept[k] = d.locks[k]
  OBVIOUS
<1> HIDE DEF kept
<1>3. Step(d, [d EXCEPT !.locks = kept], w)
  BY <1>1, <1>2 DEF Step, Tables
<1> QED
  BY <1>3 DEF DropExpired, kept

LEMMA AcquireLocksStep ==
  ASSUME NEW d \in Tables, NEW w \in Workers, NEW task \in Tasks, LocksFree(d, task)
  PROVE  Step(d, AcquireLocks(d, w, task), w)
BY JobsAssumption, LockTTLFact DEF Step, AcquireLocks, LocksFree, Tables, Lock

LEMMA ReleaseLocksStep ==
  ASSUME NEW d \in Tables, NEW w \in Workers, NEW task
  PROVE  Step(d, ReleaseLocks(d, w, task), w)
BY JobsAssumption, LockTTLFact DEF Step, ReleaseLocks, Tables, Lock, Free

LEMMA StartRunStep ==
  ASSUME NEW d \in Tables, NEW r \in RunIds, NEW w
  PROVE  Step(d, StartRun(d, r), w)
<1>1. d.runs[r] \in Run
  BY DEF Tables
<1>2. [d.runs[r] EXCEPT !.status = "running", !.left = RunTimeout] \in Run
  BY <1>1, Ranges DEF Run
<1>3. Step(d, d, w)
  BY DEF Step
<1> QED
  BY <1>1, <1>2, <1>3, SetRunStep DEF StartRun, Run

LEMMA FinishRunStep ==
  ASSUME NEW d \in Tables, NEW r \in RunIds, NEW s \in Finished, NEW w,
         d.runs[r].status # "absent"
  PROVE  Step(d, FinishRun(d, r, s), w)
<1>1. d.runs[r] \in Run
  BY DEF Tables
<1>2. [d.runs[r] EXCEPT !.status = s, !.left = 0] \in Run
  BY <1>1, Ranges DEF Run
<1> QED
  BY <1>1, <1>2, Ranges, SetRunStep DEF FinishRun, Run

LEMMA OpenOperationStep ==
  ASSUME NEW d \in Tables, NEW r \in RunIds, NEW w
  PROVE  Step(d, OpenOperation(d, r), w)
<1>1. d.runs[r] \in Run
  BY DEF Tables
<1>2. [d.runs[r] EXCEPT !.op = "waiting", !.opLeft = OpTimeout] \in Run
  BY <1>1, Ranges DEF Run
<1> QED
  BY <1>1, <1>2, SetRunStep DEF OpenOperation, Run

LEMMA CloseOperationStep ==
  ASSUME NEW d \in Tables, NEW r \in RunIds, NEW w
  PROVE  Step(d, CloseOperation(d, r), w)
<1> DEFINE op == d.runs[r].op
           after == IF op = "waiting" THEN "closed" ELSE op
<1>1. d.runs[r] \in Run
  BY DEF Tables
<1>2. [d.runs[r] EXCEPT !.op = after, !.opLeft = 0] \in Run
  BY <1>1, Ranges DEF Run
<1> QED
  BY <1>1, <1>2, SetRunStep DEF CloseOperation, Run

LEMMA StoreBackupStep ==
  ASSUME NEW d \in Tables, NEW r \in RunIds, NEW w
  PROVE  Step(d, StoreBackup(d, r), w)
<1>1. d.runs[r] \in Run
  BY DEF Tables
<1>2. [d.runs[r] EXCEPT !.copies = @ + 1] \in Run
  BY <1>1 DEF Run
<1> QED
  BY <1>1, <1>2, SetRunStep DEF StoreBackup, Run

LEMMA StepTransitive ==
  ASSUME NEW d \in Tables, NEW e, NEW f, NEW w, Step(d, e, w), Step(e, f, w)
  PROVE  Step(d, f, w)
BY DEF Step

-----------------------------------------------------------------------------
(* What a statement of one process leaves true of the others               *)

\* What w (NoOne: the web or the importer) may do to the tables in one action.
Effect(w) ==
  \/ NoWrite
  \/ /\ writer \in {NoOne, w}
     /\ \E e : Step(tx, e, w) /\ ((w # NoOne /\ Write(w, e)) \/ Commit(e))
  \/ writer = w /\ Rollback

LEMMA OthersOwn ==
  ASSUME NEW d \in Tables, NEW e \in Tables, NEW w, NEW v \in Workers, v # w,
         NEW r \in RunIds, NEW l \in BOOLEAN,
         Sound(d), Step(d, e, w), Owns(d, r, v), Outlive(d, r, l)
  PROVE  Owns(e, r, v) /\ Outlive(e, r, l)
<1>1. e.runs[r].task = d.runs[r].task /\ e.runs[r].status # "absent" /\ d.runs[r].task \in Tasks
  BY DEF Step, Owns, Sound
<1>2. LocksOf(d.runs[r].task) \subseteq Keys
  BY <1>1, LocksFact
<1>3. v # NoOne
  BY JobsAssumption
<1>4. \A k \in LocksOf(d.runs[r].task) : e.locks[k] = d.locks[k]
  BY <1>2, <1>3 DEF Step, Owns, Outlive
<1> QED
  BY <1>1, <1>4 DEF Owns, Outlive

LEMMA EffectLemma ==
  ASSUME IInv, NEW w \in Workers \cup {NoOne}, Effect(w)
  PROVE  /\ db' \in Tables /\ tx' \in Tables
         /\ TxInv' /\ GrowInv' /\ SoundInv'
         /\ \A r \in RunIds : db.runs[r].status # "absent" => db'.runs[r].status # "absent"
         /\ \A v \in Workers \ {w} : pc[v] \in {"loop", "device"} => tx' = tx
         /\ \A v \in Workers \ {w} :
              /\ Executing(v) => Owns(db', cur[v], v)
              /\ pc[v] = "claimed" => /\ Owns(tx', cur[v], v)
                                      /\ Outlive(db', cur[v], late[v])
                                      /\ Outlive(tx', cur[v], late[v])
<1> USE JobsAssumption
<1>1. CASE NoWrite
  BY <1>1 DEF NoWrite, IInv, TypeOK, TxInv, GrowInv, SoundInv, Sound, ClaimInv, ClaimOf, Executing
<1>2. CASE writer = w /\ Rollback
  <2>1. /\ db' = db /\ tx' = db /\ db \in Tables /\ Sound(db)
        /\ TxInv' /\ GrowInv' /\ SoundInv'
    BY <1>2 DEF Rollback, IInv, TypeOK, TxInv, GrowInv, SoundInv, Sound
  <2>2. \A v \in Workers \ {w} : pc[v] \notin {"loop", "device"} \/ tx' = tx
    <3>1. CASE w = NoOne
      BY <1>2, <2>1, <3>1 DEF IInv, TxInv
    <3>2. CASE w # NoOne
      BY <1>2, <3>2 DEF IInv, WriterInv, WriterOf
    <3> QED
      BY <3>1, <3>2
  <2> QED
    BY <2>1, <2>2 DEF IInv, ClaimInv, ClaimOf, Executing
<1>3. CASE writer \in {NoOne, w} /\ \E e : Step(tx, e, w) /\ ((w # NoOne /\ Write(w, e)) \/ Commit(e))
  <2>1. PICK e : Step(tx, e, w) /\ ((w # NoOne /\ Write(w, e)) \/ Commit(e))
    BY <1>3
  <2>2. e \in Tables /\ Sound(e) /\ tx \in Tables /\ db \in Tables /\ Sound(db) /\ Sound(tx)
    BY <2>1 DEF Step, Sound, IInv, TypeOK, SoundInv
  <2>3. \A v \in Workers \ {w} : pc[v] \notin {"loop", "device"}
    BY <1>3 DEF IInv, WriterInv, WriterOf
  <2>4. \A v \in Workers \ {w} : pc[v] = "claimed"
          => Owns(e, cur[v], v) /\ Outlive(e, cur[v], late[v])
    <3> SUFFICES ASSUME NEW v \in Workers \ {w}, pc[v] = "claimed"
                 PROVE  Owns(e, cur[v], v) /\ Outlive(e, cur[v], late[v])
      OBVIOUS
    <3>1. /\ cur[v] \in RunIds /\ late[v] \in BOOLEAN
          /\ Owns(tx, cur[v], v) /\ Outlive(tx, cur[v], late[v])
      BY DEF IInv, TypeOK, ClaimInv, ClaimOf, Executing
    <3> QED
      BY <2>1, <2>2, <3>1, OthersOwn
  <2>5. \A r \in RunIds : db.runs[r].status # "absent" => e.runs[r].status # "absent"
    BY <2>1 DEF IInv, GrowInv, Step
  <2>6. \A v \in Workers \ {w} :
          /\ Executing(v) => pc[v] = "claimed"
          /\ pc[v] = "claimed" => Owns(db, cur[v], v) /\ Outlive(db, cur[v], late[v])
    BY <2>3 DEF IInv, ClaimInv, ClaimOf, Executing
  <2>7. CASE w # NoOne /\ Write(w, e)
    <3>1. db' = db /\ tx' = e /\ writer' = w
      BY <2>7 DEF Write
    <3>2. TxInv'
      BY <2>7, <3>1 DEF TxInv
    <3> QED
      BY <2>2, <2>3, <2>4, <2>5, <2>6, <3>1, <3>2 DEF GrowInv, SoundInv
  <2>8. CASE Commit(e)
    <3>1. db' = e /\ tx' = e /\ writer' = NoOne
      BY <2>8 DEF Commit
    <3> QED
      BY <2>2, <2>3, <2>4, <2>5, <2>6, <3>1 DEF GrowInv, SoundInv, TxInv
  <2> QED
    BY <2>1, <2>7, <2>8
<1> QED
  BY <1>1, <1>2, <1>3 DEF Effect

\* w changes no other worker's local state.
Frame(w) == \A v \in Workers \ {w} :
  pc'[v] = pc[v] /\ seen'[v] = seen[v] /\ cur'[v] = cur[v] /\ late'[v] = late[v]

LocalTypeOK ==
  /\ writer \in Workers \cup {NoOne}
  /\ pc \in [Workers -> {"idle", "sweep", "enqueue", "loop", "claimed", "device"}]
  /\ seen \in [Workers -> SUBSET RunIds]
  /\ due \in [Workers -> SUBSET JobIds]
  /\ cur \in [Workers -> RunIds \cup {NoOne}]
  /\ late \in [Workers -> BOOLEAN]
  /\ web \in JobIds \cup {NoOne}
  /\ disk \in [RunIds -> Nat]
  /\ execs \in [RunIds -> Nat]
  /\ crashes \in 0..MaxCrashes
  /\ edits \in 0..MaxEdits

\* An action of w keeps the invariant if it keeps w's own part of it.
LEMMA Assemble ==
  ASSUME IInv, NEW w \in Workers \cup {NoOne}, Effect(w), Frame(w), LocalTypeOK',
         w \in Workers => WriterOf(w)' /\ SeenOf(w)' /\ ClaimOf(w)'
  PROVE  IInv'
<1>1. /\ db' \in Tables /\ tx' \in Tables
      /\ TxInv' /\ GrowInv' /\ SoundInv'
  BY EffectLemma
<1>2. TypeOK'
  BY <1>1 DEF TypeOK, LocalTypeOK
<1>3. WriterInv'
  <2>1. \A v \in Workers \ {w} : writer' = v <=> writer = v
    BY JobsAssumption DEF Effect, NoWrite, Write, Commit, Rollback
  <2> QED
    BY <2>1 DEF WriterInv, WriterOf, Frame, IInv
<1>4. SeenInv'
  <2> SUFFICES ASSUME NEW v \in Workers \ {w} PROVE SeenOf(v)'
    BY DEF SeenInv
  <2>1. seen[v] \in SUBSET RunIds /\ SeenOf(v)
    BY DEF IInv, TypeOK, SeenInv
  <2> QED
    BY <2>1, EffectLemma DEF SeenOf, Frame
<1>5. ClaimInv'
  <2> SUFFICES ASSUME NEW v \in Workers \ {w} PROVE ClaimOf(v)'
    BY DEF ClaimInv
  <2>1. /\ pc'[v] = pc[v] /\ cur'[v] = cur[v] /\ late'[v] = late[v]
        /\ ClaimOf(v)
    BY DEF Frame, IInv, ClaimInv
  <2>2. /\ Executing(v) => Owns(db', cur[v], v)
        /\ pc[v] = "claimed" => /\ Owns(tx', cur[v], v)
                                /\ Outlive(db', cur[v], late[v])
                                /\ Outlive(tx', cur[v], late[v])
    BY EffectLemma
  <2> QED
    BY <2>1, <2>2 DEF ClaimOf, Executing, Owns, Outlive
<1> QED
  BY <1>1, <1>2, <1>3, <1>4, <1>5 DEF IInv

-----------------------------------------------------------------------------
(* The actions of a worker                                                 *)

LEMMA WakeKeeps ==
  ASSUME IInv, NEW w \in Workers, Wake(w)
  PROVE  IInv'
<1>1. Effect(w) /\ Frame(w)
  BY DEF Wake, Effect, Frame, Goto, IInv, TypeOK
<1>2. LocalTypeOK'
  BY DEF Wake, LocalTypeOK, IInv, TypeOK, Goto, NoWrite, ExpiredRuns
<1>3. WriterOf(w)' /\ SeenOf(w)' /\ ClaimOf(w)'
  BY DEF Wake, Goto, NoWrite, ExpiredRuns, IInv, TypeOK, WriterInv, WriterOf, SeenOf,
         ClaimOf, Executing
<1> QED
  BY <1>1, <1>2, <1>3, Assemble

LEMMA SweepKeeps ==
  ASSUME IInv, NEW w \in Workers, Sweep(w)
  PROVE  IInv'
<1> DEFINE m == MarkTimeouts(db, seen[w])
           d == DropExpired(m)
<1>1. writer = NoOne /\ tx = db /\ db \in Tables /\ seen[w] \in SUBSET RunIds
  BY DEF Sweep, IInv, TxInv, TypeOK
<1>2. \A r \in seen[w] : db.runs[r].status # "absent"
  BY DEF Sweep, IInv, SeenInv, SeenOf
<1>3. Step(db, m, w)
  BY <1>1, <1>2, MarkTimeoutsStep
<1>4. m \in Tables
  BY <1>3 DEF Step
<1>5. Step(m, d, w)
  BY <1>4, DropExpiredStep
<1>6. Step(tx, d, w)
  BY <1>1, <1>3, <1>5, StepTransitive
<1>7. Effect(w) /\ Frame(w)
  <2>1. Write(w, d) /\ w # NoOne
    BY JobsAssumption DEF Sweep
  <2> QED
    BY <1>1, <1>6, <2>1 DEF Sweep, Effect, Frame, Goto, IInv, TypeOK
<1>8. LocalTypeOK'
  BY DEF Sweep, LocalTypeOK, IInv, TypeOK, Goto, Write, DueJobs
<1>9. WriterOf(w)' /\ SeenOf(w)' /\ ClaimOf(w)'
  BY DEF Sweep, Goto, Write, IInv, TypeOK, WriterOf, SeenOf, ClaimOf, Executing
<1> QED
  BY <1>7, <1>8, <1>9, Assemble

LEMMA SetJobStep ==
  ASSUME NEW d \in Tables, NEW j \in JobIds, NEW job \in Job, NEW w
  PROVE  Step(d, SetJob(d, j, job), w)
BY DEF Step, SetJob, Tables

LEMMA EnqueueDueKeeps ==
  ASSUME IInv, NEW w \in Workers, EnqueueDue(w)
  PROVE  IInv'
<1>1. writer = w /\ w # NoOne /\ tx \in Tables /\ due[w] \in SUBSET JobIds
  BY JobsAssumption DEF EnqueueDue, IInv, TypeOK, WriterInv, WriterOf
<1>2. PICK j \in due[w], n \in NextOccurrence :
        LET d == SetJob(tx, j, [tx.jobs[j] EXCEPT !.wait = n]) IN
          /\ \/ /\ ~HasActiveRun(d, j)
                /\ \E r \in NextRun(d) : Write(w, QueueRun(d, r, j))
             \/ /\ HasActiveRun(d, j) \/ NextRun(d) = {}
                /\ Write(w, d)
          /\ due' = [due EXCEPT ![w] = @ \ {j}]
  BY DEF EnqueueDue
<1> DEFINE d == SetJob(tx, j, [tx.jobs[j] EXCEPT !.wait = n])
<1>3. j \in JobIds /\ tx.jobs[j] \in Job
  BY <1>1 DEF Tables
<1>4. [tx.jobs[j] EXCEPT !.wait = n] \in Job
  <2>1. n \in 0..Never
    BY JobsAssumption DEF NextOccurrence, Never
  <2> QED
    BY <1>3, <2>1 DEF Job
<1>5. Step(tx, d, w)
  BY <1>1, <1>3, <1>4, SetJobStep
<1>6. d \in Tables
  BY <1>5 DEF Step
<1>7. \E e : Step(tx, e, w) /\ Write(w, e)
  <2>1. CASE \E r \in NextRun(d) : Write(w, QueueRun(d, r, j))
    <3>1. PICK r \in NextRun(d) : Write(w, QueueRun(d, r, j))
      BY <2>1
    <3>2. Step(d, QueueRun(d, r, j), w)
      BY <1>3, <1>6, QueueRunStep
    <3> QED
      BY <1>1, <1>5, <3>1, <3>2, StepTransitive
  <2>2. CASE Write(w, d)
    BY <1>5, <2>2
  <2> QED
    BY <1>2, <2>1, <2>2
<1>8. Effect(w) /\ Frame(w)
  BY <1>1, <1>7 DEF EnqueueDue, Effect, Frame
<1>9. writer' = w
  BY <1>7 DEF Write
<1>10. LocalTypeOK'
  BY <1>1, <1>9 DEF EnqueueDue, LocalTypeOK, IInv, TypeOK
<1>11. WriterOf(w)' /\ SeenOf(w)' /\ ClaimOf(w)'
  BY <1>9 DEF EnqueueDue, WriterOf, SeenOf, ClaimOf, Executing
<1> QED
  BY <1>8, <1>10, <1>11, Assemble

LEMMA SelectQueuedKeeps ==
  ASSUME IInv, NEW w \in Workers, SelectQueued(w)
  PROVE  IInv'
<1>1. Effect(w) /\ Frame(w)
  BY DEF SelectQueued, Effect, Frame, Goto, IInv, TypeOK
<1>2. LocalTypeOK'
  BY DEF SelectQueued, LocalTypeOK, IInv, TypeOK, Goto, NoWrite
<1>3. WriterOf(w)' /\ SeenOf(w)' /\ ClaimOf(w)'
  BY DEF SelectQueued, Goto, NoWrite, IInv, TypeOK, WriterInv, WriterOf, SeenOf,
         ClaimOf, Executing
<1> QED
  BY <1>1, <1>2, <1>3, Assemble

LEMMA ClaimKeeps ==
  ASSUME IInv, NEW w \in Workers, Claim(w)
  PROVE  IInv'
<1>1. writer = w /\ w # NoOne /\ tx \in Tables /\ seen[w] \in SUBSET RunIds
  BY JobsAssumption DEF Claim, IInv, TypeOK, WriterInv, WriterOf
<1> DEFINE d == DropExpired(tx)
<1>2. PICK r \in seen[w] :
        /\ LocksFree(d, tx.runs[r].task)
        /\ Commit(StartRun(AcquireLocks(d, w, tx.runs[r].task), r))
        /\ cur' = [cur EXCEPT ![w] = r]
        /\ seen' = [seen EXCEPT ![w] = @ \ {r}]
  BY DEF Claim
<1> DEFINE task == tx.runs[r].task
           a == AcquireLocks(d, w, task)
           e == StartRun(a, r)
<1>3. r \in RunIds /\ tx.runs[r].status # "absent" /\ task \in Tasks
  BY <1>1 DEF Claim, IInv, SeenInv, SeenOf, SoundInv, Sound
<1>4. Step(tx, d, w) /\ d \in Tables
  BY <1>1, DropExpiredStep DEF Step
<1>5. Step(d, a, w) /\ a \in Tables
  BY <1>2, <1>3, <1>4, AcquireLocksStep DEF Step
<1>6. Step(a, e, w) /\ e \in Tables
  BY <1>3, <1>5, StartRunStep DEF Step
<1>7. Step(tx, e, w)
  BY <1>1, <1>4, <1>5, <1>6, StepTransitive
<1>8. Effect(w) /\ Frame(w)
  BY <1>1, <1>2, <1>7 DEF Claim, Effect, Frame, Goto, IInv, TypeOK
<1>9. db' = e /\ tx' = e /\ writer' = NoOne
  BY <1>2 DEF Commit
<1>10. LocalTypeOK'
  BY <1>1, <1>2, <1>3, <1>9 DEF Claim, LocalTypeOK, IInv, TypeOK, Goto
<1>11. /\ pc'[w] = "claimed" /\ cur'[w] = r /\ late'[w] = FALSE
  BY <1>2, <1>3 DEF Claim, Goto, IInv, TypeOK
<1>12. Owns(e, r, w) /\ Outlive(e, r, FALSE)
  <2>1. e.runs[r].status # "absent" /\ e.runs[r].task = task
    BY <1>3, <1>7 DEF Step
  <2>2. e.locks = a.locks
    BY <1>5 DEF StartRun, SetRun, Tables
  <2>3. LocksOf(task) \subseteq Keys
    BY <1>3, LocksFact
  <2>4. \A k \in LocksOf(task) : a.locks[k] = [by |-> w, left |-> LockTTL]
    BY <1>4, <2>3 DEF AcquireLocks, Tables
  <2>5. \A k \in LocksOf(task) : e.locks[k].by = w /\ e.locks[k].left = LockTTL
    BY <2>2, <2>4
  <2> HIDE DEF e, a, task, d
  <2> QED
    BY <2>1, <2>5, LockTTLFact DEF Owns, Outlive
<1>13. WriterOf(w)'
  BY <1>1, <1>9, <1>11 DEF WriterOf
<1>14. SeenOf(w)'
  <2>1. \A q \in seen[w] : e.runs[q].status # "absent"
    BY <1>1, <1>7 DEF Claim, IInv, SeenInv, SeenOf, Step
  <2>2. seen'[w] \subseteq seen[w]
    BY <1>2 DEF IInv, TypeOK
  <2> QED
    BY <1>9, <1>11, <2>1, <2>2 DEF SeenOf
<1>15. ClaimOf(w)'
  BY <1>3, <1>9, <1>11, <1>12 DEF ClaimOf, Executing, Owns, Outlive
<1> QED
  BY <1>8, <1>10, <1>13, <1>14, <1>15, Assemble

LEMMA SkipLockedKeeps ==
  ASSUME IInv, NEW w \in Workers, SkipLocked(w)
  PROVE  IInv'
<1> DEFINE d == DropExpired(tx)
<1>1. writer = w /\ w # NoOne /\ tx \in Tables /\ seen[w] \in SUBSET RunIds
  BY JobsAssumption DEF SkipLocked, IInv, TypeOK, WriterInv, WriterOf
<1>2. PICK r \in seen[w] : Write(w, d) /\ seen' = [seen EXCEPT ![w] = @ \ {r}]
  BY DEF SkipLocked
<1>3. Step(tx, d, w)
  BY <1>1, DropExpiredStep
<1>4. Effect(w) /\ Frame(w)
  BY <1>1, <1>2, <1>3 DEF SkipLocked, Effect, Frame, IInv, TypeOK
<1>5. tx' = d /\ db' = db /\ writer' = w
  BY <1>2 DEF Write
<1>6. LocalTypeOK'
  BY <1>1, <1>2, <1>5 DEF SkipLocked, LocalTypeOK, IInv, TypeOK
<1>7. WriterOf(w)' /\ ClaimOf(w)'
  BY <1>5 DEF SkipLocked, WriterOf, ClaimOf, Executing
<1>8. SeenOf(w)'
  <2>1. \A q \in seen[w] : tx'.runs[q].status # "absent"
    BY <1>1, <1>3, <1>5 DEF SkipLocked, IInv, SeenInv, SeenOf, Step
  <2>2. seen'[w] \subseteq seen[w] /\ pc'[w] = "loop"
    BY <1>2 DEF SkipLocked, IInv, TypeOK
  <2> QED
    BY <2>1, <2>2 DEF SeenOf
<1> QED
  BY <1>4, <1>6, <1>7, <1>8, Assemble

LEMMA OpenDeviceKeeps ==
  ASSUME IInv, NEW w \in Workers, OpenDevice(w)
  PROVE  IInv'
<1> DEFINE r == cur[w]
<1>1. /\ writer = NoOne /\ w # NoOne /\ tx = db /\ db \in Tables
      /\ r \in RunIds /\ Owns(db, r, w)
  BY JobsAssumption DEF OpenDevice, IInv, TxInv, TypeOK, ClaimInv, ClaimOf, Executing
<1>2. \E e : Step(tx, e, w) /\ Write(w, e)
  <2>1. Step(db, OpenOperation(db, r), w)
    BY <1>1, OpenOperationStep
  <2>2. Step(db, db, w)
    BY <1>1 DEF Step
  <2>3. Write(w, IF db.runs[r].task.method = "ftp" THEN OpenOperation(db, r) ELSE db)
    BY DEF OpenDevice, Opened
  <2> QED
    BY <1>1, <2>1, <2>2, <2>3
<1>3. Effect(w) /\ Frame(w)
  BY <1>1, <1>2 DEF OpenDevice, Effect, Frame, Goto, IInv, TypeOK
<1>4. db' = db /\ writer' = w
  BY <1>2 DEF Write
<1>5. execs' \in [RunIds -> Nat]
  BY <1>1 DEF OpenDevice, IInv, TypeOK
<1>6. LocalTypeOK'
  BY <1>1, <1>4, <1>5 DEF OpenDevice, LocalTypeOK, IInv, TypeOK, Goto
<1>7. pc'[w] = "device" /\ cur'[w] = r
  BY DEF OpenDevice, Goto, IInv, TypeOK
<1>8. WriterOf(w)'
  BY <1>4, <1>7 DEF WriterOf
<1>9. ClaimOf(w)'
  BY <1>1, <1>4, <1>7 DEF ClaimOf, Executing, Owns
<1>10. SeenOf(w)'
  <2>1. seen' = seen /\ seen[w] \in SUBSET RunIds
    BY DEF OpenDevice, IInv, TypeOK
  <2>2. \A q \in seen[w] : tx.runs[q].status # "absent"
    BY <1>1 DEF OpenDevice, IInv, SeenInv, SeenOf
  <2>3. \A q \in seen[w] : tx'.runs[q].status # "absent"
    BY <1>2, <2>1, <2>2 DEF Step, Write
  <2> QED
    BY <1>7, <2>1, <2>3 DEF SeenOf
<1> QED
  BY <1>3, <1>6, <1>8, <1>9, <1>10, Assemble

\* What the four endings of a run have in common.
LEMMA ReturnKeeps ==
  ASSUME IInv, NEW w \in Workers, NEW d, Return(w, d), writer \in {NoOne, w},
         Executing(w), cur[w] \in RunIds, tx.runs[cur[w]].status # "absent",
         Step(tx, d, w), disk' \in [RunIds -> Nat], execs' \in [RunIds -> Nat]
  PROVE  IInv'
<1> DEFINE r == cur[w]
           e == ReleaseLocks(d, w, d.runs[r].task)
<1>1. w # NoOne /\ tx \in Tables /\ Sound(tx) /\ d \in Tables
  BY JobsAssumption DEF IInv, TypeOK, SoundInv, Step
<1>2. d.runs[r].task \in Tasks /\ d.runs[r].task = tx.runs[r].task /\ d.runs[r].status # "absent"
  BY <1>1 DEF Sound, Step
<1>3. Step(d, e, w)
  BY <1>1, <1>2, ReleaseLocksStep
<1>4. Step(tx, e, w)
  BY <1>1, <1>3, StepTransitive
<1>5. Write(w, e)
  BY DEF Return
<1>6. Effect(w) /\ Frame(w)
  BY <1>1, <1>4, <1>5 DEF Return, Effect, Frame, Goto, IInv, TypeOK
<1>7. tx' = e /\ db' = db /\ writer' = w
  BY <1>5 DEF Write
<1>8. LocalTypeOK'
  BY <1>7 DEF Return, LocalTypeOK, IInv, TypeOK, Goto
<1>9. pc'[w] = "loop" /\ seen' = seen
  BY DEF Return, Goto, IInv, TypeOK
<1>10. WriterOf(w)' /\ ClaimOf(w)'
  BY <1>7, <1>9 DEF WriterOf, ClaimOf, Executing
<1>11. SeenOf(w)'
  <2>1. \A q \in seen[w] : tx.runs[q].status # "absent" /\ q \in RunIds
    BY DEF IInv, TypeOK, SeenInv, SeenOf, GrowInv, Executing
  <2> QED
    BY <1>4, <1>7, <1>9, <2>1 DEF SeenOf, Step
<1> QED
  BY <1>6, <1>8, <1>10, <1>11, Assemble

\* A worker that executes a run: the run exists in what it will write to.
LEMMA ExecutingFacts ==
  ASSUME IInv, NEW w \in Workers, Executing(w), writer = NoOne \/ pc[w] = "device"
  PROVE  /\ writer \in {NoOne, w} /\ tx \in Tables /\ cur[w] \in RunIds
         /\ tx.runs[cur[w]].status # "absent"
BY DEF IInv, TypeOK, WriterInv, WriterOf, GrowInv, ClaimInv, ClaimOf, Owns, Executing

LEMMA RunLocallyKeeps ==
  ASSUME IInv, NEW w \in Workers, RunLocally(w)
  PROVE  IInv'
<1>1. /\ writer = NoOne /\ tx = db /\ tx \in Tables /\ cur[w] \in RunIds
      /\ tx.runs[cur[w]].status # "absent"
  BY ExecutingFacts DEF RunLocally, Executing, IInv, TxInv
<1>2. PICK s \in {"success", "failed"} : Return(w, FinishRun(db, cur[w], s))
  BY DEF RunLocally
<1>3. s \in Finished
  BY DEF Finished
<1>4. Step(tx, FinishRun(db, cur[w], s), w)
  BY <1>1, <1>3, FinishRunStep
<1>5. disk' \in [RunIds -> Nat] /\ execs' \in [RunIds -> Nat]
  BY <1>1 DEF RunLocally, IInv, TypeOK
<1> QED
  BY <1>1, <1>2, <1>4, <1>5, ReturnKeeps DEF RunLocally, Executing

LEMMA DeviceSavedKeeps ==
  ASSUME IInv, NEW w \in Workers, DeviceSaved(w)
  PROVE  IInv'
<1> DEFINE r == cur[w]
           d == StoreBackup(tx, r)
           e == FinishRun(d, r, "success")
<1>1. /\ writer \in {NoOne, w} /\ tx \in Tables /\ r \in RunIds
      /\ tx.runs[r].status # "absent"
  BY ExecutingFacts DEF DeviceSaved, Executing
<1>2. Step(tx, d, w)
  BY <1>1, StoreBackupStep
<1>3. d \in Tables /\ d.runs[r].status # "absent"
  BY <1>1, <1>2 DEF Step
<1>4. Step(d, e, w)
  BY <1>1, <1>3, FinishRunStep DEF Finished
<1>5. Step(tx, e, w)
  BY <1>1, <1>2, <1>4, StepTransitive
<1>6. disk' \in [RunIds -> Nat] /\ execs' \in [RunIds -> Nat]
  BY <1>1 DEF DeviceSaved, IInv, TypeOK
<1>7. Return(w, e)
  BY DEF DeviceSaved
<1> QED
  BY <1>1, <1>5, <1>6, <1>7, ReturnKeeps DEF DeviceSaved, Executing

LEMMA DeviceWaitingKeeps ==
  ASSUME IInv, NEW w \in Workers, DeviceWaiting(w)
  PROVE  IInv'
<1>1. /\ writer \in {NoOne, w} /\ tx \in Tables /\ cur[w] \in RunIds
      /\ tx.runs[cur[w]].status # "absent"
  BY ExecutingFacts DEF DeviceWaiting, Executing
<1>2. Step(tx, tx, w)
  BY <1>1 DEF Step
<1>3. disk' \in [RunIds -> Nat] /\ execs' \in [RunIds -> Nat]
  BY DEF DeviceWaiting, IInv, TypeOK
<1>4. Return(w, tx)
  BY DEF DeviceWaiting
<1> QED
  BY <1>1, <1>2, <1>3, <1>4, ReturnKeeps DEF DeviceWaiting, Executing

LEMMA DeviceFailedKeeps ==
  ASSUME IInv, NEW w \in Workers, DeviceFailed(w)
  PROVE  IInv'
<1> DEFINE e == FinishRun(tx, cur[w], "failed")
<1>1. /\ writer \in {NoOne, w} /\ tx \in Tables /\ cur[w] \in RunIds
      /\ tx.runs[cur[w]].status # "absent"
  BY ExecutingFacts DEF DeviceFailed, Executing
<1>2. Step(tx, e, w)
  BY <1>1, FinishRunStep DEF Finished
<1>3. disk' \in [RunIds -> Nat] /\ execs' \in [RunIds -> Nat]
  BY DEF DeviceFailed, IInv, TypeOK
<1>4. Return(w, e)
  BY DEF DeviceFailed
<1> QED
  BY <1>1, <1>2, <1>3, <1>4, ReturnKeeps DEF DeviceFailed, Executing

LEMMA TriggerFailedKeeps ==
  ASSUME IInv, NEW w \in Workers, TriggerFailed(w)
  PROVE  IInv'
<1> DEFINE r == cur[w]
           d == CloseOperation(tx, r)
           e == FinishRun(d, r, "failed")
<1>1. /\ writer \in {NoOne, w} /\ tx \in Tables /\ r \in RunIds
      /\ tx.runs[r].status # "absent"
  BY ExecutingFacts DEF TriggerFailed, Executing
<1>2. Step(tx, d, w)
  BY <1>1, CloseOperationStep
<1>3. d \in Tables /\ d.runs[r].status # "absent"
  BY <1>1, <1>2 DEF Step
<1>4. Step(d, e, w)
  BY <1>1, <1>3, FinishRunStep DEF Finished
<1>5. Step(tx, e, w)
  BY <1>1, <1>2, <1>4, StepTransitive
<1>6. disk' \in [RunIds -> Nat] /\ execs' \in [RunIds -> Nat]
  BY DEF TriggerFailed, IInv, TypeOK
<1>7. Return(w, e)
  BY DEF TriggerFailed
<1> QED
  BY <1>1, <1>5, <1>6, <1>7, ReturnKeeps DEF TriggerFailed, Executing

LEMMA EndCycleKeeps ==
  ASSUME IInv, NEW w \in Workers, EndCycle(w)
  PROVE  IInv'
<1>1. writer = w /\ w # NoOne /\ tx \in Tables /\ Commit(tx)
  BY JobsAssumption DEF EndCycle, IInv, TypeOK, WriterInv, WriterOf
<1>2. Step(tx, tx, w)
  BY <1>1 DEF Step
<1>3. Effect(w) /\ Frame(w)
  BY <1>1, <1>2 DEF EndCycle, Effect, Frame, Goto, IInv, TypeOK
<1>4. writer' = NoOne
  BY <1>1 DEF Commit
<1>5. LocalTypeOK'
  BY <1>4 DEF EndCycle, LocalTypeOK, IInv, TypeOK, Goto
<1>6. pc'[w] = "idle"
  BY DEF EndCycle, Goto, IInv, TypeOK
<1>7. WriterOf(w)' /\ SeenOf(w)' /\ ClaimOf(w)'
  BY <1>1, <1>4, <1>6 DEF WriterOf, SeenOf, ClaimOf, Executing
<1> QED
  BY <1>3, <1>5, <1>7, Assemble

LEMMA CrashKeeps ==
  ASSUME IInv, NEW w \in Workers, Crash(w)
  PROVE  IInv'
<1>1. w # NoOne
  BY JobsAssumption
<1>2. Effect(w) /\ Frame(w) /\ writer' # w /\ writer' \in Workers \cup {NoOne}
  BY <1>1 DEF Crash, Effect, Frame, Goto, IInv, TypeOK, NoWrite, Rollback
<1>3. LocalTypeOK'
  <2>1. crashes + 1 \in 0..MaxCrashes
    BY JobsAssumption DEF Crash, IInv, TypeOK
  <2> QED
    BY <1>2, <2>1 DEF Crash, LocalTypeOK, IInv, TypeOK, Goto
<1>4. pc'[w] = "idle"
  BY DEF Crash, Goto, IInv, TypeOK
<1>5. WriterOf(w)' /\ SeenOf(w)' /\ ClaimOf(w)'
  BY <1>2, <1>4 DEF WriterOf, SeenOf, ClaimOf, Executing
<1> QED
  BY <1>2, <1>3, <1>5, Assemble

-----------------------------------------------------------------------------
(* The importer and the web application                                    *)

\* A transaction that is committed in the action that opens it.
LEMMA CommitKeeps ==
  ASSUME IInv, NEW e, writer = NoOne, Step(db, e, NoOne), Commit(e),
         UNCHANGED <<pc, seen, due, cur, late>>,
         web' \in JobIds \cup {NoOne}, disk' \in [RunIds -> Nat], execs' = execs,
         crashes' = crashes, edits' \in 0..MaxEdits
  PROVE  IInv'
<1>1. tx = db
  BY DEF IInv, TxInv
<1>2. Effect(NoOne) /\ Frame(NoOne)
  BY <1>1 DEF Effect, Frame
<1>3. LocalTypeOK'
  BY DEF LocalTypeOK, IInv, TypeOK, Commit
<1> QED
  BY <1>2, <1>3, Assemble, JobsAssumption

LEMMA OltKeeps ==
  ASSUME IInv, NEW r \in RunIds, OltCompleted(r) \/ OltLate(r) \/ OltExpired(r)
  PROVE  IInv'
<1> DEFINE c == CloseOperation(db, r)
           b == StoreBackup(c, r)
<1>1. writer = NoOne /\ db \in Tables /\ disk \in [RunIds -> Nat]
  BY DEF OltCompleted, OltLate, OltExpired, WaitingOn, IInv, TypeOK
<1>2. Step(db, c, NoOne) /\ c \in Tables
  BY <1>1, CloseOperationStep DEF Step
<1>3. Step(c, b, NoOne) /\ b \in Tables
  BY <1>2, StoreBackupStep DEF Step
<1>4. Step(db, b, NoOne)
  BY <1>1, <1>2, <1>3, StepTransitive
<1>5. ASSUME NEW d \in Tables, NEW s \in Finished, Step(db, d, NoOne)
      PROVE  Step(db, FinishWaiting(d, r, s), NoOne)
  <2>1. CASE d.runs[r].status = "running"
    <3>1. Step(d, FinishRun(d, r, s), NoOne)
      BY <2>1, FinishRunStep
    <3> QED
      BY <1>1, <1>5, <2>1, <3>1, StepTransitive DEF FinishWaiting
  <2>2. CASE d.runs[r].status # "running"
    BY <1>5, <2>2 DEF FinishWaiting
  <2> QED
    BY <2>1, <2>2
<1>6. "success" \in Finished /\ "timeout" \in Finished
  BY DEF Finished
<1>7. \E e : Step(db, e, NoOne) /\ Commit(e)
  BY <1>2, <1>3, <1>4, <1>5, <1>6 DEF OltCompleted, OltLate, OltExpired
<1>8. /\ UNCHANGED <<pc, seen, due, cur, late>>
      /\ web' \in JobIds \cup {NoOne} /\ disk' \in [RunIds -> Nat] /\ execs' = execs
      /\ crashes' = crashes /\ edits' \in 0..MaxEdits
  BY <1>1 DEF OltCompleted, OltLate, OltExpired, IInv, TypeOK
<1> QED
  BY <1>1, <1>7, <1>8, CommitKeeps

LEMMA WebKeeps ==
  ASSUME IInv, (\E j \in JobIds : WebCheck(j)) \/ WebInsert \/ WebGiveUp
  PROVE  IInv'
<1>1. CASE (\E j \in JobIds : WebCheck(j)) \/ WebGiveUp
  <2>1. Effect(NoOne) /\ Frame(NoOne)
    BY <1>1 DEF WebCheck, WebGiveUp, Effect, Frame
  <2>2. LocalTypeOK'
    BY <1>1 DEF WebCheck, WebGiveUp, LocalTypeOK, IInv, TypeOK, NoWrite
  <2> QED
    BY <2>1, <2>2, Assemble, JobsAssumption
<1>2. CASE WebInsert
  <2>1. writer = NoOne /\ db \in Tables /\ web \in JobIds
    BY <1>2 DEF WebInsert, IInv, TypeOK
  <2>2. \E e : Step(db, e, NoOne) /\ Commit(e)
    BY <1>2, <2>1, QueueRunStep DEF WebInsert
  <2> QED
    BY <1>2, <2>1, <2>2, CommitKeeps DEF WebInsert, IInv, TypeOK
<1> QED
  BY <1>1, <1>2

LEMMA EditKeeps ==
  ASSUME IInv, NEW d, Edit(d), Step(db, d, NoOne)
  PROVE  IInv'
<1>1. edits' \in 0..MaxEdits
  BY JobsAssumption DEF Edit, IInv, TypeOK
<1> QED
  BY <1>1, CommitKeeps DEF Edit, IInv, TypeOK

LEMMA RequestKeeps ==
  ASSUME IInv, NEW d, Request(d), Step(db, d, NoOne)
  PROVE  IInv'
BY CommitKeeps DEF Request, IInv, TypeOK

\* A job is created, with or without a run.
LEMMA CreationKeeps ==
  ASSUME IInv, NEW j \in JobIds, CreateJob(j) \/ RunNow(j)
  PROVE  IInv'
<1>1. db \in Tables
  BY DEF IInv, TypeOK
<1>2. ASSUME NEW on \in BOOLEAN, NEW n \in 0..Periods
      PROVE  /\ Step(db, SetJob(db, j, NewJob(j, on, n)), NoOne)
             /\ SetJob(db, j, NewJob(j, on, n)) \in Tables
  <2>1. NewJob(j, on, n) \in Job
    BY <1>2, NewJobFact
  <2>2. Step(db, SetJob(db, j, NewJob(j, on, n)), NoOne)
    BY <1>1, <2>1, SetJobStep
  <2> QED
    BY <2>2 DEF Step
<1>3. ASSUME NEW on \in BOOLEAN, NEW n \in 0..Periods,
             NEW r \in NextRun(SetJob(db, j, NewJob(j, on, n)))
      PROVE  Step(db, QueueRun(SetJob(db, j, NewJob(j, on, n)), r, j), NoOne)
  <2> DEFINE d == SetJob(db, j, NewJob(j, on, n))
  <2>1. Step(db, d, NoOne) /\ d \in Tables
    BY <1>2, <1>3
  <2> HIDE DEF d
  <2>2. Step(d, QueueRun(d, r, j), NoOne)
    BY <1>3, <2>1, QueueRunStep DEF d
  <2>3. Step(db, QueueRun(d, r, j), NoOne)
    BY <1>1, <2>1, <2>2, StepTransitive
  <2> QED
    BY <2>3 DEF d
<1>4. CASE CreateJob(j)
  <2>1. PICK on \in BOOLEAN, n \in NextOccurrence :
          LET d == SetJob(db, j, NewJob(j, on, n)) IN
            \/ Request(d)
            \/ \E r \in NextRun(d) : Request(QueueRun(d, r, j))
    BY <1>4 DEF CreateJob
  <2>2. n \in 0..Periods
    BY JobsAssumption DEF NextOccurrence
  <2> QED
    BY <1>2, <1>3, <2>1, <2>2, RequestKeeps
<1>5. CASE RunNow(j)
  <2>1. PICK r \in NextRun(db) : Request(QueueRun(SetJob(db, j, NewJob(j, FALSE, 0)), r, j))
    BY <1>5 DEF RunNow
  <2>2. NextRun(SetJob(db, j, NewJob(j, FALSE, 0))) = NextRun(db)
    BY DEF NextRun, SetJob
  <2>3. 0 \in 0..Periods
    BY JobsAssumption
  <2>4. Step(db, QueueRun(SetJob(db, j, NewJob(j, FALSE, 0)), r, j), NoOne)
    BY <1>3, <2>1, <2>2, <2>3
  <2> QED
    BY <2>1, <2>4, RequestKeeps
<1> QED
  BY <1>4, <1>5

LEMMA AdministrationKeeps ==
  ASSUME IInv, \/ \E j \in JobIds : SetJobStatus(j) \/ UpdateJob(j)
               \/ \E e \in Equipment : SetEquipmentActive(e) \/ Archive(e)
               \/ \E e \in Equipment : CreateCredential(e) \/ SwitchCredential(e) \/ DeleteCredential(e)
               \/ ImportConfiguration
  PROVE  IInv'
<1>1. db \in Tables
  BY DEF IInv, TypeOK
<1>2. ASSUME NEW j \in JobIds, SetJobStatus(j) PROVE IInv'
  <2>1. PICK s \in JobStatuses : Edit(SetJob(db, j, [db.jobs[j] EXCEPT !.status = s]))
    BY <1>2 DEF SetJobStatus
  <2>2. [db.jobs[j] EXCEPT !.status = s] \in Job
    BY <1>1 DEF Tables, Job
  <2> QED
    BY <1>1, <2>1, <2>2, SetJobStep, EditKeeps
<1>3. ASSUME NEW j \in JobIds, UpdateJob(j) PROVE IInv'
  <2>1. PICK m \in Methods, on \in BOOLEAN, n \in NextOccurrence :
          Edit(SetJob(db, j, [db.jobs[j] EXCEPT !.method = m, !.enabled = on,
                                                !.wait = IF on THEN n ELSE Never]))
    BY <1>3 DEF UpdateJob
  <2>2. (IF on THEN n ELSE Never) \in 0..Never /\ db.jobs[j] \in Job
    BY <1>1, JobsAssumption DEF NextOccurrence, Tables, Never
  <2>3. [db.jobs[j] EXCEPT !.method = m, !.enabled = on,
                           !.wait = IF on THEN n ELSE Never] \in Job
    BY <2>2 DEF Job
  <2> QED
    BY <1>1, <2>1, <2>3, SetJobStep, EditKeeps
<1>4. ASSUME NEW e \in Equipment, SetEquipmentActive(e) PROVE IInv'
  <2> DEFINE off == IF e \in db.off THEN db.off \ {e} ELSE db.off \cup {e}
  <2>1. off \in SUBSET Equipment
    BY <1>1 DEF Tables
  <2>2. Step(db, [db EXCEPT !.off = off], NoOne)
    BY <1>1, <2>1 DEF Step, Tables
  <2> QED
    BY <1>4, <2>2, EditKeeps DEF SetEquipmentActive
<1>5. ASSUME NEW e \in Equipment, Archive(e) PROVE IInv'
  <2> DEFINE jobs == [j \in JobIds |->
                        IF db.jobs[j].equipment = e /\ db.jobs[j].status = "active"
                        THEN [db.jobs[j] EXCEPT !.status = "paused"] ELSE db.jobs[j]]
             off == db.off \cup {e}
             keyed == db.keyed \ {e}
  <2>1. off \in SUBSET Equipment /\ keyed \in SUBSET Equipment
    BY <1>1 DEF Tables
  <2>2. jobs \in [JobIds -> Job]
    BY <1>1 DEF Tables, Job, JobStatuses
  <2>3. Edit([db EXCEPT !.off = off, !.keyed = keyed, !.jobs = jobs])
    BY <1>5 DEF Archive
  <2> HIDE DEF jobs, off, keyed
  <2>4. Step(db, [db EXCEPT !.off = off, !.keyed = keyed, !.jobs = jobs], NoOne)
    BY <1>1, <2>1, <2>2 DEF Step, Tables
  <2> QED
    BY <2>3, <2>4, EditKeeps
<1>6. ASSUME NEW e \in Equipment, NEW on \in BOOLEAN, Key(e, on) PROVE IInv'
  <2> DEFINE keyed == IF on THEN db.keyed \cup {e} ELSE db.keyed \ {e}
  <2>1. keyed \in SUBSET Equipment
    BY <1>1 DEF Tables
  <2>2. Step(db, [db EXCEPT !.keyed = keyed], NoOne)
    BY <1>1, <2>1 DEF Step, Tables
  <2> QED
    BY <1>6, <2>2, EditKeeps DEF Key
<1>7. ASSUME ImportConfiguration PROVE IInv'
  <2>1. PICK off \in SUBSET Equipment, e \in Equipment, m \in Methods,
             s \in JobStatuses, on \in BOOLEAN, listed \in SUBSET JobIds :
          Edit([db EXCEPT !.off = off,
                          !.jobs = [j \in JobIds |->
                              IF j \in listed THEN Imported(db.jobs[j], e, m, s, on) ELSE db.jobs[j]]])
    BY <1>7 DEF ImportConfiguration
  <2> DEFINE jobs == [j \in JobIds |->
                        IF j \in listed THEN Imported(db.jobs[j], e, m, s, on) ELSE db.jobs[j]]
  <2>2. jobs \in [JobIds -> Job]
    BY <1>1 DEF Tables, Job, Imported
  <2>3. Edit([db EXCEPT !.off = off, !.jobs = jobs])
    BY <2>1
  <2> HIDE DEF jobs
  <2>4. Step(db, [db EXCEPT !.off = off, !.jobs = jobs], NoOne)
    BY <1>1, <2>2 DEF Step, Tables
  <2> QED
    BY <2>3, <2>4, EditKeeps
<1> QED
  BY <1>2, <1>3, <1>4, <1>5, <1>6, <1>7
     DEF CreateCredential, SwitchCredential, DeleteCredential

-----------------------------------------------------------------------------
(* Time                                                                    *)

LEMMA AgeTablesFacts ==
  ASSUME NEW d \in Tables
  PROVE  /\ AgeTables(d) \in Tables
         /\ \A r \in RunIds : /\ AgeTables(d).runs[r].status = d.runs[r].status
                              /\ AgeTables(d).runs[r].task = d.runs[r].task
         /\ \A k \in Keys : /\ AgeTables(d).locks[k].by = d.locks[k].by
                            /\ d.locks[k].left > 1 => AgeTables(d).locks[k].left > 0
<1> DEFINE runs == [r \in RunIds |-> [d.runs[r] EXCEPT !.left = Less(@), !.opLeft = Less(@)]]
           jobs == [j \in JobIds |-> [d.jobs[j] EXCEPT !.wait = Nearer(@)]]
           locks == [k \in Keys |-> [d.locks[k] EXCEPT !.left = Less(@)]]
<1>1. \A n \in Nat : \A m \in 0..n : Less(m) \in 0..n /\ (m > 1 => Less(m) > 0)
  BY DEF Less
<1>2. \A run \in Run :
        /\ [run EXCEPT !.left = Less(@), !.opLeft = Less(@)] \in Run
        /\ [run EXCEPT !.left = Less(@), !.opLeft = Less(@)].status = run.status
        /\ [run EXCEPT !.left = Less(@), !.opLeft = Less(@)].task = run.task
  BY <1>1, JobsAssumption DEF Run
<1>3. \A job \in Job : [job EXCEPT !.wait = Nearer(@)] \in Job
  BY <1>1, JobsAssumption DEF Job, Nearer, Never
<1>4. \A lock \in Lock :
        /\ [lock EXCEPT !.left = Less(@)] \in Lock
        /\ [lock EXCEPT !.left = Less(@)].by = lock.by
        /\ lock.left > 1 => [lock EXCEPT !.left = Less(@)].left > 0
  BY <1>1, LockTTLFact DEF Lock
<1>5. /\ runs \in [RunIds -> Run]
      /\ \A r \in RunIds : runs[r].status = d.runs[r].status /\ runs[r].task = d.runs[r].task
  BY <1>2 DEF Tables
<1>6. jobs \in [JobIds -> Job]
  BY <1>3 DEF Tables
<1>7. /\ locks \in [Keys -> Lock]
      /\ \A k \in Keys : /\ locks[k].by = d.locks[k].by
                         /\ d.locks[k].left > 1 => locks[k].left > 0
  BY <1>4 DEF Tables
<1>8. AgeTables(d) = [d EXCEPT !.runs = runs, !.jobs = jobs, !.locks = locks]
  BY DEF AgeTables
<1> HIDE DEF runs, jobs, locks
<1> QED
  BY <1>5, <1>6, <1>7, <1>8 DEF Tables

LEMMA TickKeeps ==
  ASSUME IInv, Tick
  PROVE  IInv'
<1>1. /\ db' = AgeTables(db) /\ tx' = AgeTables(tx)
      /\ late' = [w \in Workers |-> pc[w] = "claimed"]
      /\ UNCHANGED <<writer, pc, seen, due, cur, web, disk, execs, crashes, edits>>
      /\ db \in Tables /\ tx \in Tables
  BY DEF Tick, IInv, TypeOK
<1>2. /\ db' \in Tables
      /\ \A r \in RunIds : db'.runs[r].status = db.runs[r].status /\ db'.runs[r].task = db.runs[r].task
      /\ \A k \in Keys : /\ db'.locks[k].by = db.locks[k].by
                         /\ db.locks[k].left > 1 => db'.locks[k].left > 0
  BY <1>1, AgeTablesFacts
<1>3. /\ tx' \in Tables
      /\ \A r \in RunIds : tx'.runs[r].status = tx.runs[r].status /\ tx'.runs[r].task = tx.runs[r].task
      /\ \A k \in Keys : /\ tx'.locks[k].by = tx.locks[k].by
                         /\ tx.locks[k].left > 1 => tx'.locks[k].left > 0
  BY <1>1, AgeTablesFacts
<1>4. TypeOK'
  <2>1. late' \in [Workers -> BOOLEAN]
    BY <1>1
  <2> QED
    BY <1>1, <1>2, <1>3, <2>1 DEF IInv, TypeOK
<1>5. WriterInv' /\ TxInv' /\ GrowInv' /\ SoundInv'
  BY <1>1, <1>2, <1>3 DEF IInv, WriterInv, WriterOf, TxInv, GrowInv, SoundInv, Sound
<1>6. SeenInv'
  BY <1>1, <1>2, <1>3 DEF IInv, TypeOK, SeenInv, SeenOf
<1>7. ClaimInv'
  <2> SUFFICES ASSUME NEW w \in Workers, Executing(w) PROVE ClaimOf(w)'
    BY <1>1 DEF ClaimInv, ClaimOf, Executing
  <2> DEFINE r == cur[w]
  <2>1. r \in RunIds /\ Owns(db, r, w) /\ cur' = cur /\ pc' = pc
    BY <1>1 DEF IInv, ClaimInv, ClaimOf
  <2>2. pc[w] = "claimed" => /\ Owns(tx, r, w) /\ ~late[w] /\ late'[w]
                            /\ Outlive(db, r, FALSE) /\ Outlive(tx, r, FALSE)
    BY <1>1 DEF IInv, ClaimInv, ClaimOf, Tick, Outlive
  <2>3. ASSUME NEW task \in Tasks PROVE LocksOf(task) \subseteq Keys
    BY LocksFact
  <2>4. Owns(db', r, w)
    BY <1>2, <2>1, <2>3 DEF Owns, IInv, SoundInv, Sound
  <2>5. pc[w] = "claimed" => Owns(tx', r, w) /\ Outlive(db', r, TRUE) /\ Outlive(tx', r, TRUE)
    BY <1>2, <1>3, <2>1, <2>2, <2>3 DEF Owns, Outlive, IInv, SoundInv, Sound
  <2> QED
    BY <2>1, <2>2, <2>4, <2>5 DEF ClaimOf, Owns, Outlive
<1> QED
  BY <1>4, <1>5, <1>6, <1>7 DEF IInv

-----------------------------------------------------------------------------
LEMMA InitIInv == Init => IInv
<1> SUFFICES ASSUME Init PROVE IInv
  OBVIOUS
<1>1. PICK on \in BOOLEAN, made \in SUBSET JobIds, keyed \in SUBSET Equipment :
        db = [runs  |-> [r \in RunIds |-> NoRun],
              jobs  |-> [j \in JobIds |-> IF j \in made THEN NewJob(j, on, 1) ELSE NoJob(j)],
              locks |-> [k \in Keys |-> Free],
              off   |-> {}, keyed |-> keyed]
  BY DEF Init
<1>2. NoRun \in Run /\ NoRun.status = "absent"
  BY Ranges DEF NoRun, Run
<1>3. \A j \in JobIds : NewJob(j, on, 1) \in Job /\ NoJob(j) \in Job
  <2>1. 1 \in 0..Periods
    BY JobsAssumption
  <2> QED
    BY <2>1, NewJobFact
<1>4. Free \in Lock
  BY LockTTLFact DEF Free, Lock
<1>5. db \in Tables /\ tx = db
  BY <1>1, <1>2, <1>3, <1>4 DEF Tables, Init
<1>6. \A r \in RunIds : db.runs[r].status = "absent"
  BY <1>1, <1>2
<1>7. TypeOK
  BY <1>5, JobsAssumption DEF TypeOK, Init
<1>8. WriterInv
  BY JobsAssumption DEF Init, WriterInv, WriterOf
<1>9. TxInv /\ GrowInv /\ SoundInv
  BY <1>5, <1>6 DEF TxInv, GrowInv, SoundInv, Sound
<1>10. SeenInv /\ ClaimInv
  BY DEF Init, SeenInv, SeenOf, ClaimInv, ClaimOf, Executing
<1> QED
  BY <1>7, <1>8, <1>9, <1>10 DEF IInv

LEMMA NextIInv == IInv /\ [Next]_vars => IInv'
<1> SUFFICES ASSUME IInv, [Next]_vars PROVE IInv'
  OBVIOUS
<1>1. ASSUME NEW w \in Workers, RunOnce(w) PROVE IInv'
  BY <1>1, WakeKeeps, SweepKeeps, EnqueueDueKeeps, SelectQueuedKeeps, ClaimKeeps,
     SkipLockedKeeps, OpenDeviceKeeps, RunLocallyKeeps, DeviceSavedKeeps,
     DeviceWaitingKeeps, DeviceFailedKeeps, TriggerFailedKeeps, EndCycleKeeps DEF RunOnce
<1>2. CASE UNCHANGED vars
  BY <1>2 DEF vars, IInv, TypeOK, WriterInv, WriterOf, TxInv, GrowInv, SoundInv, Sound,
              SeenInv, SeenOf, ClaimInv, ClaimOf, Executing, Owns, Outlive
<1> QED
  BY <1>1, <1>2, CrashKeeps, OltKeeps, WebKeeps, CreationKeeps, AdministrationKeeps, TickKeeps DEF Next

\* Every behaviour of the job engine keeps the inductive invariant.
THEOREM Inductive == Spec => []IInv
BY InitIInv, NextIInv, PTL DEF Spec

\* The tables, the transaction and the workers' local states keep their types,
\* for any number of workers, jobs, devices and runs.
THEOREM TypeCorrect == Spec => []TypeOK
<1>1. IInv => TypeOK
  BY DEF IInv
<1> QED
  BY <1>1, Inductive, PTL

\* No two workers execute runs against the same equipment at the same time,
\* whatever the timeouts, crashes and lock lifetimes (process_run, run_once).
THEOREM Exclusion == Spec => []EquipmentExclusion
<1>1. IInv => EquipmentExclusion
  <2> SUFFICES ASSUME IInv, NEW v \in Workers, NEW w \in Workers,
                      Executing(v), Executing(w), EquipmentOfRun(v) = EquipmentOfRun(w)
               PROVE  v = w
    BY DEF EquipmentExclusion
  <2> DEFINE key == <<"equipment", db.runs[cur[v]].task.equipment>>
  <2>1. key \in LocksOf(db.runs[cur[v]].task) /\ key \in LocksOf(db.runs[cur[w]].task)
    BY DEF LocksOf, EquipmentOfRun
  <2>2. db.locks[key].by = v /\ db.locks[key].by = w
    BY <2>1 DEF IInv, ClaimInv, ClaimOf, Owns
  <2> QED
    BY <2>2
<1> QED
  BY <1>1, Inductive, PTL

-----------------------------------------------------------------------------
(* What the actions do to the rows of backup_job_runs                      *)

NewRow(task) == [NoRun EXCEPT !.status = "queued", !.task = task]
Started(run) == [run EXCEPT !.status = "running", !.left = RunTimeout]
Ended(run, s) == [run EXCEPT !.status = s, !.left = 0]
Waiting(run) == [run EXCEPT !.op = "waiting", !.opLeft = OpTimeout]
Closed(run) ==
  LET op == run.op IN [run EXCEPT !.op = IF op = "waiting" THEN "closed" ELSE op, !.opLeft = 0]
Stored(run) == [run EXCEPT !.copies = @ + 1]
EndedIfRunning(run, s) == IF run.status = "running" THEN Ended(run, s) ELSE run

\* The columns of a row after each statement.
LEMMA RowFacts ==
  ASSUME NEW run \in Run
  PROVE  /\ /\ Started(run) \in Run /\ Started(run).status = "running"
            /\ Started(run).task = run.task /\ Started(run).copies = run.copies
            /\ Started(run).left = RunTimeout /\ Started(run).op = run.op
            /\ Started(run).opLeft = run.opLeft
         /\ \A s \in Finished :
              /\ Ended(run, s) \in Run /\ Ended(run, s).status = s
              /\ Ended(run, s).task = run.task /\ Ended(run, s).copies = run.copies
              /\ Ended(run, s).op = run.op
         /\ /\ Waiting(run) \in Run /\ Waiting(run).status = run.status
            /\ Waiting(run).task = run.task /\ Waiting(run).copies = run.copies
            /\ Waiting(run).left = run.left /\ Waiting(run).opLeft = OpTimeout
         /\ /\ Closed(run) \in Run /\ Closed(run).status = run.status
            /\ Closed(run).task = run.task /\ Closed(run).copies = run.copies
            /\ Closed(run).left = run.left
            /\ Closed(run).op # "waiting" /\ (Closed(run).op = "none" <=> run.op = "none")
         /\ /\ Stored(run) \in Run /\ Stored(run).status = run.status
            /\ Stored(run).task = run.task /\ Stored(run).copies = run.copies + 1
            /\ Stored(run).left = run.left /\ Stored(run).op = run.op
            /\ Stored(run).opLeft = run.opLeft
<1> USE Ranges DEF Run
<1>1. /\ Started(run) \in Run /\ Started(run).status = "running"
      /\ Started(run).task = run.task /\ Started(run).copies = run.copies
      /\ Started(run).left = RunTimeout /\ Started(run).op = run.op
      /\ Started(run).opLeft = run.opLeft
  BY DEF Started
<1>2. \A s \in Finished :
        /\ Ended(run, s) \in Run /\ Ended(run, s).status = s
        /\ Ended(run, s).task = run.task /\ Ended(run, s).copies = run.copies
        /\ Ended(run, s).op = run.op
  BY DEF Ended
<1>3. /\ Waiting(run) \in Run /\ Waiting(run).status = run.status
      /\ Waiting(run).task = run.task /\ Waiting(run).copies = run.copies
      /\ Waiting(run).left = run.left /\ Waiting(run).opLeft = OpTimeout
  BY DEF Waiting
<1>4. /\ Closed(run) \in Run /\ Closed(run).status = run.status
      /\ Closed(run).task = run.task /\ Closed(run).copies = run.copies
      /\ Closed(run).left = run.left
      /\ Closed(run).op # "waiting" /\ (Closed(run).op = "none" <=> run.op = "none")
  BY DEF Closed
<1>5. /\ Stored(run) \in Run /\ Stored(run).status = run.status
      /\ Stored(run).task = run.task /\ Stored(run).copies = run.copies + 1
      /\ Stored(run).left = run.left /\ Stored(run).op = run.op
      /\ Stored(run).opLeft = run.opLeft
  BY DEF Stored
<1> QED
  BY <1>1, <1>2, <1>3, <1>4, <1>5

\* The columns of a new row.
LEMMA NewRowFacts ==
  ASSUME NEW task \in Tasks
  PROVE  /\ NewRow(task) \in Run /\ NewRow(task).status = "queued" /\ NewRow(task).task = task
         /\ NewRow(task).op = "none" /\ NewRow(task).copies = 0
BY Ranges DEF NewRow, NoRun, Run

\* The statements that write locks and jobs leave the runs alone; the others
\* replace one row, or the rows mark_timeouts read.
LEMMA TableRows ==
  ASSUME NEW d \in Tables
  PROVE  /\ DropExpired(d).runs = d.runs
         /\ \A w, j : AcquireLocks(d, w, j).runs = d.runs /\ ReleaseLocks(d, w, j).runs = d.runs
         /\ \A j, job : SetJob(d, j, job).runs = d.runs
         /\ \A rs : MarkTimeouts(d, rs).runs =
              [r \in RunIds |-> IF r \in rs THEN Ended(d.runs[r], "timeout") ELSE d.runs[r]]
BY DEF Tables, DropExpired, AcquireLocks, ReleaseLocks, SetJob, MarkTimeouts, Ended

LEMMA SetRunRow ==
  ASSUME NEW d \in Tables, NEW r, NEW run
  PROVE  SetRun(d, r, run).runs = [d.runs EXCEPT ![r] = run]
BY DEF SetRun, Tables

LEMMA QueueRow ==
  ASSUME NEW d \in Tables, NEW r \in RunIds, NEW j
  PROVE  QueueRun(d, r, j).runs = [d.runs EXCEPT ![r] = NewRow(TaskOf(d, j))]
<1>1. QueueRun(d, r, j) = SetRun(d, r, NewRow(TaskOf(d, j)))
  BY DEF QueueRun, NewRow
<1>2. SetRun(d, r, NewRow(TaskOf(d, j))).runs = [d.runs EXCEPT ![r] = NewRow(TaskOf(d, j))]
  BY SetRunRow
<1> QED
  BY <1>1, <1>2

LEMMA FinishRow ==
  ASSUME NEW d \in Tables, NEW r \in RunIds, NEW s
  PROVE  FinishRun(d, r, s).runs = [d.runs EXCEPT ![r] = Ended(d.runs[r], s)]
<1>1. FinishRun(d, r, s) = SetRun(d, r, Ended(d.runs[r], s))
  BY DEF FinishRun, Ended
<1>2. SetRun(d, r, Ended(d.runs[r], s)).runs = [d.runs EXCEPT ![r] = Ended(d.runs[r], s)]
  BY SetRunRow
<1> QED
  BY <1>1, <1>2

LEMMA OpenRow ==
  ASSUME NEW d \in Tables, NEW r \in RunIds
  PROVE  OpenOperation(d, r).runs = [d.runs EXCEPT ![r] = Waiting(d.runs[r])]
<1>1. OpenOperation(d, r) = SetRun(d, r, Waiting(d.runs[r]))
  BY DEF OpenOperation, Waiting
<1>2. SetRun(d, r, Waiting(d.runs[r])).runs = [d.runs EXCEPT ![r] = Waiting(d.runs[r])]
  BY SetRunRow
<1> QED
  BY <1>1, <1>2

LEMMA CloseRow ==
  ASSUME NEW d \in Tables, NEW r \in RunIds
  PROVE  CloseOperation(d, r).runs = [d.runs EXCEPT ![r] = Closed(d.runs[r])]
<1>1. CloseOperation(d, r) = SetRun(d, r, Closed(d.runs[r]))
  BY DEF CloseOperation, Closed
<1>2. SetRun(d, r, Closed(d.runs[r])).runs = [d.runs EXCEPT ![r] = Closed(d.runs[r])]
  BY SetRunRow
<1> QED
  BY <1>1, <1>2

LEMMA StoreRow ==
  ASSUME NEW d \in Tables, NEW r \in RunIds
  PROVE  StoreBackup(d, r).runs = [d.runs EXCEPT ![r] = Stored(d.runs[r])]
<1>1. StoreBackup(d, r) = SetRun(d, r, Stored(d.runs[r]))
  BY DEF StoreBackup, Stored
<1>2. SetRun(d, r, Stored(d.runs[r])).runs = [d.runs EXCEPT ![r] = Stored(d.runs[r])]
  BY SetRunRow
<1> QED
  BY <1>1, <1>2

LEMMA StartRow ==
  ASSUME NEW d \in Tables, NEW r \in RunIds
  PROVE  StartRun(d, r).runs = IF d.runs[r].status = "queued"
                               THEN [d.runs EXCEPT ![r] = Started(d.runs[r])] ELSE d.runs
<1>1. StartRun(d, r) = IF d.runs[r].status = "queued" THEN SetRun(d, r, Started(d.runs[r])) ELSE d
  BY DEF StartRun, Started
<1> QED
  BY <1>1, SetRunRow

\* A job is queued, or nothing happens to the runs.
Queues(rows, next) ==
  \/ next = rows
  \/ \E r \in RunIds, task \in Tasks : /\ rows[r].status = "absent"
                                       /\ next = [rows EXCEPT ![r] = NewRow(task)]

LEMMA QueueRunRows ==
  ASSUME NEW d \in Tables, NEW r \in NextRun(d), NEW j \in JobIds
  PROVE  Queues(d.runs, QueueRun(d, r, j).runs)
<1>1. QueueRun(d, r, j).runs = [d.runs EXCEPT ![r] = NewRow(TaskOf(d, j))]
  BY QueueRow DEF NextRun
<1>2. TaskOf(d, j) \in Tasks
  BY TaskFact
<1> QED
  BY <1>1, <1>2 DEF Queues, NextRun

\* What a worker's actions do to the runs, committed and not.
LEMMA SweepRows ==
  ASSUME IInv, NEW w \in Workers, Sweep(w)
  PROVE  /\ writer = NoOne /\ tx = db /\ pc[w] = "sweep" /\ pc'[w] = "enqueue"
         /\ seen[w] \in SUBSET RunIds
         /\ db' = db
         /\ tx'.runs = [r \in RunIds |->
                          IF r \in seen[w] THEN Ended(db.runs[r], "timeout") ELSE db.runs[r]]
<1>1. /\ writer = NoOne /\ tx = db /\ db \in Tables /\ seen[w] \in SUBSET RunIds
      /\ \A r \in seen[w] : db.runs[r].status # "absent"
  BY DEF Sweep, IInv, TxInv, TypeOK, SeenInv, SeenOf
<1>2. MarkTimeouts(db, seen[w]) \in Tables
  BY <1>1, MarkTimeoutsStep DEF Step
<1>3. db' = db /\ tx' = DropExpired(MarkTimeouts(db, seen[w]))
  BY DEF Sweep, Write
<1>4. pc'[w] = "enqueue"
  BY DEF Sweep, Goto, IInv, TypeOK
<1> QED
  BY <1>1, <1>2, <1>3, <1>4, TableRows DEF Sweep

LEMMA EnqueueDueRows ==
  ASSUME IInv, NEW w \in Workers, EnqueueDue(w)
  PROVE  pc[w] = "enqueue" /\ db' = db /\ Queues(tx.runs, tx'.runs)
<1>1. tx \in Tables /\ due[w] \in SUBSET JobIds
  BY DEF IInv, TypeOK
<1>2. PICK j \in due[w], n \in NextOccurrence :
        LET d == SetJob(tx, j, [tx.jobs[j] EXCEPT !.wait = n]) IN
          \/ \E r \in NextRun(d) : Write(w, QueueRun(d, r, j))
          \/ Write(w, d)
  BY DEF EnqueueDue
<1> DEFINE job == [tx.jobs[j] EXCEPT !.wait = n]
           d == SetJob(tx, j, job)
<1>3. job \in Job
  <2>1. n \in 0..Never
    BY JobsAssumption DEF NextOccurrence, Never
  <2> QED
    BY <1>1, <2>1 DEF Tables, Job
<1>4. d \in Tables /\ d.runs = tx.runs
  BY <1>1, <1>3, SetJobStep, TableRows DEF Step
<1> HIDE DEF d
<1>5. CASE \E r \in NextRun(d) : Write(w, QueueRun(d, r, j))
  BY <1>1, <1>4, <1>5, QueueRunRows DEF Write, EnqueueDue
<1>6. CASE Write(w, d)
  BY <1>4, <1>6 DEF Write, Queues, EnqueueDue
<1> QED
  BY <1>2, <1>5, <1>6 DEF d

LEMMA ClaimRows ==
  ASSUME IInv, NEW w \in Workers, Claim(w)
  PROVE  /\ writer = w /\ pc[w] = "loop" /\ pc'[w] = "claimed" /\ ~late'[w]
         /\ seen[w] \in SUBSET RunIds
         /\ tx' = db'
         /\ \E r \in seen[w] :
              /\ cur'[w] = r
              /\ seen'[w] = seen[w] \ {r}
              /\ db'.runs = IF tx.runs[r].status = "queued"
                            THEN [tx.runs EXCEPT ![r] = Started(tx.runs[r])]
                            ELSE tx.runs
<1>1. /\ writer = w /\ pc[w] = "loop" /\ tx \in Tables /\ seen[w] \in SUBSET RunIds
      /\ pc'[w] = "claimed" /\ ~late'[w]
  BY DEF Claim, Goto, IInv, TypeOK, WriterInv, WriterOf
<1> DEFINE d == DropExpired(tx)
<1>2. PICK r \in seen[w] :
        /\ LocksFree(d, tx.runs[r].task)
        /\ Commit(StartRun(AcquireLocks(d, w, tx.runs[r].task), r))
        /\ cur' = [cur EXCEPT ![w] = r]
        /\ seen' = [seen EXCEPT ![w] = @ \ {r}]
  BY DEF Claim
<1> DEFINE a == AcquireLocks(d, w, tx.runs[r].task)
<1>3. r \in RunIds /\ tx.runs[r].task \in Tasks
  BY <1>1 DEF IInv, SeenInv, SeenOf, SoundInv, Sound
<1>4. d \in Tables /\ d.runs = tx.runs
  BY <1>1, DropExpiredStep, TableRows DEF Step
<1>5. a \in Tables /\ a.runs = tx.runs
  BY <1>2, <1>3, <1>4, AcquireLocksStep, TableRows DEF Step
<1> HIDE DEF a
<1>6. StartRun(a, r).runs = IF tx.runs[r].status = "queued"
                            THEN [tx.runs EXCEPT ![r] = Started(tx.runs[r])]
                            ELSE tx.runs
  BY <1>3, <1>5, StartRow
<1>7. db' = StartRun(a, r) /\ tx' = db'
  BY <1>2 DEF Commit, a
<1>8. cur'[w] = r /\ seen'[w] = seen[w] \ {r}
  BY <1>2 DEF IInv, TypeOK
<1> QED
  BY <1>1, <1>6, <1>7, <1>8

LEMMA SkipLockedRows ==
  ASSUME IInv, NEW w \in Workers, SkipLocked(w)
  PROVE  db' = db /\ tx'.runs = tx.runs /\ pc' = pc /\ cur' = cur /\ seen'[w] \subseteq seen[w]
<1>1. tx \in Tables
  BY DEF IInv, TypeOK
<1>2. PICK r \in seen[w] : seen' = [seen EXCEPT ![w] = @ \ {r}] /\ Write(w, DropExpired(tx))
  BY DEF SkipLocked
<1> QED
  BY <1>1, <1>2, TableRows DEF SkipLocked, Write, IInv, TypeOK

LEMMA OpenDeviceRows ==
  ASSUME IInv, NEW w \in Workers, OpenDevice(w)
  PROVE  /\ writer = NoOne /\ tx = db /\ pc[w] = "claimed" /\ pc'[w] = "device"
         /\ cur[w] \in RunIds
         /\ db' = db
         /\ tx'.runs \in { db.runs, [db.runs EXCEPT ![cur[w]] = Waiting(db.runs[cur[w]])] }
         /\ execs' = [execs EXCEPT ![cur[w]] = @ + 1]
<1>1. /\ writer = NoOne /\ tx = db /\ db \in Tables /\ pc[w] = "claimed" /\ pc'[w] = "device"
      /\ cur[w] \in RunIds
  BY DEF OpenDevice, Goto, IInv, TypeOK, TxInv, ClaimInv, ClaimOf, Executing
<1>2. db' = db /\ tx' = Opened(db, cur[w])
  BY DEF OpenDevice, Write
<1> QED
  BY <1>1, <1>2, OpenRow DEF OpenDevice, Opened

\* The run a worker executes ends: what is common to every way it does.
LEMMA ReturnRows ==
  ASSUME IInv, NEW w \in Workers, NEW d \in Tables, Return(w, d)
  PROVE  /\ db' = db /\ tx'.runs = d.runs /\ pc'[w] = "loop" /\ seen' = seen
BY TableRows DEF Return, Write, Goto, IInv, TypeOK

LEMMA RunLocallyRows ==
  ASSUME IInv, NEW w \in Workers, RunLocally(w)
  PROVE  /\ writer = NoOne /\ tx = db /\ pc[w] = "claimed" /\ pc'[w] = "loop" /\ seen' = seen
         /\ cur[w] \in RunIds
         /\ db' = db
         /\ \E s \in {"success", "failed"} :
              /\ s = "success" => db.runs[cur[w]].task.method = "dry_run"
              /\ tx'.runs = [db.runs EXCEPT ![cur[w]] = Ended(db.runs[cur[w]], s)]
         /\ execs' = [execs EXCEPT ![cur[w]] = @ + 1] /\ disk' = disk
<1> DEFINE r == cur[w]
<1>1. /\ writer = NoOne /\ tx = db /\ db \in Tables /\ pc[w] = "claimed"
      /\ r \in RunIds /\ db.runs[r].status # "absent"
  BY DEF RunLocally, IInv, TypeOK, TxInv, ClaimInv, ClaimOf, Executing, Owns
<1>2. PICK s \in {"success", "failed"} :
        /\ s = "success" => db.runs[r].task.method = "dry_run"
        /\ Return(w, FinishRun(db, r, s))
  BY DEF RunLocally
<1>3. FinishRun(db, r, s) \in Tables
  BY <1>1, FinishRunStep DEF Step, Finished
<1>4. FinishRun(db, r, s).runs = [db.runs EXCEPT ![r] = Ended(db.runs[r], s)]
  BY <1>1, FinishRow
<1> QED
  BY <1>1, <1>2, <1>3, <1>4, ReturnRows DEF RunLocally

\* A device session ends: with its file, waiting for files, or in failure.
Outcomes(run) == {run, Ended(run, "failed"), Ended(Closed(run), "failed")}

LEMMA DeviceRows ==
  ASSUME IInv, NEW w \in Workers,
         DeviceSaved(w) \/ DeviceWaiting(w) \/ DeviceFailed(w) \/ TriggerFailed(w)
  PROVE  /\ writer = w /\ pc[w] = "device" /\ pc'[w] = "loop" /\ seen' = seen /\ execs' = execs
         /\ cur[w] \in RunIds
         /\ db' = db
         /\ LET run == tx.runs[cur[w]] IN
              \/ /\ disk' = [disk EXCEPT ![cur[w]] = @ + 1]
                 /\ tx'.runs = [tx.runs EXCEPT ![cur[w]] = Ended(Stored(run), "success")]
              \/ /\ disk' = disk
                 /\ \E next \in Outcomes(run) : tx'.runs = [tx.runs EXCEPT ![cur[w]] = next]
<1> DEFINE r == cur[w]
           run == tx.runs[r]
<1>1. /\ pc[w] = "device" /\ writer = w /\ tx \in Tables
      /\ r \in RunIds /\ tx.runs[r].status # "absent" /\ execs' = execs
  BY DEF DeviceSaved, DeviceWaiting, DeviceFailed, TriggerFailed, IInv, TypeOK,
         WriterInv, WriterOf, ClaimInv, ClaimOf, Executing, Owns, GrowInv
<1>2. ASSUME NEW d \in Tables, NEW s \in {"success", "failed"}, NEW row \in Run,
             d.runs = [tx.runs EXCEPT ![r] = row], row.status # "absent"
      PROVE  /\ FinishRun(d, r, s) \in Tables
             /\ FinishRun(d, r, s).runs = [tx.runs EXCEPT ![r] = Ended(row, s)]
  <2>1. d.runs[r] = row
    BY <1>1, <1>2 DEF Tables
  <2>2. s \in Finished
    BY DEF Finished
  <2>3. FinishRun(d, r, s).runs = [[tx.runs EXCEPT ![r] = row] EXCEPT ![r] = Ended(row, s)]
    BY <1>1, <1>2, <2>1, FinishRow
  <2>4. FinishRun(d, r, s) \in Tables
    BY <1>1, <1>2, <2>1, <2>2, FinishRunStep DEF Step
  <2> QED
    BY <1>1, <2>3, <2>4 DEF Tables
<1>3. run \in Run /\ [tx.runs EXCEPT ![r] = run] = tx.runs
  BY <1>1 DEF Tables
<1>4. CASE DeviceSaved(w)
  <2>1. StoreBackup(tx, r) \in Tables /\ StoreBackup(tx, r).runs = [tx.runs EXCEPT ![r] = Stored(run)]
    BY <1>1, StoreBackupStep, StoreRow DEF Step
  <2>2. Return(w, FinishRun(StoreBackup(tx, r), r, "success"))
    BY <1>4 DEF DeviceSaved
  <2>3. Stored(run) \in Run /\ Stored(run).status # "absent"
    BY <1>1, <1>3, RowFacts
  <2> HIDE DEF run, r
  <2> QED
    BY <1>1, <1>2, <1>4, <2>1, <2>2, <2>3, ReturnRows DEF DeviceSaved, r, run
<1>5. CASE DeviceWaiting(w)
  BY <1>1, <1>3, <1>5, ReturnRows DEF DeviceWaiting, Outcomes
<1>6. CASE DeviceFailed(w)
  BY <1>1, <1>2, <1>3, <1>6, ReturnRows DEF DeviceFailed, Outcomes
<1>7. CASE TriggerFailed(w)
  <2>1. CloseOperation(tx, r) \in Tables /\ CloseOperation(tx, r).runs = [tx.runs EXCEPT ![r] = Closed(run)]
    BY <1>1, CloseOperationStep, CloseRow DEF Step
  <2>2. Return(w, FinishRun(CloseOperation(tx, r), r, "failed")) /\ disk' = disk
    BY <1>7 DEF TriggerFailed
  <2>3. Closed(run) \in Run /\ Closed(run).status # "absent"
    BY <1>1, <1>3, RowFacts
  <2>4. tx'.runs = [tx.runs EXCEPT ![r] = Ended(Closed(run), "failed")]
    BY <1>2, <2>1, <2>2, <2>3, ReturnRows
  <2> QED
    BY <1>1, <2>2, <2>4, ReturnRows, <1>2, <2>1, <2>3 DEF Outcomes
<1> QED
  BY <1>4, <1>5, <1>6, <1>7

\* The importer completes, keeps late files of, or expires an operation.
LEMMA OltRows ==
  ASSUME IInv, NEW r \in RunIds, OltCompleted(r) \/ OltLate(r) \/ OltExpired(r)
  PROVE  /\ writer = NoOne /\ tx = db /\ tx' = db' /\ UNCHANGED <<pc, seen, cur, late, execs>>
         /\ LET run == db.runs[r] IN
              /\ run.op = "waiting"
              /\ \/ /\ run.opLeft > 0
                    /\ db'.runs = [db.runs EXCEPT ![r] = EndedIfRunning(Stored(Closed(run)), "success")]
                    /\ disk' = [disk EXCEPT ![r] = @ + 1]
                 \/ /\ db'.runs = [db.runs EXCEPT ![r] = Stored(Closed(run))]
                    /\ disk' = [disk EXCEPT ![r] = @ + 1]
                 \/ /\ db'.runs = [db.runs EXCEPT ![r] = EndedIfRunning(Closed(run), "timeout")]
                    /\ disk' = disk
<1> DEFINE run == db.runs[r]
           c == CloseOperation(db, r)
           b == StoreBackup(c, r)
<1>1. /\ writer = NoOne /\ tx = db /\ db \in Tables /\ run.op = "waiting"
      /\ UNCHANGED <<pc, seen, cur, late, execs>>
  BY DEF OltCompleted, OltLate, OltExpired, WaitingOn, IInv, TypeOK, TxInv
<1>2. run \in Run
  BY <1>1 DEF Tables
<1>3. c \in Tables /\ c.runs = [db.runs EXCEPT ![r] = Closed(run)]
  BY <1>1, CloseOperationStep, CloseRow DEF Step
<1>4. c.runs[r] = Closed(run) /\ Closed(run) \in Run
  BY <1>1, <1>2, <1>3, RowFacts DEF Tables
<1>5. b \in Tables /\ b.runs = [c.runs EXCEPT ![r] = Stored(c.runs[r])]
  <2> HIDE DEF c
  <2> QED
    BY <1>3, StoreBackupStep, StoreRow DEF Step
<1>6. b.runs = [db.runs EXCEPT ![r] = Stored(Closed(run))]
  <2> HIDE DEF c, b, run
  <2> QED
    BY <1>1, <1>3, <1>4, <1>5 DEF Tables
<1>7. ASSUME NEW d \in Tables, NEW row \in Run, NEW s, d.runs = [db.runs EXCEPT ![r] = row]
      PROVE  FinishWaiting(d, r, s).runs = [db.runs EXCEPT ![r] = EndedIfRunning(row, s)]
  <2>1. d.runs[r] = row
    BY <1>1, <1>7 DEF Tables
  <2>2. FinishRun(d, r, s).runs = [[db.runs EXCEPT ![r] = row] EXCEPT ![r] = Ended(row, s)]
    BY <1>7, <2>1, FinishRow
  <2>3. FinishRun(d, r, s).runs = [db.runs EXCEPT ![r] = Ended(row, s)]
    BY <1>1, <2>2 DEF Tables
  <2> QED
    BY <1>7, <2>1, <2>3 DEF FinishWaiting, EndedIfRunning
<1>8. Stored(Closed(run)) \in Run
  BY <1>4, RowFacts
<1> HIDE DEF run, b, c
<1>9. CASE OltCompleted(r)
  <2>1. db' = FinishWaiting(b, r, "success") /\ tx' = db'
    BY <1>9 DEF OltCompleted, Commit, b, c
  <2>2. db'.runs = [db.runs EXCEPT ![r] = EndedIfRunning(Stored(Closed(run)), "success")]
    BY <1>5, <1>6, <1>7, <1>8, <2>1
  <2> QED
    BY <1>1, <1>9, <2>1, <2>2 DEF OltCompleted, run
<1>10. CASE OltLate(r)
  <2>1. db' = b /\ tx' = db'
    BY <1>10 DEF OltLate, Commit, b, c
  <2> QED
    BY <1>1, <1>6, <1>10, <2>1 DEF OltLate, run
<1>11. CASE OltExpired(r)
  <2>1. db' = FinishWaiting(c, r, "timeout") /\ tx' = db'
    BY <1>11 DEF OltExpired, Commit, c
  <2>2. db'.runs = [db.runs EXCEPT ![r] = EndedIfRunning(Closed(run), "timeout")]
    BY <1>3, <1>4, <1>7, <2>1
  <2> QED
    BY <1>1, <1>11, <2>1, <2>2 DEF OltExpired, run
<1> QED
  BY <1>9, <1>10, <1>11

\* Everything the web application does: at most a run is queued.
Requests ==
  \/ \E j \in JobIds : WebCheck(j) \/ CreateJob(j) \/ RunNow(j) \/ SetJobStatus(j) \/ UpdateJob(j)
  \/ \E e \in Equipment : SetEquipmentActive(e) \/ Archive(e)
  \/ \E e \in Equipment : CreateCredential(e) \/ SwitchCredential(e) \/ DeleteCredential(e)
  \/ ImportConfiguration
  \/ WebInsert
  \/ WebGiveUp

LEMMA RequestRows ==
  ASSUME IInv, Requests
  PROVE  /\ UNCHANGED <<pc, seen, cur, late, disk, execs>>
         /\ \/ UNCHANGED <<db, tx>>
            \/ writer = NoOne /\ tx = db /\ tx' = db' /\ Queues(db.runs, db'.runs)
<1>1. db \in Tables /\ (writer = NoOne => tx = db)
  BY DEF IInv, TypeOK, TxInv
<1>2. ASSUME NEW d, Edit(d) \/ Request(d), Queues(db.runs, d.runs)
      PROVE  /\ UNCHANGED <<pc, seen, cur, late, disk, execs>>
             /\ writer = NoOne /\ tx = db /\ tx' = db' /\ Queues(db.runs, db'.runs)
  BY <1>1, <1>2 DEF Edit, Request, Commit
<1>3. Queues(db.runs, db.runs)
  BY DEF Queues
<1>4. CASE (\E j \in JobIds : WebCheck(j)) \/ WebGiveUp
  BY <1>4 DEF WebCheck, WebGiveUp, NoWrite
<1>5. CASE WebInsert
  <2>1. web \in JobIds
    BY <1>5 DEF WebInsert, IInv, TypeOK
  <2> QED
    BY <1>1, <1>5, <2>1, QueueRunRows DEF WebInsert, Commit
<1>6. ASSUME NEW j \in JobIds, NEW job
      PROVE  SetJob(db, j, job).runs = db.runs
  BY <1>1, TableRows
<1>7. ASSUME NEW j \in JobIds, CreateJob(j) \/ RunNow(j)
      PROVE  \E d : Request(d) /\ Queues(db.runs, d.runs)
  <2>1. ASSUME NEW on \in BOOLEAN, NEW n \in 0..Periods,
               NEW r \in NextRun(SetJob(db, j, NewJob(j, on, n)))
        PROVE  Queues(db.runs, QueueRun(SetJob(db, j, NewJob(j, on, n)), r, j).runs)
    <3> DEFINE d == SetJob(db, j, NewJob(j, on, n))
    <3>1. NewJob(j, on, n) \in Job
      BY <2>1, NewJobFact
    <3>2. d \in Tables /\ d.runs = db.runs
      BY <1>1, <1>6, <3>1, SetJobStep DEF Step
    <3> HIDE DEF d
    <3>3. Queues(d.runs, QueueRun(d, r, j).runs)
      BY <2>1, <3>2, QueueRunRows DEF d
    <3> QED
      BY <3>2, <3>3 DEF d
  <2>2. CASE CreateJob(j)
    <3>1. PICK on \in BOOLEAN, n \in NextOccurrence :
            LET d == SetJob(db, j, NewJob(j, on, n)) IN
              \/ Request(d)
              \/ \E r \in NextRun(d) : Request(QueueRun(d, r, j))
      BY <2>2 DEF CreateJob
    <3>2. n \in 0..Periods
      BY JobsAssumption DEF NextOccurrence
    <3> QED
      BY <1>3, <1>6, <2>1, <3>1, <3>2
  <2>3. CASE RunNow(j)
    <3>1. PICK r \in NextRun(db) : Request(QueueRun(SetJob(db, j, NewJob(j, FALSE, 0)), r, j))
      BY <2>3 DEF RunNow
    <3>2. NextRun(SetJob(db, j, NewJob(j, FALSE, 0))) = NextRun(db)
      BY DEF NextRun, SetJob
    <3>3. 0 \in 0..Periods
      BY JobsAssumption
    <3> QED
      BY <2>1, <3>1, <3>2, <3>3
  <2> QED
    BY <1>7, <2>2, <2>3
<1>8. ASSUME NEW j \in JobIds, SetJobStatus(j) \/ UpdateJob(j)
      PROVE  \E d : Edit(d) /\ Queues(db.runs, d.runs)
  BY <1>3, <1>6, <1>8 DEF SetJobStatus, UpdateJob
<1>9. ASSUME NEW off, NEW keyed, NEW jobs
      PROVE  /\ [db EXCEPT !.off = off].runs = db.runs
             /\ [db EXCEPT !.keyed = keyed].runs = db.runs
             /\ [db EXCEPT !.off = off, !.jobs = jobs].runs = db.runs
             /\ [db EXCEPT !.off = off, !.keyed = keyed, !.jobs = jobs].runs = db.runs
  BY <1>1 DEF Tables
<1>10. ASSUME NEW e \in Equipment, SetEquipmentActive(e)
       PROVE  \E d : Edit(d) /\ Queues(db.runs, d.runs)
  <2> DEFINE off == IF e \in db.off THEN db.off \ {e} ELSE db.off \cup {e}
             d == [db EXCEPT !.off = off]
  <2>1. Edit(d)
    BY <1>10 DEF SetEquipmentActive
  <2>2. d.runs = db.runs
    BY <1>9
  <2> HIDE DEF d
  <2> QED
    BY <1>3, <2>1, <2>2
<1>11. ASSUME NEW e \in Equipment, Archive(e)
       PROVE  \E d : Edit(d) /\ Queues(db.runs, d.runs)
  <2> DEFINE jobs == [j \in JobIds |->
                        IF db.jobs[j].equipment = e /\ db.jobs[j].status = "active"
                        THEN [db.jobs[j] EXCEPT !.status = "paused"] ELSE db.jobs[j]]
             d == [db EXCEPT !.off = db.off \cup {e}, !.keyed = db.keyed \ {e}, !.jobs = jobs]
  <2>1. Edit(d)
    BY <1>11 DEF Archive
  <2>2. d.runs = db.runs
    <3> HIDE DEF jobs
    <3> QED
      BY <1>9
  <2> HIDE DEF d
  <2> QED
    BY <1>3, <2>1, <2>2
<1>12. ASSUME NEW e \in Equipment, NEW on \in BOOLEAN, Key(e, on)
       PROVE  \E d : Edit(d) /\ Queues(db.runs, d.runs)
  <2> DEFINE d == [db EXCEPT !.keyed = IF on THEN db.keyed \cup {e} ELSE db.keyed \ {e}]
  <2>1. Edit(d)
    BY <1>12 DEF Key
  <2>2. d.runs = db.runs
    BY <1>9
  <2> HIDE DEF d
  <2> QED
    BY <1>3, <2>1, <2>2
<1>13. ASSUME ImportConfiguration
       PROVE  \E d : Edit(d) /\ Queues(db.runs, d.runs)
  <2>1. PICK off \in SUBSET Equipment, e \in Equipment, m \in Methods,
             s \in JobStatuses, on \in BOOLEAN, listed \in SUBSET JobIds :
          Edit([db EXCEPT !.off = off,
                          !.jobs = [j \in JobIds |->
                              IF j \in listed THEN Imported(db.jobs[j], e, m, s, on) ELSE db.jobs[j]]])
    BY <1>13 DEF ImportConfiguration
  <2> DEFINE jobs == [j \in JobIds |->
                        IF j \in listed THEN Imported(db.jobs[j], e, m, s, on) ELSE db.jobs[j]]
             d == [db EXCEPT !.off = off, !.jobs = jobs]
  <2>2. Edit(d)
    BY <2>1
  <2>3. d.runs = db.runs
    <3> HIDE DEF jobs
    <3> QED
      BY <1>9
  <2> HIDE DEF d
  <2> QED
    BY <1>3, <2>2, <2>3
<1> QED
  BY <1>2, <1>4, <1>5, <1>7, <1>8, <1>10, <1>11, <1>12, <1>13
     DEF Requests, CreateCredential, SwitchCredential, DeleteCredential

\* Time passes for every row.
Older(run) == [run EXCEPT !.left = Less(@), !.opLeft = Less(@)]

LEMMA TickRows ==
  ASSUME IInv, Tick
  PROVE  /\ db'.runs = [r \in RunIds |-> Older(db.runs[r])]
         /\ tx'.runs = [r \in RunIds |-> Older(tx.runs[r])]
         /\ late' = [w \in Workers |-> pc[w] = "claimed"]
         /\ \A w \in Workers : pc[w] = "claimed" => ~late[w]
         /\ UNCHANGED <<pc, seen, cur, disk, execs>>
BY DEF Tick, AgeTables, Older, IInv, TypeOK, Tables

LEMMA OlderFacts ==
  ASSUME NEW run \in Run
  PROVE  /\ Older(run) \in Run
         /\ Older(run).status = run.status /\ Older(run).task = run.task
         /\ Older(run).op = run.op /\ Older(run).copies = run.copies
         /\ Older(run).left = Less(run.left) /\ Older(run).opLeft = Less(run.opLeft)
<1>1. \A n \in Nat : \A m \in 0..n : Less(m) \in 0..n
  BY DEF Less
<1> QED
  BY <1>1, JobsAssumption DEF Older, Run

-----------------------------------------------------------------------------
(* A successful run is backed by a file                                    *)

Backed(run, n) ==
  /\ run.copies <= n
  /\ run.status = "success" /\ run.task.method # "dry_run" => run.copies > 0

AllBacked(rows, files) == \A r \in RunIds : Backed(rows[r], files[r])

BackedInv == AllBacked(db.runs, disk) /\ AllBacked(tx.runs, disk)

\* Files are only added.
Grow(files, more) == more \in [RunIds -> Nat] /\ \A r \in RunIds : files[r] <= more[r]

LEMMA RowBacked ==
  ASSUME NEW rows \in [RunIds -> Run], NEW files \in [RunIds -> Nat], NEW more,
         Grow(files, more), AllBacked(rows, files)
  PROVE  /\ AllBacked(rows, more)
         /\ \A r \in RunIds, run \in Run :
              Backed(run, more[r]) => AllBacked([rows EXCEPT ![r] = run], more)
<1>1. \A r \in RunIds : rows[r].copies \in Nat
  BY DEF Run
<1>2. AllBacked(rows, more)
  <2> SUFFICES ASSUME NEW r \in RunIds PROVE Backed(rows[r], more[r])
    BY DEF AllBacked
  <2>1. Backed(rows[r], files[r]) /\ files[r] <= more[r] /\ files[r] \in Nat /\ more[r] \in Nat
    BY DEF AllBacked, Grow
  <2> QED
    BY <1>1, <2>1 DEF Backed
<1> QED
  BY <1>2 DEF AllBacked

\* One more file, for run r.
LEMMA FileAdded ==
  ASSUME NEW files \in [RunIds -> Nat], NEW r \in RunIds
  PROVE  Grow(files, [files EXCEPT ![r] = @ + 1])
BY DEF Grow

\* What each statement makes of a backed row.
LEMMA RowStaysBacked ==
  ASSUME NEW run \in Run, NEW n \in Nat, Backed(run, n)
  PROVE  /\ Backed(Started(run), n)
         /\ \A s \in {"failed", "timeout"} : Backed(Ended(run, s), n)
         /\ run.task.method = "dry_run" => Backed(Ended(run, "success"), n)
         /\ Backed(Waiting(run), n)
         /\ Backed(Closed(run), n)
         /\ Backed(Stored(run), n + 1) /\ Backed(Ended(Stored(run), "success"), n + 1)
         /\ Backed(Older(run), n)
<1>1. {"success", "failed", "timeout"} \subseteq Finished
  BY DEF Finished
<1>2. run.copies \in Nat
  BY DEF Run
<1>3. Stored(run) \in Run /\ Stored(run).copies = run.copies + 1
  BY RowFacts
<1>4. Ended(Stored(run), "success").copies = run.copies + 1
  BY <1>1, <1>3, RowFacts
<1> QED
  BY <1>1, <1>2, <1>3, <1>4, RowFacts, OlderFacts DEF Backed

LEMMA QueuesBacked ==
  ASSUME NEW rows \in [RunIds -> Run], NEW files \in [RunIds -> Nat], NEW next,
         AllBacked(rows, files), Queues(rows, next)
  PROVE  AllBacked(next, files)
<1>1. Grow(files, files)
  BY DEF Grow
<1>2. \A task \in Tasks : NewRow(task) \in Run /\ \A r \in RunIds : Backed(NewRow(task), files[r])
  BY NewRowFacts DEF Backed
<1> QED
  BY <1>1, <1>2, RowBacked DEF Queues

LEMMA InitBacked == Init => BackedInv
<1> SUFFICES ASSUME Init PROVE BackedInv
  OBVIOUS
<1>1. tx = db /\ \A r \in RunIds : db.runs[r] = NoRun /\ disk[r] = 0
  BY DEF Init
<1> QED
  BY <1>1 DEF BackedInv, AllBacked, Backed, NoRun

LEMMA NextBacked ==
  ASSUME IInv, BackedInv, [Next]_vars
  PROVE  BackedInv'
<1>1. /\ db.runs \in [RunIds -> Run] /\ tx.runs \in [RunIds -> Run] /\ disk \in [RunIds -> Nat]
      /\ AllBacked(db.runs, disk) /\ AllBacked(tx.runs, disk)
  BY DEF IInv, TypeOK, Tables, BackedInv
<1>2. Grow(disk, disk) /\ \A r \in RunIds : disk[r] \in Nat
  BY <1>1 DEF Grow
<1>3. \A r \in RunIds : db.runs[r] \in Run /\ tx.runs[r] \in Run
  BY <1>1
<1>4. \A r \in RunIds : Backed(db.runs[r], disk[r]) /\ Backed(tx.runs[r], disk[r])
  BY <1>1 DEF AllBacked
<1>5. ASSUME UNCHANGED disk, db'.runs = db.runs, tx'.runs = tx.runs
      PROVE  BackedInv'
  BY <1>1, <1>5 DEF BackedInv
<1>6. ASSUME UNCHANGED disk, db'.runs \in {db.runs, tx.runs}, tx'.runs \in {db.runs, tx.runs}
      PROVE  BackedInv'
  BY <1>1, <1>6 DEF BackedInv
<1> DEFINE OneRow(rows, next) ==
      \E r \in RunIds, run \in Run : next = [rows EXCEPT ![r] = run] /\ Backed(run, disk'[r])
<1>7. ASSUME Grow(disk, disk'),
              db' = db \/ db' = tx',
              OneRow(db.runs, tx'.runs) \/ OneRow(tx.runs, tx'.runs)
       PROVE  BackedInv'
  <2>1. AllBacked(db.runs, disk') /\ AllBacked(tx.runs, disk')
    BY <1>1, <1>7, RowBacked
  <2>2. ASSUME NEW rows \in [RunIds -> Run], AllBacked(rows, disk), OneRow(rows, tx'.runs)
        PROVE  AllBacked(tx'.runs, disk')
    <3>1. PICK r \in RunIds, run \in Run : tx'.runs = [rows EXCEPT ![r] = run] /\ Backed(run, disk'[r])
      BY <2>2
    <3>2. AllBacked([rows EXCEPT ![r] = run], disk')
      BY <1>1, <1>7, <2>2, <3>1, RowBacked
    <3> QED
      BY <3>1, <3>2
  <2>3. AllBacked(tx'.runs, disk')
    BY <1>1, <1>7, <2>2
  <2> QED
    BY <1>7, <2>1, <2>3 DEF BackedInv
<1>8. ASSUME NEW w \in Workers, RunOnce(w)
      PROVE  BackedInv'
  <2>1. CASE Wake(w) \/ SelectQueued(w) \/ EndCycle(w)
    BY <1>6, <2>1 DEF Wake, SelectQueued, EndCycle, NoWrite, Commit
  <2>2. CASE Sweep(w)
    <3>1. db' = db /\ disk' = disk
          /\ tx'.runs = [r \in RunIds |->
                          IF r \in seen[w] THEN Ended(db.runs[r], "timeout") ELSE db.runs[r]]
      BY <2>2, SweepRows DEF Sweep
    <3>2. \A r \in RunIds : Backed(tx'.runs[r], disk[r])
      BY <1>1, <1>3, <1>4, <3>1, RowStaysBacked
    <3> QED
      BY <1>1, <3>1, <3>2 DEF BackedInv, AllBacked
  <2>3. CASE EnqueueDue(w)
    <3>1. db' = db /\ disk' = disk /\ Queues(tx.runs, tx'.runs)
      BY <2>3, EnqueueDueRows DEF EnqueueDue
    <3> QED
      BY <1>1, <3>1, QueuesBacked DEF BackedInv
  <2>4. CASE Claim(w)
    <3>1. disk' = disk
      BY <2>4 DEF Claim
    <3>2. PICK r \in RunIds : db'.runs \in {tx.runs, [tx.runs EXCEPT ![r] = Started(tx.runs[r])]}
      BY <2>4, ClaimRows
    <3>3. tx' = db'
      BY <2>4, ClaimRows
    <3>4. Backed(Started(tx.runs[r]), disk[r]) /\ Started(tx.runs[r]) \in Run
      BY <1>2, <1>3, <1>4, RowStaysBacked, RowFacts
    <3> QED
      BY <1>1, <1>2, <3>1, <3>2, <3>3, <3>4, RowBacked DEF BackedInv
  <2>5. CASE SkipLocked(w)
    BY <1>5, <2>5, SkipLockedRows DEF SkipLocked
  <2>6. CASE OpenDevice(w)
    <3>1. disk' = disk
      BY <2>6 DEF OpenDevice
    <3> DEFINE r == cur[w]
    <3>2. /\ r \in RunIds /\ db' = db
          /\ tx'.runs \in {db.runs, [db.runs EXCEPT ![r] = Waiting(db.runs[r])]}
      BY <2>6, OpenDeviceRows
    <3>3. Backed(Waiting(db.runs[r]), disk[r]) /\ Waiting(db.runs[r]) \in Run
      BY <1>2, <1>3, <1>4, <3>2, RowStaysBacked, RowFacts
    <3> HIDE DEF r
    <3> QED
      BY <1>1, <1>2, <3>1, <3>2, <3>3, RowBacked DEF BackedInv
  <2>7. CASE RunLocally(w)
    <3> DEFINE r == cur[w]
    <3>1. /\ r \in RunIds /\ db' = db /\ disk' = disk
      BY <2>7, RunLocallyRows
    <3>2. PICK s \in {"success", "failed"} :
            /\ s = "success" => db.runs[r].task.method = "dry_run"
            /\ tx'.runs = [db.runs EXCEPT ![r] = Ended(db.runs[r], s)]
      BY <2>7, RunLocallyRows
    <3>3. Backed(Ended(db.runs[r], s), disk[r]) /\ Ended(db.runs[r], s) \in Run
      BY <1>2, <1>3, <1>4, <3>1, <3>2, RowStaysBacked, RowFacts DEF Finished
    <3> HIDE DEF r
    <3> QED
      BY <1>1, <1>2, <3>1, <3>2, <3>3, RowBacked DEF BackedInv
  <2>8. CASE DeviceSaved(w) \/ DeviceWaiting(w) \/ DeviceFailed(w) \/ TriggerFailed(w)
    <3> DEFINE r == cur[w]
               run == tx.runs[r]
    <3>1. /\ r \in RunIds /\ db' = db
          /\ \/ /\ disk' = [disk EXCEPT ![r] = @ + 1]
                /\ tx'.runs = [tx.runs EXCEPT ![r] = Ended(Stored(run), "success")]
             \/ /\ disk' = disk
                /\ \E next \in Outcomes(run) : tx'.runs = [tx.runs EXCEPT ![r] = next]
      BY <2>8, DeviceRows
    <3>2. run \in Run /\ Backed(run, disk[r]) /\ disk[r] \in Nat
      BY <1>2, <1>3, <1>4, <3>1
    <3> HIDE DEF run, r
    <3>3. CASE /\ disk' = [disk EXCEPT ![r] = @ + 1]
               /\ tx'.runs = [tx.runs EXCEPT ![r] = Ended(Stored(run), "success")]
      <4>1. Ended(Stored(run), "success") \in Run /\ Backed(Ended(Stored(run), "success"), disk[r] + 1)
        BY <3>2, RowStaysBacked, RowFacts DEF Finished
      <4>2. disk'[r] = disk[r] + 1 /\ Grow(disk, disk')
        BY <1>1, <3>1, <3>3, FileAdded
      <4> QED
        BY <1>7, <3>1, <3>3, <4>1, <4>2
    <3>4. CASE disk' = disk /\ \E next \in Outcomes(run) : tx'.runs = [tx.runs EXCEPT ![r] = next]
      <4>1. PICK next \in Outcomes(run) : tx'.runs = [tx.runs EXCEPT ![r] = next]
        BY <3>4
      <4>2. Closed(run) \in Run /\ Backed(Closed(run), disk[r])
        BY <3>2, RowStaysBacked, RowFacts
      <4>3. Ended(run, "failed") \in Run /\ Backed(Ended(run, "failed"), disk[r])
        BY <3>2, RowStaysBacked, RowFacts DEF Finished
      <4>4. Ended(Closed(run), "failed") \in Run /\ Backed(Ended(Closed(run), "failed"), disk[r])
        BY <3>2, <4>2, RowStaysBacked, RowFacts DEF Finished
      <4>5. next \in Run /\ Backed(next, disk[r])
        BY <3>2, <4>3, <4>4 DEF Outcomes
      <4> QED
        BY <1>2, <1>7, <3>1, <3>4, <4>1, <4>5
    <3> QED
      BY <3>1, <3>3, <3>4
  <2> QED
    BY <1>8, <2>1, <2>2, <2>3, <2>4, <2>5, <2>6, <2>7, <2>8 DEF RunOnce
<1>9. ASSUME NEW w \in Workers, Crash(w)
      PROVE  BackedInv'
  BY <1>6, <1>9 DEF Crash, Rollback, NoWrite
<1>10. ASSUME NEW r \in RunIds, OltCompleted(r) \/ OltLate(r) \/ OltExpired(r)
      PROVE  BackedInv'
  <2> DEFINE run == db.runs[r]
  <2>1. /\ tx' = db'
        /\ \/ /\ \E row \in {EndedIfRunning(Stored(Closed(run)), "success"), Stored(Closed(run))} :
                   db'.runs = [db.runs EXCEPT ![r] = row]
              /\ disk' = [disk EXCEPT ![r] = @ + 1]
           \/ /\ db'.runs = [db.runs EXCEPT ![r] = EndedIfRunning(Closed(run), "timeout")]
              /\ disk' = disk
    BY <1>10, OltRows
  <2>2. run \in Run /\ Backed(run, disk[r]) /\ disk[r] \in Nat
    BY <1>2, <1>3, <1>4
  <2> HIDE DEF run
  <2>3. Closed(run) \in Run /\ Backed(Closed(run), disk[r])
    BY <2>2, RowStaysBacked, RowFacts
  <2>4. CASE /\ \E row \in {EndedIfRunning(Stored(Closed(run)), "success"), Stored(Closed(run))} :
                  db'.runs = [db.runs EXCEPT ![r] = row]
             /\ disk' = [disk EXCEPT ![r] = @ + 1]
    <3>1. PICK row \in {EndedIfRunning(Stored(Closed(run)), "success"), Stored(Closed(run))} :
            db'.runs = [db.runs EXCEPT ![r] = row]
      BY <2>4
    <3>2. Stored(Closed(run)) \in Run
      BY <2>3, RowFacts
    <3>3. row \in Run /\ Backed(row, disk[r] + 1)
      <4>1. Backed(Stored(Closed(run)), disk[r] + 1)
            /\ Backed(Ended(Stored(Closed(run)), "success"), disk[r] + 1)
        BY <2>2, <2>3, RowStaysBacked
      <4>2. Ended(Stored(Closed(run)), "success") \in Run
        BY <3>2, RowFacts DEF Finished
      <4> QED
        BY <3>1, <3>2, <4>1, <4>2 DEF EndedIfRunning
    <3>4. disk'[r] = disk[r] + 1 /\ Grow(disk, disk')
      BY <1>1, <2>4, FileAdded
    <3> QED
      BY <1>7, <2>1, <3>1, <3>3, <3>4
  <2>5. CASE /\ db'.runs = [db.runs EXCEPT ![r] = EndedIfRunning(Closed(run), "timeout")]
             /\ disk' = disk
    <3>1. EndedIfRunning(Closed(run), "timeout") \in Run
          /\ Backed(EndedIfRunning(Closed(run), "timeout"), disk[r])
      BY <2>2, <2>3, RowStaysBacked, RowFacts DEF EndedIfRunning, Finished
    <3> QED
      BY <1>2, <1>7, <2>1, <2>5, <3>1
  <2> QED
    BY <2>1, <2>4, <2>5
<1>11. ASSUME Requests PROVE BackedInv'
  <2>1. /\ disk' = disk
        /\ \/ UNCHANGED <<db, tx>>
           \/ tx' = db' /\ Queues(db.runs, db'.runs)
    BY <1>11, RequestRows
  <2> QED
    BY <1>1, <1>5, <2>1, QueuesBacked DEF BackedInv
<1>12. ASSUME Tick PROVE BackedInv'
  <2>1. disk' = disk /\ \A r \in RunIds : db'.runs[r] = Older(db.runs[r]) /\ tx'.runs[r] = Older(tx.runs[r])
    BY <1>12, TickRows
  <2>2. \A r \in RunIds : Backed(Older(db.runs[r]), disk[r]) /\ Backed(Older(tx.runs[r]), disk[r])
    BY <1>2, <1>3, <1>4, RowStaysBacked
  <2> QED
    BY <2>1, <2>2 DEF BackedInv, AllBacked
<1>13. CASE UNCHANGED vars
  BY <1>5, <1>13 DEF vars
<1> QED
  BY <1>8, <1>9, <1>10, <1>11, <1>12, <1>13 DEF Next, Requests

\* A run that is reported as successful made a backup and every backup row has
\* its file, whatever crashes and however many workers there are (process_run,
\* save_ssh_backup, complete_received_file).
THEOREM Evidence == Spec => []SuccessIsBacked
<1>1. BackedInv => SuccessIsBacked
  BY DEF BackedInv, AllBacked, Backed, SuccessIsBacked
<1>2. IInv /\ BackedInv /\ [Next]_vars => (IInv /\ BackedInv)'
  BY NextIInv, NextBacked
<1> QED
  BY <1>1, <1>2, InitIInv, InitBacked, PTL DEF Spec

-----------------------------------------------------------------------------
(* With one worker, no run is executed twice                               *)

\* At most one worker process (one systemd unit, no `cli jobs-run-once` beside it).
Alone == \A v, w \in Workers : v = w

Begun(rows, r) == rows[r].status \notin {"absent", "queued"}

OnceOf(w) ==
  /\ pc[w] \in {"loop", "claimed", "device"} => \A r \in seen[w] : tx.runs[r].status = "queued"
  /\ Executing(w) => Begun(db.runs, cur[w]) /\ Begun(tx.runs, cur[w])
  /\ pc[w] = "claimed" => execs[cur[w]] = 0

OnceInv ==
  /\ \A r \in RunIds : execs[r] > 0 => Begun(db.runs, r) /\ Begun(tx.runs, r)
  /\ \A w \in Workers : OnceOf(w)
  /\ ExecutedAtMostOnce

\* A row that is queued was absent; the others stay as they are.
LEMMA QueuesRow ==
  ASSUME NEW rows \in [RunIds -> Run], NEW next, Queues(rows, next)
  PROVE  \A r \in RunIds : \/ next[r] = rows[r]
                           \/ /\ rows[r].status = "absent"
                              /\ next[r].status = "queued" /\ next[r].op = "none"
BY NewRowFacts DEF Queues

LEMMA InitOnce == Init => OnceInv
BY DEF Init, OnceInv, OnceOf, Executing, ExecutedAtMostOnce

LEMMA NextOnce ==
  ASSUME Alone, IInv, OnceInv, [Next]_vars
  PROVE  OnceInv'
<1>1. /\ db.runs \in [RunIds -> Run] /\ tx.runs \in [RunIds -> Run] /\ execs \in [RunIds -> Nat]
      /\ \A r \in RunIds : db.runs[r] \in Run /\ tx.runs[r] \in Run
      /\ \A w \in Workers : seen[w] \in SUBSET RunIds
  BY DEF IInv, TypeOK, Tables
<1>2. {"success", "failed", "timeout"} \subseteq Finished /\ {"absent", "queued"} \cap Finished = {}
  BY DEF Finished
<1>3. \A w \in Workers : writer # NoOne => tx = tx /\ (pc[w] = "claimed" => writer # w)
  BY DEF IInv, WriterInv, WriterOf
\* A step of the worker w, that leaves every row begun begun.
<1>4. ASSUME NEW w \in Workers, execs' = execs, OnceOf(w)',
             \A r \in RunIds : execs[r] > 0 => Begun(db'.runs, r) /\ Begun(tx'.runs, r)
      PROVE  OnceInv'
  BY <1>4 DEF OnceInv, ExecutedAtMostOnce, Alone
<1>5. ASSUME NEW w \in Workers, RunOnce(w)
      PROVE  OnceInv'
  <2>1. OnceOf(w)
    BY DEF OnceInv
  <2>2. CASE Wake(w) \/ SelectQueued(w)
    <3>1. pc'[w] = IF Wake(w) THEN "sweep" ELSE "loop"
      BY <2>2 DEF Wake, SelectQueued, Goto, IInv, TypeOK
    <3>2. db' = db /\ tx' = tx /\ execs' = execs
      BY <2>2 DEF Wake, SelectQueued, NoWrite
    <3>3. pc'[w] = "loop" => \A r \in seen'[w] : tx.runs[r].status = "queued"
      BY <2>2, <3>1 DEF Wake, SelectQueued, IInv, TypeOK
    <3> QED
      BY <1>4, <3>1, <3>2, <3>3 DEF OnceInv, OnceOf, Executing
  <2>3. CASE Sweep(w)
    <3>1. /\ pc'[w] = "enqueue" /\ db' = db /\ tx = db
          /\ \A r \in RunIds : \/ tx'.runs[r] = db.runs[r]
                               \/ tx'.runs[r] = Ended(db.runs[r], "timeout")
      BY <1>1, <2>3, SweepRows
    <3>2. \A r \in RunIds : Begun(db.runs, r) => Begun(tx'.runs, r)
      <4>1. ASSUME NEW r \in RunIds PROVE Ended(db.runs[r], "timeout").status = "timeout"
        <5>1. db.runs[r] \in Run
          BY <1>1
        <5> QED
          BY <1>2, <5>1, RowFacts
      <4> QED
        BY <3>1, <4>1 DEF Begun
    <3>3. execs' = execs
      BY <2>3 DEF Sweep
    <3> QED
      BY <1>4, <3>1, <3>2, <3>3 DEF OnceInv, OnceOf, Executing
  <2>4. CASE EnqueueDue(w)
    <3>1. pc[w] = "enqueue" /\ pc' = pc /\ execs' = execs /\ db' = db
      BY <2>4 DEF EnqueueDue, Write
    <3>2. \A r \in RunIds : Begun(tx.runs, r) => Begun(tx'.runs, r)
      BY <1>1, <2>4, EnqueueDueRows, QueuesRow DEF Begun
    <3> QED
      BY <1>4, <3>1, <3>2 DEF OnceInv, OnceOf, Executing
  <2>5. CASE Claim(w)
    <3>1. PICK r \in seen[w] :
            /\ cur'[w] = r /\ seen'[w] = seen[w] \ {r}
            /\ db'.runs = IF tx.runs[r].status = "queued"
                          THEN [tx.runs EXCEPT ![r] = Started(tx.runs[r])] ELSE tx.runs
      BY <2>5, ClaimRows
    <3>2. /\ pc[w] = "loop" /\ pc'[w] = "claimed" /\ tx' = db' /\ execs' = execs /\ r \in RunIds
      BY <1>1, <2>5, <3>1, ClaimRows DEF Claim
    <3>3. \A q \in seen[w] : tx.runs[q].status = "queued"
      BY <2>1, <3>2 DEF OnceOf
    <3>4. db'.runs = [tx.runs EXCEPT ![r] = Started(tx.runs[r])]
      BY <3>1, <3>3
    <3>5. Begun(db'.runs, r) /\ \A q \in RunIds \ {r} : db'.runs[q] = tx.runs[q]
      BY <1>1, <3>2, <3>4, RowFacts DEF Begun
    <3>6. execs[r] = 0
      BY <1>1, <3>1, <3>2, <3>3 DEF OnceInv, Begun
    <3>7. OnceOf(w)'
      BY <1>1, <3>1, <3>2, <3>3, <3>5, <3>6 DEF OnceOf
    <3>8. \A q \in RunIds : execs[q] > 0 => Begun(db'.runs, q)
      BY <3>5 DEF OnceInv, Begun
    <3> QED
      BY <1>4, <3>2, <3>7, <3>8
  <2>6. CASE SkipLocked(w)
    BY <1>4, <2>1, <2>6, SkipLockedRows DEF SkipLocked, OnceInv, OnceOf, Executing
  <2>7. CASE OpenDevice(w) \/ RunLocally(w)
    <3> DEFINE r == cur[w]
    <3>1. /\ r \in RunIds /\ db' = db /\ tx = db /\ pc[w] = "claimed" /\ pc'[w] \in {"device", "loop"}
          /\ execs' = [execs EXCEPT ![r] = @ + 1]
      BY <2>7, OpenDeviceRows, RunLocallyRows
    <3>2. seen' = seen /\ (pc'[w] = "device" => cur' = cur)
      BY <2>7, RunLocallyRows DEF OpenDevice
    <3>3. execs[r] = 0 /\ Begun(db.runs, r) /\ \A q \in seen[w] : db.runs[q].status = "queued"
      BY <2>1, <3>1 DEF OnceOf, Executing
    <3>4. Waiting(db.runs[r]).status = db.runs[r].status
          /\ \A s \in {"success", "failed"} : Ended(db.runs[r], s).status = s
      BY <1>1, <1>2, <3>1, RowFacts
    <3>5. Begun(tx'.runs, r) /\ \A q \in RunIds \ {r} : tx'.runs[q] = db.runs[q]
      <4>1. CASE OpenDevice(w)
        <5>1. tx'.runs \in {db.runs, [db.runs EXCEPT ![r] = Waiting(db.runs[r])]}
          BY <4>1, OpenDeviceRows
        <5> HIDE DEF r
        <5> QED
          BY <1>1, <3>1, <3>3, <3>4, <5>1 DEF Begun
      <4>2. CASE RunLocally(w)
        <5>1. PICK s \in {"success", "failed"} : tx'.runs = [db.runs EXCEPT ![r] = Ended(db.runs[r], s)]
          BY <4>2, RunLocallyRows
        <5> HIDE DEF r
        <5> QED
          BY <1>1, <3>1, <3>4, <5>1 DEF Begun
      <4> QED
        BY <2>7, <4>1, <4>2
    <3> HIDE DEF r
    <3>6. \A q \in seen[w] : tx'.runs[q].status = "queued"
      BY <1>1, <3>3, <3>5 DEF Begun
    <3>7. OnceOf(w)'
      BY <3>1, <3>2, <3>3, <3>5, <3>6 DEF OnceOf, Executing, r
    <3>8. \A q \in RunIds : /\ execs'[q] <= 1
                            /\ execs'[q] > 0 => Begun(db'.runs, q) /\ Begun(tx'.runs, q)
      BY <1>1, <3>1, <3>3, <3>5 DEF OnceInv, ExecutedAtMostOnce, Begun
    <3> QED
      BY <3>7, <3>8 DEF OnceInv, ExecutedAtMostOnce, Alone
  <2>8. CASE DeviceSaved(w) \/ DeviceWaiting(w) \/ DeviceFailed(w) \/ TriggerFailed(w)
    <3> DEFINE r == cur[w]
               run == tx.runs[r]
    <3>1. /\ r \in RunIds /\ db' = db /\ pc[w] = "device" /\ pc'[w] = "loop" /\ seen' = seen
          /\ execs' = execs
          /\ \E next \in Outcomes(run) \cup {Ended(Stored(run), "success")} :
               tx'.runs = [tx.runs EXCEPT ![r] = next]
      BY <2>8, DeviceRows
    <3>2. /\ Begun(tx.runs, r) /\ \A q \in seen[w] : tx.runs[q].status = "queued"
      BY <2>1, <3>1 DEF OnceOf, Executing
    <3>3. PICK next : /\ next \in Outcomes(run) \cup {Ended(Stored(run), "success")}
                      /\ tx'.runs = [tx.runs EXCEPT ![r] = next]
      BY <3>1
    <3>4. next.status \notin {"absent", "queued"}
      <4>1. run \in Run /\ Closed(run) \in Run /\ Stored(run) \in Run
        BY <1>1, <3>1, RowFacts
      <4>2. /\ Ended(run, "failed").status = "failed" /\ Ended(Closed(run), "failed").status = "failed"
            /\ Ended(Stored(run), "success").status = "success"
        BY <1>2, <4>1, RowFacts
      <4> QED
        BY <3>2, <3>3, <4>2 DEF Outcomes, Begun
    <3> HIDE DEF run, r
    <3>5. Begun(tx'.runs, r) /\ \A q \in RunIds \ {r} : tx'.runs[q] = tx.runs[q]
      BY <1>1, <3>1, <3>3, <3>4 DEF Begun
    <3>6. \A q \in seen[w] : tx'.runs[q].status = "queued"
      BY <1>1, <3>2, <3>5 DEF Begun
    <3>7. OnceOf(w)'
      BY <3>1, <3>6 DEF OnceOf, Executing
    <3> QED
      BY <1>4, <3>1, <3>5, <3>7 DEF OnceInv, Begun
  <2>9. CASE EndCycle(w)
    <3>1. db' = tx /\ tx' = tx /\ pc'[w] = "idle" /\ execs' = execs
      BY <2>9 DEF EndCycle, Commit, Goto, IInv, TypeOK
    <3> QED
      BY <1>4, <3>1 DEF OnceInv, OnceOf, Executing
  <2> QED
    BY <1>5, <2>2, <2>3, <2>4, <2>5, <2>6, <2>7, <2>8, <2>9 DEF RunOnce
<1>6. ASSUME NEW w \in Workers, Crash(w)
      PROVE  OnceInv'
  <2>1. db' = db /\ tx' \in {db, tx} /\ pc'[w] = "idle" /\ execs' = execs
    BY <1>6 DEF Crash, Rollback, NoWrite, Goto, IInv, TypeOK
  <2> QED
    BY <1>4, <2>1 DEF OnceInv, OnceOf, Executing
\* A step of the importer, of the web application, or of time: what is queued
\* stays queued and what is begun stays begun.
<1>7. ASSUME UNCHANGED <<pc, seen, cur, execs>>,
             \A r \in RunIds : /\ Begun(db.runs, r) => Begun(db'.runs, r)
                               /\ Begun(tx.runs, r) => Begun(tx'.runs, r)
                               /\ tx.runs[r].status = "queued" => tx'.runs[r].status = "queued"
      PROVE  OnceInv'
  <2>1. \A w \in Workers : Executing(w) => cur[w] \in RunIds
    BY DEF IInv, ClaimInv, ClaimOf
  <2> QED
    BY <1>1, <1>7, <2>1 DEF OnceInv, OnceOf, Executing, ExecutedAtMostOnce
<1>8. ASSUME NEW r \in RunIds, OltCompleted(r) \/ OltLate(r) \/ OltExpired(r)
      PROVE  OnceInv'
  <2> DEFINE run == db.runs[r]
  <2>1. /\ tx = db /\ tx' = db' /\ UNCHANGED <<pc, seen, cur, execs>>
        /\ \E row \in {EndedIfRunning(Stored(Closed(run)), "success"), Stored(Closed(run)),
                       EndedIfRunning(Closed(run), "timeout")} :
             db'.runs = [db.runs EXCEPT ![r] = row]
    BY <1>8, OltRows
  <2>2. /\ run \in Run /\ Closed(run) \in Run /\ Stored(Closed(run)) \in Run
        /\ Closed(run).status = run.status /\ Stored(Closed(run)).status = run.status
    BY <1>1, RowFacts
  <2>3. /\ Ended(Stored(Closed(run)), "success").status = "success"
        /\ Ended(Closed(run), "timeout").status = "timeout"
    BY <1>2, <2>2, RowFacts
  <2>4. db'.runs[r].status = run.status
        \/ (run.status = "running" /\ db'.runs[r].status \in {"success", "timeout"})
    BY <1>1, <2>1, <2>2, <2>3 DEF EndedIfRunning
  <2>5. \A q \in RunIds \ {r} : db'.runs[q] = db.runs[q]
    BY <1>1, <2>1
  <2> QED
    BY <1>7, <2>1, <2>4, <2>5 DEF Begun
<1>9. ASSUME Requests PROVE OnceInv'
  <2>1. UNCHANGED <<pc, seen, cur, execs>>
    BY <1>9, RequestRows
  <2>2. CASE UNCHANGED <<db, tx>>
    BY <1>7, <2>1, <2>2
  <2>3. CASE tx = db /\ tx' = db' /\ Queues(db.runs, db'.runs)
    BY <1>1, <1>7, <2>1, <2>3, QueuesRow DEF Begun
  <2> QED
    BY <1>9, <2>2, <2>3, RequestRows
<1>10. ASSUME Tick PROVE OnceInv'
  <2>1. \A r \in RunIds : /\ db'.runs[r].status = db.runs[r].status
                          /\ tx'.runs[r].status = tx.runs[r].status
    BY <1>1, <1>10, TickRows, OlderFacts
  <2> QED
    BY <1>7, <1>10, <2>1, TickRows DEF Begun
<1>11. CASE UNCHANGED vars
  BY <1>7, <1>11 DEF vars
<1> QED
  BY <1>5, <1>6, <1>8, <1>9, <1>10, <1>11 DEF Next, Requests

\* With one worker a run is handed to its method at most once, whatever crashes:
\* claims are committed before the device is reached, and nothing makes a
\* claimed run queued again (run_once, process_run).
THEOREM Once ==
  ASSUME Alone
  PROVE  Spec => []ExecutedAtMostOnce
<1>1. OnceInv => ExecutedAtMostOnce
  BY DEF OnceInv
<1>2. IInv /\ OnceInv /\ [Next]_vars => (IInv /\ OnceInv)'
  BY NextIInv, NextOnce
<1> QED
  BY <1>1, <1>2, InitIInv, InitOnce, PTL DEF Spec

-----------------------------------------------------------------------------
(* With one worker, and files due before the run times out, results last   *)

\* What waits for files ends before mark_timeouts gives it up.
InTime(run) ==
  /\ run.status = "queued" => run.op = "none"
  /\ run.status = "running" /\ run.op = "waiting" => run.opLeft <= run.left

Lasts(committed, current) == committed.status \in Finished => current.status = committed.status

FinalOf(w) ==
  /\ pc[w] = "sweep" => \A r \in seen[w] :
       \/ db.runs[r].status = "timeout"
       \/ db.runs[r].status = "running" /\ db.runs[r].left = 0
  /\ Executing(w) => db.runs[cur[w]].status = "running"
  /\ pc[w] = "claimed" => /\ db.runs[cur[w]].op = "none"
                          /\ db.runs[cur[w]].left + (IF late[w] THEN 1 ELSE 0) >= RunTimeout

FinalInv ==
  /\ \A r \in RunIds : InTime(db.runs[r]) /\ InTime(tx.runs[r]) /\ Lasts(db.runs[r], tx.runs[r])
  /\ \A w \in Workers : FinalOf(w)

LEMMA RowStaysInTime ==
  ASSUME NEW run \in Run, InTime(run)
  PROVE  /\ \A s \in Finished : InTime(Ended(run, s))
         /\ InTime(Stored(run)) /\ InTime(Closed(run)) /\ InTime(Older(run))
         /\ run.status = "queued" => InTime(Started(run))
         /\ run.left >= OpTimeout => (run.status # "queued" => InTime(Waiting(run)))
<1>1. \A s \in Finished : InTime(Ended(run, s))
  BY RowFacts DEF InTime, Finished
<1>2. InTime(Stored(run)) /\ InTime(Closed(run))
  BY RowFacts DEF InTime
<1>3. InTime(Older(run))
  <2>1. run.left \in Nat /\ run.opLeft \in Nat
    BY JobsAssumption DEF Run
  <2> QED
    BY <2>1, OlderFacts DEF InTime, Less
<1>4. run.status = "queued" => InTime(Started(run))
  BY RowFacts DEF InTime
<1>5. run.left >= OpTimeout => (run.status # "queued" => InTime(Waiting(run)))
  BY RowFacts DEF InTime
<1> QED
  BY <1>1, <1>2, <1>3, <1>4, <1>5

LEMMA InitFinal == Init => FinalInv
<1> SUFFICES ASSUME Init PROVE FinalInv
  OBVIOUS
<1>1. tx = db /\ \A r \in RunIds : db.runs[r] = NoRun
  BY DEF Init
<1> QED
  BY <1>1 DEF FinalInv, FinalOf, InTime, Lasts, NoRun, Init, Executing

LEMMA NextFinal ==
  ASSUME Alone, OpTimeout < RunTimeout, IInv, OnceInv, FinalInv, [Next]_vars
  PROVE  /\ FinalInv'
         /\ \A r \in RunIds : Lasts(db.runs[r], db'.runs[r])
<1> DEFINE RowsLast == \A r \in RunIds : /\ InTime(db'.runs[r]) /\ InTime(tx'.runs[r])
                                        /\ Lasts(db'.runs[r], tx'.runs[r])
                                        /\ Lasts(db.runs[r], db'.runs[r])
           Goal == FinalInv' /\ \A r \in RunIds : Lasts(db.runs[r], db'.runs[r])
<1>1. /\ db.runs \in [RunIds -> Run] /\ tx.runs \in [RunIds -> Run]
      /\ \A r \in RunIds : db.runs[r] \in Run /\ tx.runs[r] \in Run
      /\ \A w \in Workers : seen[w] \in SUBSET RunIds /\ late[w] \in BOOLEAN
  BY DEF IInv, TypeOK, Tables
<1>2. {"success", "failed", "timeout"} \subseteq Finished
      /\ {"absent", "queued", "running"} \cap Finished = {}
  BY DEF Finished
<1>3. \A r \in RunIds : /\ InTime(db.runs[r]) /\ InTime(tx.runs[r])
                        /\ Lasts(db.runs[r], tx.runs[r]) /\ Lasts(db.runs[r], db.runs[r])
  BY DEF FinalInv, Lasts
<1>4. ASSUME NEW w \in Workers, FinalOf(w)', RowsLast
      PROVE  Goal
  BY <1>4 DEF FinalInv, Alone
\* The worker is neither in its sweep nor executing a run after the step.
<1>5. ASSUME NEW w \in Workers, pc'[w] \in {"idle", "enqueue", "loop"}, RowsLast
      PROVE  Goal
  BY <1>4, <1>5 DEF FinalOf, Executing
<1>6. ASSUME NEW w \in Workers, RunOnce(w)
      PROVE  Goal
  <2>1. FinalOf(w) /\ OnceOf(w)
    BY DEF FinalInv, OnceInv
  <2>2. CASE Wake(w)
    <3>1. pc'[w] = "sweep" /\ seen'[w] = ExpiredRuns(db) /\ db' = db /\ tx' = tx
      BY <2>2 DEF Wake, Goto, NoWrite, IInv, TypeOK
    <3>2. FinalOf(w)'
      BY <3>1 DEF FinalOf, ExpiredRuns, Executing
    <3> QED
      BY <1>3, <1>4, <3>1, <3>2
  <2>3. CASE SelectQueued(w)
    BY <1>3, <1>5, <2>3 DEF SelectQueued, Goto, NoWrite, IInv, TypeOK
  <2>4. CASE Sweep(w)
    <3>1. /\ pc[w] = "sweep" /\ pc'[w] = "enqueue" /\ db' = db /\ tx = db
          /\ \A r \in RunIds \ seen[w] : tx'.runs[r] = db.runs[r]
          /\ \A r \in seen[w] : r \in RunIds /\ tx'.runs[r] = Ended(db.runs[r], "timeout")
      BY <1>1, <2>4, SweepRows
    <3>2. ASSUME NEW r \in seen[w]
          PROVE  InTime(tx'.runs[r]) /\ Lasts(db.runs[r], tx'.runs[r])
      <4>1. r \in RunIds /\ tx'.runs[r] = Ended(db.runs[r], "timeout") /\ db.runs[r] \in Run
        BY <1>1, <3>1
      <4>2. InTime(tx'.runs[r]) /\ tx'.runs[r].status = "timeout"
        <5>1. InTime(db.runs[r]) /\ "timeout" \in Finished
          BY <1>2, <1>3, <4>1
        <5>2. Ended(db.runs[r], "timeout").status = "timeout"
          BY <4>1, <5>1, RowFacts
        <5>3. InTime(Ended(db.runs[r], "timeout"))
          BY <4>1, <5>1, RowStaysInTime
        <5> QED
          BY <4>1, <5>2, <5>3
      <4>3. db.runs[r].status \in {"timeout", "running"}
        BY <2>1, <3>1 DEF FinalOf
      <4> QED
        BY <1>2, <4>2, <4>3 DEF Lasts
    <3> QED
      BY <1>3, <1>5, <3>1, <3>2
  <2>5. CASE EnqueueDue(w)
    <3>1. pc[w] = "enqueue" /\ pc' = pc /\ db' = db
      BY <2>5 DEF EnqueueDue, Write
    <3>2. ASSUME NEW r \in RunIds
          PROVE  InTime(tx'.runs[r]) /\ Lasts(db.runs[r], tx'.runs[r])
      <4>1. \/ tx'.runs[r] = tx.runs[r]
            \/ /\ tx.runs[r].status = "absent"
               /\ tx'.runs[r].status = "queued" /\ tx'.runs[r].op = "none"
        BY <1>1, <2>5, EnqueueDueRows, QueuesRow
      <4> QED
        BY <1>2, <1>3, <4>1 DEF InTime, Lasts
    <3> QED
      BY <1>3, <1>5, <3>1, <3>2
  <2>6. CASE Claim(w)
    <3>1. PICK r \in seen[w] :
            /\ cur'[w] = r
            /\ db'.runs = IF tx.runs[r].status = "queued"
                          THEN [tx.runs EXCEPT ![r] = Started(tx.runs[r])] ELSE tx.runs
      BY <2>6, ClaimRows
    <3>2. /\ pc[w] = "loop" /\ pc'[w] = "claimed" /\ tx' = db' /\ r \in RunIds /\ ~late'[w]
      BY <1>1, <2>6, <3>1, ClaimRows
    <3>3. tx.runs[r].status = "queued" /\ tx.runs[r].op = "none"
      BY <1>3, <2>1, <3>2 DEF OnceOf, InTime
    <3>4. /\ db'.runs[r] = Started(tx.runs[r])
          /\ \A q \in RunIds \ {r} : db'.runs[q] = tx.runs[q]
      BY <1>1, <3>1, <3>2, <3>3
    <3>5. /\ db'.runs[r].status = "running" /\ db'.runs[r].op = "none"
          /\ db'.runs[r].left = RunTimeout /\ InTime(db'.runs[r])
      BY <1>1, <1>3, <3>2, <3>3, <3>4, RowFacts, RowStaysInTime
    <3>6. FinalOf(w)'
      BY <3>1, <3>2, <3>5, JobsAssumption DEF FinalOf, Executing
    <3>7. Lasts(db.runs[r], db'.runs[r])
      BY <1>2, <1>3, <3>2, <3>3 DEF Lasts
    <3>8. RowsLast
      BY <1>3, <3>2, <3>4, <3>5, <3>7 DEF Lasts
    <3> QED
      BY <1>4, <3>6, <3>8
  <2>7. CASE SkipLocked(w)
    <3>1. pc'[w] = "loop" /\ db' = db /\ tx'.runs = tx.runs
      BY <2>7, SkipLockedRows DEF SkipLocked
    <3> QED
      BY <1>3, <1>5, <3>1
  <2>8. CASE OpenDevice(w)
    <3> DEFINE r == cur[w]
    <3>1. /\ r \in RunIds /\ db' = db /\ tx = db /\ pc[w] = "claimed" /\ pc'[w] = "device"
          /\ tx'.runs \in {db.runs, [db.runs EXCEPT ![r] = Waiting(db.runs[r])]}
          /\ cur' = cur
      BY <2>8, OpenDeviceRows DEF OpenDevice
    <3>2. /\ db.runs[r].status = "running" /\ db.runs[r].left \in Nat
          /\ db.runs[r].left + 1 >= RunTimeout
      <4>1. db.runs[r].left \in Nat
        BY <1>1, <3>1, JobsAssumption DEF Run
      <4> QED
        BY <2>1, <3>1, <4>1, JobsAssumption DEF FinalOf, Executing
    <3>3. db.runs[r].left >= OpTimeout
      BY <3>2, JobsAssumption
    <3>4. InTime(Waiting(db.runs[r])) /\ Waiting(db.runs[r]).status = "running"
      BY <1>1, <1>3, <3>1, <3>2, <3>3, RowStaysInTime, RowFacts
    <3>5. FinalOf(w)'
      BY <3>1, <3>2 DEF FinalOf, Executing
    <3> HIDE DEF r
    <3>6. /\ tx'.runs[r] \in {db.runs[r], Waiting(db.runs[r])}
          /\ \A q \in RunIds \ {r} : tx'.runs[q] = db.runs[q]
      BY <1>1, <3>1
    <3>7. InTime(tx'.runs[r]) /\ Lasts(db.runs[r], tx'.runs[r])
      BY <1>3, <3>1, <3>2, <3>4, <3>6 DEF Lasts
    <3>8. RowsLast
      BY <1>3, <3>1, <3>6, <3>7
    <3> QED
      BY <1>4, <3>5, <3>8
  <2>9. CASE RunLocally(w) \/ DeviceSaved(w) \/ DeviceWaiting(w) \/ DeviceFailed(w) \/ TriggerFailed(w)
    <3> DEFINE r == cur[w]
               run == tx.runs[r]
    <3>1. /\ r \in RunIds /\ db' = db /\ Executing(w) /\ pc'[w] = "loop"
          /\ \E next \in {run, Ended(run, "failed"), Ended(run, "success"),
                          Ended(Closed(run), "failed"), Ended(Stored(run), "success")} :
               tx'.runs = [tx.runs EXCEPT ![r] = next]
      <4>1. CASE RunLocally(w)
        <5>1. tx = db /\ \E s \in {"success", "failed"} :
                            tx'.runs = [db.runs EXCEPT ![r] = Ended(db.runs[r], s)]
          BY <4>1, RunLocallyRows
        <5>2. r \in RunIds /\ db' = db /\ Executing(w) /\ pc'[w] = "loop"
          BY <4>1, RunLocallyRows DEF Executing
        <5> QED
          BY <5>1, <5>2
      <4>2. CASE DeviceSaved(w) \/ DeviceWaiting(w) \/ DeviceFailed(w) \/ TriggerFailed(w)
        BY <4>2, DeviceRows DEF Outcomes, Executing
      <4> QED
        BY <2>9, <4>1, <4>2
    <3>2. db.runs[r].status = "running" /\ Lasts(db.runs[r], db.runs[r])
      BY <1>3, <2>1, <3>1 DEF FinalOf
    <3>3. run \in Run /\ Closed(run) \in Run /\ Stored(run) \in Run
      BY <1>1, <3>1, RowFacts
    <3>4. InTime(run) /\ InTime(Closed(run)) /\ InTime(Stored(run))
      BY <1>3, <3>1, <3>3, RowStaysInTime
    <3>5. /\ InTime(Ended(run, "failed")) /\ InTime(Ended(run, "success"))
          /\ InTime(Ended(Closed(run), "failed")) /\ InTime(Ended(Stored(run), "success"))
      BY <1>2, <3>3, <3>4, RowStaysInTime
    <3> HIDE DEF run, r
    <3>6. InTime(tx'.runs[r]) /\ \A q \in RunIds \ {r} : tx'.runs[q] = tx.runs[q]
      BY <1>1, <3>1, <3>4, <3>5
    <3>7. Lasts(db.runs[r], tx'.runs[r])
      BY <1>2, <3>2 DEF Lasts
    <3> QED
      BY <1>3, <1>5, <3>1, <3>6, <3>7
  <2>10. CASE EndCycle(w)
    <3>1. db' = tx /\ tx' = tx /\ pc'[w] = "idle"
      BY <2>10 DEF EndCycle, Commit, Goto, IInv, TypeOK
    <3>2. RowsLast
      BY <1>3, <3>1 DEF Lasts
    <3> QED
      BY <1>5, <3>1, <3>2
  <2> QED
    BY <1>6, <2>2, <2>3, <2>4, <2>5, <2>6, <2>7, <2>8, <2>9, <2>10 DEF RunOnce
<1>7. ASSUME NEW w \in Workers, Crash(w)
      PROVE  Goal
  <2>1. db' = db /\ tx' \in {db, tx} /\ pc'[w] = "idle"
    BY <1>7 DEF Crash, Rollback, NoWrite, Goto, IInv, TypeOK
  <2> QED
    BY <1>3, <1>5, <2>1
<1>8. ASSUME NEW r \in RunIds, OltCompleted(r) \/ OltLate(r) \/ OltExpired(r)
      PROVE  Goal
  <2> DEFINE run == db.runs[r]
             c == Closed(run)
             b == Stored(c)
  <2>1. /\ writer = NoOne /\ tx' = db' /\ UNCHANGED <<pc, seen, cur, late>> /\ run.op = "waiting"
        /\ \/ run.opLeft > 0 /\ db'.runs = [db.runs EXCEPT ![r] = EndedIfRunning(b, "success")]
           \/ db'.runs = [db.runs EXCEPT ![r] = b]
           \/ db'.runs = [db.runs EXCEPT ![r] = EndedIfRunning(c, "timeout")]
    BY <1>8, OltRows
  <2>2. /\ run \in Run /\ c \in Run /\ b \in Run
        /\ c.status = run.status /\ b.status = run.status /\ b.left = run.left /\ c.left = run.left
    BY <1>1, RowFacts
  <2>3. InTime(run) /\ InTime(c) /\ InTime(b)
    BY <1>3, <2>2, RowStaysInTime
  <2>4. /\ Ended(b, "success").status = "success" /\ InTime(Ended(b, "success"))
        /\ Ended(c, "timeout").status = "timeout" /\ InTime(Ended(c, "timeout"))
    BY <1>2, <2>2, <2>3, RowFacts, RowStaysInTime
  <2>5. run.left \in Nat /\ run.opLeft \in Nat
    BY <2>2, JobsAssumption DEF Run
  <2>6. /\ \A q \in RunIds \ {r} : db'.runs[q] = db.runs[q]
        /\ \/ run.opLeft > 0 /\ db'.runs[r] = EndedIfRunning(b, "success")
           \/ db'.runs[r] = b
           \/ db'.runs[r] = EndedIfRunning(c, "timeout")
    <3> HIDE DEF run, c, b
    <3> QED
      BY <1>1, <2>1
  <2> HIDE DEF run, c, b
  <2>7. /\ InTime(db'.runs[r])
        /\ run.status # "running" => db'.runs[r].status = run.status
        /\ run.status = "running" /\ run.left = 0 =>
             \/ db'.runs[r].status = "timeout"
             \/ db'.runs[r].status = "running" /\ db'.runs[r].left = 0
    BY <2>1, <2>2, <2>3, <2>4, <2>5, <2>6 DEF EndedIfRunning, InTime
  <2>8. RowsLast
    BY <1>2, <1>3, <2>1, <2>6, <2>7 DEF Lasts, run
  <2>9. ASSUME NEW w \in Workers PROVE FinalOf(w)'
    <3>1. FinalOf(w) /\ pc[w] # "device" /\ (Executing(w) => cur[w] \in RunIds)
      BY <2>1, JobsAssumption DEF FinalInv, IInv, WriterInv, WriterOf, ClaimInv, ClaimOf
    <3>2. pc[w] = "claimed" => cur[w] # r
      BY <2>1, <3>1 DEF FinalOf, run
    <3>3. pc[w] = "claimed" => cur[w] \in RunIds /\ db'.runs[cur[w]] = db.runs[cur[w]]
      BY <2>6, <3>1, <3>2 DEF Executing
    <3>4. \A q \in RunIds :
            \/ db.runs[q].status = "timeout"
            \/ db.runs[q].status = "running" /\ db.runs[q].left = 0
            => \/ db'.runs[q].status = "timeout"
               \/ db'.runs[q].status = "running" /\ db'.runs[q].left = 0
      BY <2>6, <2>7 DEF run
    <3> QED
      BY <1>1, <2>1, <3>1, <3>3, <3>4 DEF FinalOf, Executing
  <2> QED
    BY <2>8, <2>9 DEF FinalInv
<1>9. ASSUME Requests PROVE Goal
  <2>1. UNCHANGED <<pc, seen, cur, late>>
    BY <1>9, RequestRows
  <2>2. CASE UNCHANGED <<db, tx>>
    BY <1>3, <2>1, <2>2 DEF FinalInv, FinalOf, Executing
  <2>3. CASE tx = db /\ tx' = db' /\ Queues(db.runs, db'.runs)
    <3>1. \A r \in RunIds : \/ db'.runs[r] = db.runs[r]
                            \/ /\ db.runs[r].status = "absent"
                               /\ db'.runs[r].status = "queued" /\ db'.runs[r].op = "none"
      BY <1>1, <2>3, QueuesRow
    <3>2. RowsLast
      BY <1>2, <1>3, <2>3, <3>1 DEF InTime, Lasts
    <3>3. ASSUME NEW w \in Workers PROVE FinalOf(w)'
      <4>1. FinalOf(w) /\ (Executing(w) => cur[w] \in RunIds)
        BY DEF FinalInv, IInv, ClaimInv, ClaimOf
      <4> QED
        BY <1>1, <2>1, <3>1, <4>1 DEF FinalOf, Executing
    <3> QED
      BY <3>2, <3>3 DEF FinalInv
  <2> QED
    BY <1>9, <2>2, <2>3, RequestRows
<1>10. ASSUME Tick PROVE Goal
  <2>1. /\ UNCHANGED <<pc, seen, cur>> /\ late' = [w \in Workers |-> pc[w] = "claimed"]
        /\ \A w \in Workers : pc[w] = "claimed" => ~late[w]
        /\ \A r \in RunIds : db'.runs[r] = Older(db.runs[r]) /\ tx'.runs[r] = Older(tx.runs[r])
    BY <1>10, TickRows
  <2>2. \A r \in RunIds :
          /\ db'.runs[r].status = db.runs[r].status /\ tx'.runs[r].status = tx.runs[r].status
          /\ db'.runs[r].op = db.runs[r].op
          /\ db.runs[r].left \in Nat /\ db'.runs[r].left = Less(db.runs[r].left)
    <3> TAKE r \in RunIds
    <3>1. db.runs[r] \in Run /\ tx.runs[r] \in Run
      BY <1>1
    <3> QED
      BY <2>1, <3>1, OlderFacts, JobsAssumption DEF Run
  <2>3. RowsLast
    <3>1. \A r \in RunIds : InTime(db'.runs[r]) /\ InTime(tx'.runs[r])
      BY <1>1, <1>3, <2>1, RowStaysInTime
    <3> QED
      BY <1>3, <2>2, <3>1 DEF Lasts
  <2>4. ASSUME NEW w \in Workers PROVE FinalOf(w)'
    <3>1. FinalOf(w) /\ (Executing(w) => cur[w] \in RunIds)
      BY DEF FinalInv, IInv, ClaimInv, ClaimOf
    <3>2. pc[w] = "claimed" => ~late[w] /\ late'[w]
      BY <2>1
    <3>3. pc[w] = "sweep" => \A r \in seen[w] :
            \/ db'.runs[r].status = "timeout"
            \/ db'.runs[r].status = "running" /\ db'.runs[r].left = 0
      BY <1>1, <2>2, <3>1 DEF FinalOf, Less
    <3>4. Executing(w) => db'.runs[cur[w]].status = "running"
      BY <2>2, <3>1 DEF FinalOf
    <3>5. pc[w] = "claimed" => /\ db'.runs[cur[w]].op = "none"
                               /\ db'.runs[cur[w]].left + 1 >= RunTimeout
      BY <2>2, <3>1, <3>2, JobsAssumption DEF FinalOf, Executing, Less
    <3> QED
      BY <2>1, <3>2, <3>3, <3>4, <3>5 DEF FinalOf, Executing
  <2> QED
    BY <2>3, <2>4 DEF FinalInv
<1>11. CASE UNCHANGED vars
  BY <1>3, <1>11 DEF vars, FinalInv, FinalOf, Executing
<1> QED
  BY <1>6, <1>7, <1>8, <1>9, <1>10, <1>11 DEF Next, Requests

\* With one worker and an OLT deadline shorter than the run timeout, a result
\* that is committed is never replaced: a late claim, mark_timeouts and the
\* importer only end runs that are still running (mark_timeouts,
\* complete_received_file, expire_due_operations).
THEOREM Finality ==
  ASSUME Alone, OpTimeout < RunTimeout
  PROVE  Spec => ResultsAreFinal
<1>1. IInv /\ OnceInv /\ [Next]_vars => (IInv /\ OnceInv)'
  BY NextIInv, NextOnce
<1>2. IInv /\ OnceInv /\ FinalInv /\ [Next]_vars => FinalInv'
  BY NextFinal
<1>3. IInv /\ OnceInv /\ FinalInv /\ [Next]_vars =>
        [\A r \in RunIds : db.runs[r].status \in Finished
           => db'.runs[r].status = db.runs[r].status]_vars
  BY NextFinal DEF Lasts
<1> QED
  BY <1>1, <1>2, <1>3, InitIInv, InitOnce, InitFinal, PTL DEF Spec, ResultsAreFinal

=============================================================================
