----------------------------- MODULE FtpImporter -----------------------------
(***************************************************************************)
(* The FTP importer (backup_manager/ftp_importer.py, ftp_pipeline.py,      *)
(* ftp_correlation.py, ftp_storage.py) and the two-file operations of      *)
(* RouterOS (artifacts.py, mikrotik_ftp_uploads.py), with                  *)
(* backup_artifacts_v2_enabled=1 and backup_format 'both'.                 *)
(*                                                                         *)
(* Equipment puts files into a directory; a timer and the command line     *)
(* scan it.  A file is moved from directory to directory at once and for   *)
(* good; the rows that describe it are committed later, or never.  db is   *)
(* committed, tx the writing connection's copy.                            *)
(***************************************************************************)
EXTENDS Naturals, FiniteSets

CONSTANTS
  Importers,          \* processes that may be inside scan_once
  Artifacts,          \* names of the files of one RouterOS execution
  Exports,            \* those that are text
  Plain,              \* names in an account without integration
  Loose,              \* names the integration does not manage
  Contents, Bad,      \* contents; those a validator turns down
  MaxUploads,         \* bound: files the equipment sends
  MaxRows,            \* bound: rows of ftp_received_files
  MaxFaults,          \* bound: crashes, I/O errors, long foreign transactions
  NoOne, Other        \* nobody; a process outside this module that writes

ASSUME ImporterAssumption ==
  /\ MaxUploads \in Nat /\ MaxRows \in Nat /\ MaxFaults \in Nat
  /\ Bad \subseteq Contents /\ Exports \subseteq Artifacts
  /\ Importers \cap {NoOne, Other} = {} /\ NoOne # Other
  /\ Artifacts # {}
  /\ Artifacts \cap Plain = {} /\ Artifacts \cap Loose = {} /\ Plain \cap Loose = {}

VARIABLES
  up, place,          \* what each upload is, the directory it is in
  db, tx, writer,     \* committed tables, the writer's copy, the writer
  pc, todo, job,      \* where a scan is, the names it has left, the one it is at
  due,                \* whether the deadline has passed by the scan's clock
  faults

vars == <<up, place, db, tx, writer, pc, todo, job, due, faults>>

Names == Artifacts \cup Plain \cup Loose
Uploads == 1..MaxUploads
Rows == 1..MaxRows

RowStatuses == {"absent", "waiting_stable", "processing", "imported", "rejected", "failed", "duplicate"}
Active == {"waiting_stable", "processing"}

\* seen: the upload whose size and mtime the row holds; calm: ftp_stable_seconds
\* have passed since.
Row == [name : Names \cup {NoOne}, status : RowStatuses, seen : 0..MaxUploads, calm : BOOLEAN]
NoRow == [name |-> NoOne, status |-> "absent", seen |-> 0, calm |-> FALSE]

\* A file of the operation; sha and backup as the last artifact that was stored
\* left them.
Artifact == [state : {"expected", "validating", "valid", "invalid", "suspicious", "expired", "late"},
             sha : Contents \cup {NoOne}, backup : 0..MaxUploads]
Expected == [state |-> "expected", sha |-> NoOne, backup |-> 0]

OpStatuses == {"none", "waiting_upload", "validating", "success", "failed", "expired"}

\* stored: uploads that have an available row of backups; sent: how often the
\* backup was given to the delivery queues; past: the deadline has passed.
Tables == [rows : [Rows -> Row], op : OpStatuses, past : BOOLEAN, arts : [Artifacts -> Artifact],
           stored : SUBSET Uploads, sent : [Uploads -> 0..2]]

Steps == {"idle", "scan", "detect", "observe", "rejectfile", "rejectrow", "claim", "correlate",
          "move", "judge", "invalid", "repeat", "repeatrow", "conflict", "setaside",
          "store", "fail"}

\* name, row: what is looked at; got: the upload lstat found, later the one moved
\* to processing.
NoJob == [name |-> NoOne, row |-> 0, got |-> 0]

-----------------------------------------------------------------------------
(* Queries                                                                 *)

Incoming(n) == {u \in Uploads : place[u] = "incoming" /\ up[u].name = n}
Seen(p) == IF writer = p THEN tx ELSE db
MayWrite(p) == writer \in {NoOne, p}

\* Mutant: settled rows count as well.
KnownAny(d, n) == {r \in Rows : d.rows[r].name = n}

Known(d, n) == {r \in Rows : d.rows[r].name = n /\ d.rows[r].status \in Active}

\* ORDER BY id DESC LIMIT 1; 0 when there is none.
LatestRow(d, n) ==
  IF Known(d, n) = {} THEN 0 ELSE CHOOSE r \in Known(d, n) : \A q \in Known(d, n) : q <= r

Free(d) == {r \in Rows : d.rows[r].status = "absent"}

\* Mutant: one valid file is enough.
ReduceAny(arts, past) ==
  IF \E a \in Artifacts : arts[a].state = "valid" THEN "success" ELSE "waiting_upload"

\* reduce_operation_state, every artifact being required.
Reduce(arts, past) ==
  LET states == {arts[a].state : a \in Artifacts} IN
    IF states \cap {"invalid", "suspicious"} # {} THEN "failed"
    ELSE IF states \cap {"expired", "late"} # {} THEN "expired"
    ELSE IF states = {"valid"} THEN "success"
    ELSE IF past THEN "expired"
    ELSE IF "validating" \in states THEN "validating" ELSE "waiting_upload"

\* What begin_validation makes of a name: the account has no integration, the
\* integration does not manage the name, or it does, unless the date, time or
\* type in it is refused.
Classes(n) ==
  CASE n \in Plain -> {"plain"} [] n \in Loose -> {"unmanaged"} [] OTHER -> {"managed", "reject"}

\* validate_artifact.  An export with commands that carry secrets is set aside
\* for review; a binary backup is valid or not.
ExportVerdicts(c) == IF c \in Bad THEN {"invalid", "suspicious"} ELSE {"valid"}
BinaryVerdicts(c) == IF c \in Bad THEN {"invalid"} ELSE {"valid"}
Verdicts(a, c) == IF a \in Exports THEN ExportVerdicts(c) ELSE BinaryVerdicts(c)

\* Mutant: any stored content makes the next upload a repetition.
DuplicateKindNameOnly(a, c) ==
  IF a.backup # 0 /\ a.state \in {"valid", "late"} THEN "repeat"
  ELSE IF a.backup # 0 /\ a.sha # c THEN "conflict" ELSE "store"

\* artifact_duplicate_kind
DuplicateKind(a, c) ==
  IF a.backup # 0 /\ a.sha = c /\ a.state \in {"valid", "late"} THEN "repeat"
  ELSE IF a.backup # 0 /\ a.sha # c THEN "conflict" ELSE "store"

\* Mutant: only the scan's own clock says that a file is late.
IsLateByClock(d, now) == now

\* complete_artifact: by the operation's status or by the scan's clock.
IsLate(d, now) == d.op = "expired" \/ now

-----------------------------------------------------------------------------
(* Updates; now says whether the deadline has passed by the scan's clock   *)

SetStatus(d, r, s) == [d EXCEPT !.rows[r].status = s]
SetState(d, a, s) == [d EXCEPT !.arts[a].state = s]

\* reduce_persisted_operation
Reduced(d, now) == [d EXCEPT !.op = Reduce(d.arts, now)]

\* ensure_mikrotik_operation: the first file creates the operation, with all its
\* expectations and one deadline.
Ensured(d) == IF d.op = "none" THEN [d EXCEPT !.op = "waiting_upload"] ELSE d

\* begin_validation; a settled artifact is left alone.
Begun(d, a, now) ==
  LET e == Ensured(d) IN
    IF e.arts[a].state \in {"valid", "late", "expired"} THEN e ELSE Reduced(SetState(e, a, "validating"), now)

\* expire_due_operations
Expire(d) ==
  Reduced([d EXCEPT !.arts = [a \in Artifacts |->
    IF d.arts[a].state = "expected" THEN [d.arts[a] EXCEPT !.state = "expired"] ELSE d.arts[a]]], TRUE)

\* store_backup, then what depends on the kind of account: a plain backup is
\* dispatched at once, a pair when this file makes the operation successful.
Bump(n) == IF n < 2 THEN n + 1 ELSE n
Dispatch(d, us) == [d EXCEPT !.sent = [u \in Uploads |-> IF u \in us THEN Bump(@[u]) ELSE @[u]]]
StoreBackup(d, r, u) == SetStatus([d EXCEPT !.stored = @ \cup {u}], r, "imported")

CompleteArtifact(d, a, u, now) ==
  Reduced([d EXCEPT !.arts[a] = [state |-> IF IsLate(d, now) THEN "late" ELSE "valid",
                                 sha |-> up[u].content, backup |-> u]], now)

ValidBackups(d) == {d.arts[a].backup : a \in {b \in Artifacts : d.arts[b].state = "valid"}}

\* Mutant: every stored file is dispatched, whatever became of its operation.
ToDispatchEach(d, e, u) == {u}

\* The backups to dispatch when d became e.
ToDispatch(d, e, u) == IF d.op # "success" /\ e.op = "success" THEN ValidBackups(e) ELSE {}

StoreArtifact(d, r, a, u, now) ==
  LET e == CompleteArtifact(StoreBackup(d, r, u), a, u, now) IN Dispatch(e, ToDispatch(d, e, u))

StorePlain(d, r, u) == Dispatch(StoreBackup(d, r, u), {u})

-----------------------------------------------------------------------------
Init ==
  /\ up = [u \in Uploads |-> [name |-> NoOne, content |-> NoOne]]
  /\ place = [u \in Uploads |-> "none"]
  /\ db = [rows |-> [r \in Rows |-> NoRow], op |-> "none", past |-> FALSE,
           arts |-> [a \in Artifacts |-> Expected],
           stored |-> {}, sent |-> [u \in Uploads |-> 0]]
  /\ tx = db
  /\ writer = NoOne
  /\ pc = [p \in Importers |-> "idle"]
  /\ todo = [p \in Importers |-> {}]
  /\ job = [p \in Importers |-> NoJob]
  /\ due = [p \in Importers |-> FALSE]
  /\ faults = 0

Commit(d) == db' = d /\ tx' = d /\ writer' = NoOne
Write(p, d) == MayWrite(p) /\ tx' = d /\ writer' = p /\ db' = db
NoWrite == UNCHANGED <<db, tx, writer>>
Goto(p, l) == pc' = [pc EXCEPT ![p] = l]
Proceed(p, l) == Goto(p, l) /\ UNCHANGED <<todo, job, due, faults>>
NextFile(p) == Goto(p, "scan") /\ job' = [job EXCEPT ![p] = NoJob] /\ UNCHANGED <<todo, due, faults>>
Put(u, there) == place' = [place EXCEPT ![u] = there]

-----------------------------------------------------------------------------
(* scan_once: one look at each file of the directory                       *)

\* The scan fixes its clock, expires what is due by it and lists the files.
Start(p) ==
  /\ pc[p] = "idle"
  /\ due' = [due EXCEPT ![p] = db.past]
  /\ IF db.past /\ db.op \in {"waiting_upload", "validating"}
     THEN Write(p, Expire(db)) ELSE NoWrite
  /\ todo' = [todo EXCEPT ![p] = {n \in Names : Incoming(n) # {}}]
  /\ Goto(p, "scan")
  /\ UNCHANGED <<up, place, job, faults>>

\* The row of the file and its lstat decide what is done next; a file that has
\* gone, or is not stable yet, is passed over.
Look(p) ==
  /\ pc[p] = "scan"
  /\ \E n \in todo[p] :
       LET r == LatestRow(Seen(p), n) IN
         /\ todo' = [todo EXCEPT ![p] = @ \ {n}]
         /\ \/ /\ \/ Incoming(n) = {}
                  \/ r # 0 /\ Seen(p).rows[r].seen \in Incoming(n) /\ ~Seen(p).rows[r].calm
               /\ UNCHANGED <<pc, job>>
            \/ \E u \in Incoming(n) :
                 /\ job' = [job EXCEPT ![p] = [name |-> n, row |-> r, got |-> u]]
                 /\ \/ r = 0 /\ Goto(p, "detect")
                    \/ r # 0 /\ Seen(p).rows[r].seen # u /\ Goto(p, "observe")
                    \/ /\ r # 0 /\ Seen(p).rows[r].seen = u /\ Seen(p).rows[r].calm
                       /\ \/ Goto(p, "claim")
                          \/ Goto(p, "rejectfile")  \* a size, quota, count or name not allowed
  /\ NoWrite
  /\ UNCHANGED <<up, place, due, faults>>

Detect(p) ==
  /\ pc[p] = "detect"
  /\ \E r \in Free(Seen(p)) :
       /\ \A q \in Free(Seen(p)) : r <= q
       /\ Write(p, [Seen(p) EXCEPT !.rows[r] =
            [name |-> job[p].name, status |-> "waiting_stable", seen |-> job[p].got, calm |-> FALSE]])
  /\ NextFile(p)
  /\ UNCHANGED <<up, place>>

Observe(p) ==
  /\ pc[p] = "observe"
  /\ Write(p, [Seen(p) EXCEPT !.rows[job[p].row].seen = job[p].got, !.rows[job[p].row].calm = FALSE])
  /\ NextFile(p)
  /\ UNCHANGED <<up, place>>

\* _reject: the file that is there now is moved, the row is named by its id.
RejectFile(p) ==
  /\ pc[p] = "rejectfile"
  /\ \/ \E u \in Incoming(job[p].name) : Put(u, "rejected")
     \/ Incoming(job[p].name) = {} /\ UNCHANGED place
  /\ Proceed(p, "rejectrow")
  /\ NoWrite /\ UNCHANGED up

RejectRow(p) ==
  /\ pc[p] = "rejectrow"
  /\ Write(p, SetStatus(Seen(p), job[p].row, "rejected"))
  /\ NextFile(p)
  /\ UNCHANGED <<up, place>>

\* Mutant: the claim forgets AND status='waiting_stable'.
ClaimAny(p) ==
  /\ pc[p] = "claim"
  /\ MayWrite(p)
  /\ Commit([SetStatus(Seen(p), job[p].row, "processing") EXCEPT !.rows[job[p].row].calm = FALSE])
  /\ Proceed(p, "correlate")
  /\ UNCHANGED <<up, place>>

\* The row is taken if it still waits, and that is committed.
Claim(p) ==
  /\ pc[p] = "claim"
  /\ MayWrite(p)
  /\ IF Seen(p).rows[job[p].row].status = "waiting_stable"
     THEN /\ Commit([SetStatus(Seen(p), job[p].row, "processing") EXCEPT !.rows[job[p].row].calm = FALSE])
          /\ Proceed(p, "correlate")
     ELSE Write(p, Seen(p)) /\ NextFile(p)
  /\ UNCHANGED <<up, place>>

-----------------------------------------------------------------------------
(* A claimed file                                                          *)

\* correlate: a file that is not managed waits again; one that is refused is
\* moved away before anything is written.
Correlate(p) ==
  /\ pc[p] = "correlate"
  /\ \/ "plain" \in Classes(job[p].name) /\ NoWrite /\ Proceed(p, "move")
     \/ /\ "unmanaged" \in Classes(job[p].name)
        /\ Write(p, SetStatus(Seen(p), job[p].row, "waiting_stable"))
        /\ NextFile(p)
     \/ /\ "managed" \in Classes(job[p].name)
        /\ Write(p, Begun(Seen(p), job[p].name, due[p]))
        /\ Proceed(p, "move")
     \/ "reject" \in Classes(job[p].name) /\ NoWrite /\ Proceed(p, "rejectfile")
  /\ UNCHANGED <<up, place>>

\* The file that has the name now goes to processing; the correlation of an
\* artifact is committed after that.
Move(p) ==
  /\ pc[p] = "move"
  /\ \/ \E u \in Incoming(job[p].name) :
          /\ Put(u, "processing")
          /\ job' = [job EXCEPT ![p].got = u]
          /\ IF writer = p THEN Commit(tx) ELSE NoWrite
          /\ Goto(p, "judge")
     \/ /\ Incoming(job[p].name) = {}
        /\ NoWrite
        /\ Goto(p, "fail")
        /\ UNCHANGED <<place, job>>
  /\ UNCHANGED <<up, todo, due, faults>>

\* Hash and validation of an artifact, and what it is to its operation; an
\* unreadable file fails.
Judge(p) ==
  LET c == up[job[p].got].content IN
    /\ pc[p] = "judge"
    /\ Proceed(p, IF job[p].name \in Plain THEN "store"
                  ELSE IF Verdicts(job[p].name, c) # {"valid"} THEN "invalid"
                  ELSE DuplicateKind(Seen(p).arts[job[p].name], c))
    /\ NoWrite /\ UNCHANGED <<up, place>>

\* reject_artifact, mark_artifact_conflict
Rejected(d, a, verdict, c) == [d EXCEPT !.arts[a].state = verdict, !.arts[a].sha = c]
Conflicting(d, a) == SetState(d, a, "suspicious")

\* The artifact, its operation and fail_upload, before the file is touched.
TurnDown(p) ==
  LET a == job[p].name
      d == Seen(p)
      c == up[job[p].got].content IN
    /\ \/ /\ pc[p] = "invalid"
          /\ \E v \in Verdicts(a, c) :
               Write(p, Reduced(Rejected(d, a, v, c), due[p]))
       \/ /\ pc[p] = "conflict"
          /\ Write(p, Reduced(Conflicting(d, a), due[p]))
    /\ Proceed(p, "setaside")
    /\ UNCHANGED <<up, place>>

\* _reject of a file in processing; its row follows.
SetAside(p) ==
  /\ pc[p] = "setaside"
  /\ Put(job[p].got, "rejected")
  /\ Proceed(p, "rejectrow")
  /\ NoWrite /\ UNCHANGED up

\* The same content again: unlinked, then noted.
Unlink(p) ==
  /\ pc[p] = "repeat"
  /\ Put(job[p].got, "gone")
  /\ Proceed(p, "repeatrow")
  /\ NoWrite /\ UNCHANGED up

Repeat(p) ==
  /\ pc[p] = "repeatrow"
  /\ Write(p, SetStatus(Seen(p), job[p].row, "duplicate"))
  /\ NextFile(p)
  /\ UNCHANGED <<up, place>>

Stored(p) ==
  IF job[p].name \in Plain THEN StorePlain(Seen(p), job[p].row, job[p].got)
                           ELSE StoreArtifact(Seen(p), job[p].row, job[p].name, job[p].got, due[p])

Store(p) ==
  /\ pc[p] = "store"
  /\ Write(p, Stored(p))
  /\ Put(job[p].got, "backups")
  /\ NextFile(p)
  /\ UNCHANGED up

\* Mutant: the savepoint is released instead of rolled back.
StoreFailsKept(p) ==
  /\ pc[p] = "store"
  /\ faults < MaxFaults /\ faults' = faults + 1
  /\ Write(p, Stored(p))
  /\ Goto(p, "fail")
  /\ UNCHANGED <<up, place, todo, job, due>>

\* Storing fails half way.  An artifact goes back to the savepoint, and its file
\* to processing; a plain backup that was stored stays stored.
StoreFails(p) ==
  /\ pc[p] = "store"
  /\ faults < MaxFaults /\ faults' = faults + 1
  /\ \/ Write(p, Seen(p)) /\ UNCHANGED place
     \/ /\ job[p].name \in Plain
        /\ Write(p, StoreBackup(Seen(p), job[p].row, job[p].got))
        /\ Put(job[p].got, "backups")
  /\ Goto(p, "fail")
  /\ UNCHANGED <<up, todo, job, due>>

Fail(p) ==
  /\ pc[p] = "fail"
  /\ Write(p, SetStatus(Seen(p), job[p].row, "failed"))
  /\ NextFile(p)
  /\ UNCHANGED <<up, place>>

End(p) ==
  /\ pc[p] = "scan" /\ todo[p] = {}
  /\ IF writer = p THEN Commit(tx) ELSE NoWrite
  /\ Goto(p, "idle")
  /\ due' = [due EXCEPT ![p] = FALSE]
  /\ UNCHANGED <<up, place, todo, job, faults>>

Writing == Steps \ {"idle", "scan", "rejectfile", "move", "judge", "repeat", "setaside"}

\* The scan ends where it is: killed (TimeoutStartSec=120), or it waited 15 s
\* for the write lock and the exception leaves scan_once.
Abort(p) ==
  /\ pc[p] # "idle"
  /\ \/ faults < MaxFaults /\ faults' = faults + 1
     \/ ~MayWrite(p) /\ pc[p] \in Writing /\ faults' = faults
  /\ IF writer = p THEN Commit(db) ELSE NoWrite
  /\ Goto(p, "idle")
  /\ todo' = [todo EXCEPT ![p] = {}]
  /\ job' = [job EXCEPT ![p] = NoJob]
  /\ due' = [due EXCEPT ![p] = FALSE]
  /\ UNCHANGED <<up, place>>

-----------------------------------------------------------------------------
(* Equipment, other writers and time                                       *)

\* The next upload; a file of the same name that is still there is overwritten.
\* Nothing looks into the content of a file that is not an artifact.
Upload ==
  \E u \in Uploads, n \in Names, c \in Contents \cup {NoOne} :
    /\ c = NoOne <=> n \notin Artifacts
    /\ place[u] = "none" /\ \A v \in Uploads : v < u => place[v] # "none"
    /\ up' = [up EXCEPT ![u] = [name |-> n, content |-> c]]
    /\ place' = [v \in Uploads |-> IF v = u THEN "incoming" ELSE IF v \in Incoming(n) THEN "gone" ELSE place[v]]
    /\ NoWrite
    /\ UNCHANGED <<pc, todo, job, due, faults>>

\* Another service takes the write lock, and gives it back.
OtherWrites ==
  /\ writer = NoOne
  /\ faults < MaxFaults /\ faults' = faults + 1
  /\ tx' = db /\ writer' = Other /\ db' = db
  /\ UNCHANGED <<up, place, pc, todo, job, due>>

OtherCommits == writer = Other /\ Commit(db) /\ UNCHANGED <<up, place, pc, todo, job, due, faults>>

\* Time passes for the rows in both copies.
Elapsed(d) == [d EXCEPT !.rows = [r \in Rows |-> IF d.rows[r].status \in Active
                                                 THEN [d.rows[r] EXCEPT !.calm = TRUE] ELSE d.rows[r]]]
Calm ==
  /\ db' = Elapsed(db) /\ tx' = Elapsed(tx)
  /\ UNCHANGED <<up, place, writer, pc, todo, job, due, faults>>

DeadlinePasses ==
  /\ db.op # "none"
  /\ db' = [db EXCEPT !.past = TRUE] /\ tx' = [tx EXCEPT !.past = TRUE]
  /\ UNCHANGED <<up, place, writer, pc, todo, job, due, faults>>

Scan(p) ==
  \/ Start(p) \/ Look(p) \/ Detect(p) \/ Observe(p) \/ RejectFile(p) \/ RejectRow(p)
  \/ Claim(p) \/ Correlate(p) \/ Move(p) \/ Judge(p) \/ TurnDown(p) \/ SetAside(p)
  \/ Unlink(p) \/ Repeat(p) \/ Store(p) \/ Fail(p) \/ End(p)

Next ==
  \/ \E p \in Importers : Scan(p) \/ StoreFails(p) \/ Abort(p)
  \/ Upload
  \/ OtherWrites
  \/ OtherCommits
  \/ Calm
  \/ DeadlinePasses

Spec == Init /\ [][Next]_vars

\* The timer scans for ever, other writers commit, time passes.
LiveSpec ==
  Spec /\ (\A p \in Importers : WF_vars(Scan(p))) /\ WF_vars(OtherCommits) /\ WF_vars(Calm)

-----------------------------------------------------------------------------
(* Properties                                                              *)

\* Every variable keeps its type.
TypeOK ==
  /\ up \in [Uploads -> [name : Names \cup {NoOne}, content : Contents \cup {NoOne}]]
  /\ place \in [Uploads -> {"none", "incoming", "processing", "rejected", "backups", "gone"}]
  /\ db \in Tables /\ tx \in Tables
  /\ writer \in Importers \cup {NoOne, Other}
  /\ pc \in [Importers -> Steps]
  /\ todo \in [Importers -> SUBSET Names]
  /\ job \in [Importers -> [name : Names \cup {NoOne}, row : 0..MaxRows, got : 0..MaxUploads]]
  /\ due \in [Importers -> BOOLEAN]
  /\ faults \in 0..MaxFaults

\* An available backup has its file, whatever died or failed between the move and
\* the commit (store_backup, the savepoint of scan_once); and every variable keeps
\* its type.
BackupsHaveFiles ==
  /\ TypeOK
  /\ \A u \in db.stored : place[u] = "backups"

\* A successful operation has every file: valid, stored, and with the content the
\* artifact names, none of it turned down (complete_artifact,
\* reduce_operation_state).
SuccessIsComplete ==
  db.op = "success" =>
    \A a \in Artifacts :
      LET x == db.arts[a] IN
        x.state = "valid" /\ x.backup \in db.stored /\ up[x.backup].content = x.sha /\ x.sha \notin Bad

\* MIKROTIK_FTP_PUSH.md:221: the files of a pair reach the delivery queues
\* together or not at all.
BothOrNeither ==
  (\E u \in Uploads : db.sent[u] > 0 /\ up[u].name \in Artifacts)
    => \A a \in Artifacts : \E u \in Uploads : db.sent[u] > 0 /\ up[u].name = a

\* MIKROTIK_FTP_PUSH.md:230: no success after the operation expired, by whichever
\* clock a scan that is under way still works.
ExpiredNeverSucceeds == [][db.op = "expired" => db'.op # "success"]_vars

\* The importer destroys an upload only if the same content is stored; otherwise
\* only the equipment overwrites it (artifact_duplicate_kind).
UnlinkedOnlyIfStored ==
  [][\A u \in Uploads : place[u] = "processing" /\ place'[u] = "gone"
       => \E v \in db.stored : up[v].name = up[u].name /\ up[v].content = up[u].content]_vars

\* SIMPLIFICATION_CURRENT_REPORT.md:56: a file one importer has imported is never
\* failed, claimed again or made to wait by another (the claim of scan_once).
ImportedStays ==
  [][\A r \in Rows : db.rows[r].status = "imported" => db'.rows[r].status \in {"imported", "rejected"}]_vars

\* The row of the name is processing and no scan is at it.
Stranded(n) ==
  LET r == LatestRow(db, n) IN
    r # 0 /\ db.rows[r].status = "processing" /\ \A p \in Importers : job[p].row # r

\* A managed upload leaves the directory, unless a scan that ended after its
\* claim has left the name behind.
TakenOrStranded ==
  \A u \in Uploads :
    (place[u] = "incoming" /\ up[u].name \notin Loose) ~> (place[u] # "incoming" \/ Stranded(up[u].name))
=============================================================================
