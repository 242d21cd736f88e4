--------------------------- MODULE CloudSyncProofs ---------------------------
(***************************************************************************)
(* The queue of external copies, for any number of processes, backups and  *)
(* items: types, that what is reported synced is at the destination, that  *)
(* the queue implements Delivery, and, when every process takes the file   *)
(* lock, the bound on attempts.                                            *)
(*                                                                         *)
(* The argument for synced: a row keeps its backup from its INSERT on, in  *)
(* the committed table and in the writer's copy alike, and the destination *)
(* loses nothing.  So the backup a process has just copied is the one of   *)
(* the row it records, whatever happened to that row meanwhile.            *)
(***************************************************************************)
EXTENDS CloudSync, TLAPS

USE DEF Outcomes

Table == [Items -> Item]

\* e has d's rows, each still about the same backup.
SameRows(d, e) ==
  \A i \in Items : /\ d[i].status = "absent" <=> e[i].status = "absent"
                   /\ d[i].backup = e[i].backup

\* Rows may be added to d, none goes or changes its backup.
Kept(d, e) ==
  \A i \in Items : d[i].status # "absent"
    => e[i].status # "absent" /\ e[i].backup = d[i].backup

UploadedIn(d, r) == \A i \in Items : d[i].status = "synced" => d[i].backup \in r

\* Row i of d with other values in the columns that change.
WithRow(d, i, s, n, w) == [d EXCEPT ![i] = [d[i] EXCEPT !.status = s, !.attempt = n, !.wait = w]]

TxInv == writer = NoOne => tx = db
RowsInv == SameRows(db, tx) /\ UploadedIn(db, remote) /\ UploadedIn(tx, remote)

\* The item a process handles has a row; what it copied is that row's backup.
HandledOf(p) ==
  /\ pc[p] \notin {"idle", "next"} => cur[p] \in Items /\ db[cur[p]].status # "absent"
  /\ outcome[p] = "ok" => pc[p] = "record" /\ db[cur[p]].backup \in remote
HandledInv == \A p \in Processes : HandledOf(p)

AskedInv == \A c \in Clients : asks[c] # Idle => asks[c].item \in Items /\ db[asks[c].item].status # "absent"

IInv == TypeOK /\ TxInv /\ RowsInv /\ HandledInv /\ AskedInv

-----------------------------------------------------------------------------
(* The statements                                                          *)

\* Updating the columns of a row other than its backup.
LEMMA UpdateRow ==
  ASSUME NEW d \in Table, NEW i \in Items, d[i].status # "absent",
         NEW s \in Statuses \ {"absent"}, NEW n \in Nat, NEW w \in Nat
  PROVE  /\ WithRow(d, i, s, n, w) \in Table
         /\ SameRows(d, WithRow(d, i, s, n, w))
         /\ \A r : UploadedIn(d, r) /\ (s = "synced" => d[i].backup \in r)
                     => UploadedIn(WithRow(d, i, s, n, w), r)
<1> DEFINE e == WithRow(d, i, s, n, w)
<1>1. e[i] \in Item /\ e[i].backup = d[i].backup /\ e[i].status = s
  BY DEF Table, Item, WithRow
<1>2. \A j \in Items \ {i} : e[j] = d[j]
  BY DEF Table, WithRow
<1>3. e \in Table
  BY <1>1 DEF Table, WithRow
<1> HIDE DEF e
<1>4. SameRows(d, e) /\ \A r : UploadedIn(d, r) /\ (s = "synced" => d[i].backup \in r) => UploadedIn(e, r)
  BY <1>1, <1>2 DEF SameRows, UploadedIn
<1> QED
  BY <1>3, <1>4 DEF e

\* Every statement on a row keeps the table's shape; only a recorded success
\* adds a synced row.
LEMMA Statements ==
  ASSUME NEW d \in Table, NEW i \in Items, d[i].status # "absent",
         NEW s \in Statuses \ {"absent"}, NEW n \in Nat, NEW w \in Nat
  PROVE  /\ Recorded(d, i, s, w) \in Table /\ SameRows(d, Recorded(d, i, s, w))
         /\ \A e \in {Claimed(d, i, n), Skipped(d, i), Requeued(d, i), Cancelled(d, i)} :
              /\ e \in Table /\ SameRows(d, e)
              /\ \A r : UploadedIn(d, r) => UploadedIn(e, r)
         /\ \A r : UploadedIn(d, r) /\ (s = "synced" => d[i].backup \in r)
                     => UploadedIn(Recorded(d, i, s, w), r)
<1>1. /\ d[i] \in Item /\ d[i].attempt \in Nat /\ d[i].wait \in Nat
      /\ DOMAIN d = Items /\ 0 \in Nat
  BY DEF Table, Item
<1>2. /\ Claimed(d, i, n) = WithRow(d, i, "uploading", n, d[i].wait)
      /\ Skipped(d, i) = WithRow(d, i, "skipped", d[i].attempt, d[i].wait)
  BY <1>1 DEF Claimed, Skipped, WithRow, Table, Item
<1>3. /\ Requeued(d, i) = WithRow(d, i, "queued", 0, 0)
      /\ Cancelled(d, i) = WithRow(d, i, "cancelled", d[i].attempt, 0)
  BY <1>1 DEF Requeued, Cancelled, WithRow, Table, Item
<1>4. Recorded(d, i, s, w) = WithRow(d, i, s, d[i].attempt, IF s = "retry_wait" THEN w ELSE 0)
  BY <1>1 DEF Recorded, WithRow, Table, Item
<1>5. {"uploading", "skipped", "queued", "cancelled"} \subseteq Statuses \ {"absent"}
  BY DEF Statuses, Pending, Settled
<1>6. /\ Recorded(d, i, s, w) \in Table /\ SameRows(d, Recorded(d, i, s, w))
      /\ \A r : UploadedIn(d, r) /\ (s = "synced" => d[i].backup \in r)
                  => UploadedIn(Recorded(d, i, s, w), r)
  <2> DEFINE t == IF s = "retry_wait" THEN w ELSE 0
  <2>1. t \in Nat
    OBVIOUS
  <2> QED
    BY <2>1, <1>1, <1>4, UpdateRow
<1>7. ASSUME NEW e \in {Claimed(d, i, n), Skipped(d, i), Requeued(d, i), Cancelled(d, i)}
      PROVE  /\ e \in Table /\ SameRows(d, e)
             /\ \A r : UploadedIn(d, r) => UploadedIn(e, r)
  <2>1. PICK st \in {"uploading", "skipped", "queued", "cancelled"}, a \in Nat, t \in Nat :
          e = WithRow(d, i, st, a, t)
    BY <1>1, <1>2, <1>3
  <2> QED
    BY <2>1, <1>5, UpdateRow
<1> QED
  BY <1>6, <1>7

LEMMA FinalFact ==
  ASSUME NEW o \in {"none", "ok", "transient", "permanent"}, NEW n \in Nat
  PROVE  Final(o, n) \in Statuses \ {"absent"} /\ (Final(o, n) = "synced" => o = "ok")
BY DEF Final, Statuses, Pending, Settled

LEMMA AgedFact ==
  ASSUME NEW d \in Table
  PROVE  /\ Aged(d) \in Table
         /\ \A i \in Items : Aged(d)[i].status = d[i].status /\ Aged(d)[i].backup = d[i].backup
                             /\ Aged(d)[i].attempt = d[i].attempt
<1>1. \A i \in Items : Less(d[i].wait) \in Nat
  BY DEF Less, Table, Item
<1> QED
  BY <1>1 DEF Aged, Table, Item

-----------------------------------------------------------------------------
(* What a commit, a write, a rollback do to the tables                     *)

TablesStep ==
  /\ db' \in Table /\ tx' \in Table /\ writer' \in Processes \cup {NoOne}
  /\ TxInv' /\ RowsInv'
  /\ Kept(db, db') /\ remote \subseteq remote'

LEMMA SeenFact ==
  ASSUME IInv, NEW p \in Processes
  PROVE  /\ Seen(p) \in Table /\ SameRows(db, Seen(p)) /\ UploadedIn(Seen(p), remote)
         /\ SameRows(Seen(p), db)
BY DEF Seen, IInv, TypeOK, Table, RowsInv, SameRows

LEMMA SameRowsTrans ==
  ASSUME NEW d, NEW e, NEW f, SameRows(d, e), SameRows(e, f)
  PROVE  SameRows(d, f)
BY DEF SameRows

LEMMA CommitStep ==
  ASSUME IInv, NEW d \in Table, Kept(db, d), UploadedIn(d, remote), Commit(d),
         UNCHANGED remote
  PROVE  TablesStep
BY DEF TablesStep, Commit, TxInv, RowsInv, SameRows, Kept, UploadedIn

LEMMA WriteStep ==
  ASSUME IInv, NEW p \in Processes, NEW d \in Table, SameRows(db, d),
         UploadedIn(d, remote), Write(p, d), UNCHANGED remote
  PROVE  TablesStep
BY CloudAssumption
   DEF TablesStep, Write, TxInv, RowsInv, SameRows, Kept, UploadedIn, IInv, TypeOK, Table

LEMMA NoWriteStep ==
  ASSUME IInv, NoWrite, remote \subseteq remote'
  PROVE  TablesStep
BY DEF TablesStep, NoWrite, TxInv, RowsInv, SameRows, Kept, UploadedIn, IInv, TypeOK, Table

LEMMA AbortStep ==
  ASSUME IInv, NEW p \in Processes, Abort(p), UNCHANGED remote
  PROVE  TablesStep
<1>1. CASE writer = p
  BY <1>1 DEF Abort, TablesStep, TxInv, RowsInv, SameRows, Kept, UploadedIn, IInv, TypeOK, Table
<1>2. CASE writer # p
  BY <1>2, NoWriteStep DEF Abort
<1> QED
  BY <1>1, <1>2

-----------------------------------------------------------------------------
(* What the rest of the invariant needs of a step                          *)

\* A process that does not move.
LEMMA Undisturbed ==
  ASSUME IInv, TablesStep, NEW q \in Processes,
         pc'[q] = pc[q], cur'[q] = cur[q], outcome'[q] = outcome[q]
  PROVE  HandledOf(q)'
BY DEF HandledOf, TablesStep, Kept, IInv, HandledInv, TypeOK

LEMMA AsksUndisturbed ==
  ASSUME IInv, TablesStep, UNCHANGED asks
  PROVE  AskedInv'
BY DEF AskedInv, TablesStep, Kept, IInv

\* A process whose item is done with, or that ends.
LEMMA Dismissed ==
  ASSUME IInv, TablesStep, NEW p \in Processes, Continue(p) \/ Abort(p)
  PROVE  /\ HandledInv'
         /\ due' \in [Processes -> SUBSET Items]
         /\ pc' \in [Processes -> {"idle", "next", "refuse", "claim", "upload", "record"}]
         /\ cur' \in [Processes -> Items \cup {NoOne}]
         /\ attempt' \in [Processes -> Nat]
         /\ outcome' \in [Processes -> {"none", "ok", "transient", "permanent"}]
<1>1. \A q \in Processes \ {p} : pc'[q] = pc[q] /\ cur'[q] = cur[q] /\ outcome'[q] = outcome[q]
  BY DEF Continue, Abort, Goto, IInv, TypeOK
<1>2. pc'[p] \in {"next", "idle"} /\ outcome'[p] = "none"
  BY DEF Continue, Abort, Goto, IInv, TypeOK
<1>3. HandledInv'
  BY <1>1, <1>2, Undisturbed DEF HandledInv, HandledOf
<1> QED
  BY <1>3 DEF Continue, Abort, Goto, IInv, TypeOK

-----------------------------------------------------------------------------
(* One lemma per action                                                    *)

LEMMA InitIInv == Init => IInv
<1> SUFFICES ASSUME Init PROVE IInv
  OBVIOUS
<1>1. TypeOK
  BY CloudAssumption DEF Init, TypeOK, NoItem, Item, Statuses, Idle, Ask, Conditions
<1>2. TxInv /\ RowsInv
  BY DEF Init, TxInv, RowsInv, SameRows, UploadedIn, NoItem
<1>3. HandledInv /\ AskedInv
  BY DEF Init, HandledInv, HandledOf, AskedInv
<1> QED
  BY <1>1, <1>2, <1>3 DEF IInv

\* Steps of a process that write nothing.
LEMMA StartKeeps == ASSUME IInv, NEW p \in Processes, Start(p) PROVE IInv'
<1>1. TablesStep
  BY NoWriteStep DEF Start, World
<1>2. TypeOK'
  BY <1>1 DEF Start, World, Goto, Due, IInv, TypeOK, TablesStep, Table
<1>3. HandledOf(p)'
  BY DEF Start, Goto, HandledOf, HandledInv, IInv, TypeOK
<1>4. \A q \in Processes \ {p} : HandledOf(q)'
  BY <1>1, Undisturbed DEF Start, Goto, IInv, TypeOK
<1> QED
  BY <1>1, <1>2, <1>3, <1>4, AsksUndisturbed DEF IInv, HandledInv, TablesStep, Start, World

LEMMA PassOverKeeps == ASSUME IInv, NEW p \in Processes, PassOver(p) PROVE IInv'
<1>1. TablesStep
  BY NoWriteStep DEF PassOver, World
<1>2. TypeOK'
  BY <1>1 DEF PassOver, World, IInv, TypeOK, TablesStep, Table
<1>3. HandledInv'
  BY <1>1, Undisturbed DEF PassOver, HandledInv
<1> QED
  BY <1>1, <1>2, <1>3, AsksUndisturbed DEF IInv, TablesStep, PassOver, World

LEMMA ExamineKeeps == ASSUME IInv, NEW p \in Processes, Examine(p) PROVE IInv'
<1>1. TablesStep
  BY NoWriteStep DEF Examine, World
<1>2. PICK i \in Items :
        /\ Fetch(p, i) /\ Seen(p)[i].status \in Pending
        /\ cur' = [cur EXCEPT ![p] = i]
        /\ attempt' = [attempt EXCEPT ![p] = Seen(p)[i].attempt + 1]
        /\ Goto(p, IF Eligible(Seen(p)[i].backup) THEN "claim" ELSE "refuse")
  BY DEF Examine
<1>3. Seen(p)[i].attempt \in Nat /\ db[i].status # "absent"
  BY <1>2, SeenFact DEF Table, Item, SameRows, Pending
<1>4. TypeOK'
  BY <1>1, <1>2, <1>3 DEF Examine, World, Goto, IInv, TypeOK, TablesStep, Table
<1>5. HandledOf(p)'
  BY <1>2, <1>3 DEF Examine, Fetch, Goto, NoWrite, HandledOf, HandledInv, IInv, TypeOK
<1>6. \A q \in Processes \ {p} : HandledOf(q)'
  BY <1>1, <1>2, Undisturbed DEF Examine, Goto, IInv, TypeOK
<1> QED
  BY <1>1, <1>4, <1>5, <1>6, AsksUndisturbed DEF IInv, HandledInv, TablesStep, Examine, World

LEMMA UploadKeeps == ASSUME IInv, NEW p \in Processes, Upload(p) PROVE IInv'
<1>1. cur[p] \in Items /\ db[cur[p]].backup \in Backups \cup {NoOne}
  BY DEF Upload, IInv, HandledInv, HandledOf, TypeOK, Item
<1>2. PICK o \in {"ok", "transient", "permanent"}, copied \in BOOLEAN :
        /\ o = "ok" => copied
        /\ copied => db[cur[p]].backup \in stored
        /\ outcome' = [outcome EXCEPT ![p] = o]
        /\ remote' = IF copied THEN remote \cup {db[cur[p]].backup} ELSE remote
  BY DEF Upload
<1>3. remote \subseteq remote' /\ remote' \subseteq Backups
  BY <1>2 DEF IInv, TypeOK
<1>4. TablesStep
  BY <1>3, NoWriteStep DEF Upload
<1>5. TypeOK'
  BY <1>2, <1>3, <1>4 DEF Upload, Goto, IInv, TypeOK, TablesStep, Table
<1>6. HandledOf(p)'
  BY <1>1, <1>2 DEF Upload, Goto, NoWrite, HandledOf, HandledInv, IInv, TypeOK
<1>7. \A q \in Processes \ {p} : HandledOf(q)'
  BY <1>2, <1>4, Undisturbed DEF Upload, Goto, IInv, TypeOK
<1> QED
  BY <1>4, <1>5, <1>6, <1>7, AsksUndisturbed DEF IInv, HandledInv, TablesStep, Upload

\* Steps of a process that write.
LEMMA RefuseKeeps == ASSUME IInv, NEW p \in Processes, Refuse(p) PROVE IInv'
<1> DEFINE d == Skipped(Seen(p), cur[p])
<1>1. cur[p] \in Items /\ db[cur[p]].status # "absent"
  BY DEF Refuse, IInv, HandledInv, HandledOf
<1>2. d \in Table /\ SameRows(Seen(p), d) /\ UploadedIn(d, remote)
  <2>1. Seen(p)[cur[p]].status # "absent"
    BY <1>1, SeenFact DEF SameRows
  <2>2. "queued" \in Statuses \ {"absent"}
    BY DEF Statuses, Pending
  <2> QED
    BY <1>1, <2>1, <2>2, SeenFact, Statements
<1>3. SameRows(db, d)
  BY <1>2, SeenFact, SameRowsTrans
<1>4. TablesStep /\ (Continue(p) \/ Abort(p))
  BY <1>2, <1>3, WriteStep, AbortStep DEF Refuse, World
<1>5. TypeOK'
  BY <1>4, Dismissed DEF Refuse, World, Continue, Abort, IInv, TypeOK, TablesStep, Table
<1> QED
  BY <1>4, <1>5, Dismissed, AsksUndisturbed DEF IInv, TablesStep, Refuse, World

LEMMA ClaimKeeps == ASSUME IInv, NEW p \in Processes, Claim(p) PROVE IInv'
<1> DEFINE d == Claimed(Seen(p), cur[p], attempt[p])
<1>1. cur[p] \in Items /\ db[cur[p]].status # "absent" /\ attempt[p] \in Nat
  BY DEF Claim, IInv, HandledInv, HandledOf, TypeOK
<1>2. d \in Table /\ SameRows(Seen(p), d) /\ UploadedIn(d, remote)
  <2>1. Seen(p)[cur[p]].status # "absent"
    BY <1>1, SeenFact DEF SameRows
  <2>2. "queued" \in Statuses \ {"absent"}
    BY DEF Statuses, Pending
  <2> QED
    BY <1>1, <2>1, <2>2, SeenFact, Statements
<1>3. SameRows(db, d)
  BY <1>2, SeenFact, SameRowsTrans
<1>4. CASE Unique(d) /\ Commit(d) /\ Goto(p, "upload") /\ UNCHANGED <<lock, due, cur, attempt, outcome>>
  <2>1. TablesStep
    BY <1>2, <1>3, <1>4, CommitStep DEF Claim, World, Kept, SameRows
  <2>2. TypeOK'
    BY <2>1, <1>4 DEF Claim, World, Goto, IInv, TypeOK, TablesStep, Table
  <2>3. HandledOf(p)'
    BY <1>1, <1>4, <2>1 DEF Claim, Goto, HandledOf, HandledInv, IInv, TypeOK, TablesStep, Kept
  <2>4. \A q \in Processes \ {p} : HandledOf(q)'
    BY <1>4, <2>1, Undisturbed DEF Goto, IInv, TypeOK
  <2> QED
    BY <2>1, <2>2, <2>3, <2>4, AsksUndisturbed DEF IInv, HandledInv, TablesStep, Claim, World
<1>5. CASE Abort(p)
  <2>1. TablesStep
    BY <1>5, AbortStep DEF Claim, World
  <2>2. TypeOK'
    BY <2>1, <1>5, Dismissed DEF Claim, World, Abort, IInv, TypeOK, TablesStep, Table
  <2> QED
    BY <1>5, <2>1, <2>2, Dismissed, AsksUndisturbed DEF IInv, TablesStep, Claim, World
<1> QED
  BY <1>4, <1>5 DEF Claim

\* A success is only recorded for a row whose backup was copied.
LEMMA RecordKeeps == ASSUME IInv, NEW p \in Processes, Record(p) PROVE IInv'
<1>1. PICK w \in 0..Backoff(attempt[p]) :
        LET d == Recorded(Seen(p), cur[p], Final(outcome[p], attempt[p]), w) IN
          \/ Unique(d) /\ Write(p, d) /\ Continue(p) /\ UNCHANGED lock
          \/ ~Unique(d) /\ Abort(p)
  BY DEF Record
<1> DEFINE s == Final(outcome[p], attempt[p])
           d == Recorded(Seen(p), cur[p], s, w)
<1>2. cur[p] \in Items /\ db[cur[p]].status # "absent" /\ w \in Nat
  BY DEF Record, IInv, HandledInv, HandledOf
<1>3. s \in Statuses \ {"absent"} /\ (s = "synced" => db[cur[p]].backup \in remote)
  BY FinalFact DEF Record, IInv, HandledInv, HandledOf, TypeOK
<1>4. Seen(p)[cur[p]].status # "absent" /\ Seen(p)[cur[p]].backup = db[cur[p]].backup
  BY <1>2, SeenFact DEF SameRows
<1> HIDE DEF s
<1>5. d \in Table /\ SameRows(Seen(p), d) /\ UploadedIn(d, remote)
  BY <1>2, <1>3, <1>4, SeenFact, Statements
<1>6. SameRows(db, d)
  BY <1>5, SeenFact, SameRowsTrans
<1>7. TablesStep /\ (Continue(p) \/ Abort(p))
  BY <1>1, <1>5, <1>6, WriteStep, AbortStep DEF Record, World, s
<1>8. TypeOK'
  BY <1>1, <1>7, Dismissed DEF Record, World, Continue, Abort, IInv, TypeOK, TablesStep, Table
<1> QED
  BY <1>7, <1>8, Dismissed, AsksUndisturbed DEF IInv, TablesStep, Record, World

LEMMA FinishKeeps == ASSUME IInv, NEW p \in Processes, Finish(p) PROVE IInv'
<1>1. TablesStep
  BY SeenFact, CommitStep DEF Finish, World, Kept, SameRows
<1>2. TypeOK'
  BY <1>1 DEF Finish, World, Goto, IInv, TypeOK, TablesStep, Table
<1>3. HandledOf(p)'
  BY <1>1 DEF Finish, Goto, HandledOf, HandledInv, IInv, TypeOK, TablesStep
<1>4. \A q \in Processes \ {p} : HandledOf(q)'
  BY <1>1, Undisturbed DEF Finish, Goto, IInv, TypeOK
<1> QED
  BY <1>1, <1>2, <1>3, <1>4, AsksUndisturbed DEF IInv, HandledInv, TablesStep, Finish, World

LEMMA CrashKeeps == ASSUME IInv, NEW p \in Processes, Crash(p) PROVE IInv'
<1>1. TablesStep
  BY AbortStep DEF Crash
<1>2. TypeOK'
  <2>1. crashes' \in 0..MaxCrashes
    BY CloudAssumption DEF Crash, IInv, TypeOK
  <2>2. lock' \in Locking \cup {NoOne}
    BY DEF Crash, Abort, IInv, TypeOK
  <2> QED
    BY <1>1, <2>1, <2>2, Dismissed DEF Crash, IInv, TypeOK, TablesStep, Table
<1> QED
  BY <1>1, <1>2, Dismissed, AsksUndisturbed DEF IInv, TablesStep, Crash

\* The clients and the rest of the system.
LEMMA EnqueueKeeps == ASSUME IInv, NEW c \in Clients, NEW b \in Backups, Enqueue(c, b) PROVE IInv'
<1>1. PICK i \in NextItem(db) :
        Commit([db EXCEPT ![i] = [NoItem EXCEPT !.status = "queued", !.backup = b]])
  BY DEF Enqueue
<1> DEFINE new == [NoItem EXCEPT !.status = "queued", !.backup = b]
           d == [db EXCEPT ![i] = new]
<1>2. new \in Item /\ new.status = "queued"
  BY DEF NoItem, Item, Statuses, Pending
<1>3. i \in Items /\ db[i].status = "absent"
  BY DEF NextItem
<1> HIDE DEF new
<1>4. d \in Table /\ Kept(db, d) /\ UploadedIn(d, remote)
  BY <1>2, <1>3 DEF IInv, TypeOK, Table, Kept, RowsInv, UploadedIn
<1>5. Commit(d)
  BY <1>1 DEF new
<1> HIDE DEF d
<1>6. TablesStep
  BY <1>4, <1>5, CommitStep DEF Enqueue
<1>7. requests' \in 0..MaxRequests
  BY CloudAssumption DEF Enqueue, Request, IInv, TypeOK
<1>8. TypeOK'
  BY <1>6, <1>7 DEF Enqueue, Processing, IInv, TypeOK, TablesStep, Table
<1>9. HandledInv'
  BY <1>6, Undisturbed DEF Enqueue, Processing, HandledInv
<1> QED
  BY <1>6, <1>8, <1>9, AsksUndisturbed DEF IInv, TablesStep, Enqueue

LEMMA AskKeeps ==
  ASSUME IInv, NEW c \in Clients, NEW i \in Items, AskRetry(c, i) \/ AskCancel(c, i)
  PROVE  IInv'
<1>1. TablesStep
  BY NoWriteStep DEF AskRetry, AskCancel
<1>2. requests' \in 0..MaxRequests
  BY CloudAssumption DEF AskRetry, AskCancel, Request, IInv, TypeOK
<1>3. PICK op \in {"retry", "cancel"} : asks' = [asks EXCEPT ![c] = [op |-> op, item |-> i]]
  BY DEF AskRetry, AskCancel, Keep, Ask
<1>4. db[i].status # "absent" /\ db' = db
  BY DEF AskRetry, AskCancel, Retryable, NoWrite
<1>5. asks' \in [Clients -> [op : {"none", "retry", "cancel"}, item : Items \cup {NoOne}]]
  BY <1>3 DEF IInv, TypeOK
<1>6. TypeOK'
  BY <1>1, <1>2, <1>5 DEF AskRetry, AskCancel, Processing, IInv, TypeOK, TablesStep, Table
<1>7. HandledInv'
  BY <1>1, Undisturbed DEF AskRetry, AskCancel, Processing, HandledInv
<1>8. AskedInv'
  BY <1>3, <1>4 DEF AskedInv, IInv, TypeOK
<1> QED
  BY <1>1, <1>6, <1>7, <1>8 DEF IInv, TablesStep

\* What a client's statement makes of the table.
Answered(c) ==
  IF asks[c].op = "retry" THEN Requeued(db, asks[c].item) ELSE Cancelled(db, asks[c].item)

LEMMA AnsweredFact ==
  ASSUME IInv, NEW c \in Clients, Answer(c)
  PROVE  /\ asks[c].item \in Items /\ db[asks[c].item].status # "absent" /\ db \in Table /\ tx = db
         /\ Answered(c) \in {Requeued(db, asks[c].item), Cancelled(db, asks[c].item)}
         /\ Answered(c) \in Table /\ SameRows(db, Answered(c))
         /\ UploadedIn(Answered(c), remote)
         /\ Commit(Answered(c)) \/ NoWrite
<1>1. asks[c].item \in Items /\ db[asks[c].item].status # "absent" /\ db \in Table /\ tx = db
  BY DEF Answer, IInv, AskedInv, TypeOK, Table, TxInv
<1>2. "queued" \in Statuses \ {"absent"} /\ 0 \in Nat
  BY DEF Statuses, Pending
<1>3. Answered(c) \in {Requeued(db, asks[c].item), Cancelled(db, asks[c].item)}
  BY DEF Answered
<1>4. Commit(Answered(c)) \/ NoWrite
  BY DEF Answer, Answered
<1> HIDE DEF Answered
<1> QED
  BY <1>1, <1>2, <1>3, <1>4, Statements DEF IInv, RowsInv

LEMMA AnswerKeeps == ASSUME IInv, NEW c \in Clients, Answer(c) PROVE IInv'
<1>1. TablesStep
  BY AnsweredFact, CommitStep, NoWriteStep DEF Answer, SameRows, Kept
<1>2. asks' = [asks EXCEPT ![c] = Idle]
  BY DEF Answer, Keep
<1>3. asks' \in [Clients -> [op : {"none", "retry", "cancel"}, item : Items \cup {NoOne}]]
  BY <1>2 DEF Idle, Ask, IInv, TypeOK
<1>4. TypeOK'
  BY <1>1, <1>3 DEF Answer, Processing, IInv, TypeOK, TablesStep, Table
<1>5. HandledInv'
  BY <1>1, Undisturbed DEF Answer, Processing, HandledInv
<1>6. AskedInv'
  BY <1>1, <1>2 DEF AskedInv, TablesStep, Kept, IInv, TypeOK
<1> QED
  BY <1>1, <1>4, <1>5, <1>6 DEF IInv, TablesStep

LEMMA ManageFacts ==
  ASSUME IInv, ManageTarget
  PROVE  (\E d \in SUBSET Conditions : Rewrite(d)) /\ edits' \in 0..MaxEdits
<1>1. dest \in SUBSET Conditions /\ edits \in 0..MaxEdits
  BY DEF IInv, TypeOK
<1>2. ASSUME NEW d \in SUBSET Conditions, Destination(d)
      PROVE  (\E c \in SUBSET Conditions : Rewrite(c)) /\ edits' \in 0..MaxEdits
  BY <1>1, <1>2, CloudAssumption DEF Destination
<1>3. CASE SwitchTarget \/ TestTarget
  BY <1>1, <1>2, <1>3 DEF SwitchTarget, TestTarget, Conditions
<1>4. CASE CreatePolicy \/ Connect \/ ImportConfiguration
  BY <1>1, <1>2, <1>4 DEF CreatePolicy, Connect, Asked, ImportConfiguration, Conditions
<1>5. CASE Callback
  BY <1>1, <1>5 DEF Callback, Consumed, Enabled, Conditions
<1> QED
  BY <1>3, <1>4, <1>5 DEF ManageTarget

LEMMA EditKeeps ==
  ASSUME IInv, ManageTarget \/ \E b \in Backups : MoveBackup(b) PROVE IInv'
<1>1. TablesStep
  BY ManageFacts, NoWriteStep DEF Rewrite, MoveBackup
<1>2. edits' \in 0..MaxEdits
  BY ManageFacts, CloudAssumption DEF MoveBackup, IInv, TypeOK
<1>3. stored' \in SUBSET Backups /\ dest' \in SUBSET Conditions
  BY ManageFacts DEF Rewrite, MoveBackup, IInv, TypeOK
<1>4. /\ UNCHANGED Processing /\ UNCHANGED <<remote, asks, crashes, requests>> /\ NoWrite
  BY ManageFacts DEF Rewrite, MoveBackup
<1>5. TypeOK'
  BY <1>1, <1>2, <1>3, <1>4 DEF Processing, IInv, TypeOK, TablesStep, Table
<1>6. HandledInv'
  BY <1>1, <1>4, Undisturbed DEF Processing, HandledInv
<1> QED
  BY <1>1, <1>4, <1>5, <1>6, AsksUndisturbed DEF IInv, TablesStep

LEMMA TickKeeps == ASSUME IInv, Tick PROVE IInv'
<1>1. db \in Table /\ tx \in Table
  BY DEF IInv, TypeOK, Table
<1>2. TablesStep
  <2>1. /\ db' \in Table /\ tx' \in Table /\ UNCHANGED <<writer, remote>>
        /\ \A i \in Items : /\ db'[i].status = db[i].status /\ db'[i].backup = db[i].backup
                            /\ tx'[i].status = tx[i].status /\ tx'[i].backup = tx[i].backup
    BY <1>1, AgedFact DEF Tick, World
  <2>2. TxInv'
    BY <2>1 DEF Tick, IInv, TxInv
  <2>3. RowsInv' /\ Kept(db, db')
    BY <2>1 DEF RowsInv, SameRows, Kept, UploadedIn, IInv
  <2> QED
    BY <2>1, <2>2, <2>3 DEF TablesStep, IInv, TypeOK
<1>3. TypeOK'
  BY <1>2 DEF Tick, World, Processing, IInv, TypeOK, TablesStep, Table
<1>4. HandledInv'
  BY <1>2, Undisturbed DEF Tick, Processing, HandledInv
<1> QED
  BY <1>2, <1>3, <1>4, AsksUndisturbed DEF IInv, TablesStep, Tick, World

LEMMA StutterKeeps == ASSUME IInv, UNCHANGED vars PROVE IInv'
BY DEF vars, IInv, TypeOK, TxInv, RowsInv, HandledInv, HandledOf, AskedInv

LEMMA NextIInv == IInv /\ [Next]_vars => IInv'
<1> SUFFICES ASSUME IInv, [Next]_vars PROVE IInv'
  OBVIOUS
<1>1. ASSUME NEW p \in Processes, RunOnce(p) PROVE IInv'
  BY <1>1, StartKeeps, PassOverKeeps, ExamineKeeps, RefuseKeeps, ClaimKeeps, UploadKeeps,
     RecordKeeps, FinishKeeps DEF RunOnce
<1>2. CASE UNCHANGED vars
  BY <1>2, StutterKeeps
<1> QED
  BY <1>1, <1>2, CrashKeeps, EnqueueKeeps, AskKeeps, AnswerKeeps, EditKeeps, TickKeeps DEF Next

-----------------------------------------------------------------------------

\* Every behaviour of the queue keeps the inductive invariant.
THEOREM Inductive == Spec => []IInv
BY InitIInv, NextIInv, PTL DEF Spec

\* The table, the transaction and the processes' local variables keep their
\* types, for any number of processes, backups and items.
THEOREM TypeCorrect == Spec => []TypeOK
<1>1. IInv => TypeOK
  BY DEF IInv
<1> QED
  BY <1>1, Inductive, PTL

\* What the queue reports as synced is at the destination (process_item), with
\* or without the file lock and whatever crashes, is cancelled, retried,
\* enqueued again or trashed meanwhile.
THEOREM Uploaded == Spec => []SyncedIsUploaded
<1>1. IInv => SyncedIsUploaded
  BY DEF IInv, RowsInv, UploadedIn, SyncedIsUploaded
<1> QED
  BY <1>1, Inductive, PTL

-----------------------------------------------------------------------------
(* The bound on attempts, when every process takes the lock.  A pending    *)
(* row has an attempt left; the one process that runs recorded its claim's *)
(* attempt in the row, and a request can only set the row's count to 0.    *)

BoundedIn(d) ==
  \A i \in Items : /\ d[i].attempt <= MaxAttempts
                   /\ d[i].status \in Pending => d[i].attempt < MaxAttempts

AttemptOf(p) ==
  /\ pc[p] # "idle" => lock = p
  /\ writer = p => pc[p] \in {"next", "refuse", "claim"}
  /\ pc[p] \in {"claim", "upload", "record"} => attempt[p] <= MaxAttempts
  /\ pc[p] \in {"upload", "record"} => db[cur[p]].attempt <= attempt[p]
  /\ pc[p] = "record" => outcome[p] # "none"

AttemptInv == BoundedIn(db) /\ BoundedIn(tx) /\ \A p \in Processes : AttemptOf(p)

AInv == IInv /\ AttemptInv

LEMMA BoundedStatements ==
  ASSUME NEW d \in Table, NEW i \in Items, BoundedIn(d),
         NEW n \in Nat, n <= MaxAttempts, NEW s, NEW w,
         s # "queued", s = "retry_wait" => d[i].attempt < MaxAttempts
  PROVE  /\ BoundedIn(Claimed(d, i, n)) /\ BoundedIn(Skipped(d, i))
         /\ BoundedIn(Requeued(d, i)) /\ BoundedIn(Cancelled(d, i))
         /\ BoundedIn(Recorded(d, i, s, w))
<1>1. MaxAttempts \in Nat /\ 0 < MaxAttempts /\ \A j \in Items : d[j].attempt \in Nat
  BY CloudAssumption DEF Table, Item
<1>2. BoundedIn(Claimed(d, i, n)) /\ BoundedIn(Skipped(d, i))
  BY <1>1 DEF BoundedIn, Claimed, Skipped, Pending, Table, Item
<1>3. BoundedIn(Requeued(d, i)) /\ BoundedIn(Cancelled(d, i))
  BY <1>1 DEF BoundedIn, Requeued, Cancelled, Pending, Table, Item
<1>4. BoundedIn(Recorded(d, i, s, w))
  BY <1>1 DEF BoundedIn, Recorded, Pending, Table, Item
<1> QED
  BY <1>2, <1>3, <1>4

\* While one process runs, the others do nothing.
LEMMA Alone ==
  ASSUME AInv, NEW p \in Processes, pc[p] # "idle", NEW q \in Processes \ {p}
  PROVE  pc[q] = "idle" /\ writer # q
BY DEF AInv, AttemptInv, AttemptOf

LEMMA SeenBounded ==
  ASSUME AInv, NEW p \in Processes
  PROVE  BoundedIn(Seen(p))
BY DEF AInv, AttemptInv, Seen

\* The others after a step of p that writes as p or as nobody.
LEMMA OthersIdle ==
  ASSUME AInv, NEW p \in Processes, pc[p] # "idle", writer' \in {NoOne, p},
         \A q \in Processes \ {p} : pc'[q] = pc[q]
  PROVE  \A q \in Processes \ {p} : AttemptOf(q)'
BY Alone, CloudAssumption DEF AttemptOf

\* Steps that neither write nor move any process.
LEMMA Bystander ==
  ASSUME AInv, NoWrite, Processing' = Processing
  PROVE  AttemptInv'
BY DEF AInv, AttemptInv, AttemptOf, BoundedIn, NoWrite, Processing

\* Continue and Abort leave p outside of any attempt.
LEMMA Settles ==
  ASSUME AInv, NEW p \in Processes, pc[p] # "idle",
         \/ \E d : Write(p, d) /\ BoundedIn(d) /\ Continue(p) /\ UNCHANGED lock
         \/ Abort(p)
  PROVE  AttemptInv'
<1>1. pc \in [Processes -> {"idle", "next", "refuse", "claim", "upload", "record"}] /\ lock = p
  BY DEF AInv, IInv, TypeOK, AttemptInv, AttemptOf
<1>2. CASE \E d : Write(p, d) /\ BoundedIn(d) /\ Continue(p) /\ UNCHANGED lock
  <2>1. BoundedIn(db)' /\ BoundedIn(tx)' /\ writer' = p
    BY <1>2 DEF Write, BoundedIn, AInv, AttemptInv
  <2>2. AttemptOf(p)'
    BY <1>1, <1>2 DEF Continue, Goto, AttemptOf
  <2>3. \A q \in Processes \ {p} : AttemptOf(q)'
    BY <1>1, <1>2, <2>1, OthersIdle DEF Continue, Goto
  <2> QED
    BY <2>1, <2>2, <2>3 DEF AttemptInv
<1>3. CASE Abort(p)
  <2>1. writer' = NoOne
    <3>1. writer \in {NoOne, p}
      BY Alone DEF AInv, IInv, TypeOK
    <3> QED
      BY <3>1, <1>3 DEF Abort, NoWrite
  <2>2. BoundedIn(db)' /\ BoundedIn(tx)'
    BY <1>3 DEF Abort, NoWrite, BoundedIn, AInv, AttemptInv
  <2>3. AttemptOf(p)'
    BY <1>1, <1>3, <2>1, CloudAssumption DEF Abort, Goto, AttemptOf
  <2>4. \A q \in Processes \ {p} : AttemptOf(q)'
    BY <1>1, <1>3, <2>1, OthersIdle DEF Abort, Goto
  <2> QED
    BY <2>2, <2>3, <2>4 DEF AttemptInv
<1> QED
  BY <1>2, <1>3

LEMMA RunOnceBounded ==
  ASSUME Processes \subseteq Locking, AInv, NEW p \in Processes, RunOnce(p)
  PROVE  AttemptInv'
<1>1. /\ pc \in [Processes -> {"idle", "next", "refuse", "claim", "upload", "record"}]
      /\ db \in Table /\ tx \in Table /\ attempt \in [Processes -> Nat]
      /\ outcome \in [Processes -> {"none", "ok", "transient", "permanent"}]
      /\ cur \in [Processes -> Items \cup {NoOne}]
  BY DEF AInv, IInv, TypeOK, Table
<1>2. CASE Start(p)
  <2>1. lock = NoOne /\ lock' = p
    BY <1>2 DEF Start
  <2>2. \A q \in Processes : pc[q] = "idle"
    BY <2>1, CloudAssumption DEF AInv, AttemptInv, AttemptOf
  <2>3. \A q \in Processes : AttemptOf(q)'
    BY <1>1, <1>2, <2>1, <2>2 DEF Start, Goto, NoWrite, AInv, AttemptInv, AttemptOf
  <2> QED
    BY <1>2, <2>3 DEF Start, NoWrite, AInv, AttemptInv, BoundedIn
<1>3. CASE PassOver(p)
  BY <1>3 DEF PassOver, NoWrite, AInv, AttemptInv, AttemptOf, BoundedIn
<1>4. CASE Examine(p)
  <2>1. PICK i \in Items :
          /\ Fetch(p, i) /\ Seen(p)[i].status \in Pending
          /\ attempt' = [attempt EXCEPT ![p] = Seen(p)[i].attempt + 1]
          /\ Goto(p, IF Eligible(Seen(p)[i].backup) THEN "claim" ELSE "refuse")
    BY <1>4 DEF Examine
  <2>2. Seen(p)[i].attempt \in Nat /\ Seen(p)[i].attempt < MaxAttempts
    BY <1>1, <2>1, SeenBounded DEF BoundedIn, Seen, Table, Item
  <2>3. attempt'[p] <= MaxAttempts
    BY <1>1, <2>1, <2>2, CloudAssumption
  <2>4. AttemptOf(p)'
    BY <1>1, <1>4, <2>1, <2>3 DEF Examine, Fetch, Goto, NoWrite, AInv, AttemptInv, AttemptOf
  <2>5. \A q \in Processes \ {p} : AttemptOf(q)'
    BY <1>1, <1>4, <2>1, Alone DEF Examine, Fetch, Goto, NoWrite, AttemptOf
  <2> QED
    BY <1>4, <2>4, <2>5 DEF Examine, NoWrite, AInv, AttemptInv, BoundedIn
<1>5. CASE Refuse(p)
  <2>1. cur[p] \in Items /\ pc[p] = "refuse"
    BY <1>5 DEF Refuse, AInv, IInv, HandledInv, HandledOf
  <2>2. BoundedIn(Skipped(Seen(p), cur[p]))
    BY <1>1, <2>1, SeenBounded, BoundedStatements, CloudAssumption DEF Seen
  <2> QED
    BY <1>5, <2>1, <2>2, Settles DEF Refuse
<1>6. CASE Claim(p)
  <2> DEFINE d == Claimed(Seen(p), cur[p], attempt[p])
  <2>1. cur[p] \in Items /\ pc[p] = "claim" /\ attempt[p] <= MaxAttempts /\ lock = p
    BY <1>6 DEF Claim, AInv, IInv, HandledInv, HandledOf, AttemptInv, AttemptOf
  <2>2. BoundedIn(d)
    BY <1>1, <2>1, SeenBounded, BoundedStatements DEF Seen
  <2>3. d[cur[p]].attempt = attempt[p]
    BY <1>1, <2>1 DEF Claimed, Seen, Table, Item
  <2>4. CASE Commit(d) /\ Goto(p, "upload") /\ UNCHANGED <<lock, due, cur, attempt, outcome>>
    <3>1. AttemptOf(p)'
      BY <1>1, <2>1, <2>3, <2>4, CloudAssumption DEF Commit, Goto, AttemptOf
    <3>2. \A q \in Processes \ {p} : AttemptOf(q)'
      BY <1>1, <2>1, <2>4, OthersIdle DEF Commit, Goto
    <3> QED
      BY <2>2, <2>4, <3>1, <3>2 DEF Commit, AttemptInv, BoundedIn
  <2> QED
    BY <1>6, <2>1, <2>4, Settles DEF Claim
<1>7. CASE Upload(p)
  <2>1. outcome'[p] # "none"
    BY <1>1, <1>7 DEF Upload
  <2>2. AttemptOf(p)'
    BY <1>1, <1>7, <2>1 DEF Upload, Goto, NoWrite, AInv, AttemptInv, AttemptOf
  <2>3. \A q \in Processes \ {p} : AttemptOf(q)'
    BY <1>1, <1>7, Alone DEF Upload, Goto, NoWrite, AttemptOf
  <2> QED
    BY <1>7, <2>2, <2>3 DEF Upload, NoWrite, AInv, AttemptInv, BoundedIn
<1>8. CASE Record(p)
  <2>1. /\ cur[p] \in Items /\ pc[p] = "record" /\ attempt[p] <= MaxAttempts
        /\ db[cur[p]].attempt <= attempt[p] /\ outcome[p] # "none" /\ writer # p
    BY <1>8 DEF Record, AInv, IInv, HandledInv, HandledOf, AttemptInv, AttemptOf
  <2>2. PICK w \in 0..Backoff(attempt[p]) :
          LET d == Recorded(Seen(p), cur[p], Final(outcome[p], attempt[p]), w) IN
            \/ Unique(d) /\ Write(p, d) /\ Continue(p) /\ UNCHANGED lock
            \/ ~Unique(d) /\ Abort(p)
    BY <1>8 DEF Record
  <2> DEFINE s == Final(outcome[p], attempt[p])
  <2>3. s # "queued" /\ (s = "retry_wait" => attempt[p] < MaxAttempts)
    BY <1>1, <2>1, CloudAssumption DEF Final, Exhausted
  <2>4. Seen(p) = db /\ db[cur[p]].attempt \in Nat
    BY <1>1, <2>1 DEF Seen, Table, Item
  <2> HIDE DEF s
  <2>5. s = "retry_wait" => db[cur[p]].attempt < MaxAttempts
    BY <1>1, <2>1, <2>3, <2>4, CloudAssumption
  <2>6. BoundedIn(Recorded(Seen(p), cur[p], s, w))
    BY <1>1, <2>1, <2>3, <2>4, <2>5, SeenBounded, BoundedStatements
  <2> QED
    BY <2>1, <2>2, <2>6, Settles DEF s
<1>9. CASE Finish(p)
  <2>1. BoundedIn(db)' /\ BoundedIn(tx)' /\ writer' = NoOne
    BY <1>9, SeenBounded DEF Finish, Commit, BoundedIn
  <2>2. AttemptOf(p)'
    BY <1>1, <1>9, <2>1, CloudAssumption DEF Finish, Goto, AttemptOf
  <2>3. \A q \in Processes \ {p} : AttemptOf(q)'
    BY <1>1, <1>9, <2>1, OthersIdle DEF Finish, Goto
  <2> QED
    BY <2>1, <2>2, <2>3 DEF AttemptInv
<1> QED
  BY <1>2, <1>3, <1>4, <1>5, <1>6, <1>7, <1>8, <1>9 DEF RunOnce

\* A commit of a client: the rows in progress keep their count or
\* start again from 0.
LEMMA WebBounded ==
  ASSUME AInv, NEW d \in Table, BoundedIn(d), writer = NoOne, Commit(d), Processing' = Processing,
         \A i \in Items : db[i].status # "absent" => d[i].attempt \in {0, db[i].attempt}
  PROVE  AttemptInv'
<1>1. BoundedIn(db)' /\ BoundedIn(tx)'
  BY DEF Commit, BoundedIn
<1>2. ASSUME NEW p \in Processes PROVE AttemptOf(p)'
  <2>1. pc[p] \in {"upload", "record"} => db'[cur[p]].attempt <= attempt[p]
    <3> SUFFICES ASSUME pc[p] \in {"upload", "record"} PROVE d[cur[p]].attempt <= attempt[p]
      BY DEF Commit
    <3>1. cur[p] \in Items /\ db[cur[p]].status # "absent" /\ db[cur[p]].attempt <= attempt[p]
      BY DEF AInv, IInv, HandledInv, HandledOf, AttemptInv, AttemptOf
    <3>2. attempt[p] \in Nat
      BY DEF AInv, IInv, TypeOK
    <3> QED
      BY <3>1, <3>2
  <2> QED
    BY <2>1, CloudAssumption DEF Commit, Processing, AInv, AttemptInv, AttemptOf
<1> QED
  BY <1>1, <1>2 DEF AttemptInv

LEMMA EnqueueBounded == ASSUME AInv, NEW c \in Clients, NEW b \in Backups, Enqueue(c, b) PROVE AttemptInv'
<1>1. PICK i \in NextItem(db) :
        Commit([db EXCEPT ![i] = [NoItem EXCEPT !.status = "queued", !.backup = b]])
  BY DEF Enqueue
<1> DEFINE new == [NoItem EXCEPT !.status = "queued", !.backup = b]
           d == [db EXCEPT ![i] = new]
<1>2. new \in Item /\ new.attempt = 0
  BY DEF NoItem, Item, Statuses, Pending
<1>3. i \in Items /\ db[i].status = "absent" /\ db \in Table /\ BoundedIn(db)
  BY DEF NextItem, AInv, AttemptInv, IInv, TypeOK, Table
<1> HIDE DEF new
<1>4. 0 < MaxAttempts /\ 0 <= MaxAttempts
  BY CloudAssumption
<1>5. d \in Table /\ BoundedIn(d)
  BY <1>4, <1>2, <1>3 DEF Table, BoundedIn
<1>6. \A j \in Items : db[j].status # "absent" => d[j].attempt \in {0, db[j].attempt}
  BY <1>3 DEF Table
<1>7. Commit(d)
  BY <1>1 DEF new
<1> HIDE DEF d
<1> QED
  BY <1>5, <1>6, <1>7, WebBounded DEF Enqueue

LEMMA AnswerBounded == ASSUME AInv, NEW c \in Clients, Answer(c) PROVE AttemptInv'
<1> DEFINE d == Answered(c)
<1>1. /\ asks[c].item \in Items /\ db \in Table /\ BoundedIn(db) /\ d \in Table
      /\ d \in {Requeued(db, asks[c].item), Cancelled(db, asks[c].item)} /\ (Commit(d) \/ NoWrite)
  BY AnsweredFact DEF AInv, AttemptInv
<1>2. 0 \in Nat /\ 0 <= MaxAttempts /\ "failed" # "queued"
  BY CloudAssumption
<1>3. BoundedIn(Requeued(db, asks[c].item)) /\ BoundedIn(Cancelled(db, asks[c].item))
  BY <1>1, <1>2, BoundedStatements
<1>4. \A j \in Items : d[j].attempt \in {0, db[j].attempt}
  BY <1>1 DEF Requeued, Cancelled, Table, Item
<1>5. BoundedIn(d)
  BY <1>1, <1>3
<1> HIDE DEF d
<1> QED
  BY <1>1, <1>4, <1>5, WebBounded, Bystander DEF Answer

LEMMA TickBounded == ASSUME AInv, Tick PROVE AttemptInv'
<1>1. \A i \in Items : /\ db'[i].status = db[i].status /\ db'[i].attempt = db[i].attempt
                       /\ tx'[i].status = tx[i].status /\ tx'[i].attempt = tx[i].attempt
  BY AgedFact DEF Tick, AInv, IInv, TypeOK, Table
<1>2. BoundedIn(db)' /\ BoundedIn(tx)'
  BY <1>1 DEF BoundedIn, AInv, AttemptInv
<1>3. \A p \in Processes : pc[p] \in {"upload", "record"} => cur[p] \in Items
  BY DEF AInv, IInv, HandledInv, HandledOf
<1>4. \A p \in Processes : AttemptOf(p)'
  BY <1>1, <1>3 DEF Tick, Processing, AInv, AttemptInv, AttemptOf
<1> QED
  BY <1>2, <1>4 DEF AttemptInv

LEMMA InitAInv == Init => AInv
<1> SUFFICES ASSUME Init PROVE AttemptInv
  BY InitIInv DEF AInv
<1> QED
  BY CloudAssumption DEF Init, AttemptInv, AttemptOf, BoundedIn, NoItem, Pending

LEMMA NextAInv ==
  ASSUME Processes \subseteq Locking
  PROVE  AInv /\ [Next]_vars => AInv'
<1> SUFFICES ASSUME AInv, [Next]_vars PROVE AttemptInv'
  BY NextIInv DEF AInv
<1>1. ASSUME NEW p \in Processes, Crash(p) PROVE AttemptInv'
  BY <1>1, Settles DEF Crash
<1>2. ASSUME NEW c \in Clients, NEW i \in Items, AskRetry(c, i) \/ AskCancel(c, i) PROVE AttemptInv'
  BY <1>2, Bystander DEF AskRetry, AskCancel, Processing
<1>3. ASSUME ManageTarget \/ \E b \in Backups : MoveBackup(b) PROVE AttemptInv'
  BY <1>3, ManageFacts, Bystander DEF AInv, Rewrite, MoveBackup, Processing
<1>4. CASE UNCHANGED vars
  BY <1>4, Bystander DEF vars, NoWrite, Processing
<1> QED
  BY <1>1, <1>2, <1>3, <1>4, RunOnceBounded, EnqueueBounded, AnswerBounded, TickBounded DEF Next

\* When every process that runs the queue takes the file lock, no row counts
\* more attempts than max_attempts (process_item, retry_item), however often
\* and whenever a client resets the count.
THEOREM Attempts ==
  ASSUME Processes \subseteq Locking
  PROVE  Spec => []AttemptsBounded
<1>1. AInv => AttemptsBounded
  BY DEF AInv, AttemptInv, BoundedIn, AttemptsBounded
<1>2. AInv /\ [Next]_vars => AInv'
  BY NextAInv
<1> QED
  BY <1>1, <1>2, InitAInv, PTL DEF Spec

-----------------------------------------------------------------------------
(* Cancellations.  Only a client cancels, and it commits at once: the      *)
(* writer's copy never has a cancelled row the committed table lacks.      *)

CancelledInv == \A i \in Items : tx[i].status = "cancelled" => db[i].status = "cancelled"

CInv == IInv /\ CancelledInv

TakesUp(i) == \E p \in Processes : cur'[p] = i /\ cur[p] # i
Passes(i) == \E c \in Clients : asks'[c] = Ask("retry", i) /\ asks'[c] # asks[c]
Revives(i) == tx[i].status = "cancelled" /\ tx'[i].status # "cancelled"

CancelStep ==
  \A i \in Items : tx[i].status = "cancelled" =>
       /\ \A p \in Processes : cur'[p] = i => cur[p] = i
       /\ \A c \in Clients : asks'[c] = Ask("retry", i) => asks[c] = asks'[c]
       /\ tx'[i].status # "cancelled" =>
            \/ \E p \in Processes : cur[p] = i /\ Decides(p)
            \/ \E c \in Clients : asks[c] = Ask("retry", i) /\ asks'[c] = Idle

\* d is what p sees, but for the row p handles, which is not cancelled.
ByHandler(p, d) ==
  /\ \A i \in Items \ {cur[p]} : d[i] = Seen(p)[i]
  /\ cur[p] \in Items => d[cur[p]].status # "cancelled"

LEMMA HandlerStatements ==
  ASSUME CInv, NEW p \in Processes, cur[p] \in Items, NEW n, NEW s, s # "cancelled", NEW w
  PROVE  /\ ByHandler(p, Claimed(Seen(p), cur[p], n)) /\ ByHandler(p, Skipped(Seen(p), cur[p]))
         /\ ByHandler(p, Recorded(Seen(p), cur[p], s, w))
<1>1. Seen(p) \in Table /\ Seen(p)[cur[p]] \in Item
  BY SeenFact DEF CInv, Table
<1> QED
  BY <1>1 DEF ByHandler, Claimed, Skipped, Recorded, Table, Item

LEMMA HandlerKeeps ==
  ASSUME CInv, UNCHANGED asks, NEW p \in Processes, NEW d, ByHandler(p, d), Write(p, d) \/ Commit(d),
         MayWrite(p), \A i \in Items : ~TakesUp(i), Decides(p)
  PROVE  CancelledInv' /\ CancelStep
<1>1. \A i \in Items : Seen(p)[i].status = "cancelled" => db[i].status = "cancelled"
  BY DEF CInv, CancelledInv, Seen
<1>2. \A i \in Items : d[i].status = "cancelled" => db[i].status = "cancelled"
  BY <1>1 DEF ByHandler
<1>3. CancelledInv'
  BY <1>2 DEF CInv, CancelledInv, Write, Commit
<1>4. Seen(p) = tx
  BY DEF MayWrite, Seen, CInv, IInv, TxInv
<1>5. \A i \in Items : Revives(i) => cur[p] = i
  BY <1>4 DEF ByHandler, Revives, Write, Commit
<1>6. CancelStep
  BY <1>5 DEF CancelStep, TakesUp, Revives
<1> QED
  BY <1>3, <1>6

\* What takes nothing up and revives nothing.
LEMMA NothingBegins ==
  ASSUME CInv, \A i \in Items : ~Revives(i) /\ ~TakesUp(i) /\ ~Passes(i)
  PROVE  CancelStep
BY DEF CancelStep, Revives, TakesUp, Passes

LEMMA UnwrittenKeeps ==
  ASSUME CInv, NoWrite, UNCHANGED asks, \A i \in Items : ~TakesUp(i)
  PROVE  CancelledInv' /\ CancelStep
<1>1. \A i \in Items : ~Revives(i) /\ ~Passes(i)
  BY DEF Revives, Passes, NoWrite
<1> QED
  BY <1>1, NothingBegins DEF CInv, CancelledInv, NoWrite

LEMMA DropsNothingElse ==
  ASSUME IInv, NEW p \in Processes, Continue(p) \/ Abort(p)
  PROVE  \A i \in Items : ~TakesUp(i)
BY CloudAssumption DEF Continue, Abort, TakesUp, IInv, TypeOK, Items

LEMMA AbortCancelled ==
  ASSUME CInv, NEW p \in Processes, Abort(p), UNCHANGED asks
  PROVE  CancelledInv' /\ CancelStep
<1>1. \A i \in Items : ~TakesUp(i) /\ ~Passes(i)
  BY DropsNothingElse DEF CInv, Passes
<1>2. \A i \in Items : ~Revives(i)
  BY DEF Abort, NoWrite, CInv, CancelledInv, Revives
<1> QED
  BY <1>1, <1>2, NothingBegins DEF Abort, NoWrite, CInv, CancelledInv

LEMMA Moves ==
  ASSUME IInv, NEW p \in Processes, pc[p] \in {"claim", "refuse", "record"},
         Continue(p) \/ Goto(p, "upload")
  PROVE  Decides(p)
BY DEF Continue, Goto, Decides, IInv, TypeOK

LEMMA ExamineCancelled ==
  ASSUME CInv, NEW p \in Processes, Examine(p)
  PROVE  CancelledInv' /\ CancelStep
<1>1. PICK i \in Items : Seen(p)[i].status \in Pending /\ cur' = [cur EXCEPT ![p] = i]
  BY DEF Examine
<1>2. NoWrite /\ UNCHANGED asks
  BY DEF Examine, World
<1>3. tx[i].status # "cancelled"
  BY <1>1 DEF Seen, CInv, CancelledInv, Pending
<1>4. \A j \in Items \ {i} : ~TakesUp(j)
  BY <1>1 DEF TakesUp, CInv, IInv, TypeOK
<1> QED
  BY <1>2, <1>3, <1>4 DEF CancelStep, TakesUp, CInv, CancelledInv, NoWrite

LEMMA RunOnceCancelled ==
  ASSUME CInv, NEW p \in Processes, RunOnce(p)
  PROVE  CancelledInv' /\ CancelStep
<1>1. ASSUME NoWrite, UNCHANGED <<asks, cur>> PROVE CancelledInv' /\ CancelStep
  BY <1>1, UnwrittenKeeps DEF TakesUp
<1>2. pc[p] \in {"refuse", "claim", "record"} => cur[p] \in Items
  BY DEF CInv, IInv, HandledInv, HandledOf
<1>3. CASE Refuse(p)
  <2>1. ByHandler(p, Skipped(Seen(p), cur[p]))
    BY <1>2, <1>3, HandlerStatements DEF Refuse
  <2> QED
    BY <1>3, <2>1, HandlerKeeps, DropsNothingElse, Moves, AbortCancelled DEF Refuse, World, CInv
<1>4. CASE Claim(p)
  <2>1. ByHandler(p, Claimed(Seen(p), cur[p], attempt[p]))
    BY <1>2, <1>4, HandlerStatements DEF Claim
  <2>2. UNCHANGED cur => \A i \in Items : ~TakesUp(i)
    BY DEF TakesUp
  <2> QED
    BY <1>4, <2>1, <2>2, HandlerKeeps, Moves, AbortCancelled DEF Claim, World, CInv
<1>5. CASE Record(p)
  <2>1. Final(outcome[p], attempt[p]) # "cancelled"
    BY DEF Final
  <2>2. \A w : ByHandler(p, Recorded(Seen(p), cur[p], Final(outcome[p], attempt[p]), w))
    BY <1>2, <1>5, <2>1, HandlerStatements DEF Record
  <2> QED
    BY <1>5, <2>2, HandlerKeeps, DropsNothingElse, Moves, AbortCancelled DEF Record, World, CInv
<1>6. CASE Finish(p)
  <2>1. Seen(p) = tx /\ Commit(tx) /\ UNCHANGED <<asks, cur>>
    BY <1>6 DEF Finish, MayWrite, Seen, World, CInv, IInv, TxInv
  <2>2. \A i \in Items : ~Revives(i) /\ ~TakesUp(i) /\ ~Passes(i)
    BY <2>1 DEF Commit, Revives, TakesUp, Passes
  <2> QED
    BY <2>1, <2>2, NothingBegins DEF Commit, CancelledInv
<1> QED
  BY <1>1, <1>3, <1>4, <1>5, <1>6, ExamineCancelled DEF RunOnce, Start, PassOver, Upload, World

\* A client that asks: what it asks to retry is not cancelled.
LEMMA AskCancelled ==
  ASSUME CInv, NEW c \in Clients, NEW i \in Items, AskRetry(c, i) \/ AskCancel(c, i)
  PROVE  CancelledInv' /\ CancelStep
<1>1. NoWrite /\ UNCHANGED cur
  BY DEF AskRetry, AskCancel, Processing
<1>2. \A d \in Clients \ {c} : asks'[d] = asks[d]
  BY DEF AskRetry, AskCancel, Keep, CInv, IInv, TypeOK
<1>3. \A j \in Items : asks'[c] = Ask("retry", j) => j = i /\ db[i].status # "cancelled"
  BY DEF AskRetry, AskCancel, Keep, Ask, Retryable, CInv, IInv, TypeOK
<1>4. \A j \in Items : Passes(j) => tx[j].status # "cancelled"
  BY <1>2, <1>3 DEF Passes, CInv, CancelledInv
<1> QED
  BY <1>1, <1>4 DEF CancelStep, Passes, NoWrite, CInv, CancelledInv

LEMMA AnswerCancelled ==
  ASSUME CInv, NEW c \in Clients, Answer(c)
  PROVE  CancelledInv' /\ CancelStep
<1> DEFINE i == asks[c].item
<1>1. /\ i \in Items /\ db \in Table /\ tx = db /\ (Commit(Answered(c)) \/ NoWrite)
      /\ asks[c] \in [op : {"none", "retry", "cancel"}, item : Items \cup {NoOne}] /\ asks[c] # Idle
  BY AnsweredFact DEF CInv, Answer, IInv, TypeOK
<1>2. \A j \in Items \ {i} : Answered(c)[j] = db[j]
  BY <1>1 DEF Answered, Requeued, Cancelled, Table
<1>3. asks[c].op # "retry" => Answered(c)[i].status = "cancelled"
  BY <1>1 DEF Answered, Cancelled, Table, Item
<1>4. asks[c].op = "retry" => asks[c] = Ask("retry", i)
  BY <1>1 DEF Ask
<1>5. asks'[c] = Idle /\ \A d \in Clients \ {c} : asks'[d] = asks[d]
  BY DEF Answer, Keep, CInv, IInv, TypeOK
<1>6. \A j \in Items : ~TakesUp(j) /\ ~Passes(j)
  BY <1>5 DEF TakesUp, Passes, Idle, Ask, Answer, Processing
<1>7. tx' = db'
  BY <1>1 DEF Commit, NoWrite
<1>8. \A j \in Items : Revives(j) => j = i /\ asks[c] = Ask("retry", i)
  BY <1>1, <1>2, <1>3, <1>4 DEF Revives, Commit, NoWrite
<1> HIDE DEF i
<1>9. CancelStep
  BY <1>5, <1>6, <1>8 DEF CancelStep, Revives, TakesUp, Passes
<1> QED
  BY <1>7, <1>9 DEF CancelledInv

LEMMA EnqueueCancelled ==
  ASSUME CInv, NEW c \in Clients, NEW b \in Backups, Enqueue(c, b)
  PROVE  CancelledInv' /\ CancelStep
<1>1. PICK i \in NextItem(db) :
        Commit([db EXCEPT ![i] = [NoItem EXCEPT !.status = "queued", !.backup = b]])
  BY DEF Enqueue
<1>2. i \in Items /\ db[i].status = "absent" /\ db \in Table /\ tx = db
  BY DEF Enqueue, NextItem, CInv, IInv, TypeOK, Table, TxInv
<1>3. \A j \in Items \ {i} : tx'[j] = tx[j]
  BY <1>1, <1>2 DEF Commit, Table
<1>4. \A j \in Items : ~TakesUp(j) /\ ~Passes(j) /\ ~Revives(j)
  BY <1>2, <1>3 DEF TakesUp, Passes, Revives, Enqueue, Processing
<1>5. tx' = db'
  BY <1>1 DEF Commit
<1> QED
  BY <1>4, <1>5, NothingBegins DEF CancelledInv

LEMMA TickCancelled == ASSUME CInv, Tick PROVE CancelledInv' /\ CancelStep
<1>1. \A i \in Items : db'[i].status = db[i].status /\ tx'[i].status = tx[i].status
  BY AgedFact DEF Tick, CInv, IInv, TypeOK, Table
<1>2. \A i \in Items : ~TakesUp(i) /\ ~Passes(i) /\ ~Revives(i)
  BY <1>1 DEF TakesUp, Passes, Revives, Tick, Processing, World
<1> QED
  BY <1>1, <1>2, NothingBegins DEF CInv, CancelledInv

LEMMA NextCInv == CInv /\ [Next]_vars => CInv' /\ (CancelStep \/ UNCHANGED vars)
<1> SUFFICES ASSUME CInv, [Next]_vars PROVE CancelledInv' /\ CancelStep
  BY NextIInv DEF CInv
<1>1. ASSUME NEW p \in Processes, Crash(p) PROVE CancelledInv' /\ CancelStep
  BY <1>1, AbortCancelled DEF Crash
<1>2. ASSUME NoWrite, UNCHANGED <<asks, cur>> PROVE CancelledInv' /\ CancelStep
  BY <1>2, UnwrittenKeeps DEF TakesUp
<1>3. CASE UNCHANGED vars
  BY <1>2, <1>3 DEF vars, NoWrite
<1>4. CASE ManageTarget
  BY <1>2, <1>4, ManageFacts DEF CInv, Rewrite, Processing
<1>5. ASSUME NEW b \in Backups, MoveBackup(b) PROVE CancelledInv' /\ CancelStep
  BY <1>2, <1>5 DEF MoveBackup, Processing
<1> QED
  BY <1>1, <1>3, <1>4, <1>5, RunOnceCancelled, AskCancelled, AnswerCancelled, EnqueueCancelled, TickCancelled
     DEF Next

\* Nobody begins anything with a cancelled item, and only who had begun before
\* brings it back to life: a process that had taken it up, or a client's retry
\* that had passed its check (cancel_item, retry_item, process_item); for any
\* number of processes and clients, with or without the file lock.
THEOREM Cancellation == Spec => CancelHolds
<1>1. Init => CInv
  BY InitIInv DEF Init, CInv, CancelledInv
<1> QED
  BY <1>1, NextCInv, PTL DEF Spec, CancelHolds, CancelStep

-----------------------------------------------------------------------------
(* Refinement.  What a commit moves was held: its row differs in the       *)
(* writer's copy, or a process has it in hand.                             *)

S(i) == StateOf(db[i].status)

\* What a step may do to item i, in the words of Delivery.
Moved(i) ==
  /\ \/ S(i)' = S(i)
     \/ S(i) = "none" /\ S(i)' = "open" /\ db'[i].backup \in Backups
     \/ S(i) # "none" /\ S(i)' = "withdrawn"
     \/ S(i) \in {"refused", "sent", "withdrawn"} /\ S(i)' = "open"
     \/ /\ i \in Held /\ S(i) # "none"
        /\ S(i)' \in {"open", "refused"} \/ (S(i)' = "sent" /\ db[i].backup \in remote)
  /\ (S(i) # "none" \/ S(i)' = "none") => db'[i].backup = db[i].backup

TakenUp == \A i \in Held' \ Held : S(i) = "open"

Arrives == remote' = remote \/ \E i \in Held : remote' = remote \cup {db[i].backup}

Mappable == (\A i \in Items : Moved(i)) /\ TakenUp /\ Arrives

\* A step of that kind is one of Delivery's.
LEMMA Mapped == ASSUME Mappable PROVE D!Next
<1>1. ASSUME NEW i \in Items PROVE D!Move(i)
  BY <1>1 DEF Mappable, D!Move, D!Accepted, D!Refused, D!Withdrawn, D!Reopened, D!Decided, Moved, S
<1>2. D!Taken
  BY DEF Mappable, D!Taken, TakenUp, S, Held
<1>3. D!Arrival
  BY DEF Mappable, D!Arrival, Arrives, Held
<1> QED
  BY <1>1, <1>2, <1>3 DEF D!Next

\* What every status stands for.
LEMMA Standing ==
  /\ \A s \in Pending \cup {"uploading"} : StateOf(s) = "open"
  /\ \A s \in {"failed", "skipped"} : StateOf(s) = "refused"
  /\ StateOf("synced") = "sent" /\ StateOf("cancelled") = "withdrawn"
  /\ \A s : StateOf(s) = "none" <=> s = "absent"
  /\ \A s : StateOf(s) = "sent" <=> s = "synced"
  /\ \A s : StateOf(s) \in {"none", "open", "sent", "refused", "withdrawn"}
  BY DEF StateOf, Pending

\* Nothing is committed and nothing arrives: what is newly held was open.
LEMMA Uncommitted ==
  ASSUME \A i \in Items : db'[i].status = db[i].status /\ db'[i].backup = db[i].backup, remote' = remote,
         \A i \in Held' : i \in Held \/ S(i) = "open"
  PROVE  Mappable
  BY DEF Mappable, Moved, TakenUp, Arrives, S

\* A process commits what it has decided about items it holds.
LEMMA DecisionMaps ==
  ASSUME IInv, NEW d \in Table, SameRows(db, d), UploadedIn(d, remote), Commit(d), UNCHANGED remote,
         \A i \in Items : StateOf(d[i].status) = S(i) \/ i \in Held,
         \A p \in Processes, i \in Items : cur'[p] = i => cur[p] = i
  PROVE  Mappable
<1>1. db' = d /\ tx' = d
  BY DEF Commit
<1>2. ASSUME NEW i \in Items PROVE Moved(i)
  <2>1. d[i].backup = db[i].backup /\ (StateOf(d[i].status) = "none" <=> S(i) = "none")
    BY Standing DEF SameRows, S
  <2>2. StateOf(d[i].status) = "sent" => db[i].backup \in remote
    BY <2>1, Standing DEF UploadedIn
  <2> QED
    BY <1>1, <2>1, <2>2, Standing DEF Moved, S
<1>3. TakenUp
  BY <1>1 DEF TakenUp, Held
<1> QED
  BY <1>2, <1>3 DEF Mappable, Arrives

\* What a process sees differs from the committed table in held items only.
LEMMA SeenHeld ==
  ASSUME IInv, NEW p \in Processes, NEW i \in Items
  PROVE  StateOf(Seen(p)[i].status) = S(i) \/ i \in Held
  BY DEF Seen, S, Held

LEMMA ClaimMaps ==
  ASSUME IInv, NEW p \in Processes, Claim(p), ~Abort(p)
  PROVE  Mappable
<1> DEFINE d == Claimed(Seen(p), cur[p], attempt[p])
<1>1. cur[p] \in Items /\ db[cur[p]].status # "absent" /\ attempt[p] \in Nat
  BY DEF Claim, IInv, TypeOK, HandledInv, HandledOf
<1>2. Seen(p) \in Table /\ SameRows(db, Seen(p)) /\ UploadedIn(Seen(p), remote)
  BY SeenFact
<1>3. d \in Table /\ SameRows(Seen(p), d) /\ UploadedIn(d, remote)
  <2>1. Seen(p)[cur[p]].status # "absent"
    BY <1>1, <1>2 DEF SameRows
  <2> QED
    BY <1>1, <1>2, <2>1, Statements DEF Statuses, Pending, Settled
<1>4. \A j \in Items \ {cur[p]} : d[j] = Seen(p)[j]
  BY <1>2 DEF Claimed, Table
<1>5. cur[p] \in Held
  BY <1>1 DEF Held
<1> HIDE DEF d
<1>6. SameRows(db, d)
  BY <1>2, <1>3, SameRowsTrans
<1>7. \A i \in Items : StateOf(d[i].status) = S(i) \/ i \in Held
  BY <1>4, <1>5, SeenHeld
<1>8. Commit(d) /\ UNCHANGED <<cur, remote>>
  BY DEF d, Claim, World
<1> QED
  BY <1>3, <1>6, <1>7, <1>8, DecisionMaps

LEMMA FinishMaps == ASSUME IInv, NEW p \in Processes, Finish(p) PROVE Mappable
<1>1. Commit(Seen(p)) /\ UNCHANGED <<cur, remote>>
  BY DEF Finish, World
<1> QED
  BY <1>1, SeenFact, SeenHeld, DecisionMaps

\* Before it is committed, a decision about the item in hand makes it held.
LEMMA WriteMaps ==
  ASSUME IInv, NEW p \in Processes, cur[p] \in Items, NEW d, Write(p, d), MayWrite(p),
         \A j \in Items \ {cur[p]} : d[j] = Seen(p)[j], UNCHANGED remote,
         \A q \in Processes, i \in Items : cur'[q] = i => cur[q] = i
  PROVE  Mappable
<1>1. Seen(p) = tx /\ tx' = d /\ db' = db
  BY DEF MayWrite, Seen, Write, IInv, TxInv
<1>2. \A i \in Held' : i \in Held
  BY <1>1 DEF Held
<1> QED
  BY <1>1, <1>2, Uncommitted

LEMMA AbortMaps == ASSUME IInv, NEW p \in Processes, Abort(p), UNCHANGED remote PROVE Mappable
<1>1. db' = db /\ (tx' = db \/ tx' = tx)
  BY DEF Abort, NoWrite
<1>2. \A q \in Processes, i \in Items : cur'[q] = i => cur[q] = i \/ q = p
  BY DEF Abort, IInv, TypeOK
<1>3. cur'[p] \notin Items
  BY CloudAssumption DEF Abort, IInv, TypeOK, Items
<1>4. \A i \in Held' : i \in Held
  BY <1>1, <1>2, <1>3 DEF Held
<1> QED
  BY <1>1, <1>4, Uncommitted

\* The item is done with: nothing is newly in hand.
LEMMA ContinueFact ==
  ASSUME IInv, NEW p \in Processes, Continue(p)
  PROVE  \A q \in Processes, i \in Items : cur'[q] = i => cur[q] = i
  BY CloudAssumption DEF Continue, IInv, TypeOK, Items

LEMMA RefuseMaps == ASSUME IInv, NEW p \in Processes, Refuse(p) PROVE Mappable
<1>1. cur[p] \in Items /\ Seen(p) \in Table /\ UNCHANGED remote /\ MayWrite(p)
  BY SeenFact DEF Refuse, World, IInv, HandledInv, HandledOf
<1>2. \A j \in Items \ {cur[p]} : Skipped(Seen(p), cur[p])[j] = Seen(p)[j]
  BY <1>1 DEF Skipped, Table
<1> QED
  BY <1>1, <1>2, WriteMaps, AbortMaps, ContinueFact DEF Refuse

LEMMA RecordMaps == ASSUME IInv, NEW p \in Processes, Record(p) PROVE Mappable
<1>1. cur[p] \in Items /\ Seen(p) \in Table /\ UNCHANGED remote /\ MayWrite(p)
  BY SeenFact DEF Record, World, IInv, HandledInv, HandledOf
<1>2. \A s, w : \A j \in Items \ {cur[p]} : Recorded(Seen(p), cur[p], s, w)[j] = Seen(p)[j]
  BY <1>1 DEF Recorded, Table
<1> QED
  BY <1>1, <1>2, WriteMaps, AbortMaps, ContinueFact DEF Record

LEMMA ExamineMaps == ASSUME IInv, NEW p \in Processes, Examine(p) PROVE Mappable
<1>1. PICK i \in Items : Seen(p)[i].status \in Pending /\ cur' = [cur EXCEPT ![p] = i]
  BY DEF Examine
<1>2. UNCHANGED <<db, tx, remote>>
  BY DEF Examine, NoWrite, World
<1>3. StateOf(Seen(p)[i].status) = "open"
  BY <1>1, Standing
<1>4. i \in Held \/ S(i) = "open"
  BY <1>3, SeenHeld
<1>5. \A j \in Held' : j \in Held \/ j = i
  BY <1>1, <1>2 DEF Held, IInv, TypeOK
<1> QED
  BY <1>2, <1>4, <1>5, Uncommitted

LEMMA UploadMaps == ASSUME IInv, NEW p \in Processes, Upload(p) PROVE Mappable
<1>1. UNCHANGED <<db, tx, cur>> /\ cur[p] \in Items
  BY DEF Upload, NoWrite, IInv, HandledInv, HandledOf
<1>2. cur[p] \in Held
  BY <1>1 DEF Held
<1>3. remote' = remote \/ remote' = remote \cup {db[cur[p]].backup}
  BY DEF Upload
<1> QED
  BY <1>1, <1>2, <1>3 DEF Mappable, Moved, TakenUp, Arrives, S, Held

\* A request commits one row at a time when nobody writes.
LEMMA RequestMaps ==
  ASSUME IInv, NEW d \in Table, Commit(d), UNCHANGED <<cur, remote>>, NEW i \in Items,
         \A j \in Items \ {i} : d[j] = db[j],
         \/ S(i) = "none" /\ d[i].status = "queued" /\ d[i].backup \in Backups
         \/ S(i) # "none" /\ d[i].status \in {"queued", "cancelled"} /\ d[i].backup = db[i].backup
  PROVE  Mappable
<1>1. db' = d /\ tx' = d
  BY DEF Commit
<1>2. S(i) \in {"none", "open", "sent", "refused", "withdrawn"}
  BY Standing DEF S
<1>3. StateOf("queued") = "open" /\ StateOf("cancelled") = "withdrawn"
  BY Standing DEF Pending
<1>4. Moved(i)
  BY <1>1, <1>2, <1>3 DEF Moved, S
<1>5. \A j \in Items \ {i} : Moved(j)
  BY <1>1 DEF Moved, S
<1>6. TakenUp
  BY <1>1 DEF TakenUp, Held
<1> QED
  BY <1>4, <1>5, <1>6 DEF Mappable, Arrives

LEMMA EnqueueMaps == ASSUME IInv, NEW c \in Clients, NEW b \in Backups, Enqueue(c, b) PROVE Mappable
<1>1. PICK i \in NextItem(db) :
        Commit([db EXCEPT ![i] = [NoItem EXCEPT !.status = "queued", !.backup = b]])
  BY DEF Enqueue
<1> DEFINE new == [NoItem EXCEPT !.status = "queued", !.backup = b]
           d == [db EXCEPT ![i] = new]
<1>2. new \in Item /\ new.status = "queued" /\ new.backup = b
  BY DEF NoItem, Item, Statuses, Pending
<1>3. i \in Items /\ S(i) = "none"
  BY Standing DEF NextItem, S
<1> HIDE DEF new
<1>4. d \in Table /\ d[i] = new /\ \A j \in Items \ {i} : d[j] = db[j]
  BY <1>2, <1>3 DEF IInv, TypeOK, Table
<1>5. Commit(d) /\ UNCHANGED <<cur, remote>>
  BY <1>1 DEF new, Enqueue, Processing
<1> HIDE DEF d
<1> QED
  BY <1>2, <1>3, <1>4, <1>5, RequestMaps

LEMMA AnswerMaps == ASSUME IInv, NEW c \in Clients, Answer(c) PROVE Mappable
<1> DEFINE i == asks[c].item
           d == Answered(c)
<1>1. /\ i \in Items /\ S(i) # "none" /\ db \in Table /\ db[i] \in Item
      /\ d \in Table /\ SameRows(db, d) /\ d \in {Requeued(db, i), Cancelled(db, i)}
      /\ Commit(d) \/ NoWrite
  BY AnsweredFact, Standing DEF S, Table
<1>2. UNCHANGED <<cur, remote>>
  BY DEF Answer, Processing
<1> HIDE DEF d, i
<1>3. d[i].status \in {"queued", "cancelled"} /\ \A j \in Items \ {i} : d[j] = db[j]
  BY <1>1 DEF Requeued, Cancelled, Table, Item
<1>4. d[i].backup = db[i].backup
  BY <1>1 DEF SameRows
<1>5. CASE Commit(d)
  BY <1>1, <1>2, <1>3, <1>4, <1>5, RequestMaps
<1>6. CASE NoWrite
  BY <1>2, <1>6, Uncommitted DEF NoWrite, Held
<1> QED
  BY <1>1, <1>5, <1>6

LEMMA TickMaps == ASSUME IInv, Tick PROVE Mappable
<1>1. \A i \in Items : db'[i].status = db[i].status /\ tx'[i].status = tx[i].status /\ db'[i].backup = db[i].backup
  BY AgedFact DEF Tick, IInv, TypeOK, Table
<1>2. UNCHANGED <<cur, remote>>
  BY DEF Tick, Processing, World
<1> QED
  BY <1>1, <1>2, Uncommitted DEF Held

LEMMA FirstMaps == Init => D!Init
<1> SUFFICES ASSUME Init PROVE D!Init
  OBVIOUS
<1>1. \A i \in Items : db[i].status = "absent" /\ tx[i] = db[i] /\ db[i].backup = NoOne
  BY DEF Init, NoItem
<1>2. [i \in Items |-> StateOf(db[i].status)] = [i \in Items |-> "none"]
  BY <1>1, Standing
<1>3. [i \in Items |-> db[i].backup] = [i \in Items |-> NoOne]
  BY <1>1
<1>4. Held = {}
  BY <1>1, CloudAssumption DEF Init, Held, Items
<1>5. remote = {}
  BY DEF Init
<1> QED
  BY <1>2, <1>3, <1>4, <1>5 DEF D!Init

LEMMA StepMaps == IInv /\ [Next]_vars => D!Next
<1> SUFFICES ASSUME IInv, [Next]_vars PROVE Mappable
  BY Mapped
<1>1. CASE UNCHANGED <<db, tx, cur, remote>>
  BY <1>1, Uncommitted DEF Held
<1>2. ASSUME NEW p \in Processes, RunOnce(p) PROVE Mappable
  <2>1. CASE Claim(p)
    BY <2>1, ClaimMaps, AbortMaps DEF Claim, World
  <2>2. CASE Start(p) \/ PassOver(p)
    BY <1>1, <2>2 DEF Start, PassOver, NoWrite, World
  <2> QED
    BY <1>2, <2>1, <2>2, ExamineMaps, RefuseMaps, UploadMaps, RecordMaps, FinishMaps DEF RunOnce
<1>3. ASSUME NEW p \in Processes, Crash(p) PROVE Mappable
  BY <1>3, AbortMaps DEF Crash
<1>4. ASSUME NEW b \in Backups, MoveBackup(b) PROVE Mappable
  BY <1>1, <1>4 DEF MoveBackup, NoWrite, Processing
<1>5. ASSUME NEW c \in Clients, NEW i \in Items, AskRetry(c, i) \/ AskCancel(c, i) PROVE Mappable
  BY <1>1, <1>5 DEF AskRetry, AskCancel, NoWrite, Processing
<1>6. CASE ManageTarget
  BY <1>1, <1>6, ManageFacts DEF Rewrite, NoWrite, Processing
<1>7. CASE UNCHANGED vars
  BY <1>1, <1>7 DEF vars
<1> QED
  BY <1>2, <1>3, <1>4, <1>5, <1>6, <1>7, EnqueueMaps, AnswerMaps, TickMaps DEF Next

\* The queue of external copies implements Delivery, for any number of processes
\* and with or without the file lock (process_item, run_once).
THEOREM Implements == Spec => Delivers
<1>1. Init => D!Init
  BY FirstMaps
<1>2. IInv /\ [Next]_vars => D!Next
  BY StepMaps
<1> QED
  BY <1>1, <1>2, Inductive, PTL DEF Spec, Delivers, D!Spec

=============================================================================
