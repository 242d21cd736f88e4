--------------------------- MODULE LifecycleProofs ---------------------------
(***************************************************************************)
(* No backup is lost by retention, trash, restore and purge, for any       *)
(* number of processes, backups, requests and crashes and for every policy.*)
(*                                                                         *)
(* The argument: only trashed rows lose their files, and a file that a     *)
(* request or a run is putting back belongs to no row that is expired.  A  *)
(* run that is under way keeps the days from passing, so what was trashed  *)
(* after it began is not purged by it; its open transaction only deletes   *)
(* what was trashed before.                                                *)
(*                                                                         *)
(* And the policy: backups arrive in order, so a newer one is never older  *)
(* in days.  When a choice stands and a newer backup is given up, it is    *)
(* because it is surplus itself, and then what comes before it is surplus  *)
(* for the same reason (SurplusStays).  Only a request of the trash takes  *)
(* a backup that is not: it misleads the runs that have chosen.            *)
(***************************************************************************)
EXTENDS Lifecycle, FiniteSetTheorems, TLAPS

Fresh(row) == row.status = "trashed" => row.left = TrashRetention

WriterInv ==
  /\ \A r \in Runners : writer = r <=> pc[r] \in {"move", "purge", "end"}
  /\ writer = Saver <=> saving # NoOne
  /\ writer = Web => web.op = "purge"
TxInv == writer = NoOne => tx = db

\* The open transaction: it deletes and trashes rows, and only a runner's run
\* trashes them.
PartOf(b) ==
  LET old == db.rows[b]
      new == tx.rows[b] IN
    /\ old.status # "absent" => new.status # "absent" /\ (old.age = 0 => new.age = 0)
    /\ new.status = "available" => old.status = "available"
    /\ new.status = "trashed" =>
         \/ new = old
         \/ /\ writer \in Runners /\ old.status = "available"
            /\ new.left = TrashRetention
PartInv == \A b \in Backups : PartOf(b)

SaveInv ==
  saving # NoOne => /\ place[saving] = "backups"
                    /\ db.rows[saving].status = "absent" /\ tx.rows[saving].status = "validating"

TodoOf(r) ==
  \A c \in todo[r] :
    /\ pc[r] \in {"begin", "move"} =>
         /\ db.rows[c[1]].status # "absent" /\ Fresh(db.rows[c[1]])
    /\ pc[r] = "purge" => db.rows[c[1]].status = "trashed"
TodoInv == \A r \in Runners : TodoOf(r)

Returning(b) == web.op = "restore" /\ web.step = "update" /\ b \in web.todo
WebInv ==
  /\ web.step = "move" => web.op \in {"restore", "trash"}
  /\ web.op = "restore" => \A b, c \in web.todo : b = c
  /\ \A b \in web.todo : db.rows[b].status # "absent"
  /\ \A b \in Backups : Returning(b) =>
       /\ place[b] \in {"backups", "trash"}
       /\ place[b] = "trash" =>
            /\ Fresh(db.rows[b])
            /\ \A r \in Runners : pc[r] = "purge" => \A c \in todo[r] : c[1] # b
SafeInv == \A b \in Available(db) : place[b] \in {"backups", "trash"}

IInv == /\ TypeOK /\ WriterInv /\ TxInv /\ PartInv /\ SaveInv /\ TodoInv /\ WebInv /\ SafeInv

-----------------------------------------------------------------------------
(* The statements                                                          *)

\* Rows that exist go on existing, and what is too old stays too old.
Follows(d, e) ==
  \A b \in Backups : d.rows[b].status # "absent"
    => e.rows[b].status # "absent" /\ (d.rows[b].age = 0 => e.rows[b].age = 0)

LEMMA SetRowFacts ==
  ASSUME NEW d \in Tables, NEW b \in Backups, NEW row \in Row
  PROVE  /\ SetRow(d, b, row) \in Tables
         /\ SetRow(d, b, row).rows[b] = row
         /\ \A c \in Backups \ {b} : SetRow(d, b, row).rows[c] = d.rows[c]
BY DEF SetRow, Tables

LEMMA RowUpdates ==
  ASSUME NEW old \in Row
  PROVE  /\ [old EXCEPT !.status = "trashed", !.left = TrashRetention] \in Row
         /\ [old EXCEPT !.status = "available", !.left = 0] \in Row
         /\ [old EXCEPT !.status = "deleted", !.path = FALSE, !.left = 0] \in Row
         /\ [old EXCEPT !.status = "available"] \in Row
         /\ [old EXCEPT !.status = "validating", !.path = TRUE, !.age = MaxAge] \in Row
<1> DEFINE Ages == 0..MaxAge
           Lefts == 0..TrashRetention
           Statuses == {"absent", "validating", "available", "trashed", "deleted"}
<1>1. TrashRetention \in Lefts /\ 0 \in Lefts /\ MaxAge \in Ages
  BY LifecycleAssumption
<1>2. Row = [status : Statuses, path : BOOLEAN, age : Ages, left : Lefts]
  BY DEF Row
<1>3. /\ "trashed" \in Statuses /\ "available" \in Statuses
      /\ "deleted" \in Statuses /\ "validating" \in Statuses
  OBVIOUS
<1> HIDE DEF Ages, Lefts, Statuses
<1>4. [old EXCEPT !.status = "trashed", !.left = TrashRetention] \in Row
  BY <1>1, <1>2, <1>3
<1>5. [old EXCEPT !.status = "available", !.left = 0] \in Row
  BY <1>1, <1>2, <1>3
<1>6. [old EXCEPT !.status = "deleted", !.path = FALSE, !.left = 0] \in Row
  BY <1>1, <1>2, <1>3
<1>7. [old EXCEPT !.status = "available"] \in Row
  BY <1>2, <1>3
<1>8. [old EXCEPT !.status = "validating", !.path = TRUE, !.age = MaxAge] \in Row
  BY <1>1, <1>2, <1>3
<1> QED
  BY <1>4, <1>5, <1>6, <1>7, <1>8

LEMMA TrashRowFacts ==
  ASSUME NEW d \in Tables, NEW b \in Backups
  PROVE  /\ TrashRow(d, b) \in Tables
         /\ TrashRow(d, b).rows[b].status = "trashed"
         /\ TrashRow(d, b).rows[b].left = TrashRetention
         /\ TrashRow(d, b).rows[b].age = d.rows[b].age
         /\ \A c \in Backups \ {b} : TrashRow(d, b).rows[c] = d.rows[c]
<1> DEFINE row == [d.rows[b] EXCEPT !.status = "trashed", !.left = TrashRetention]
<1>1. d.rows[b] \in Row
  BY DEF Tables
<1>2. \A old \in Row :
        /\ [old EXCEPT !.status = "trashed", !.left = TrashRetention] \in Row
        /\ [old EXCEPT !.status = "trashed", !.left = TrashRetention].status = "trashed"
        /\ [old EXCEPT !.status = "trashed", !.left = TrashRetention].left = TrashRetention
        /\ [old EXCEPT !.status = "trashed", !.left = TrashRetention].age = old.age
  BY RowUpdates DEF Row
<1>3. /\ row \in Row /\ row.status = "trashed" /\ row.left = TrashRetention
      /\ row.age = d.rows[b].age
  BY <1>1, <1>2
<1>4. TrashRow(d, b) = SetRow(d, b, row)
  BY DEF TrashRow
<1> HIDE DEF row
<1> QED
  BY <1>3, <1>4, SetRowFacts

LEMMA RestoreRowFacts ==
  ASSUME NEW d \in Tables, NEW b \in Backups
  PROVE  /\ RestoreRow(d, b) \in Tables
         /\ RestoreRow(d, b).rows[b].status = "available"
         /\ RestoreRow(d, b).rows[b].age = d.rows[b].age
         /\ \A c \in Backups \ {b} : RestoreRow(d, b).rows[c] = d.rows[c]
<1> DEFINE row == [d.rows[b] EXCEPT !.status = "available", !.left = 0]
<1>1. d.rows[b] \in Row
  BY DEF Tables
<1>2. \A old \in Row :
        /\ [old EXCEPT !.status = "available", !.left = 0] \in Row
        /\ [old EXCEPT !.status = "available", !.left = 0].status = "available"
        /\ [old EXCEPT !.status = "available", !.left = 0].age = old.age
  BY RowUpdates DEF Row
<1>3. row \in Row /\ row.status = "available" /\ row.age = d.rows[b].age
  BY <1>1, <1>2
<1>4. RestoreRow(d, b) = SetRow(d, b, row)
  BY DEF RestoreRow
<1> HIDE DEF row
<1> QED
  BY <1>3, <1>4, SetRowFacts

LEMMA DeleteRowFacts ==
  ASSUME NEW d \in Tables, NEW b \in Backups
  PROVE  /\ DeleteRow(d, b) \in Tables
         /\ DeleteRow(d, b).rows[b].status = "deleted"
         /\ DeleteRow(d, b).rows[b].age = d.rows[b].age
         /\ \A c \in Backups \ {b} : DeleteRow(d, b).rows[c] = d.rows[c]
<1> DEFINE row == [d.rows[b] EXCEPT !.status = "deleted", !.path = FALSE, !.left = 0]
<1>1. d.rows[b] \in Row
  BY DEF Tables
<1>2. \A old \in Row :
        /\ [old EXCEPT !.status = "deleted", !.path = FALSE, !.left = 0] \in Row
        /\ [old EXCEPT !.status = "deleted", !.path = FALSE, !.left = 0].status = "deleted"
        /\ [old EXCEPT !.status = "deleted", !.path = FALSE, !.left = 0].age = old.age
  BY RowUpdates DEF Row
<1>3. row \in Row /\ row.status = "deleted" /\ row.age = d.rows[b].age
  BY <1>1, <1>2
<1>4. DeleteRow(d, b) = SetRow(d, b, row)
  BY DEF DeleteRow
<1> HIDE DEF row
<1> QED
  BY <1>3, <1>4, SetRowFacts

LEMMA TrashAvailableFacts ==
  ASSUME NEW d \in Tables, NEW b \in Backups
  PROVE  /\ TrashAvailable(d, b) \in Tables
         /\ d.rows[b].status = "available" =>
              /\ TrashAvailable(d, b).rows[b].status = "trashed"
              /\ TrashAvailable(d, b).rows[b].left = TrashRetention
              /\ TrashAvailable(d, b).rows[b].age = d.rows[b].age
         /\ d.rows[b].status # "available" => TrashAvailable(d, b).rows[b] = d.rows[b]
         /\ \A c \in Backups \ {b} : TrashAvailable(d, b).rows[c] = d.rows[c]
<1>1. TrashAvailable(d, b) = IF d.rows[b].status = "available" THEN TrashRow(d, b) ELSE d
  BY DEF TrashAvailable, TrashRow, Available
<1> QED
  BY <1>1, TrashRowFacts

LEMMA SetRejectsFacts ==
  ASSUME NEW d \in Tables, NEW xs, NEW status \in {"rejected", "trashed", "purged"}, NEW left \in Nat
  PROVE  /\ SetRejects(d, xs, status, left) \in Tables
         /\ SetRejects(d, xs, status, left).rows = d.rows
<1> DEFINE rejects == [x \in Rejected |->
                         IF x \in xs THEN [status |-> status, left |-> left] ELSE d.rejects[x]]
<1>1. rejects \in [Rejected -> Reject]
  BY DEF Tables, Reject
<1>2. SetRejects(d, xs, status, left) = [d EXCEPT !.rejects = rejects]
  BY DEF SetRejects
<1> HIDE DEF rejects
<1> QED
  BY <1>1, <1>2 DEF Tables

LEMMA AgeTablesFacts ==
  ASSUME NEW d \in Tables
  PROVE  /\ AgeTables(d) \in Tables
         /\ \A b \in Backups : /\ AgeTables(d).rows[b].status = d.rows[b].status
                               /\ d.rows[b].age = 0 => AgeTables(d).rows[b].age = 0
         /\ \A b, c \in Backups : d.rows[b].age <= d.rows[c].age
              => AgeTables(d).rows[b].age <= AgeTables(d).rows[c].age
<1> DEFINE rows == [b \in Backups |-> [d.rows[b] EXCEPT !.age = Less(@), !.left = Less(@)]]
           rejects == [x \in Rejected |-> [d.rejects[x] EXCEPT !.left = Less(@)]]
<1>1. \A n \in Nat : Less(n) \in Nat /\ (\A m \in 0..n : Less(m) \in 0..n)
  BY DEF Less
<1>2. \A row \in Row :
        /\ [row EXCEPT !.age = Less(@), !.left = Less(@)] \in Row
        /\ [row EXCEPT !.age = Less(@), !.left = Less(@)].status = row.status
        /\ [row EXCEPT !.age = Less(@), !.left = Less(@)].age = Less(row.age)
  BY <1>1, LifecycleAssumption DEF Row
<1>3. \A x \in Reject : [x EXCEPT !.left = Less(@)] \in Reject
  BY <1>1 DEF Reject
<1>4. rows \in [Backups -> Row] /\ rejects \in [Rejected -> Reject]
  BY <1>2, <1>3 DEF Tables
<1>5. \A b \in Backups : /\ rows[b].status = d.rows[b].status
                         /\ d.rows[b].age = 0 => rows[b].age = 0
  BY <1>2 DEF Tables, Less
<1>6. AgeTables(d) = [d EXCEPT !.rows = rows, !.rejects = rejects]
  BY DEF AgeTables
<1>7. \A b \in Backups : d.rows[b].age \in Nat /\ rows[b].age = Less(d.rows[b].age)
  <2> SUFFICES ASSUME NEW b \in Backups
               PROVE  d.rows[b].age \in Nat /\ rows[b].age = Less(d.rows[b].age)
    OBVIOUS
  <2>1. d.rows[b] \in Row
    BY DEF Tables
  <2>2. d.rows[b].age \in Nat
    BY <2>1, LifecycleAssumption DEF Row
  <2> QED
    BY <1>2, <2>1, <2>2
<1>8. \A m, n \in Nat : m <= n => Less(m) <= Less(n)
  BY DEF Less
<1>9. \A b, c \in Backups : d.rows[b].age <= d.rows[c].age => rows[b].age <= rows[c].age
  BY <1>7, <1>8
<1> HIDE DEF rows, rejects
<1> QED
  BY <1>4, <1>5, <1>6, <1>9 DEF Tables

\* A move concerns only the files named, and only where they are expected.
Places == [Backups \cup Rejected -> {"none", "rejected", "backups", "trash"}]

LEMMA MovedFacts ==
  ASSUME place \in Places, NEW xs, NEW from,
         NEW to \in {"none", "rejected", "backups", "trash"}
  PROVE  /\ Moved(xs, from, to) \in Places
         /\ \A x \in Backups \cup Rejected :
              Moved(xs, from, to)[x] = IF x \in xs /\ place[x] = from THEN to ELSE place[x]
BY DEF Moved, Places

-----------------------------------------------------------------------------
(* The initial states, and what the steps have in common                   *)

LEMMA FirstState == Init => IInv
<1> SUFFICES ASSUME Init PROVE IInv
  OBVIOUS
<1>1. NoRow \in Row
  BY LifecycleAssumption DEF NoRow, Row
<1>2. db \in Tables
  BY <1>1, LifecycleAssumption DEF Init, Tables, Reject
<1>3. \A b \in Backups : db.rows[b].status = "absent"
  BY DEF Init, NoRow
<1>4. \A b \in Backups : b \notin Rejected
  BY LifecycleAssumption DEF Backups
<1>5. TypeOK
  BY <1>2, LifecycleAssumption DEF Init, TypeOK, Idle, Request
<1>6. WriterInv /\ TxInv
  BY LifecycleAssumption DEF Init, WriterInv, TxInv
<1>7. PartInv
  BY <1>3 DEF Init, PartInv, PartOf
<1>8. SaveInv /\ TodoInv
  BY DEF Init, SaveInv, TodoInv, TodoOf
<1>9. WebInv /\ SafeInv
  BY <1>3 DEF Init, Idle, WebInv, Returning, SafeInv, Available
<1> QED
  BY <1>5, <1>6, <1>7, <1>8, <1>9 DEF IInv

\* The web application, a process storing a backup and nobody are no runner.
LEMMA Others ==
  /\ NoOne \notin Runners /\ Web \notin Runners /\ Saver \notin Runners
  /\ NoOne # Web /\ NoOne # Saver /\ Web # Saver
BY LifecycleAssumption

LEMMA Disjoint == Backups \cap Rejected = {}
BY LifecycleAssumption DEF Backups

LEMMA SamePart == ASSUME PartInv, UNCHANGED <<db, tx, writer>> PROVE PartInv'
BY DEF PartInv, PartOf

\* What a commit may do to the rows a run or a request knows of.
Sound(d) ==
  /\ d \in Tables /\ Follows(db, d)
  /\ \A b \in Backups : db.rows[b].status # "absent" /\ Fresh(db.rows[b]) => Fresh(d.rows[b])
  /\ \A b \in Available(d) : place[b] \in {"backups", "trash"}

LEMMA CommitKeeps ==
  ASSUME IInv, NEW d, Sound(d), Commit(d), UNCHANGED <<place, todo>>,
         \A r \in Runners : pc'[r] \notin {"move", "purge", "end"} /\ (pc'[r] = "begin" => pc[r] = "begin"),
         \/ UNCHANGED web
         \/ web' = Idle
  PROVE  TxInv' /\ PartInv' /\ TodoInv' /\ WebInv' /\ SafeInv'
<1>1. TxInv'
  BY DEF Commit, TxInv
<1>2. PartInv'
  BY DEF Commit, PartInv, PartOf
<1>3. TodoInv'
  <2> SUFFICES ASSUME NEW r \in Runners, NEW c \in todo[r], pc'[r] = "begin"
               PROVE  db'.rows[c[1]].status # "absent" /\ Fresh(db'.rows[c[1]])
    BY DEF TodoInv, TodoOf
  <2>1. c[1] \in Backups
    BY DEF IInv, TypeOK
  <2>2. db.rows[c[1]].status # "absent" /\ Fresh(db.rows[c[1]])
    BY DEF IInv, TodoInv, TodoOf
  <2>3. d \in Tables /\ db \in Tables /\ Follows(db, d)
    BY DEF IInv, TypeOK, Sound
  <2> QED
    BY <2>1, <2>2, <2>3 DEF Commit, Sound, Follows
<1>4. WebInv'
  <2>1. CASE UNCHANGED web
    <3>1. web.todo \subseteq Backups
      BY DEF IInv, TypeOK, Request
    <3> QED
      BY <2>1, <3>1 DEF IInv, WebInv, Returning, Commit, Sound, Follows
  <2>2. CASE web' = Idle
    BY <2>2 DEF WebInv, Returning, Idle
  <2> QED
    BY <2>1, <2>2
<1>5. SafeInv'
  BY DEF Commit, Sound, SafeInv
<1> QED
  BY <1>1, <1>2, <1>3, <1>4, <1>5

\* A process that gives up leaves the tables as they were committed.
LEMMA RollbackKeeps ==
  ASSUME IInv, NEW p, Rollback(p)
  PROVE  /\ db' = db /\ tx' \in Tables
         /\ writer' = IF writer = p THEN NoOne ELSE writer
         /\ writer # p => tx' = tx
         /\ TxInv' /\ PartInv'
<1>1. db' = db /\ tx' \in Tables /\ writer' = (IF writer = p THEN NoOne ELSE writer)
      /\ (writer # p => tx' = tx)
  BY DEF IInv, TypeOK, Rollback
<1>2. CASE writer = p
  <2>1. tx' = db' /\ db' = db
    BY <1>2 DEF Rollback
  <2> QED
    BY <1>1, <2>1 DEF TxInv, PartInv, PartOf
<1>3. CASE writer # p
  <2>1. UNCHANGED <<db, tx, writer>>
    BY <1>3 DEF Rollback
  <2> QED
    BY <1>1, <2>1, SamePart DEF IInv, TxInv
<1> QED
  BY <1>1, <1>2, <1>3

-----------------------------------------------------------------------------
(* A retention run                                                         *)

LEMMA SelectKeeps == ASSUME IInv, NEW r \in Runners, Select(r) PROVE IInv'
<1>1. /\ UNCHANGED <<db, tx, writer, place, rotten, web, saving, requests, crashes>>
      /\ misled' = misled \ {r} /\ pc[r] = "idle" /\ pc' = [pc EXCEPT ![r] = "begin"]
      /\ todo' = [todo EXCEPT ![r] = {<<b, db.rows[b].path>> : b \in Candidates(db)}]
  BY DEF Select, Goto, NoWrite
<1>2. \A b \in Candidates(db) :
        /\ b \in Backups /\ db.rows[b].status = "available" /\ db.rows[b].path \in BOOLEAN
  BY DEF Candidates, Available, IInv, TypeOK, Tables, Row
<1>3. TypeOK'
  BY <1>1, <1>2 DEF IInv, TypeOK
<1>4. WriterInv' /\ TxInv' /\ SaveInv' /\ SafeInv'
  BY <1>1 DEF IInv, TypeOK, WriterInv, TxInv, SaveInv, SafeInv
<1>5. PartInv'
  BY <1>1, SamePart DEF IInv
<1>6. TodoInv'
  <2> SUFFICES ASSUME NEW s \in Runners PROVE TodoOf(s)'
    BY DEF TodoInv
  <2>1. CASE s = r
    BY <1>1, <1>2, <2>1 DEF IInv, TypeOK, TodoOf, Fresh
  <2>2. CASE s # r
    BY <1>1, <2>2 DEF IInv, TypeOK, TodoInv, TodoOf
  <2> QED
    BY <2>1, <2>2
<1>7. WebInv'
  BY <1>1 DEF IInv, TypeOK, WebInv, Returning
<1> QED
  BY <1>3, <1>4, <1>5, <1>6, <1>7 DEF IInv

LEMMA BeginKeeps == ASSUME IInv, NEW r \in Runners, Begin(r) PROVE IInv'
<1>1. /\ UNCHANGED <<place, rotten, todo, web, saving, requests, crashes, misled>>
      /\ pc[r] = "begin" /\ pc' = [pc EXCEPT ![r] = "move"]
      /\ writer = NoOne /\ writer' = r /\ db' = db /\ tx' = db
  BY DEF Begin, Goto, Write
<1>2. TypeOK'
  BY <1>1 DEF IInv, TypeOK
<1>3. saving = NoOne
  BY <1>1, Others DEF IInv, WriterInv
<1>4. WriterInv' /\ TxInv' /\ SaveInv'
  BY <1>1, <1>3, Others DEF IInv, TypeOK, WriterInv, TxInv, SaveInv
<1>5. PartInv'
  BY <1>1 DEF PartInv, PartOf
<1>6. TodoInv'
  BY <1>1 DEF IInv, TypeOK, TodoInv, TodoOf
<1>7. WebInv' /\ SafeInv'
  BY <1>1 DEF IInv, TypeOK, WebInv, Returning, SafeInv
<1> QED
  BY <1>2, <1>4, <1>5, <1>6, <1>7 DEF IInv

\* A runner that is moving or purging files holds the database's write lock.
LEMMA Holds ==
  ASSUME IInv, NEW r \in Runners, pc[r] \in {"move", "purge", "end"}
  PROVE  /\ writer = r /\ saving = NoOne
         /\ \A s \in Runners : s # r => pc[s] \notin {"move", "purge", "end"}
BY Others DEF IInv, WriterInv

LEMMA MoveOneKeeps == ASSUME IInv, NEW r \in Runners, MoveOne(r) PROVE IInv'
<1>1. /\ pc[r] = "move" /\ UNCHANGED <<rotten, pc, web, saving, requests, crashes, misled>>
      /\ writer = r /\ saving = NoOne
      /\ \A s \in Runners : pc[s] \notin {"purge", "end"} /\ (pc[s] = "move" => s = r)
  BY Holds DEF MoveOne
<1>2. PICK c \in todo[r] :
        /\ c[2]
        /\ \/ /\ place[c[1]] = "backups"
              /\ Put(c[1], "trash") /\ Write(r, TrashAvailable(tx, c[1]))
           \/ UNCHANGED place /\ NoWrite
        /\ todo' = [todo EXCEPT ![r] = @ \ {c}]
  BY DEF MoveOne
<1> DEFINE b == c[1]
<1>3. /\ b \in Backups /\ tx \in Tables /\ place \in Places
      /\ db.rows[b].status # "absent" /\ Fresh(db.rows[b])
  BY <1>1 DEF IInv, TypeOK, TodoInv, TodoOf, Places
<1> HIDE DEF b
<1>4. db' = db /\ writer' = r /\ tx' \in {tx, TrashAvailable(tx, b)}
      /\ place' \in {place, [place EXCEPT ![b] = "trash"]}
  BY <1>1, <1>2 DEF b, Write, NoWrite, Put
<1>5. tx' \in Tables /\ place' \in Places
  BY <1>3, <1>4, TrashAvailableFacts DEF Places
<1>6. todo' \in [Runners -> SUBSET (Backups \X BOOLEAN)] /\ \A s \in Runners : todo'[s] \subseteq todo[s]
  BY <1>2 DEF IInv, TypeOK
<1>7. TypeOK'
  BY <1>1, <1>4, <1>5, <1>6 DEF IInv, TypeOK, Places
<1>8. WriterInv' /\ TxInv' /\ SaveInv'
  BY <1>1, <1>4, Others DEF IInv, WriterInv, TxInv, SaveInv
<1>9. PartInv'
  <2> SUFFICES ASSUME NEW a \in Backups PROVE PartOf(a)'
    BY DEF PartInv
  <2>1. PartOf(a)
    BY DEF IInv, PartInv
  <2>2. CASE tx'.rows[a] = tx.rows[a]
    BY <1>1, <1>4, <2>1, <2>2 DEF PartOf
  <2>3. CASE tx'.rows[a] # tx.rows[a]
    <3>1. /\ a = b /\ tx.rows[a].status = "available"
          /\ tx'.rows[a].status = "trashed" /\ tx'.rows[a].left = TrashRetention
          /\ tx'.rows[a].age = tx.rows[a].age
      BY <1>3, <1>4, <2>3, TrashAvailableFacts
    <3> QED
      BY <1>1, <1>3, <1>4, <2>1, <3>1 DEF PartOf
  <2> QED
    BY <2>2, <2>3
<1>10. TodoInv'
  BY <1>1, <1>4, <1>6 DEF IInv, TodoInv, TodoOf
<1>11. WebInv'
  BY <1>1, <1>3, <1>4 DEF IInv, TypeOK, WebInv, Returning
<1>12. SafeInv'
  BY <1>3, <1>4 DEF IInv, SafeInv, Available, Places
<1> QED
  BY <1>7, <1>8, <1>9, <1>10, <1>11, <1>12 DEF IInv

\* A process that stops: its transaction goes, and it has nothing left to do.
LEMMA StopKeeps ==
  ASSUME IInv, NEW r \in Runners, pc[r] # "idle", Rollback(r),
         todo' = [todo EXCEPT ![r] = {}], pc' = [pc EXCEPT ![r] = "idle"],
         UNCHANGED <<place, rotten, web, saving, requests, misled>>, crashes' \in 0..MaxCrashes
  PROVE  IInv'
<1>1. /\ db' = db /\ tx' \in Tables /\ TxInv' /\ PartInv'
      /\ writer' = (IF writer = r THEN NoOne ELSE writer) /\ (writer # r => tx' = tx)
  BY RollbackKeeps
<1>2. /\ pc' \in [Runners -> {"idle", "begin", "move", "purge", "end"}]
      /\ pc'[r] = "idle" /\ \A s \in Runners \ {r} : pc'[s] = pc[s]
      /\ todo' \in [Runners -> SUBSET (Backups \X BOOLEAN)]
      /\ \A s \in Runners : todo'[s] \subseteq todo[s]
  BY DEF IInv, TypeOK
<1>3. TypeOK'
  BY <1>1, <1>2 DEF IInv, TypeOK
<1>4. WriterInv'
  BY <1>1, <1>2, Others DEF IInv, WriterInv
<1>5. SaveInv'
  BY <1>1, Others DEF IInv, WriterInv, SaveInv
<1>6. TodoInv'
  <2> SUFFICES ASSUME NEW s \in Runners PROVE TodoOf(s)'
    BY DEF TodoInv
  <2> QED
    BY <1>1, <1>2 DEF IInv, TodoInv, TodoOf
<1>7. WebInv'
  BY <1>1, <1>2 DEF IInv, WebInv, Returning
<1>8. SafeInv'
  BY <1>1 DEF IInv, SafeInv
<1> QED
  BY <1>1, <1>3, <1>4, <1>5, <1>6, <1>7, <1>8 DEF IInv

LEMMA AbortRunKeeps == ASSUME IInv, NEW r \in Runners, AbortRun(r) PROVE IInv'
BY StopKeeps DEF AbortRun, Goto, IInv, TypeOK

LEMMA RunnerDiesKeeps == ASSUME IInv, NEW r \in Runners, RunnerDies(r) PROVE IInv'
<1>1. crashes' \in 0..MaxCrashes
  BY LifecycleAssumption DEF IInv, TypeOK, RunnerDies, Die
<1> QED
  BY <1>1, StopKeeps DEF RunnerDies, Die, Goto

\* What a run does to rejected files does not concern the backups.
LEMMA RejectsApart ==
  ASSUME place \in Places, NEW xs \in SUBSET Rejected, NEW from,
         NEW to \in {"none", "rejected", "backups", "trash"}, place' = Moved(xs, from, to)
  PROVE  place' \in Places /\ \A b \in Backups : place'[b] = place[b]
BY MovedFacts, Disjoint

LEMMA TrashRejectedKeeps == ASSUME IInv, NEW r \in Runners, TrashRejected(r) PROVE IInv'
<1> DEFINE xs == {x \in DueRejects(tx, "rejected") : place[x] = "rejected"}
           expired == {<<b, TRUE>> : b \in Expired(tx)}
<1>1. /\ pc[r] = "move" /\ pc' = [pc EXCEPT ![r] = "purge"]
      /\ UNCHANGED <<rotten, web, saving, requests, crashes, misled>>
      /\ place' = Moved(xs, "rejected", "trash")
      /\ db' = db /\ writer' = r /\ tx' = SetRejects(tx, xs, "trashed", TrashRetention)
      /\ todo' = [todo EXCEPT ![r] = expired]
  BY DEF TrashRejected, Goto, Write
<1>2. writer = r /\ saving = NoOne /\ \A s \in Runners : s # r => pc[s] \notin {"move", "purge", "end"}
  BY <1>1, Holds
<1>3. tx \in Tables /\ db \in Tables /\ place \in Places
  BY DEF IInv, TypeOK, Places
<1>4. place' \in Places /\ \A b \in Backups : place'[b] = place[b]
  <2>1. xs \in SUBSET Rejected
    BY DEF DueRejects
  <2> QED
    BY <1>1, <1>3, <2>1, RejectsApart
<1>5. tx' \in Tables /\ tx'.rows = tx.rows
  <2>1. TrashRetention \in Nat
    BY LifecycleAssumption
  <2> QED
    BY <1>1, <1>3, <2>1, SetRejectsFacts
<1>6. \A c \in expired :
        /\ c \in Backups \X BOOLEAN /\ db.rows[c[1]].status = "trashed"
        /\ db.rows[c[1]].left # TrashRetention
  <2>1. \A b \in Expired(tx) :
          b \in Backups /\ tx.rows[b].status = "trashed" /\ tx.rows[b].left # TrashRetention
    BY LifecycleAssumption DEF Expired, Trashed
  <2>2. \A b \in Expired(tx) :
          b \in Backups /\ db.rows[b].status = "trashed" /\ db.rows[b].left # TrashRetention
    BY <2>1 DEF IInv, PartInv, PartOf
  <2>3. \A c \in expired : c \in Backups \X BOOLEAN /\ c[1] \in Expired(tx)
    <3> SUFFICES ASSUME NEW c \in expired PROVE c \in Backups \X BOOLEAN /\ c[1] \in Expired(tx)
      OBVIOUS
    <3>1. PICK b \in Expired(tx) : c = <<b, TRUE>>
      OBVIOUS
    <3> QED
      BY <2>2, <3>1
  <2> QED
    BY <2>2, <2>3
<1> HIDE DEF xs, expired
<1>7. TypeOK'
  BY <1>1, <1>4, <1>5, <1>6 DEF IInv, TypeOK, Places
<1>8. WriterInv' /\ TxInv' /\ SaveInv'
  BY <1>1, <1>2, Others DEF IInv, TypeOK, WriterInv, TxInv, SaveInv
<1>9. PartInv'
  BY <1>1, <1>2, <1>5 DEF IInv, PartInv, PartOf
<1>10. TodoInv'
  <2> SUFFICES ASSUME NEW s \in Runners PROVE TodoOf(s)'
    BY DEF TodoInv
  <2>1. CASE s = r
    BY <1>1, <1>6, <2>1 DEF IInv, TypeOK, TodoOf
  <2>2. CASE s # r
    BY <1>1, <2>2 DEF IInv, TypeOK, TodoInv, TodoOf
  <2> QED
    BY <2>1, <2>2
<1>11. WebInv'
  <2>1. web.todo \subseteq Backups
    BY DEF IInv, TypeOK, Request
  <2>2. \A b \in Backups : Fresh(db.rows[b]) => \A c \in expired : c[1] # b
    BY <1>6 DEF Fresh
  <2>3. \A s \in Runners : pc'[s] = "purge" => s = r /\ todo'[s] = expired
    BY <1>1, <1>2 DEF IInv, TypeOK
  <2> QED
    BY <1>1, <1>4, <2>1, <2>2, <2>3 DEF IInv, WebInv, Returning
<1>12. SafeInv'
  BY <1>1, <1>4 DEF IInv, SafeInv, Available
<1> QED
  BY <1>7, <1>8, <1>9, <1>10, <1>11, <1>12 DEF IInv

LEMMA PurgeOneKeeps == ASSUME IInv, NEW r \in Runners, PurgeOne(r) PROVE IInv'
<1>1. /\ pc[r] = "purge" /\ UNCHANGED <<rotten, pc, web, saving, requests, crashes, misled>>
      /\ writer = r /\ saving = NoOne
  BY Holds DEF PurgeOne
<1>2. PICK c \in todo[r] :
        /\ place' = Moved({c[1]}, "trash", "none")
        /\ Write(r, DeleteRow(tx, c[1]))
        /\ todo' = [todo EXCEPT ![r] = @ \ {c}]
  BY DEF PurgeOne
<1> DEFINE b == c[1]
<1>3. b \in Backups /\ tx \in Tables /\ place \in Places /\ db.rows[b].status = "trashed"
  BY <1>1 DEF IInv, TypeOK, TodoInv, TodoOf, Places
<1>4. place[b] = "trash" => ~Returning(b)
  BY <1>1, <1>3 DEF IInv, WebInv
<1> HIDE DEF b
<1>5. db' = db /\ writer' = r /\ tx' = DeleteRow(tx, b) /\ place' = Moved({b}, "trash", "none")
  BY <1>2 DEF b, Write
<1>6. place' \in Places /\ \A a \in Backups : place'[a] = place[a] \/ (a = b /\ place[b] = "trash")
  BY <1>3, <1>5, MovedFacts
<1>7. todo' \in [Runners -> SUBSET (Backups \X BOOLEAN)] /\ \A s \in Runners : todo'[s] \subseteq todo[s]
  BY <1>2 DEF IInv, TypeOK
<1>8. TypeOK'
  <2>1. tx' \in Tables
    BY <1>3, <1>5, DeleteRowFacts
  <2> QED
    BY <1>1, <1>5, <1>6, <1>7, <2>1 DEF IInv, TypeOK, Places
<1>9. WriterInv' /\ TxInv' /\ SaveInv'
  BY <1>1, <1>5, Others DEF IInv, WriterInv, TxInv, SaveInv
<1>10. PartInv'
  <2> SUFFICES ASSUME NEW a \in Backups PROVE PartOf(a)'
    BY DEF PartInv
  <2>1. PartOf(a)
    BY DEF IInv, PartInv
  <2>2. CASE a = b
    BY <1>3, <1>5, <2>1, <2>2, DeleteRowFacts DEF PartOf
  <2>3. CASE a # b
    BY <1>1, <1>3, <1>5, <2>1, <2>3, DeleteRowFacts DEF PartOf
  <2> QED
    BY <2>2, <2>3
<1>11. TodoInv'
  BY <1>1, <1>5, <1>7 DEF IInv, TodoInv, TodoOf
<1>12. WebInv'
  <2>1. UNCHANGED <<db, web, pc>> /\ \A s \in Runners : todo'[s] \subseteq todo[s]
    BY <1>1, <1>5, <1>7
  <2>2. \A a \in Backups : Returning(a) => place'[a] = place[a]
    BY <1>4, <1>6
  <2> QED
    BY <2>1, <2>2 DEF IInv, WebInv, Returning
<1>13. SafeInv'
  BY <1>3, <1>5, <1>6 DEF IInv, SafeInv, Available
<1> QED
  BY <1>8, <1>9, <1>10, <1>11, <1>12, <1>13 DEF IInv

LEMMA PurgeRejectedKeeps == ASSUME IInv, NEW r \in Runners, PurgeRejected(r) PROVE IInv'
<1> DEFINE xs == DueRejects(tx, "trashed")
<1>1. /\ pc[r] = "purge" /\ pc' = [pc EXCEPT ![r] = "end"]
      /\ UNCHANGED <<rotten, todo, web, saving, requests, crashes, misled>>
      /\ place' = Moved(xs, "trash", "none")
      /\ db' = db /\ writer' = r /\ tx' = SetRejects(tx, xs, "purged", 0)
  BY DEF PurgeRejected, Goto, Write
<1>2. writer = r /\ saving = NoOne
  BY <1>1, Holds
<1>3. tx \in Tables /\ place \in Places
  BY DEF IInv, TypeOK, Places
<1>4. place' \in Places /\ \A b \in Backups : place'[b] = place[b]
  <2>1. xs \in SUBSET Rejected
    BY DEF DueRejects
  <2> QED
    BY <1>1, <1>3, <2>1, RejectsApart
<1>5. tx' \in Tables /\ tx'.rows = tx.rows
  BY <1>1, <1>3, SetRejectsFacts
<1> HIDE DEF xs
<1>6. TypeOK'
  BY <1>1, <1>4, <1>5 DEF IInv, TypeOK, Places
<1>7. WriterInv' /\ TxInv' /\ SaveInv'
  BY <1>1, <1>2, Others DEF IInv, TypeOK, WriterInv, TxInv, SaveInv
<1>8. PartInv'
  BY <1>1, <1>2, <1>5 DEF IInv, PartInv, PartOf
<1>9. TodoInv'
  <2> SUFFICES ASSUME NEW s \in Runners PROVE TodoOf(s)'
    BY DEF TodoInv
  <2>1. pc'[s] = pc[s] \/ pc'[s] = "end"
    BY <1>1 DEF IInv, TypeOK
  <2> QED
    BY <1>1, <2>1 DEF IInv, TodoInv, TodoOf
<1>10. WebInv'
  <2>1. \A s \in Runners : pc'[s] = "purge" => pc[s] = "purge"
    BY <1>1 DEF IInv, TypeOK
  <2> QED
    BY <1>1, <1>4, <2>1 DEF IInv, WebInv, Returning
<1>11. SafeInv'
  BY <1>1, <1>4 DEF IInv, SafeInv, Available
<1> QED
  BY <1>6, <1>7, <1>8, <1>9, <1>10, <1>11 DEF IInv

\* What the open transaction did may be committed.
LEMMA TxSound == ASSUME IInv PROVE Sound(tx)
<1>1. tx \in Tables /\ db \in Tables
  BY DEF IInv, TypeOK
<1>2. Follows(db, tx)
  BY DEF IInv, PartInv, PartOf, Follows
<1>3. \A b \in Backups : db.rows[b].status # "absent" /\ Fresh(db.rows[b]) => Fresh(tx.rows[b])
  BY DEF IInv, PartInv, PartOf, Fresh
<1>4. \A b \in Available(tx) : b \in Available(db)
  BY DEF IInv, PartInv, PartOf, Available
<1> QED
  BY <1>1, <1>2, <1>3, <1>4 DEF IInv, SafeInv, Sound

LEMMA EndRunKeeps == ASSUME IInv, NEW r \in Runners, EndRun(r) PROVE IInv'
<1>1. /\ pc[r] = "end" /\ pc' = [pc EXCEPT ![r] = "idle"] /\ Commit(tx)
      /\ UNCHANGED <<place, rotten, todo, web, saving, requests, crashes>>
      /\ misled' \in SUBSET Runners
  BY DEF EndRun, Goto, Overtaken, IInv, TypeOK
<1>2. saving = NoOne /\ \A s \in Runners : s # r => pc[s] \notin {"move", "purge", "end"}
  BY <1>1, Holds
<1>3. \A s \in Runners : pc'[s] \notin {"move", "purge", "end"} /\ (pc'[s] = "begin" => pc[s] = "begin")
  BY <1>1, <1>2 DEF IInv, TypeOK
<1>4. TypeOK'
  BY <1>1 DEF IInv, TypeOK, Commit
<1>5. WriterInv' /\ SaveInv'
  BY <1>1, <1>2, <1>3, Others DEF WriterInv, SaveInv, Commit
<1>6. TxInv' /\ PartInv' /\ TodoInv' /\ WebInv' /\ SafeInv'
  BY <1>1, <1>3, TxSound, CommitKeeps
<1> QED
  BY <1>4, <1>5, <1>6 DEF IInv

-----------------------------------------------------------------------------
(* The web application                                                     *)

LEMMA AskKeeps ==
  ASSUME IInv, NEW op, NEW step, NEW bs \in SUBSET Backups, Ask(op, step, bs),
         \/ op \in {"restore", "trash"} /\ step = "move" /\ (\A b, c \in bs : b = c)
         \/ op = "purge" /\ step = "unlink",
         \A b \in bs : db.rows[b].status # "absent"
  PROVE  IInv'
<1>1. /\ UNCHANGED <<db, tx, writer, place, rotten, pc, todo, saving, crashes, misled>>
      /\ web = Idle /\ requests < MaxRequests /\ requests' = requests + 1
      /\ web' = [op |-> op, step |-> step, todo |-> bs]
  BY DEF Ask, NoWrite
<1>2. requests' \in 0..MaxRequests
  BY <1>1, LifecycleAssumption DEF IInv, TypeOK
<1>3. TypeOK'
  BY <1>1, <1>2 DEF IInv, TypeOK, Request
<1>4. WriterInv' /\ TxInv' /\ SaveInv' /\ SafeInv'
  BY <1>1 DEF IInv, WriterInv, TxInv, SaveInv, SafeInv, Idle
<1>5. PartInv'
  BY <1>1, SamePart DEF IInv
<1>6. TodoInv'
  BY <1>1 DEF IInv, TodoInv, TodoOf
<1>7. WebInv'
  BY <1>1 DEF WebInv, Returning
<1> QED
  BY <1>3, <1>4, <1>5, <1>6, <1>7 DEF IInv

LEMMA AsksKeep ==
  ASSUME IInv,
         \/ \E b \in Backups : AskRestore(b) \/ AskTrash(b) \/ AskPurge(b)
         \/ AskEmptyTrash
  PROVE  IInv'
<1>1. ASSUME NEW b \in Backups, AskRestore(b) PROVE IInv'
  BY <1>1, AskKeeps DEF AskRestore, Trashed
<1>2. ASSUME NEW b \in Backups, AskTrash(b) PROVE IInv'
  BY <1>2, AskKeeps DEF AskTrash, Available
<1>3. ASSUME NEW b \in Backups, AskPurge(b) PROVE IInv'
  BY <1>3, AskKeeps DEF AskPurge, Trashed
<1>4. ASSUME AskEmptyTrash PROVE IInv'
  BY <1>4, AskKeeps DEF AskEmptyTrash, Trashed
<1> QED
  BY <1>1, <1>2, <1>3, <1>4

\* A request that is over, or its next step, leaves all but the files alone.
LEMMA ServeKeeps ==
  ASSUME IInv, NoWrite, UNCHANGED <<rotten, pc, todo, saving, requests, crashes, misled>>,
         place' \in Places, web' \in Request,
         writer = Web => web'.op = "purge",
         SaveInv', WebInv', SafeInv'
  PROVE  IInv'
<1>1. UNCHANGED <<db, tx, writer, rotten, pc, todo, saving, requests, crashes, misled>>
  BY DEF NoWrite
<1>2. TypeOK'
  BY <1>1 DEF IInv, TypeOK, Places
<1>3. WriterInv' /\ TxInv'
  BY <1>1 DEF IInv, WriterInv, TxInv
<1>4. PartInv'
  BY <1>1, SamePart DEF IInv
<1>5. TodoInv'
  BY <1>1 DEF IInv, TodoInv, TodoOf
<1> QED
  BY <1>2, <1>3, <1>4, <1>5 DEF IInv

LEMMA WebMoveKeeps == ASSUME IInv, WebMove PROVE IInv'
<1> DEFINE from == IF web.op = "restore" THEN "trash" ELSE "backups"
           to   == IF web.op = "restore" THEN "backups" ELSE "trash"
<1>1. PICK b \in web.todo :
        /\ place' = Moved({b}, from, to)
        /\ web' = IF place[b] = from THEN [web EXCEPT !.step = "update"] ELSE Idle
  BY DEF WebMove
<1>2. /\ web.step = "move" /\ NoWrite
      /\ UNCHANGED <<db, rotten, pc, todo, saving, requests, crashes, misled>>
  BY DEF WebMove, NoWrite
<1>3. /\ web \in Request /\ b \in Backups /\ place \in Places
      /\ db.rows[b].status # "absent" /\ web.op \in {"restore", "trash"}
      /\ web.op = "restore" => \A c \in web.todo : c = b
  BY <1>2 DEF IInv, TypeOK, WebInv, Request, Places
<1>4. writer # Web
  BY <1>3 DEF IInv, WriterInv
<1>5. /\ from \in {"trash", "backups"} /\ to \in {"trash", "backups"}
      /\ web.op = "restore" => to = "backups"
  OBVIOUS
<1> HIDE DEF from, to
<1>6. /\ place' \in Places
      /\ \A c \in Backups : place'[c] = IF c = b /\ place[b] = from THEN to ELSE place[c]
  BY <1>1, <1>3, <1>5, MovedFacts
<1>7. web' \in Request
  BY <1>1, <1>3 DEF Request, Idle
<1>8. SaveInv'
  <2>1. saving # NoOne => saving \in Backups /\ saving # b
    BY <1>3 DEF IInv, TypeOK, SaveInv
  <2> QED
    BY <1>2, <1>6, <2>1 DEF IInv, SaveInv, NoWrite
<1>9. SafeInv'
  BY <1>2, <1>3, <1>5, <1>6 DEF IInv, SafeInv, Available
<1>10. WebInv'
  <2>1. CASE place[b] = from
    <3>1. web'.op = web.op /\ web'.todo = web.todo /\ web'.step = "update"
      BY <1>1, <1>3, <2>1 DEF Request
    <3>2. \A c \in Backups : Returning(c)' => place'[c] = "backups"
      BY <1>3, <1>5, <1>6, <2>1, <3>1 DEF Returning
    <3> QED
      BY <1>2, <3>1, <3>2 DEF IInv, WebInv
  <2>2. CASE place[b] # from
    <3>1. web' = Idle
      BY <1>1, <2>2
    <3> QED
      BY <3>1 DEF WebInv, Returning, Idle
  <2> QED
    BY <2>1, <2>2
<1> QED
  BY <1>2, <1>4, <1>6, <1>7, <1>8, <1>9, <1>10, ServeKeeps

\* A request that names one row and commits at once.
LEMMA UpdateKeeps ==
  ASSUME IInv, writer = NoOne, NEW d, Sound(d), Commit(d), web' = Idle,
         UNCHANGED <<place, rotten, pc, todo, saving, requests, crashes>>,
         misled' \in SUBSET Runners
  PROVE  IInv'
<1>1. saving = NoOne /\ \A s \in Runners : pc[s] \notin {"move", "purge", "end"}
  BY Others DEF IInv, WriterInv
<1>2. TypeOK'
  BY DEF IInv, TypeOK, Commit, Sound, Idle, Request
<1>3. WriterInv' /\ SaveInv'
  BY <1>1, Others DEF WriterInv, SaveInv, Commit
<1>4. TxInv' /\ PartInv' /\ TodoInv' /\ WebInv' /\ SafeInv'
  BY <1>1, CommitKeeps
<1> QED
  BY <1>2, <1>3, <1>4 DEF IInv

LEMMA OneRowSound ==
  ASSUME IInv, NEW d \in Tables, NEW b \in Backups,
         d.rows[b].status # "absent", Fresh(d.rows[b]), d.rows[b].age = db.rows[b].age,
         d.rows[b].status = "available" => place[b] \in {"backups", "trash"},
         \A c \in Backups \ {b} : d.rows[c] = db.rows[c]
  PROVE  Sound(d)
<1>1. Follows(db, d)
  BY DEF Follows
<1>2. \A c \in Backups : db.rows[c].status # "absent" /\ Fresh(db.rows[c]) => Fresh(d.rows[c])
  OBVIOUS
<1>3. \A c \in Available(d) : place[c] \in {"backups", "trash"}
  BY DEF IInv, SafeInv, Available
<1> QED
  BY <1>1, <1>2, <1>3 DEF Sound

LEMMA RestoreUpdateKeeps == ASSUME IInv, RestoreUpdate PROVE IInv'
<1>1. PICK b \in web.todo : Commit(RestoreRow(db, b))
  BY DEF RestoreUpdate
<1>2. /\ b \in Backups /\ db \in Tables /\ db.rows[b].status # "absent"
      /\ place[b] \in {"backups", "trash"}
  BY DEF IInv, TypeOK, Request, WebInv, Returning, RestoreUpdate, WebIs
<1>3. Fresh(RestoreRow(db, b).rows[b])
  BY <1>2, RestoreRowFacts DEF Fresh
<1>4. Sound(RestoreRow(db, b))
  BY <1>2, <1>3, RestoreRowFacts, OneRowSound
<1> QED
  BY <1>1, <1>4, UpdateKeeps DEF RestoreUpdate, IInv, TypeOK

LEMMA TrashUpdateKeeps == ASSUME IInv, TrashUpdate PROVE IInv'
<1>1. PICK b \in web.todo : Commit(TrashRow(db, b))
  BY DEF TrashUpdate
<1>2. b \in Backups /\ db \in Tables
  BY DEF IInv, TypeOK, Request
<1>3. Fresh(TrashRow(db, b).rows[b])
  BY <1>2, TrashRowFacts DEF Fresh
<1>4. Sound(TrashRow(db, b))
  BY <1>2, <1>3, TrashRowFacts, OneRowSound
<1> QED
  BY <1>1, <1>4, UpdateKeeps DEF TrashUpdate, Overtaken, IInv, TypeOK

\* A row that is trashed where a request looks was committed as trashed.
LEMMA TrashedInDb ==
  ASSUME IInv, NEW b \in Trashed(IF writer = Web THEN tx ELSE db)
  PROVE  b \in Backups /\ db.rows[b].status = "trashed"
BY Others DEF IInv, PartInv, PartOf, Trashed

LEMMA PurgeUnlinkKeeps == ASSUME IInv, PurgeUnlink PROVE IInv'
<1> DEFINE seen == Trashed(IF writer = Web THEN tx ELSE db)
<1>1. PICK b \in web.todo :
        \/ web' = [web EXCEPT !.todo = @ \ {b}] /\ UNCHANGED place
        \/ /\ b \in seen /\ place' = Moved({b}, "trash", "none")
           /\ web' = [web EXCEPT !.step = "update"]
  BY DEF PurgeUnlink
<1>2. /\ web.op = "purge" /\ web.step = "unlink" /\ NoWrite
      /\ UNCHANGED <<db, tx, rotten, pc, todo, saving, requests, crashes, misled>>
  BY DEF PurgeUnlink, WebIs, NoWrite
<1>3. web \in Request /\ place \in Places
  BY DEF IInv, TypeOK, Places
<1>4. b \in seen => b \in Backups /\ db.rows[b].status = "trashed"
  BY TrashedInDb
<1> HIDE DEF seen
<1>5. /\ web' \in Request /\ web'.op = "purge" /\ web'.step # "move"
      /\ web'.todo \subseteq web.todo
  BY <1>1, <1>2, <1>3 DEF Request
<1>6. /\ place' \in Places
      /\ \A c \in Backups : place'[c] = place[c] \/ db.rows[c].status = "trashed"
  BY <1>1, <1>3, <1>4, MovedFacts
<1>7. SaveInv' /\ SafeInv'
  BY <1>2, <1>6 DEF IInv, TypeOK, SaveInv, SafeInv, Available
<1>8. WebInv'
  BY <1>2, <1>5 DEF IInv, WebInv, Returning
<1> QED
  BY <1>2, <1>5, <1>6, <1>7, <1>8, ServeKeeps

LEMMA PurgeUpdateKeeps == ASSUME IInv, PurgeUpdate PROVE IInv'
<1>1. PICK b \in web.todo :
        /\ Write(Web, DeleteRow(tx, b))
        /\ web' = [web EXCEPT !.step = "unlink", !.todo = @ \ {b}]
  BY DEF PurgeUpdate
<1>2. /\ web.op = "purge" /\ writer \in {NoOne, Web}
      /\ UNCHANGED <<place, rotten, pc, todo, saving, requests, crashes, misled>>
      /\ db' = db /\ writer' = Web /\ tx' = DeleteRow(tx, b)
  BY <1>1 DEF PurgeUpdate, WebIs, Write
<1>3. web \in Request /\ b \in Backups /\ tx \in Tables /\ db.rows[b].status # "absent"
  BY DEF IInv, TypeOK, WebInv, Request
<1>4. /\ web' \in Request /\ web'.op = "purge" /\ web'.step = "unlink"
      /\ web'.todo \subseteq web.todo
  BY <1>1, <1>2, <1>3 DEF Request
<1>5. saving = NoOne /\ \A s \in Runners : pc[s] \notin {"move", "purge", "end"}
  BY <1>2, Others DEF IInv, WriterInv
<1>6. TypeOK'
  <2>1. tx' \in Tables
    BY <1>2, <1>3, DeleteRowFacts
  <2> QED
    BY <1>2, <1>4, <2>1 DEF IInv, TypeOK
<1>7. WriterInv' /\ TxInv' /\ SaveInv'
  BY <1>2, <1>4, <1>5, Others DEF WriterInv, TxInv, SaveInv
<1>8. PartInv'
  <2> SUFFICES ASSUME NEW a \in Backups PROVE PartOf(a)'
    BY DEF PartInv
  <2>1. PartOf(a)
    BY DEF IInv, PartInv
  <2>2. CASE a = b
    BY <1>2, <1>3, <2>1, <2>2, DeleteRowFacts DEF PartOf
  <2>3. CASE a # b
    BY <1>2, <1>3, <2>1, <2>3, Others, DeleteRowFacts DEF PartOf
  <2> QED
    BY <2>2, <2>3
<1>9. TodoInv' /\ SafeInv'
  BY <1>2 DEF IInv, TodoInv, TodoOf, SafeInv, Available
<1>10. WebInv'
  BY <1>2, <1>4 DEF IInv, WebInv, Returning
<1> QED
  BY <1>6, <1>7, <1>8, <1>9, <1>10 DEF IInv

LEMMA PurgeEndKeeps == ASSUME IInv, PurgeEnd PROVE IInv'
<1>1. /\ web' = Idle /\ UNCHANGED <<place, rotten, pc, todo, saving, requests, crashes, misled>>
      /\ IF writer = Web THEN Commit(tx) ELSE NoWrite
  BY DEF PurgeEnd
<1>2. CASE writer = Web
  <2>1. saving = NoOne /\ \A s \in Runners : pc[s] \notin {"move", "purge", "end"}
    BY <1>2, Others DEF IInv, WriterInv
  <2>2. Commit(tx)
    BY <1>1, <1>2
  <2>3. TypeOK'
    BY <1>1, <2>2 DEF IInv, TypeOK, Commit, Idle, Request
  <2>4. WriterInv' /\ SaveInv'
    BY <1>1, <2>1, <2>2, Others DEF WriterInv, SaveInv, Commit
  <2>5. TxInv' /\ PartInv' /\ TodoInv' /\ WebInv' /\ SafeInv'
    BY <1>1, <2>1, <2>2, TxSound, CommitKeeps
  <2> QED
    BY <2>3, <2>4, <2>5 DEF IInv
<1>3. CASE writer # Web
  <2>1. UNCHANGED <<db, tx>> /\ NoWrite
    BY <1>1, <1>3 DEF NoWrite
  <2>2. place' \in Places /\ web' \in Request
    BY <1>1 DEF IInv, TypeOK, Places, Idle, Request
  <2>3. SaveInv' /\ SafeInv' /\ WebInv'
    BY <1>1, <2>1 DEF IInv, SaveInv, SafeInv, Available, WebInv, Returning, Idle
  <2> QED
    BY <1>1, <1>3, <2>1, <2>2, <2>3, ServeKeeps
<1> QED
  BY <1>2, <1>3

LEMMA WebLockedKeeps == ASSUME IInv, WebLocked PROVE IInv'
<1>1. /\ web' = Idle /\ writer # Web /\ NoWrite
      /\ UNCHANGED <<db, tx, place, rotten, pc, todo, saving, requests, crashes, misled>>
  BY DEF WebLocked, NoWrite
<1>2. place' \in Places /\ web' \in Request
  BY <1>1 DEF IInv, TypeOK, Places, Idle, Request
<1>3. SaveInv' /\ SafeInv' /\ WebInv'
  BY <1>1 DEF IInv, SaveInv, SafeInv, Available, WebInv, Returning, Idle
<1> QED
  BY <1>1, <1>2, <1>3, ServeKeeps

-----------------------------------------------------------------------------
(* Backups arrive, processes die, files decay, days pass                   *)

LEMMA SaveStartKeeps == ASSUME IInv, SaveStart PROVE IInv'
<1> DEFINE row == [NoRow EXCEPT !.status = "validating", !.path = TRUE, !.age = MaxAge]
<1>1. PICK b \in Backups :
        /\ IsOldest(b, {c \in Backups : db.rows[c].status = "absent" /\ place[c] = "none"})
        /\ Write(Saver, SetRow(db, b, row)) /\ Put(b, "backups") /\ saving' = b
  BY DEF SaveStart
<1>2. row \in Row /\ row.status = "validating"
  <2>1. NoRow \in Row
    BY LifecycleAssumption DEF NoRow, Row
  <2> QED
    BY <2>1, RowUpdates DEF Row
<1> HIDE DEF row
<1>3. /\ writer = NoOne /\ UNCHANGED <<rotten, pc, todo, web, requests, crashes, misled>>
      /\ db' = db /\ writer' = Saver /\ tx' = SetRow(db, b, row)
      /\ place' = [place EXCEPT ![b] = "backups"] /\ saving' = b
      /\ db.rows[b].status = "absent"
  BY <1>1 DEF SaveStart, Write, Put, IsOldest
<1>4. db \in Tables /\ place \in Places /\ web.todo \subseteq Backups
  BY DEF IInv, TypeOK, Places, Request
<1>5. tx' \in Tables /\ place' \in Places
  BY <1>2, <1>3, <1>4, SetRowFacts DEF Places
<1>6. TypeOK'
  BY <1>3, <1>5 DEF IInv, TypeOK, Places
<1>7. b # NoOne
  BY LifecycleAssumption DEF Backups
<1>8. WriterInv'
  BY <1>3, <1>7, Others DEF IInv, WriterInv
<1>9. TxInv' /\ SaveInv'
  BY <1>2, <1>3, <1>4, Others, SetRowFacts DEF TxInv, SaveInv, Places
<1>10. PartInv'
  <2> SUFFICES ASSUME NEW a \in Backups PROVE PartOf(a)'
    BY DEF PartInv
  <2>1. CASE a = b
    BY <1>2, <1>3, <1>4, <2>1, SetRowFacts DEF PartOf
  <2>2. CASE a # b
    BY <1>2, <1>3, <1>4, <2>2, SetRowFacts DEF PartOf
  <2> QED
    BY <2>1, <2>2
<1>11. TodoInv' /\ SafeInv'
  BY <1>3, <1>4 DEF IInv, TodoInv, TodoOf, SafeInv, Available, Places
<1>12. WebInv'
  BY <1>3, <1>4 DEF IInv, WebInv, Returning, Places
<1> QED
  BY <1>6, <1>8, <1>9, <1>10, <1>11, <1>12 DEF IInv

LEMMA SaveEndKeeps == ASSUME IInv, SaveEnd PROVE IInv'
<1> DEFINE row == [tx.rows[saving] EXCEPT !.status = "available"]
           d   == SetRow(tx, saving, row)
<1>1. /\ writer = Saver /\ Commit(d) /\ saving' = NoOne
      /\ UNCHANGED <<place, rotten, pc, todo, web, requests, crashes, misled>>
  BY DEF SaveEnd
<1>2. /\ saving \in Backups /\ tx \in Tables /\ tx.rows[saving] \in Row
      /\ place[saving] = "backups" /\ db.rows[saving].status = "absent"
  BY <1>1 DEF IInv, TypeOK, WriterInv, SaveInv, Tables
<1>3. row \in Row
  BY <1>2, RowUpdates
<1> HIDE DEF row
<1>4. /\ d \in Tables /\ \A b \in Backups \ {saving} : d.rows[b] = tx.rows[b]
  BY <1>2, <1>3, SetRowFacts
<1> HIDE DEF d
<1>5. Sound(d)
  <2>1. Sound(tx)
    BY TxSound
  <2>2. Follows(db, d)
    BY <1>2, <1>4, <2>1 DEF Sound, Follows
  <2>3. \A b \in Backups : db.rows[b].status # "absent" /\ Fresh(db.rows[b]) => Fresh(d.rows[b])
    BY <1>2, <1>4, <2>1 DEF Sound
  <2>4. \A b \in Available(d) : place[b] \in {"backups", "trash"}
    BY <1>2, <1>4, <2>1 DEF Sound, Available
  <2> QED
    BY <1>4, <2>2, <2>3, <2>4 DEF Sound
<1>6. \A s \in Runners : pc[s] \notin {"move", "purge", "end"}
  BY <1>1, Others DEF IInv, WriterInv
<1>7. TypeOK'
  BY <1>1, <1>4 DEF IInv, TypeOK, Commit
<1>8. WriterInv' /\ SaveInv'
  BY <1>1, <1>6, Others DEF WriterInv, SaveInv, Commit
<1>9. TxInv' /\ PartInv' /\ TodoInv' /\ WebInv' /\ SafeInv'
  BY <1>1, <1>5, <1>6, CommitKeeps
<1> QED
  BY <1>7, <1>8, <1>9 DEF IInv

LEMMA WebDiesKeeps == ASSUME IInv, WebDies PROVE IInv'
<1>1. /\ Rollback(Web) /\ web' = Idle /\ crashes' \in 0..MaxCrashes
      /\ UNCHANGED <<place, rotten, pc, todo, saving, requests, misled>>
  BY LifecycleAssumption DEF IInv, TypeOK, WebDies, Die
<1>2. /\ db' = db /\ tx' \in Tables /\ TxInv' /\ PartInv'
      /\ writer' = (IF writer = Web THEN NoOne ELSE writer) /\ (writer # Web => tx' = tx)
  BY <1>1, RollbackKeeps
<1>3. TypeOK'
  BY <1>1, <1>2 DEF IInv, TypeOK, Idle, Request
<1>4. WriterInv' /\ SaveInv'
  BY <1>1, <1>2, Others DEF IInv, WriterInv, SaveInv
<1>5. TodoInv' /\ SafeInv' /\ WebInv'
  BY <1>1, <1>2 DEF IInv, TodoInv, TodoOf, SafeInv, Available, WebInv, Returning, Idle
<1> QED
  BY <1>2, <1>3, <1>4, <1>5 DEF IInv

LEMMA SaverDiesKeeps == ASSUME IInv, SaverDies PROVE IInv'
<1>1. /\ Rollback(Saver) /\ saving' = NoOne /\ crashes' \in 0..MaxCrashes
      /\ UNCHANGED <<place, rotten, pc, todo, web, requests, misled>>
  BY LifecycleAssumption DEF IInv, TypeOK, SaverDies, Die
<1>2. db' = db /\ tx' \in Tables /\ TxInv' /\ PartInv'
      /\ writer = Saver /\ writer' = NoOne
  BY <1>1, RollbackKeeps DEF IInv, WriterInv, SaverDies
<1>3. TypeOK'
  BY <1>1, <1>2 DEF IInv, TypeOK
<1>4. WriterInv' /\ SaveInv'
  BY <1>1, <1>2, Others DEF IInv, WriterInv, SaveInv
<1>5. TodoInv' /\ SafeInv' /\ WebInv'
  BY <1>1, <1>2 DEF IInv, TodoInv, TodoOf, SafeInv, Available, WebInv, Returning
<1> QED
  BY <1>2, <1>3, <1>4, <1>5 DEF IInv

LEMMA RotKeeps == ASSUME IInv, NEW b \in Backups, Rot(b) PROVE IInv'
<1>1. /\ UNCHANGED <<db, tx, writer, place, pc, todo, web, saving, requests, crashes, misled>>
      /\ rotten' = rotten \cup {b}
  BY DEF Rot, NoWrite
<1>2. TypeOK'
  BY <1>1 DEF IInv, TypeOK
<1>3. WriterInv' /\ TxInv' /\ SaveInv'
  BY <1>1 DEF IInv, WriterInv, TxInv, SaveInv
<1>4. PartInv'
  BY <1>1, SamePart DEF IInv
<1>5. TodoInv' /\ SafeInv' /\ WebInv'
  BY <1>1 DEF IInv, TodoInv, TodoOf, SafeInv, Available, WebInv, Returning
<1> QED
  BY <1>2, <1>3, <1>4, <1>5 DEF IInv

LEMMA TickKeeps == ASSUME IInv, Tick PROVE IInv'
<1>1. /\ \A r \in Runners : pc[r] = "idle"
      /\ web = Idle /\ saving = NoOne /\ Commit(AgeTables(db))
      /\ UNCHANGED <<place, rotten, pc, todo, web, saving, requests, crashes, misled>>
  BY DEF Tick
<1>2. /\ db' \in Tables /\ tx' = db' /\ writer' = NoOne
      /\ \A b \in Backups : db'.rows[b].status = db.rows[b].status
  BY <1>1, AgeTablesFacts DEF IInv, TypeOK, Commit
<1>3. TypeOK'
  BY <1>1, <1>2 DEF IInv, TypeOK
<1>4. WriterInv' /\ TxInv' /\ SaveInv'
  BY <1>1, <1>2, Others DEF WriterInv, TxInv, SaveInv
<1>5. PartInv'
  BY <1>2 DEF PartInv, PartOf
<1>6. TodoInv' /\ WebInv'
  BY <1>1 DEF TodoInv, TodoOf, WebInv, Returning, Idle
<1>7. SafeInv'
  BY <1>1, <1>2 DEF IInv, SafeInv, Available
<1> QED
  BY <1>3, <1>4, <1>5, <1>6, <1>7 DEF IInv

-----------------------------------------------------------------------------
(* The theorems                                                            *)

LEMMA StepKeeps == IInv /\ [Next]_vars => IInv'
<1> SUFFICES ASSUME IInv, [Next]_vars PROVE IInv'
  OBVIOUS
<1>1. ASSUME NEW r \in Runners, Execute(r) \/ RunnerDies(r) PROVE IInv'
  BY <1>1, SelectKeeps, BeginKeeps, MoveOneKeeps, AbortRunKeeps, TrashRejectedKeeps,
     PurgeOneKeeps, PurgeRejectedKeeps, EndRunKeeps, RunnerDiesKeeps DEF Execute
<1>2. ASSUME NEW b \in Backups, AskRestore(b) \/ AskTrash(b) \/ AskPurge(b) \/ Rot(b) PROVE IInv'
  BY <1>2, AsksKeep, RotKeeps
<1>3. CASE AskEmptyTrash
  BY <1>3, AsksKeep
<1>4. CASE Serve
  BY <1>4, WebMoveKeeps, RestoreUpdateKeeps, TrashUpdateKeeps, PurgeUnlinkKeeps,
     PurgeUpdateKeeps, PurgeEndKeeps, WebLockedKeeps DEF Serve
<1>5. CASE SaveStart \/ SaveEnd \/ WebDies \/ SaverDies \/ Tick
  BY <1>5, SaveStartKeeps, SaveEndKeeps, WebDiesKeeps, SaverDiesKeeps, TickKeeps
<1>6. CASE UNCHANGED vars
  <2>1. UNCHANGED <<db, tx, writer, place, rotten, pc, todo, web, saving, requests, crashes, misled>>
    BY <1>6 DEF vars
  <2>2. PartInv'
    BY <2>1, SamePart DEF IInv
  <2>3. TypeOK' /\ WriterInv' /\ TxInv' /\ SaveInv'
    BY <2>1 DEF IInv, TypeOK, WriterInv, TxInv, SaveInv
  <2>4. TodoInv' /\ WebInv' /\ SafeInv'
    BY <2>1 DEF IInv, TodoInv, TodoOf, WebInv, Returning, SafeInv, Available
  <2> QED
    BY <2>2, <2>3, <2>4 DEF IInv
<1> QED
  BY <1>1, <1>2, <1>3, <1>4, <1>5, <1>6 DEF Next

\* Every reachable state satisfies the inductive invariant.
THEOREM Inductive == Spec => []IInv
BY FirstState, StepKeeps, PTL DEF Spec

\* A backup the database calls available still has its file, in its directory
\* or in the trash, whatever execute, restore, purge_backup, empty_trash and
\* save_ssh_backup do at the same time and wherever one of them dies.
THEOREM NothingLost == Spec => []NoBackupLost
<1>1. IInv => NoBackupLost
  BY DEF IInv, SafeInv, NoBackupLost
<1> QED
  BY <1>1, Inductive, PTL

\* The files of backups that a step unlinks are of rows committed as trashed.
UnlinksTrashed ==
  \A b \in Backups : place[b] # "none" /\ place'[b] = "none" => db.rows[b].status = "trashed"

LEMMA StepUnlinksTrashed == ASSUME IInv, Next PROVE UnlinksTrashed
<1>1. place \in Places /\ db \in Tables /\ web.todo \subseteq Backups
  BY DEF IInv, TypeOK, Places, Request
<1>2. CASE UNCHANGED place
  BY <1>2 DEF UnlinksTrashed
<1>3. ASSUME NEW r \in Runners, MoveOne(r) PROVE UnlinksTrashed
  <2>1. PICK c \in todo[r] : Put(c[1], "trash") \/ UNCHANGED place
    BY <1>3 DEF MoveOne
  <2> QED
    BY <1>1, <2>1 DEF Put, Places, UnlinksTrashed
<1>4. ASSUME NEW r \in Runners, TrashRejected(r) PROVE UnlinksTrashed
  <2>1. PICK xs \in SUBSET Rejected : place' = Moved(xs, "rejected", "trash")
    BY <1>4 DEF TrashRejected, DueRejects
  <2> QED
    BY <1>1, <2>1, RejectsApart DEF UnlinksTrashed
<1>5. ASSUME NEW r \in Runners, PurgeRejected(r) PROVE UnlinksTrashed
  <2>1. PICK xs \in SUBSET Rejected : place' = Moved(xs, "trash", "none")
    BY <1>5 DEF PurgeRejected, DueRejects
  <2> QED
    BY <1>1, <2>1, RejectsApart DEF UnlinksTrashed
<1>6. ASSUME NEW r \in Runners, PurgeOne(r) PROVE UnlinksTrashed
  <2>1. PICK c \in todo[r] : place' = Moved({c[1]}, "trash", "none")
    BY <1>6 DEF PurgeOne
  <2>2. db.rows[c[1]].status = "trashed"
    BY <1>6 DEF PurgeOne, IInv, TodoInv, TodoOf
  <2> QED
    BY <1>1, <2>1, <2>2, MovedFacts DEF UnlinksTrashed
<1>7. CASE WebMove
  <2>1. PICK b \in web.todo :
          \/ place' = Moved({b}, "trash", "backups")
          \/ place' = Moved({b}, "backups", "trash")
    BY <1>7 DEF WebMove
  <2> QED
    BY <1>1, <2>1, MovedFacts DEF UnlinksTrashed
<1>8. CASE PurgeUnlink
  <2>1. PICK b \in web.todo :
          \/ UNCHANGED place
          \/ /\ b \in Trashed(IF writer = Web THEN tx ELSE db)
             /\ place' = Moved({b}, "trash", "none")
    BY <1>8 DEF PurgeUnlink
  <2>2. b \in Trashed(IF writer = Web THEN tx ELSE db) => db.rows[b].status = "trashed"
    BY TrashedInDb
  <2> QED
    BY <1>1, <2>1, <2>2, MovedFacts DEF UnlinksTrashed
<1>9. CASE SaveStart
  <2>1. PICK b \in Backups : Put(b, "backups")
    BY <1>9 DEF SaveStart
  <2> QED
    BY <1>1, <2>1 DEF Put, Places, UnlinksTrashed
<1>10. ASSUME NEW r \in Runners, Execute(r) \/ RunnerDies(r) PROVE UnlinksTrashed
  BY <1>2, <1>3, <1>4, <1>5, <1>6, <1>10 DEF Execute, Select, Begin, AbortRun, EndRun, RunnerDies, Die
<1>11. CASE Serve
  BY <1>2, <1>7, <1>8, <1>11 DEF Serve, RestoreUpdate, TrashUpdate, PurgeUpdate, PurgeEnd, WebLocked
<1>12. ASSUME NEW b \in Backups, AskRestore(b) \/ AskTrash(b) \/ AskPurge(b) \/ Rot(b) PROVE UnlinksTrashed
  BY <1>2, <1>12 DEF AskRestore, AskTrash, AskPurge, Ask, Rot
<1>13. CASE AskEmptyTrash \/ SaveEnd \/ WebDies \/ SaverDies \/ Tick
  BY <1>2, <1>13 DEF AskEmptyTrash, Ask, SaveEnd, WebDies, SaverDies, Die, Tick
<1> QED
  BY <1>9, <1>10, <1>11, <1>12, <1>13 DEF Next

\* No cleaning unlinks a backup that is available: a file goes only when its
\* row had been committed as trashed before, by another transaction than the
\* one that unlinks it (purge_expired, purge_backup).
THEOREM OnlyTrashIsUnlinked == Spec => UnlinkedOnlyFromTrash
<1>1. IInv /\ [Next]_vars =>
        [\A b \in Backups : place[b] # "none" /\ place'[b] = "none"
           => db.rows[b].status = "trashed"]_vars
  BY StepUnlinksTrashed DEF UnlinksTrashed
<1> QED
  BY <1>1, Inductive, PTL DEF Spec, UnlinkedOnlyFromTrash

-----------------------------------------------------------------------------
(* The policy: the order of the backups                                    *)

\* A newer backup is not the older of the two.
Ordered(d) ==
  \A b, c \in Backups :
    b < c /\ d.rows[b].status # "absent" /\ d.rows[c].status # "absent"
      => d.rows[b].age <= d.rows[c].age

\* Backups arrive in order: what an earlier number has left free stays free.
InTurn(d) ==
  \A b, c \in Backups :
    b < c /\ d.rows[c].status # "absent" => d.rows[b].status # "absent" \/ place[b] # "none"

OrderInv == Ordered(db) /\ Ordered(tx) /\ InTurn(db) /\ InTurn(tx)

\* The same rows exist, and they have kept their order.
Like(d, e) ==
  \A b, c \in Backups :
    /\ d.rows[b].status = "absent" <=> e.rows[b].status = "absent"
    /\ d.rows[b].age = 0 => e.rows[b].age = 0
    /\ d.rows[b].age <= d.rows[c].age => e.rows[b].age <= e.rows[c].age

Grows == (Like(db, db') \/ Like(tx, db')) /\ (Like(db, tx') \/ Like(tx, tx'))

LEMMA SameLike == ASSUME NEW d, NEW e, d.rows = e.rows PROVE Like(d, e)
BY DEF Like

LEMMA OneRowLike ==
  ASSUME NEW d, NEW e, NEW b \in Backups,
         d.rows[b].status # "absent", e.rows[b].status # "absent", e.rows[b].age = d.rows[b].age,
         \A c \in Backups : c # b => e.rows[c] = d.rows[c]
  PROVE  Like(d, e)
<1> SUFFICES ASSUME NEW a \in Backups, NEW c \in Backups
             PROVE  /\ d.rows[a].status = "absent" <=> e.rows[a].status = "absent"
                    /\ d.rows[a].age = 0 => e.rows[a].age = 0
                    /\ d.rows[a].age <= d.rows[c].age => e.rows[a].age <= e.rows[c].age
  BY DEF Like
<1>1. \A x \in Backups : /\ d.rows[x].status = "absent" <=> e.rows[x].status = "absent"
                         /\ e.rows[x].age = d.rows[x].age
  OBVIOUS
<1> QED
  BY <1>1

LEMMA UpdatesLike ==
  ASSUME NEW d \in Tables, NEW b \in Backups, d.rows[b].status # "absent"
  PROVE  /\ Like(d, TrashRow(d, b)) /\ Like(d, RestoreRow(d, b))
         /\ Like(d, DeleteRow(d, b)) /\ Like(d, TrashAvailable(d, b))
<1>1. Like(d, TrashRow(d, b))
  <2> DEFINE e == TrashRow(d, b)
  <2>1. /\ e.rows[b].status # "absent" /\ e.rows[b].age = d.rows[b].age
        /\ \A c \in Backups : c # b => e.rows[c] = d.rows[c]
    BY TrashRowFacts
  <2> HIDE DEF e
  <2>2. Like(d, e)
    BY <2>1, OneRowLike, SMTT(60)
  <2> QED
    BY <2>2 DEF e
<1>2. Like(d, RestoreRow(d, b))
  <2> DEFINE e == RestoreRow(d, b)
  <2>1. /\ e.rows[b].status # "absent" /\ e.rows[b].age = d.rows[b].age
        /\ \A c \in Backups : c # b => e.rows[c] = d.rows[c]
    BY RestoreRowFacts
  <2> HIDE DEF e
  <2>2. Like(d, e)
    BY <2>1, OneRowLike, SMTT(60)
  <2> QED
    BY <2>2 DEF e
<1>3. Like(d, DeleteRow(d, b))
  <2> DEFINE e == DeleteRow(d, b)
  <2>1. /\ e.rows[b].status # "absent" /\ e.rows[b].age = d.rows[b].age
        /\ \A c \in Backups : c # b => e.rows[c] = d.rows[c]
    BY DeleteRowFacts
  <2> HIDE DEF e
  <2>2. Like(d, e)
    BY <2>1, OneRowLike, SMTT(60)
  <2> QED
    BY <2>2 DEF e
<1>4. TrashAvailable(d, b) \in {TrashRow(d, b), d}
  BY DEF TrashAvailable, TrashRow
<1> QED
  BY <1>1, <1>2, <1>3, <1>4, SameLike

\* A row that a run or a request names exists in the open transaction too.
LEMMA ExistsInTx ==
  ASSUME IInv, NEW b \in Backups, db.rows[b].status # "absent"
  PROVE  tx.rows[b].status # "absent"
BY DEF IInv, PartInv, PartOf

LEMMA ExecuteGrows == ASSUME IInv, NEW r \in Runners, Execute(r) PROVE Grows
<1>1. db \in Tables /\ tx \in Tables /\ Like(db, db) /\ Like(tx, tx)
  BY SameLike DEF IInv, TypeOK
<1>2. CASE Select(r)
  BY <1>1, <1>2 DEF Select, NoWrite, Grows
<1>3. CASE Begin(r)
  BY <1>1, <1>3 DEF Begin, Write, Grows
<1>4. CASE MoveOne(r)
  <2>1. PICK c \in todo[r] : db' = db /\ tx' \in {tx, TrashAvailable(tx, c[1])}
    BY <1>4 DEF MoveOne, Write, NoWrite
  <2>2. c[1] \in Backups /\ tx.rows[c[1]].status # "absent"
    BY <1>4, ExistsInTx DEF MoveOne, IInv, TypeOK, TodoInv, TodoOf
  <2>3. Like(tx, TrashAvailable(tx, c[1]))
    BY <1>1, <2>2, UpdatesLike
  <2> QED
    BY <1>1, <2>1, <2>3 DEF Grows
<1>5. CASE AbortRun(r)
  BY <1>1, <1>5 DEF AbortRun, Rollback, Grows
<1>6. CASE TrashRejected(r) \/ PurgeRejected(r)
  <2>1. db' = db
    BY <1>6 DEF TrashRejected, PurgeRejected, Write
  <2>2. tx'.rows = tx.rows
    <3>1. CASE TrashRejected(r)
      <4>1. PICK xs : tx' = SetRejects(tx, xs, "trashed", TrashRetention)
        BY <3>1 DEF TrashRejected, Write
      <4>2. TrashRetention \in Nat
        BY LifecycleAssumption
      <4> QED
        BY <1>1, <4>1, <4>2, SetRejectsFacts
    <3>2. CASE PurgeRejected(r)
      <4>1. PICK xs : tx' = SetRejects(tx, xs, "purged", 0)
        BY <3>2 DEF PurgeRejected, Write
      <4> QED
        BY <1>1, <4>1, SetRejectsFacts
    <3> QED
      BY <1>6, <3>1, <3>2
  <2> QED
    BY <1>1, <2>1, <2>2, SameLike DEF Grows
<1>7. CASE PurgeOne(r)
  <2>1. PICK c \in todo[r] : db' = db /\ tx' = DeleteRow(tx, c[1])
    BY <1>7 DEF PurgeOne, Write
  <2>2. c[1] \in Backups /\ tx.rows[c[1]].status # "absent"
    BY <1>7, ExistsInTx DEF PurgeOne, IInv, TypeOK, TodoInv, TodoOf
  <2>3. Like(tx, DeleteRow(tx, c[1]))
    BY <1>1, <2>2, UpdatesLike
  <2> QED
    BY <1>1, <2>1, <2>3 DEF Grows
<1>8. CASE EndRun(r)
  BY <1>1, <1>8 DEF EndRun, Commit, Grows
<1> QED
  BY <1>2, <1>3, <1>4, <1>5, <1>6, <1>7, <1>8 DEF Execute

LEMMA ServeGrows == ASSUME IInv, Serve PROVE Grows
<1>1. db \in Tables /\ tx \in Tables /\ Like(db, db) /\ Like(tx, tx) /\ web.todo \subseteq Backups
  BY SameLike DEF IInv, TypeOK, Request
<1>2. \A b \in web.todo : db.rows[b].status # "absent" /\ tx.rows[b].status # "absent"
  BY <1>1, ExistsInTx DEF IInv, WebInv
<1>3. CASE RestoreUpdate
  <2>1. PICK b \in web.todo : Commit(RestoreRow(db, b))
    BY <1>3 DEF RestoreUpdate
  <2>2. Like(db, RestoreRow(db, b))
    BY <1>1, <1>2, UpdatesLike
  <2> QED
    BY <2>1, <2>2 DEF Commit, Grows
<1>4. CASE TrashUpdate
  <2>1. PICK b \in web.todo : Commit(TrashRow(db, b))
    BY <1>4 DEF TrashUpdate
  <2>2. Like(db, TrashRow(db, b))
    BY <1>1, <1>2, UpdatesLike
  <2> QED
    BY <2>1, <2>2 DEF Commit, Grows
<1>5. CASE PurgeUpdate
  <2>1. PICK b \in web.todo : db' = db /\ tx' = DeleteRow(tx, b)
    BY <1>5 DEF PurgeUpdate, Write
  <2>2. Like(tx, DeleteRow(tx, b))
    BY <1>1, <1>2, UpdatesLike
  <2> QED
    BY <1>1, <2>1, <2>2 DEF Grows
<1>6. CASE PurgeEnd
  BY <1>1, <1>6 DEF PurgeEnd, Commit, NoWrite, Grows
<1>7. CASE WebMove \/ PurgeUnlink \/ WebLocked
  BY <1>1, <1>7 DEF WebMove, PurgeUnlink, WebLocked, NoWrite, Grows
<1> QED
  BY <1>3, <1>4, <1>5, <1>6, <1>7 DEF Serve

LEMMA StepGrows == ASSUME IInv, Next, ~SaveStart PROVE Grows
<1>1. db \in Tables /\ tx \in Tables /\ Like(db, db) /\ Like(tx, tx)
  BY SameLike DEF IInv, TypeOK
<1>2. ASSUME NEW r \in Runners, Execute(r) \/ RunnerDies(r) PROVE Grows
  BY <1>1, <1>2, ExecuteGrows DEF RunnerDies, Die, Rollback, Grows
<1>3. ASSUME NEW b \in Backups, AskRestore(b) \/ AskTrash(b) \/ AskPurge(b) \/ Rot(b) PROVE Grows
  BY <1>1, <1>3 DEF AskRestore, AskTrash, AskPurge, Ask, Rot, NoWrite, Grows
<1>4. CASE AskEmptyTrash
  BY <1>1, <1>4 DEF AskEmptyTrash, Ask, NoWrite, Grows
<1>5. CASE WebDies \/ SaverDies
  BY <1>1, <1>5 DEF WebDies, SaverDies, Die, Rollback, Grows
<1>6. CASE SaveEnd
  <2> DEFINE row == [tx.rows[saving] EXCEPT !.status = "available"]
  <2>1. Commit(SetRow(tx, saving, row))
    BY <1>6 DEF SaveEnd
  <2>2. saving \in Backups /\ tx.rows[saving] \in Row /\ tx.rows[saving].status # "absent"
    BY <1>6 DEF SaveEnd, IInv, TypeOK, WriterInv, SaveInv, Tables
  <2>3. row \in Row /\ row.status # "absent" /\ row.age = tx.rows[saving].age
    BY <2>2, RowUpdates DEF Row
  <2> HIDE DEF row
  <2> DEFINE d == SetRow(tx, saving, row)
  <2>4. d.rows[saving] = row /\ \A c \in Backups : c # saving => d.rows[c] = tx.rows[c]
    BY <1>1, <2>2, <2>3, SetRowFacts
  <2>5. db' = d /\ tx' = d
    BY <2>1 DEF Commit
  <2> HIDE DEF d
  <2>6. Like(tx, d)
    BY <2>2, <2>3, <2>4, OneRowLike
  <2> QED
    BY <2>5, <2>6 DEF Grows
<1>7. CASE Tick
  <2>1. Like(db, AgeTables(db))
    BY <1>1, AgeTablesFacts DEF Like
  <2> QED
    BY <1>7, <2>1 DEF Tick, Commit, Grows
<1> QED
  BY <1>2, <1>3, <1>4, <1>5, <1>6, <1>7, ServeGrows DEF Next

LEMMA LikeOrders ==
  ASSUME NEW d, NEW e, Like(d, e), Ordered(d), InTurn(d),
         \A b \in Backups : place[b] # "none" /\ place'[b] = "none" => d.rows[b].status # "absent"
  PROVE  /\ Ordered(e)
         /\ \A b, c \in Backups :
              b < c /\ e.rows[c].status # "absent" => e.rows[b].status # "absent" \/ place'[b] # "none"
<1>1. Ordered(e)
  BY DEF Ordered, Like
<1>2. ASSUME NEW b \in Backups, NEW c \in Backups, b < c, e.rows[c].status # "absent"
      PROVE  e.rows[b].status # "absent" \/ place'[b] # "none"
  BY <1>2 DEF InTurn, Like
<1> QED
  BY <1>1, <1>2

LEMMA StepOrders == ASSUME IInv, OrderInv, Next PROVE OrderInv'
<1>1. CASE ~SaveStart
  <2>1. Grows
    BY <1>1, StepGrows
  <2>2. \A b \in Backups : place[b] # "none" /\ place'[b] = "none"
          => db.rows[b].status # "absent" /\ tx.rows[b].status # "absent"
    BY StepUnlinksTrashed, ExistsInTx DEF UnlinksTrashed
  <2>3. Ordered(db') /\ InTurn(db)'
    BY <2>1, <2>2, LikeOrders DEF OrderInv, Grows, InTurn
  <2>4. Ordered(tx') /\ InTurn(tx)'
    BY <2>1, <2>2, LikeOrders DEF OrderInv, Grows, InTurn
  <2> QED
    BY <2>3, <2>4 DEF OrderInv, Ordered
<1>2. CASE SaveStart
  <2> DEFINE row == [NoRow EXCEPT !.status = "validating", !.path = TRUE, !.age = MaxAge]
  <2>1. PICK b \in Backups :
          /\ IsOldest(b, {c \in Backups : db.rows[c].status = "absent" /\ place[c] = "none"})
          /\ Write(Saver, SetRow(db, b, row)) /\ Put(b, "backups")
    BY <1>2 DEF SaveStart
  <2>2. row \in Row /\ row.status = "validating" /\ row.age = MaxAge
    <3>1. NoRow \in Row
      BY LifecycleAssumption DEF NoRow, Row
    <3> QED
      BY <3>1, RowUpdates DEF Row
  <2> HIDE DEF row
  <2>3. /\ db' = db /\ tx' = SetRow(db, b, row) /\ db \in Tables
        /\ place' = [place EXCEPT ![b] = "backups"] /\ place \in Places
    BY <2>1 DEF Write, Put, IInv, TypeOK, Places
  <2>4. /\ tx'.rows[b] = row /\ \A c \in Backups \ {b} : tx'.rows[c] = db.rows[c]
    BY <2>2, <2>3, SetRowFacts
  <2>5. \A c \in Backups : place[c] # "none" => place'[c] # "none"
    BY <2>3 DEF Places
  <2>6. \A c \in Backups : c < b => db.rows[c].status # "absent" \/ place[c] # "none"
    BY <2>1 DEF IsOldest, Backups
  <2>7. \A c \in Backups : b < c => db.rows[c].status = "absent"
    BY <2>1 DEF IsOldest, OrderInv, InTurn
  <2>8. Ordered(db') /\ InTurn(db)'
    BY <2>3, <2>5 DEF OrderInv, Ordered, InTurn
  <2>9. \A c \in Backups : db.rows[c].age <= MaxAge
    BY <2>3, LifecycleAssumption DEF Tables, Row
  <2>10. Ordered(tx')
    <3> SUFFICES ASSUME NEW a \in Backups, NEW c \in Backups, a < c,
                        tx'.rows[a].status # "absent", tx'.rows[c].status # "absent"
                 PROVE  tx'.rows[a].age <= tx'.rows[c].age
      BY DEF Ordered
    <3>1. CASE a # b /\ c # b
      BY <2>4, <3>1 DEF OrderInv, Ordered
    <3>2. CASE a = b
      <4>1. c # b /\ db.rows[c].status = "absent"
        BY <2>7, <3>2 DEF Backups
      <4> QED
        BY <2>4, <4>1
    <3>3. CASE a # b /\ c = b
      BY <2>2, <2>4, <2>9, <3>3
    <3> QED
      BY <3>1, <3>2, <3>3
  <2>11. InTurn(tx)'
    <3> SUFFICES ASSUME NEW a \in Backups, NEW c \in Backups, a < c, tx'.rows[c].status # "absent"
                 PROVE  tx'.rows[a].status # "absent" \/ place'[a] # "none"
      BY DEF InTurn
    <3>1. CASE a = b
      BY <2>2, <2>4, <3>1
    <3>2. CASE a # b /\ c = b
      BY <2>4, <2>5, <2>6, <3>2
    <3>3. CASE a # b /\ c # b
      BY <2>4, <2>5, <3>3 DEF OrderInv, InTurn
    <3> QED
      BY <3>1, <3>2, <3>3
  <2> QED
    BY <2>8, <2>10, <2>11 DEF OrderInv, Ordered
<1> QED
  BY <1>1, <1>2

-----------------------------------------------------------------------------
(* The policy: what a run may give up                                      *)

\* A run that no request has overtaken still gives up what it has chosen.
ChoiceInv ==
  \A r \in Runners \ misled : \A q \in todo[r] :
    /\ pc[r] = "begin" => Surplus(db, q[1])
    /\ pc[r] = "move" => Surplus(tx, q[1])

\* What such a run, or any other writer, takes from the available backups.
KeptInv ==
  writer \notin misled =>
    \A b \in Available(db) : b \in Available(tx) \/ (writer \in Runners /\ Surplus(tx, b))

\* The backup whose file a request has purged was given up before.
PurgedInv ==
  web.op = "purge" /\ web.step = "update" =>
    \A b \in web.todo : IsOldest(b, web.todo) => b \notin Available(db)

PolicyInv == ChoiceInv /\ KeptInv /\ PurgedInv

\* When one of the newer backups goes because it is surplus itself, the older
\* ones are surplus for the same reason.
LEMMA SurplusStays ==
  ASSUME NEW d \in Tables, NEW e \in Tables, Follows(d, e), Ordered(e),
         NEW b \in Backups, d.rows[b].status # "absent", Surplus(d, b),
         \A x \in Available(d) : x \in Available(e) \/ Surplus(e, x)
  PROVE  Surplus(e, b)
<1>1. \A t \in Tables, x \in Backups :
        IsFiniteSet(Newer(t, x)) /\ Cardinality(Newer(t, x)) \in Nat
  <2> TAKE t \in Tables, x \in Backups
  <2>1. IsFiniteSet(Backups) /\ Newer(t, x) \subseteq Backups
    BY FS_Interval, LifecycleAssumption DEF Backups, Newer, Available
  <2> QED
    BY <2>1, FS_Subset, FS_CardinalityType
<1>2. d.rows[b].age = 0 => e.rows[b].age = 0
  BY DEF Follows
<1>3. ASSUME NEW many, many \subseteq Newer(e, b), Cardinality(many) \in Nat, Cardinality(many) >= MaxCount
      PROVE  Cardinality(Newer(e, b)) >= MaxCount
  <2>1. Cardinality(many) <= Cardinality(Newer(e, b))
    BY <1>1, <1>3, FS_Subset
  <2> QED
    BY <1>1, <1>3, <2>1, LifecycleAssumption
<1>4. CASE MaxAge > 0 /\ d.rows[b].age = 0
  BY <1>2, <1>4 DEF Surplus
<1>5. CASE MaxCount > 0 /\ Cardinality(Newer(d, b)) >= MaxCount
  <2>1. CASE Newer(d, b) \subseteq Available(e)
    <3>1. Newer(d, b) \subseteq Newer(e, b)
      BY <2>1 DEF Newer
    <3> QED
      BY <1>1, <1>3, <1>5, <3>1 DEF Surplus
  <2>2. CASE ~(Newer(d, b) \subseteq Available(e))
    <3>1. PICK x \in Newer(d, b) : x \notin Available(e)
      BY <2>2
    <3>2. x \in Backups /\ x > b /\ d.rows[x].status # "absent" /\ Surplus(e, x)
      BY <3>1 DEF Newer, Available
    <3>3. e.rows[b].status # "absent" /\ e.rows[x].status # "absent"
      BY <3>2 DEF Follows
    <3>4. b < x
      BY <3>2 DEF Backups
    <3>5. e.rows[b].age <= e.rows[x].age
      BY <3>2, <3>3, <3>4 DEF Ordered
    <3>6. e.rows[b].age \in Nat
      <4>1. e.rows[b] \in Row
        BY DEF Tables
      <4> QED
        BY <4>1, LifecycleAssumption DEF Row
    <3>7. CASE MaxAge > 0 /\ e.rows[x].age = 0
      BY <3>5, <3>6, <3>7 DEF Surplus
    <3>8. CASE Cardinality(Newer(e, x)) >= MaxCount
      <4>1. Newer(e, x) \subseteq Newer(e, b)
        BY <3>4, <3>2 DEF Newer, Available, Backups
      <4> QED
        BY <1>1, <1>3, <1>5, <3>2, <3>8, <4>1 DEF Surplus
    <3> QED
      BY <3>2, <3>7, <3>8 DEF Surplus
  <2> QED
    BY <2>1, <2>2
<1> QED
  BY <1>4, <1>5 DEF Surplus

\* A backup that is trashed is no newer one of itself.
LEMMA TrashedSurplus ==
  ASSUME NEW d \in Tables, NEW b \in Backups, Surplus(d, b)
  PROVE  Surplus(TrashAvailable(d, b), b)
<1>1. Newer(TrashAvailable(d, b), b) = Newer(d, b)
  BY TrashAvailableFacts DEF Newer, Available, Backups
<1>2. TrashAvailable(d, b).rows[b].age = d.rows[b].age
  BY TrashAvailableFacts
<1> QED
  BY <1>1, <1>2 DEF Surplus

\* Rows that exist go on existing, whoever commits.
LEMMA StepFollows == ASSUME IInv, Next PROVE Follows(db, db')
<1>1. Follows(db, tx) /\ Follows(db, db)
  BY TxSound DEF Sound, Follows
<1>2. CASE SaveStart
  BY <1>1, <1>2 DEF SaveStart, Write
<1>3. CASE ~SaveStart
  <2>1. Like(db, db') \/ Like(tx, db')
    BY <1>3, StepGrows DEF Grows
  <2> QED
    BY <1>1, <2>1 DEF Like, Follows
<1> QED
  BY <1>2, <1>3

\* A step that changes neither the tables nor what the runs have to do.
LEMMA QuietPolicy ==
  ASSUME PolicyInv, NoWrite, UNCHANGED <<pc, todo, misled>>, PurgedInv'
  PROVE  PolicyInv'
BY DEF PolicyInv, ChoiceInv, KeptInv, NoWrite, Surplus, Newer, Available

\* A commit that gives up nothing a standing choice does not give up.
LEMMA CommitPolicy ==
  ASSUME IInv, PolicyInv, Follows(db, db'), Ordered(db'), db' \in Tables, tx' = db', writer' = NoOne,
         misled' \in SUBSET Runners, UNCHANGED todo,
         \A r \in Runners : pc'[r] # "move" /\ (pc'[r] = "begin" => pc[r] = "begin"),
         \A r \in Runners \ misled' :
           pc'[r] = "begin" =>
             /\ r \notin misled
             /\ \A x \in Available(db) : x \in Available(db') \/ Surplus(db', x),
         PurgedInv'
  PROVE  PolicyInv'
<1>1. KeptInv'
  BY DEF KeptInv, Available
<1>2. ChoiceInv'
  <2> SUFFICES ASSUME NEW r \in Runners \ misled', NEW q \in todo[r], pc'[r] = "begin"
               PROVE  Surplus(db', q[1])
    BY DEF ChoiceInv, Surplus, Newer, Available
  <2>1. pc[r] = "begin" /\ r \notin misled
    OBVIOUS
  <2>2. q[1] \in Backups /\ db \in Tables
    BY DEF IInv, TypeOK
  <2>3. db.rows[q[1]].status # "absent" /\ Surplus(db, q[1])
    BY <2>1 DEF IInv, TodoInv, TodoOf, PolicyInv, ChoiceInv
  <2>4. \A x \in Available(db) : x \in Available(db') \/ Surplus(db', x)
    OBVIOUS
  <2> QED
    BY <2>2, <2>3, <2>4, SurplusStays
<1> QED
  BY <1>1, <1>2 DEF PolicyInv

\* A process that gives up leaves the others to their choices.
LEMMA StopPolicy ==
  ASSUME IInv, PolicyInv, NEW p, Rollback(p), UNCHANGED misled,
         \A r \in Runners : /\ todo'[r] \subseteq todo[r]
                            /\ pc'[r] = "idle" \/ (r # p /\ pc'[r] = pc[r]),
         web' = Idle \/ UNCHANGED web
  PROVE  PolicyInv'
<1>1. /\ db' = db /\ writer' = (IF writer = p THEN NoOne ELSE writer)
      /\ (writer # p => tx' = tx) /\ (writer = p => tx' = db)
  BY DEF Rollback
<1>2. PurgedInv'
  BY <1>1 DEF PolicyInv, PurgedInv, Idle, Available
<1>3. KeptInv'
  BY <1>1 DEF PolicyInv, KeptInv, Available, Surplus, Newer
<1>4. ChoiceInv'
  <2> SUFFICES ASSUME NEW r \in Runners \ misled', NEW q \in todo'[r]
               PROVE  /\ pc'[r] = "begin" => Surplus(db', q[1])
                      /\ pc'[r] = "move" => Surplus(tx', q[1])
    BY DEF ChoiceInv, Surplus, Newer, Available
  <2>1. pc[r] = "move" => writer = r
    BY DEF IInv, WriterInv
  <2>2. r \notin misled /\ q \in todo[r] /\ (pc'[r] = "idle" \/ (r # p /\ pc'[r] = pc[r]))
    OBVIOUS
  <2> QED
    BY <1>1, <2>1, <2>2 DEF PolicyInv, ChoiceInv
<1> QED
  BY <1>2, <1>3, <1>4 DEF PolicyInv

LEMMA SelectPolicy == ASSUME IInv, PolicyInv, NEW r \in Runners, Select(r) PROVE PolicyInv'
<1>1. /\ UNCHANGED <<db, tx, writer, web>> /\ misled' = misled \ {r}
      /\ pc[r] = "idle" /\ pc' = [pc EXCEPT ![r] = "begin"]
      /\ todo' = [todo EXCEPT ![r] = {<<b, db.rows[b].path>> : b \in Candidates(db)}]
  BY DEF Select, Goto, NoWrite
<1>2. writer # r
  BY <1>1 DEF IInv, WriterInv
<1>3. PurgedInv'
  BY <1>1 DEF PolicyInv, PurgedInv, Available
<1>4. KeptInv'
  BY <1>1, <1>2 DEF PolicyInv, KeptInv, Available, Surplus, Newer
<1>5. ChoiceInv'
  <2> SUFFICES ASSUME NEW s \in Runners \ misled', NEW q \in todo'[s]
               PROVE  /\ pc'[s] = "begin" => Surplus(db', q[1])
                      /\ pc'[s] = "move" => Surplus(tx', q[1])
    BY DEF ChoiceInv, Surplus, Newer, Available
  <2>1. CASE s = r
    <3>1. pc'[s] = "begin" /\ \E b \in Candidates(db) : q = <<b, db.rows[b].path>>
      BY <1>1, <2>1 DEF IInv, TypeOK
    <3>2. Surplus(db, q[1])
      BY <3>1 DEF Candidates
    <3> QED
      BY <1>1, <3>1, <3>2
  <2>2. CASE s # r
    <3>1. s \notin misled /\ pc'[s] = pc[s] /\ q \in todo[s]
      BY <1>1, <2>2 DEF IInv, TypeOK
    <3> QED
      BY <1>1, <3>1 DEF PolicyInv, ChoiceInv
  <2> QED
    BY <2>1, <2>2
<1> QED
  BY <1>3, <1>4, <1>5 DEF PolicyInv

LEMMA BeginPolicy == ASSUME IInv, PolicyInv, NEW r \in Runners, Begin(r) PROVE PolicyInv'
<1>1. /\ UNCHANGED <<todo, web, misled>> /\ db' = db /\ tx' = db /\ writer' = r /\ writer = NoOne
      /\ pc[r] = "begin" /\ pc' = [pc EXCEPT ![r] = "move"]
  BY DEF Begin, Goto, Write
<1>2. PurgedInv'
  BY <1>1 DEF PolicyInv, PurgedInv, Available
<1>3. KeptInv'
  BY <1>1 DEF KeptInv, Available
<1>4. ChoiceInv'
  <2> SUFFICES ASSUME NEW s \in Runners \ misled, NEW q \in todo[s]
               PROVE  /\ pc'[s] = "begin" => Surplus(db, q[1])
                      /\ pc'[s] = "move" => Surplus(db, q[1])
    BY <1>1 DEF ChoiceInv, Surplus, Newer, Available
  <2>1. pc'[s] \in {"begin", "move"} => pc[s] = "begin"
    BY <1>1, Others DEF IInv, TypeOK, WriterInv
  <2> QED
    BY <2>1 DEF PolicyInv, ChoiceInv
<1> QED
  BY <1>2, <1>3, <1>4 DEF PolicyInv

\* The newest first: what a run trashes is surplus, and so are the rest of its
\* candidates without it.
LEMMA MoveOnePolicy ==
  ASSUME IInv, PolicyInv, Ordered(tx'), NEW r \in Runners, MoveOne(r) PROVE PolicyInv'
<1>1. /\ pc[r] = "move" /\ writer = r /\ UNCHANGED <<pc, web, misled>>
      /\ \A s \in Runners : pc[s] = "move" => s = r
  BY Holds DEF MoveOne
<1>2. PICK c \in todo[r] :
        /\ db' = db /\ writer' = r /\ tx' \in {tx, TrashAvailable(tx, c[1])}
        /\ todo' = [todo EXCEPT ![r] = @ \ {c}]
  BY <1>1 DEF MoveOne, Write, NoWrite
<1> DEFINE b == c[1]
<1>3. b \in Backups /\ tx \in Tables /\ \A s \in Runners : todo'[s] \subseteq todo[s]
  BY <1>2 DEF IInv, TypeOK
<1>4. tx' \in Tables /\ Follows(tx, tx')
  <2>1. Like(tx, tx')
    BY <1>1, <1>2, <1>3, UpdatesLike, SameLike, ExistsInTx DEF IInv, TodoInv, TodoOf
  <2> QED
    BY <1>2, <1>3, <2>1, TrashAvailableFacts DEF Like, Follows
<1>5. \A a \in Available(tx) : a \in Available(tx') \/ a = b
  BY <1>2, <1>3, TrashAvailableFacts DEF Available
<1> HIDE DEF b
<1>6. ASSUME r \notin misled PROVE \A a \in Available(tx) : a \in Available(tx') \/ Surplus(tx', a)
  <2>1. Surplus(tx, b)
    BY <1>1, <1>6 DEF b, PolicyInv, ChoiceInv
  <2>2. Surplus(tx', b)
    BY <1>2, <1>3, <2>1, TrashedSurplus DEF b
  <2> QED
    BY <1>5, <2>2
<1>7. ASSUME r \notin misled, NEW a \in Backups, tx.rows[a].status # "absent", Surplus(tx, a)
      PROVE  Surplus(tx', a)
  BY <1>3, <1>4, <1>6, <1>7, SurplusStays
<1>8. PurgedInv'
  BY <1>1, <1>2 DEF PolicyInv, PurgedInv, Available
<1>9. KeptInv'
  <2> SUFFICES ASSUME r \notin misled, NEW a \in Available(db)
               PROVE  a \in Available(tx') \/ Surplus(tx', a)
    BY <1>1, <1>2 DEF KeptInv, Available, Surplus, Newer
  <2>1. a \in Available(tx) \/ Surplus(tx, a)
    BY <1>1 DEF PolicyInv, KeptInv
  <2>2. a \in Backups /\ tx.rows[a].status # "absent"
    BY ExistsInTx DEF Available
  <2> QED
    BY <1>6, <1>7, <2>1, <2>2
<1>10. ChoiceInv'
  <2> SUFFICES ASSUME NEW s \in Runners \ misled, NEW q \in todo[s]
               PROVE  /\ pc[s] = "begin" => Surplus(db, q[1])
                      /\ pc[s] = "move" => Surplus(tx', q[1])
    BY <1>1, <1>2, <1>3 DEF ChoiceInv, Surplus, Newer, Available
  <2>1. CASE pc[s] = "begin"
    BY <2>1 DEF PolicyInv, ChoiceInv
  <2>2. CASE pc[s] = "move"
    <3>1. s = r /\ Surplus(tx, q[1])
      BY <1>1, <2>2 DEF PolicyInv, ChoiceInv
    <3>2. q[1] \in Backups /\ tx.rows[q[1]].status # "absent"
      BY <2>2, ExistsInTx DEF IInv, TypeOK, TodoInv, TodoOf
    <3> QED
      BY <1>7, <2>2, <3>1, <3>2
  <2> QED
    BY <2>1, <2>2
<1> QED
  BY <1>8, <1>9, <1>10 DEF PolicyInv

\* Purging, which comes last, takes nothing that is available.
LEMMA PurgePolicy ==
  ASSUME IInv, PolicyInv, Ordered(tx'), NEW r \in Runners,
         TrashRejected(r) \/ PurgeOne(r) \/ PurgeRejected(r)
  PROVE  PolicyInv'
<1>1. /\ pc[r] \in {"move", "purge"} /\ writer = r /\ UNCHANGED <<web, misled>>
      /\ \A s \in Runners : pc[s] = "move" => s = r
      /\ db' = db /\ writer' = r
  BY Holds DEF TrashRejected, PurgeOne, PurgeRejected, Write
<1>2. \A s \in Runners \ {r} : pc'[s] = pc[s] /\ todo'[s] = todo[s]
  BY DEF TrashRejected, PurgeOne, PurgeRejected, Goto, IInv, TypeOK
<1>3. pc'[r] \in {"purge", "end"}
  BY DEF TrashRejected, PurgeOne, PurgeRejected, Goto, IInv, TypeOK
<1>4. PurgedInv'
  BY <1>1 DEF PolicyInv, PurgedInv, Available
<1>5. ChoiceInv'
  <2> SUFFICES ASSUME NEW s \in Runners \ misled, NEW q \in todo'[s]
               PROVE  /\ pc'[s] = "begin" => Surplus(db, q[1])
                      /\ pc'[s] # "move"
    BY <1>1 DEF ChoiceInv, Surplus, Newer, Available
  <2> QED
    BY <1>1, <1>2, <1>3 DEF PolicyInv, ChoiceInv
<1>6. /\ tx \in Tables /\ tx' \in Tables /\ Follows(tx, tx')
      /\ \A a \in Available(db) \cap Available(tx) : a \in Available(tx')
      /\ \A a \in Available(tx) : a \in Available(tx')
  <2>1. tx \in Tables
    BY DEF IInv, TypeOK
  <2>2. CASE TrashRejected(r) \/ PurgeRejected(r)
    <3>1. tx' \in Tables /\ tx'.rows = tx.rows
      <4>1. CASE TrashRejected(r)
        <5>1. PICK xs : tx' = SetRejects(tx, xs, "trashed", TrashRetention)
          BY <4>1 DEF TrashRejected, Write
        <5>2. TrashRetention \in Nat
          BY LifecycleAssumption
        <5> QED
          BY <2>1, <5>1, <5>2, SetRejectsFacts
      <4>2. CASE PurgeRejected(r)
        <5>1. PICK xs : tx' = SetRejects(tx, xs, "purged", 0)
          BY <4>2 DEF PurgeRejected, Write
        <5> QED
          BY <2>1, <5>1, SetRejectsFacts
      <4> QED
        BY <2>2, <4>1, <4>2
    <3> QED
      BY <2>1, <3>1 DEF Follows, Available
  <2>3. CASE PurgeOne(r)
    <3>1. PICK c \in todo[r] : tx' = DeleteRow(tx, c[1])
      BY <2>3 DEF PurgeOne, Write
    <3>2. c[1] \in Backups /\ db.rows[c[1]].status = "trashed"
      BY <2>3 DEF PurgeOne, IInv, TypeOK, TodoInv, TodoOf
    <3>3. tx.rows[c[1]].status # "absent" /\ c[1] \notin Available(tx)
      BY <3>2, ExistsInTx DEF Available, IInv, PartInv, PartOf
    <3>4. Like(tx, tx') /\ tx' \in Tables
      BY <2>1, <3>1, <3>2, <3>3, UpdatesLike, DeleteRowFacts
    <3>5. \A a \in Available(tx) : a \in Available(tx')
      BY <2>1, <3>1, <3>2, <3>3, DeleteRowFacts DEF Available
    <3> QED
      BY <2>1, <3>4, <3>5 DEF Like, Follows
  <2> QED
    BY <2>1, <2>2, <2>3
<1>7. KeptInv'
  <2> SUFFICES ASSUME r \notin misled, NEW a \in Available(db)
               PROVE  a \in Available(tx') \/ Surplus(tx', a)
    BY <1>1 DEF KeptInv, Available, Surplus, Newer
  <2>1. a \in Available(tx) \/ Surplus(tx, a)
    BY <1>1 DEF PolicyInv, KeptInv
  <2>2. a \in Backups /\ tx.rows[a].status # "absent"
    BY ExistsInTx DEF Available
  <2> QED
    BY <1>6, <2>1, <2>2, SurplusStays
<1> QED
  BY <1>4, <1>5, <1>7 DEF PolicyInv

\* What is not available where a transaction began is not when it ends.
LEMMA PurgedStays ==
  ASSUME IInv, PolicyInv, UNCHANGED web,
         \A b \in Backups : b \in Available(db') => b \in Available(db) \/ db.rows[b].status = "absent"
  PROVE  PurgedInv'
<1>1. \A b \in web.todo : b \in Backups /\ db.rows[b].status # "absent"
  BY DEF IInv, TypeOK, Request, WebInv
<1> QED
  BY <1>1 DEF PolicyInv, PurgedInv, Available

LEMMA EndRunPolicy ==
  ASSUME IInv, PolicyInv, Follows(db, db'), Ordered(db'), NEW r \in Runners, EndRun(r) PROVE PolicyInv'
<1>1. /\ pc[r] = "end" /\ writer = r /\ UNCHANGED <<todo, web>> /\ pc' = [pc EXCEPT ![r] = "idle"]
      /\ db' = tx /\ tx' = tx /\ writer' = NoOne
      /\ misled' = IF r \in misled THEN Overtaken \ {r} ELSE misled
      /\ \A s \in Runners : s # r => pc[s] \notin {"move", "purge", "end"}
  BY Holds DEF EndRun, Goto, Commit
<1>2. \A s \in Runners : pc'[s] # "move" /\ (pc'[s] = "begin" => pc[s] = "begin" /\ s # r)
  BY <1>1 DEF IInv, TypeOK
<1>3. ASSUME NEW s \in Runners \ misled', pc'[s] = "begin"
      PROVE  /\ s \notin misled
             /\ \A x \in Available(db) : x \in Available(db') \/ Surplus(db', x)
  <2>1. r \notin misled
    BY <1>1, <1>2, <1>3 DEF Overtaken
  <2> QED
    BY <1>1, <1>3, <2>1 DEF PolicyInv, KeptInv
<1>4. PurgedInv'
  <2>1. \A b \in Backups : b \in Available(tx) => b \in Available(db)
    BY DEF IInv, PartInv, PartOf, Available
  <2> QED
    BY <1>1, <2>1, PurgedStays
<1>5. db' \in Tables /\ misled' \in SUBSET Runners
  BY <1>1 DEF IInv, TypeOK, Overtaken
<1> QED
  BY <1>1, <1>2, <1>3, <1>4, <1>5, CommitPolicy

\* A commit that leaves available what was.
LEMMA KeepingPolicy ==
  ASSUME IInv, PolicyInv, Follows(db, db'), Ordered(db'), db' \in Tables, tx' = db', writer' = NoOne,
         UNCHANGED <<pc, todo, misled>>, writer \notin Runners,
         \A b \in Available(db) : b \in Available(db'),
         PurgedInv'
  PROVE  PolicyInv'
<1>1. \A r \in Runners : pc'[r] # "move"
  BY DEF IInv, WriterInv
<1>2. misled' \in SUBSET Runners
  BY DEF IInv, TypeOK
<1> QED
  BY <1>1, <1>2, CommitPolicy

LEMMA ServePolicy == ASSUME IInv, PolicyInv, Follows(db, db'), Ordered(db'), Serve PROVE PolicyInv'
<1>1. CASE WebMove
  <2>1. PurgedInv'
    <3>1. web.op # "purge" /\ web' \in {Idle, [web EXCEPT !.step = "update"]}
      BY <1>1 DEF WebMove, IInv, WebInv
    <3>2. web'.op # "purge"
      BY <3>1 DEF Idle, IInv, TypeOK, Request
    <3> QED
      BY <3>2 DEF PurgedInv
  <2> QED
    BY <1>1, <2>1, QuietPolicy DEF WebMove
<1>2. CASE RestoreUpdate
  <2>1. PICK b \in web.todo : Commit(RestoreRow(db, b))
    BY <1>2 DEF RestoreUpdate
  <2>2. b \in Backups /\ db \in Tables
    BY DEF IInv, TypeOK, Request
  <2>3. db' \in Tables /\ \A a \in Available(db) : a \in Available(db')
    BY <2>1, <2>2, RestoreRowFacts DEF Commit, Available
  <2>4. PurgedInv'
    BY <1>2 DEF RestoreUpdate, PurgedInv, Idle
  <2>5. tx' = db' /\ writer' = NoOne
    BY <2>1 DEF Commit
  <2> QED
    BY <1>2, <2>3, <2>4, <2>5, Others, KeepingPolicy DEF RestoreUpdate
<1>3. CASE TrashUpdate
  <2>1. PICK b \in web.todo : Commit(TrashRow(db, b))
    BY <1>3 DEF TrashUpdate
  <2>2. b \in Backups /\ db \in Tables
    BY DEF IInv, TypeOK, Request
  <2>3. db' \in Tables /\ tx' = db' /\ writer' = NoOne
    BY <2>1, <2>2, TrashRowFacts DEF Commit
  <2>4. PurgedInv'
    BY <1>3 DEF TrashUpdate, PurgedInv, Idle
  <2>5. \A r \in Runners : pc[r] # "move"
    BY <1>3, Others DEF TrashUpdate, IInv, WriterInv
  <2>6. UNCHANGED <<pc, todo>> /\ misled' = Overtaken
    BY <1>3 DEF TrashUpdate
  <2>7. misled' \in SUBSET Runners /\ \A r \in Runners \ misled' : pc'[r] # "begin"
    BY <2>6 DEF Overtaken, IInv, TypeOK
  <2> QED
    BY <2>3, <2>4, <2>5, <2>6, <2>7, CommitPolicy
<1>4. CASE PurgeUnlink
  <2>1. PICK b \in web.todo :
          /\ IsOldest(b, web.todo)
          /\ \/ web' = [web EXCEPT !.todo = @ \ {b}]
             \/ /\ b \in Trashed(IF writer = Web THEN tx ELSE db)
                /\ web' = [web EXCEPT !.step = "update"]
    BY <1>4 DEF PurgeUnlink
  <2>2. web \in Request /\ web.step = "unlink" /\ UNCHANGED <<db, tx>>
    BY <1>4 DEF PurgeUnlink, WebIs, NoWrite, IInv, TypeOK
  <2>3. PurgedInv'
    <3>1. CASE web' = [web EXCEPT !.todo = @ \ {b}]
      BY <2>2, <3>1 DEF PurgedInv, Request
    <3>2. CASE b \in Trashed(IF writer = Web THEN tx ELSE db) /\ web' = [web EXCEPT !.step = "update"]
      <4>1. b \in Backups /\ b \notin Available(db)
        BY <3>2, TrashedInDb DEF Available
      <4>2. web'.todo = web.todo
        BY <2>2, <3>2 DEF Request
      <4>3. \A a \in web.todo : IsOldest(a, web.todo) => a = b
        BY <2>1, <2>2 DEF IsOldest, Backups, Request
      <4> QED
        BY <2>2, <4>1, <4>2, <4>3 DEF PurgedInv, Available
    <3> QED
      BY <2>1, <3>1, <3>2
  <2> QED
    BY <1>4, <2>3, QuietPolicy DEF PurgeUnlink
<1>5. CASE PurgeUpdate
  <2>1. PICK b \in web.todo :
          /\ IsOldest(b, web.todo)
          /\ db' = db /\ tx' = DeleteRow(tx, b) /\ writer' = Web
          /\ web' = [web EXCEPT !.step = "unlink", !.todo = @ \ {b}]
    BY <1>5 DEF PurgeUpdate, Write
  <2>2. /\ b \in Backups /\ tx \in Tables /\ b \notin Available(db) /\ writer \notin Runners
        /\ web'.step = "unlink" /\ UNCHANGED <<pc, todo, misled>>
    BY <1>5, <2>1, Others DEF PurgeUpdate, WebIs, PolicyInv, PurgedInv, IInv, TypeOK, Request
  <2>3. PurgedInv'
    BY <2>2 DEF PurgedInv
  <2>4. KeptInv'
    <3>1. \A a \in Available(db) : a \in Available(tx)
      BY <2>2 DEF PolicyInv, KeptInv, IInv, TypeOK
    <3>2. \A a \in Available(db) : a \in Available(tx')
      BY <2>1, <2>2, <3>1, DeleteRowFacts DEF Available
    <3> QED
      BY <2>1, <3>2 DEF KeptInv, Available
  <2>5. ChoiceInv'
    <3>1. \A r \in Runners : pc[r] # "move"
      BY <2>2 DEF IInv, WriterInv
    <3> QED
      BY <2>1, <2>2, <3>1 DEF PolicyInv, ChoiceInv, Surplus, Newer, Available
  <2> QED
    BY <2>3, <2>4, <2>5 DEF PolicyInv
<1>6. CASE PurgeEnd
  <2>1. PurgedInv'
    BY <1>6 DEF PurgeEnd, PurgedInv, Idle
  <2>2. CASE writer = Web
    <3>1. db' = tx /\ tx' = db' /\ writer' = NoOne /\ writer \notin Runners /\ tx \in Tables
      BY <1>6, <2>2, Others DEF PurgeEnd, Commit, IInv, TypeOK
    <3>2. \A b \in Available(db) : b \in Available(db')
      BY <3>1 DEF PolicyInv, KeptInv, IInv, TypeOK
    <3> QED
      BY <1>6, <2>1, <3>1, <3>2, KeepingPolicy DEF PurgeEnd
  <2>3. CASE writer # Web
    BY <1>6, <2>1, <2>3, QuietPolicy DEF PurgeEnd
  <2> QED
    BY <2>2, <2>3
<1>7. CASE WebLocked
  <2>1. PurgedInv'
    BY <1>7 DEF WebLocked, PurgedInv, Idle
  <2> QED
    BY <1>7, <2>1, QuietPolicy DEF WebLocked
<1> QED
  BY <1>1, <1>2, <1>3, <1>4, <1>5, <1>6, <1>7 DEF Serve

LEMMA AskPolicy ==
  ASSUME IInv, PolicyInv,
         \/ \E b \in Backups : AskRestore(b) \/ AskTrash(b) \/ AskPurge(b) \/ Rot(b)
         \/ AskEmptyTrash
  PROVE  PolicyInv'
<1>1. NoWrite /\ UNCHANGED <<pc, todo, misled>>
  BY DEF AskRestore, AskTrash, AskPurge, Rot, AskEmptyTrash, Ask
<1>2. UNCHANGED web \/ web'.step # "update"
  BY DEF AskRestore, AskTrash, AskPurge, Rot, AskEmptyTrash, Ask
<1>3. PurgedInv'
  BY <1>1, <1>2 DEF PolicyInv, PurgedInv, NoWrite, Available
<1> QED
  BY <1>1, <1>3, QuietPolicy

LEMMA SavePolicy ==
  ASSUME IInv, PolicyInv, Follows(db, db'), Ordered(db'), SaveStart \/ SaveEnd
  PROVE  PolicyInv'
<1>1. CASE SaveStart
  <2> DEFINE row == [NoRow EXCEPT !.status = "validating", !.path = TRUE, !.age = MaxAge]
  <2>1. PICK b \in Backups :
          /\ IsOldest(b, {c \in Backups : db.rows[c].status = "absent" /\ place[c] = "none"})
          /\ Write(Saver, SetRow(db, b, row))
    BY <1>1 DEF SaveStart
  <2>2. row \in Row
    <3>1. NoRow \in Row
      BY LifecycleAssumption DEF NoRow, Row
    <3> QED
      BY <3>1, RowUpdates
  <2> HIDE DEF row
  <2>3. /\ db' = db /\ writer' = Saver /\ tx' = SetRow(db, b, row) /\ db.rows[b].status = "absent"
        /\ db \in Tables /\ writer = NoOne /\ UNCHANGED <<pc, todo, web, misled>>
    BY <1>1, <2>1 DEF SaveStart, Write, IsOldest, IInv, TypeOK
  <2>4. \A a \in Available(db) : a \in Available(tx')
    BY <2>2, <2>3, SetRowFacts DEF Available
  <2>5. KeptInv'
    BY <2>3, <2>4 DEF KeptInv, Available
  <2>6. \A r \in Runners : pc[r] # "move"
    BY <2>3, Others DEF IInv, WriterInv
  <2>7. ChoiceInv'
    BY <2>3, <2>6 DEF PolicyInv, ChoiceInv, Surplus, Newer, Available
  <2>8. PurgedInv'
    BY <2>3 DEF PolicyInv, PurgedInv, Available
  <2> QED
    BY <2>5, <2>7, <2>8 DEF PolicyInv
<1>2. CASE SaveEnd
  <2> DEFINE row == [tx.rows[saving] EXCEPT !.status = "available"]
             d   == SetRow(tx, saving, row)
  <2>1. db' = d /\ tx' = d /\ writer' = NoOne /\ writer = Saver /\ UNCHANGED <<pc, todo, web, misled>>
    BY <1>2 DEF SaveEnd, Commit
  <2>2. /\ saving \in Backups /\ tx \in Tables /\ tx.rows[saving] \in Row
        /\ db.rows[saving].status = "absent"
    BY <2>1 DEF IInv, TypeOK, WriterInv, SaveInv, Tables
  <2>3. row \in Row
    BY <2>2, RowUpdates
  <2> HIDE DEF row
  <2>4. d \in Tables /\ \A b \in Backups : b # saving => d.rows[b] = tx.rows[b]
    BY <2>2, <2>3, SetRowFacts
  <2> HIDE DEF d
  <2>5. \A b \in Available(db) : b \in Available(tx)
    BY <2>1, Others DEF PolicyInv, KeptInv, IInv, TypeOK
  <2>6. \A b \in Available(db) : b \in Available(db')
    BY <2>1, <2>2, <2>4, <2>5 DEF Available
  <2>7. \A b \in Backups : b \in Available(db') => b \in Available(db) \/ db.rows[b].status = "absent"
    BY <2>1, <2>2, <2>4 DEF Available, IInv, PartInv, PartOf
  <2>8. PurgedInv'
    BY <2>1, <2>7, PurgedStays
  <2> QED
    BY <2>1, <2>4, <2>6, <2>8, Others, KeepingPolicy
<1> QED
  BY <1>1, <1>2

LEMMA TickPolicy == ASSUME IInv, PolicyInv, Follows(db, db'), Ordered(db'), Tick PROVE PolicyInv'
<1>1. /\ \A r \in Runners : pc[r] = "idle"
      /\ web = Idle /\ Commit(AgeTables(db)) /\ UNCHANGED <<pc, todo, web, misled>>
  BY DEF Tick
<1>2. db' \in Tables /\ tx' = db' /\ writer' = NoOne
  BY <1>1, AgeTablesFacts DEF Commit, IInv, TypeOK
<1>3. PurgedInv' /\ misled' \in SUBSET Runners
  BY <1>1 DEF PurgedInv, Idle, IInv, TypeOK
<1> QED
  BY <1>1, <1>2, <1>3, CommitPolicy

LEMMA StepPolicy == ASSUME IInv, OrderInv, PolicyInv, Next PROVE PolicyInv'
<1>1. Follows(db, db') /\ Ordered(db') /\ Ordered(tx')
  BY StepFollows, StepOrders DEF OrderInv, Ordered
<1>2. ASSUME NEW r \in Runners, Execute(r) PROVE PolicyInv'
  <2>1. CASE AbortRun(r)
    <3>1. /\ \A s \in Runners : /\ todo'[s] \subseteq todo[s]
                                /\ pc'[s] = "idle" \/ (s # r /\ pc'[s] = pc[s])
      BY <2>1 DEF AbortRun, Goto, IInv, TypeOK
    <3> QED
      BY <2>1, <3>1, StopPolicy DEF AbortRun
  <2> QED
    BY <1>1, <1>2, <2>1, SelectPolicy, BeginPolicy, MoveOnePolicy, PurgePolicy, EndRunPolicy DEF Execute
<1>3. ASSUME NEW r \in Runners, RunnerDies(r) PROVE PolicyInv'
  <2>1. /\ \A s \in Runners : /\ todo'[s] \subseteq todo[s]
                              /\ pc'[s] = "idle" \/ (s # r /\ pc'[s] = pc[s])
    BY <1>3 DEF RunnerDies, Goto, IInv, TypeOK
  <2> QED
    BY <1>3, <2>1, StopPolicy DEF RunnerDies, Die
<1>4. CASE WebDies \/ SaverDies
  <2>1. PICK p \in {Web, Saver} : Rollback(p)
    BY <1>4 DEF WebDies, SaverDies, Die
  <2>2. /\ UNCHANGED <<misled, pc, todo>> /\ (web' = Idle \/ UNCHANGED web)
        /\ \A r \in Runners : r # p
    BY <1>4, Others DEF WebDies, SaverDies, Die
  <2> QED
    BY <2>1, <2>2, StopPolicy
<1> QED
  BY <1>1, <1>2, <1>3, <1>4, ServePolicy, AskPolicy, SavePolicy, TickPolicy DEF Next

-----------------------------------------------------------------------------
(* The policy is respected                                                 *)

FullInv == IInv /\ OrderInv /\ PolicyInv

LEMMA FullStep == FullInv /\ [Next]_vars => FullInv'
<1>1. CASE UNCHANGED vars
  <2>1. UNCHANGED <<db, tx, writer, place, pc, todo, web, misled>>
    BY <1>1 DEF vars
  <2>2. ASSUME OrderInv PROVE OrderInv'
    BY <2>1, <2>2 DEF OrderInv, Ordered, InTurn
  <2>3. ASSUME PolicyInv PROVE PolicyInv'
    <3>1. PurgedInv'
      BY <2>1, <2>3 DEF PolicyInv, PurgedInv, Available
    <3> QED
      BY <2>1, <2>3, <3>1, QuietPolicy DEF NoWrite
  <2> QED
    BY <1>1, <2>2, <2>3, StepKeeps DEF FullInv
<1>2. CASE Next
  BY <1>2, StepKeeps, StepOrders, StepPolicy DEF FullInv
<1> QED
  BY <1>1, <1>2

LEMMA FullInit == Init => FullInv
<1> SUFFICES ASSUME Init PROVE FullInv
  OBVIOUS
<1>1. \A b \in Backups : db.rows[b].status = "absent"
  BY DEF Init, NoRow
<1>2. OrderInv
  BY <1>1 DEF Init, OrderInv, Ordered, InTurn
<1>3. PolicyInv
  BY DEF Init, Idle, PolicyInv, ChoiceInv, KeptInv, PurgedInv, Available
<1> QED
  BY <1>2, <1>3, FirstState DEF FullInv

THEOREM PolicyInductive == Spec => []FullInv
BY FullInit, FullStep, PTL DEF Spec

\* What the commit of a run trashes is surplus in what it commits.
TrashesSurplus ==
  \A r \in Runners \ misled, b \in Backups :
    writer = r /\ b \in Available(db) /\ b \in Trashed(db') => Surplus(db', b)

LEMMA StepTrashesSurplus == ASSUME FullInv, Next PROVE TrashesSurplus
<1>1. CASE UNCHANGED db
  BY <1>1 DEF TrashesSurplus, Available, Trashed
<1>2. CASE writer \notin Runners
  BY <1>2 DEF TrashesSurplus
<1>3. CASE db' = tx
  BY <1>3 DEF TrashesSurplus, FullInv, PolicyInv, KeptInv, Available, Trashed
<1>4. ASSUME NEW r \in Runners, Execute(r) \/ RunnerDies(r) PROVE TrashesSurplus
  <2>1. CASE EndRun(r)
    BY <1>2, <1>3, <2>1 DEF EndRun, Commit
  <2>2. CASE AbortRun(r) \/ RunnerDies(r)
    BY <1>1, <2>2, RollbackKeeps DEF FullInv, AbortRun, RunnerDies, Die
  <2>3. CASE Select(r) \/ Begin(r) \/ TrashRejected(r) \/ PurgeOne(r) \/ PurgeRejected(r)
    BY <1>1, <2>3 DEF Select, Begin, TrashRejected, PurgeOne, PurgeRejected, Write, NoWrite
  <2>4. CASE MoveOne(r)
    BY <1>1, <2>4 DEF MoveOne, Write, NoWrite
  <2> QED
    BY <1>4, <2>1, <2>2, <2>3, <2>4 DEF Execute
<1>5. CASE Serve
  <2>1. CASE RestoreUpdate \/ TrashUpdate
    BY <1>2, <2>1, Others DEF RestoreUpdate, TrashUpdate
  <2>2. CASE PurgeEnd
    BY <1>1, <1>2, <2>2, Others DEF PurgeEnd, NoWrite
  <2>3. CASE WebMove \/ PurgeUnlink \/ PurgeUpdate \/ WebLocked
    BY <1>1, <2>3 DEF WebMove, PurgeUnlink, PurgeUpdate, WebLocked, Write, NoWrite
  <2> QED
    BY <1>5, <2>1, <2>2, <2>3 DEF Serve
<1>6. ASSUME NEW b \in Backups, AskRestore(b) \/ AskTrash(b) \/ AskPurge(b) \/ Rot(b) PROVE TrashesSurplus
  BY <1>1, <1>6 DEF AskRestore, AskTrash, AskPurge, Ask, Rot, NoWrite
<1>7. CASE AskEmptyTrash \/ SaveStart
  BY <1>1, <1>7 DEF AskEmptyTrash, Ask, NoWrite, SaveStart, Write
<1>8. CASE WebDies \/ SaverDies
  BY <1>1, <1>8, RollbackKeeps DEF FullInv, WebDies, SaverDies, Die
<1>9. CASE SaveEnd
  BY <1>2, <1>9, Others DEF SaveEnd
<1>10. CASE Tick
  BY <1>2, <1>10, Others DEF Tick, FullInv, IInv, TypeOK, WriterInv
<1> QED
  BY <1>4, <1>5, <1>6, <1>7, <1>8, <1>9, <1>10 DEF Next

\* What retention trashes is too old, or MaxCount newer backups are available
\* when the run commits, although candidates reads the table before the run's
\* transaction begins and saves, restores, purges and other runs commit in
\* between; the runs whose choice a request of the trash has overtaken are left
\* out, and nothing else.
THEOREM PolicyRespected == Spec => RetentionRespectsPolicy
<1>1. FullInv /\ [Next]_vars =>
        [\A r \in Runners \ misled, b \in Backups :
           writer = r /\ b \in Available(db) /\ b \in Trashed(db') => Surplus(db', b)]_vars
  BY StepTrashesSurplus DEF TrashesSurplus
<1> QED
  BY <1>1, PolicyInductive, PTL DEF Spec, RetentionRespectsPolicy

=============================================================================
