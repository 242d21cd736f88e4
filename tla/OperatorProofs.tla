---------------------------- MODULE OperatorProofs ----------------------------
(***************************************************************************)
(* Theorems about what the operator runs beside the services, and their     *)
(* proofs.  Updater: one installer at a time, and every installed version   *)
(* can be taken back.  Accounts: a password reset is whole, and there is     *)
(* an administrator.                                                       *)
(***************************************************************************)
EXTENDS Updater, Accounts, TLAPS

-----------------------------------------------------------------------------
(* Updater: the inductive invariant                                        *)

\* A directory under updates/: absent, begun and interrupted, or complete.
Complete == [made : {TRUE}, whole : {TRUE}, app : App, db : Rows]
Directories == {NoBackup, Begun} \cup Complete

\* A row of table d that names a backup belongs to an operation that exists, and its
\* backup is complete.
Covered(d, u, b) == \A o \in Ops : d[o].saved => o \in u /\ b[o].whole

\* Version a is the first one or one that table d can take back.
Good(a, d, b) == a = 0 \/ \E o \in Ops : d[o].saved /\ d[o].target = a /\ b[o].whole

Types == TypeOK /\ backup \in [Ops -> Directories] /\ faults \in Nat

CoverInv ==
  /\ Covered(db, used, backup)
  /\ \A o \in Ops : backup[o].whole => Covered(backup[o].db, used, backup)

Backed == {"apply files", "migrate", "start", "restore", "restore db", "begin undo", "undo", "undo db"}

\* A helper that is at work has an operation, and from the first replaced file on
\* a complete backup.
WorkInv ==
  \A h \in Helpers :
    /\ pc[h] # "idle" => op[h] \in used
    /\ pc[h] \in Backed => backup[op[h]].whole

LockInv == \A h \in Helpers : pc[h] \in Changing => writer = h /\ h \notin moved

\* The stretch in which files and database do not belong together.
Altering == {"apply files", "migrate", "start", "restore", "restore db", "undo db"}

\* Without a kill: what a backup holds is good, and so is what is in place outside that
\* stretch; in it, the files are those of the end that is next.
Undamaged ==
  /\ \A o \in Ops : backup[o].whole => Good(backup[o].app, backup[o].db, backup)
  /\ (\A h \in Helpers : pc[h] \notin Altering) => Good(app, db, backup)
  /\ \A h \in Helpers :
       /\ pc[h] \in {"migrate", "start"} => app = db[op[h]].target
       /\ pc[h] \in {"restore db", "undo db"} => app = backup[op[h]].app

GoodInv == faults = 0 => Undamaged

IInv == Types /\ CoverInv /\ WorkInv /\ LockInv /\ GoodInv

-----------------------------------------------------------------------------
(* Updater: lemmas                                                         *)

\* Table e says of backups what d says.
Alike(d, e) ==
  /\ e \in Rows
  /\ \A o \in Ops : e[o].saved = d[o].saved /\ (o \in used => e[o].target = d[o].target)

USE DEF NoHelper

LEMMA FirstState == Init => IInv
<1> SUFFICES ASSUME Init PROVE IInv
  OBVIOUS
<1> USE UpdaterAssumption DEF Init
<1>1. db \in Rows /\ \A o \in Ops : db[o].saved = FALSE
  BY DEF Rows, Row, NoRow, Installed
<1>2. NoBackup \in Directories /\ backup = [o \in Ops |-> NoBackup]
  BY Zenon DEF Directories
<1>3. Types
  <2>1. app \in App
    BY DEF App, Installed
  <2>2. TypeOK
    BY <1>1, <2>1 DEF TypeOK
  <2>3. backup \in [Ops -> Directories]
    BY Zenon, <1>2
  <2> QED
    BY <2>2, <2>3 DEF Types
<1>4. \A o \in Ops : backup[o].whole = FALSE
  BY DEF NoBackup
<1>5. CoverInv /\ WorkInv /\ LockInv
  BY <1>1, <1>4 DEF CoverInv, Covered, WorkInv, Backed, LockInv, Changing
<1>6. GoodInv
  BY <1>1, <1>4 DEF GoodInv, Undamaged, Good, Altering
<1> QED
  BY <1>3, <1>5, <1>6 DEF IInv

\* What every step that neither replaces files nor makes a backup leaves true:
\* files and backups stay, rows keep what they say of backups.
LEMMA Quiet ==
  ASSUME IInv, Alike(db, db'), UNCHANGED <<app, backup>>, used \subseteq used',
         faults' = faults \/ faults' # 0,
         \A g \in Helpers : \/ pc'[g] = pc[g] /\ op'[g] = op[g]
                            \/ pc[g] \notin Altering /\ pc'[g] \notin Altering
  PROVE  CoverInv' /\ GoodInv'
<1>1. CoverInv'
  <2>1. Covered(db, used, backup)'
    BY DEF IInv, CoverInv, Covered, Alike
  <2>2. \A o \in Ops : backup[o].whole => Covered(backup[o].db, used', backup)
    BY DEF IInv, CoverInv, Covered
  <2> QED
    BY <2>1, <2>2 DEF CoverInv, Covered
<1>2. GoodInv'
  <2> SUFFICES ASSUME faults' = 0 PROVE Undamaged'
    BY DEF GoodInv
  <2>1. Undamaged
    BY DEF IInv, GoodInv
  <2>2. ASSUME \A g \in Helpers : pc'[g] \notin Altering PROVE Good(app, db, backup)'
    <3>1. Good(app, db, backup)
      BY <2>1, <2>2 DEF Undamaged
    <3> QED
      BY <3>1 DEF Good, Alike, IInv, CoverInv, Covered
  <2>3. \A g \in Helpers : pc'[g] \in Altering => pc'[g] = pc[g] /\ op'[g] = op[g] /\ op[g] \in used /\ op[g] \in Ops
    BY DEF IInv, Types, TypeOK, WorkInv, Altering
  <2>4. \A o \in Ops : backup'[o].whole => Good(backup'[o].app, backup'[o].db, backup')
    BY <2>1 DEF Undamaged
  <2>5. ASSUME NEW g \in Helpers
        PROVE  /\ pc'[g] \in {"migrate", "start"} => app' = db'[op'[g]].target
               /\ pc'[g] \in {"restore db", "undo db"} => app' = backup'[op'[g]].app
    <3>1. pc'[g] \in {"migrate", "start", "restore db", "undo db"} => pc'[g] \in Altering
      BY DEF Altering
    <3>2. CASE pc'[g] \in {"migrate", "start"}
      BY <2>1, <2>3, <3>1, <3>2 DEF Undamaged, Alike
    <3>3. CASE pc'[g] \in {"restore db", "undo db"}
      BY <2>1, <2>3, <3>1, <3>3 DEF Undamaged
    <3> QED
      BY <3>2, <3>3
  <2> QED
    BY <2>2, <2>4, <2>5 DEF Undamaged
<1> QED
  BY <1>1, <1>2

LEMMA SameRows == ASSUME IInv PROVE db \in Rows /\ Alike(db, db)
  BY DEF IInv, Types, TypeOK, Alike

\* record_validation and the failure handler change a status only.
LEMMA NewStatus ==
  ASSUME IInv, NEW o \in Ops, NEW s \in {"none", "ready", "failed"}
  PROVE  Alike(db, [db EXCEPT ![o].status = s])
<1>1. db \in [Ops -> Row] /\ db[o] \in Row
  BY SameRows DEF Rows
<1>2. [db EXCEPT ![o].status = s] = [db EXCEPT ![o] = [@ EXCEPT !.status = s]]
  OBVIOUS
<1>3. \A r \in Row : /\ [r EXCEPT !.status = s] \in Row
                    /\ [r EXCEPT !.status = s].saved = r.saved
                    /\ [r EXCEPT !.status = s].target = r.target
  BY DEF Row
<1> DEFINE new == [db[o] EXCEPT !.status = s]
<1>4. new \in Row /\ new.saved = db[o].saved /\ new.target = db[o].target
  BY <1>1, <1>3
<1>5. [db EXCEPT ![o].status = s] = [db EXCEPT ![o] = new]
  BY <1>2
<1> HIDE DEF new
<1> QED
  BY <1>1, <1>4, <1>5 DEF Alike, Rows

\* A row is created under an id that is in no backup.
LEMMA NewRow ==
  ASSUME IInv, NEW o \in Ops \ used, NEW v \in Installed,
         NEW s \in {"uploaded", "ready", "rejected"}
  PROVE  Alike(db, [db EXCEPT ![o] = Created(v, s)])
<1>1. db \in [Ops -> Row] /\ db[o].saved \in BOOLEAN /\ db[o].saved # TRUE
  BY SameRows DEF Rows, Row, IInv, CoverInv, Covered
<1>2. Created(v, s) \in Row /\ Created(v, s).saved = FALSE
  BY DEF Created, Row
<1> QED
  BY <1>1, <1>2 DEF Alike, Rows

LEMMA OpInOps == ASSUME IInv, NEW h \in Helpers, pc[h] # "idle" PROVE op[h] \in Ops /\ op[h] \in used
  BY DEF IInv, WorkInv, Types, TypeOK

-----------------------------------------------------------------------------
(* Updater: steps that neither replace files nor make a backup             *)

\* The actions of a helper outside its transaction; WorkInv and LockInv speak of the
\* place it goes to.
LEMMA Outside ==
  ASSUME IInv, NEW h \in Helpers, Alike(db, db'),
         UNCHANGED <<app, backup, used, faults>>,
         pc[h] \in {"idle", "begin", "begin undo", "failing"},
         NEW l \in {"idle", "begin", "begin undo", "failing"}, pc' = [pc EXCEPT ![h] = l],
         NEW o, o \in used \/ (o = 0 /\ l = "idle"), op' = [op EXCEPT ![h] = o],
         l = "begin undo" => backup[o].whole,
         writer' = Left(h) \/ writer' = writer, moved' \subseteq moved
  PROVE  WorkInv' /\ LockInv' /\ CoverInv' /\ GoodInv'
<1>1. pc \in [Helpers -> Changing \cup {"idle", "begin", "begin undo", "failing"}] /\ op \in [Helpers -> Ops \cup {0}]
  BY DEF IInv, Types, TypeOK
<1>2. WorkInv'
  BY <1>1 DEF IInv, WorkInv, Backed
<1>3. LockInv'
  BY <1>1, UpdaterAssumption DEF IInv, LockInv, Changing, Left
<1>4. CoverInv' /\ GoodInv'
  BY <1>1, Quiet DEF Altering
<1> QED
  BY <1>2, <1>3, <1>4

LEMMA ValidateStep == ASSUME IInv, NEW h \in Helpers, Validate(h) PROVE IInv'
<1> USE DEF Disk, Packages, Goto
<1>1. PICK o \in used, v \in Code :
        IF Valid(v, o)
        THEN Free /\ db' = Recorded(o) /\ UNCHANGED <<op, pc>>
        ELSE Refuse(h, o) /\ UNCHANGED db
  BY DEF Validate
<1>2. UNCHANGED <<app, backup, used, faults, writer, moved, incoming, staged, fetch>> /\ pc[h] = "idle"
  BY DEF Validate
<1>3. o \in Ops /\ Types
  BY DEF IInv, Types, TypeOK
<1>4. Alike(db, db')
  BY <1>1, <1>3, SameRows, NewStatus DEF Recorded
<1>5. CASE UNCHANGED <<op, pc>>
  <2>1. Types'
    BY <1>2, <1>3, <1>4, <1>5 DEF Types, TypeOK, Alike
  <2>2. WorkInv' /\ LockInv'
    BY <1>2, <1>5 DEF IInv, WorkInv, LockInv
  <2>3. CoverInv' /\ GoodInv'
    BY <1>2, <1>4, <1>5, Quiet DEF Altering
  <2> QED
    BY <2>1, <2>2, <2>3 DEF IInv
<1>6. CASE Refuse(h, o)
  <2>1. Types'
    BY <1>2, <1>3, <1>4, <1>6 DEF Types, TypeOK, Alike, Refuse
  <2>2. WorkInv' /\ LockInv' /\ CoverInv' /\ GoodInv'
    BY <1>2, <1>4, <1>6, Outside DEF Refuse
  <2> QED
    BY <2>1, <2>2 DEF IInv
<1> QED
  BY <1>1, <1>5, <1>6

LEMMA StageStep == ASSUME IInv, NEW h \in Helpers, Stage(h) PROVE IInv'
<1> USE DEF Disk, Packages, Goto
<1>1. PICK o \in used, v \in Code :
        IF Status(o) = "ready" /\ Valid(v, o) /\ Stageable(o)
        THEN staged' = staged \cup {o} /\ UNCHANGED <<op, pc>>
        ELSE Refuse(h, o) /\ UNCHANGED staged
  BY DEF Stage
<1>2. UNCHANGED <<app, db, backup, used, faults, writer, moved, incoming, fetch>> /\ pc[h] = "idle"
  BY DEF Stage
<1>3. o \in Ops /\ Types /\ Alike(db, db')
  BY <1>2, SameRows DEF IInv, Types, TypeOK
<1>4. CASE UNCHANGED <<op, pc>> /\ staged' \subseteq used
  <2>1. Types'
    BY <1>2, <1>3, <1>4 DEF Types, TypeOK
  <2>2. WorkInv' /\ LockInv'
    BY <1>2, <1>4 DEF IInv, WorkInv, LockInv
  <2>3. CoverInv' /\ GoodInv'
    BY <1>2, <1>3, <1>4, Quiet
  <2> QED
    BY <2>1, <2>2, <2>3 DEF IInv
<1>5. CASE Refuse(h, o) /\ UNCHANGED staged
  <2>1. Types'
    BY <1>2, <1>3, <1>5 DEF Types, TypeOK, Refuse
  <2>2. WorkInv' /\ LockInv' /\ CoverInv' /\ GoodInv'
    BY <1>2, <1>3, <1>5, Outside DEF Refuse
  <2> QED
    BY <2>1, <2>2 DEF IInv
<1> QED
  BY <1>1, <1>3, <1>4, <1>5 DEF Types, TypeOK

LEMMA ExtractStep == ASSUME IInv, NEW h \in Helpers, Extract(h) PROVE IInv'
<1> USE DEF Disk, Packages, Goto
<1>1. PICK o \in used, l \in {"begin", "failing"} :
        op' = [op EXCEPT ![h] = o] /\ pc' = [pc EXCEPT ![h] = l] /\ staged' \in {staged, staged \cup {o}}
  BY DEF Extract
<1>2. UNCHANGED <<app, db, backup, used, faults, writer, moved, incoming, fetch>> /\ pc[h] = "idle"
  BY DEF Extract
<1>3. o \in Ops /\ Types /\ Alike(db, db')
  BY <1>2, SameRows DEF IInv, Types, TypeOK
<1>4. Types'
  BY <1>1, <1>2, <1>3 DEF Types, TypeOK
<1>5. WorkInv' /\ LockInv' /\ CoverInv' /\ GoodInv'
  BY <1>1, <1>2, <1>3, Outside
<1> QED
  BY <1>4, <1>5 DEF IInv

LEMMA RollBackStep == ASSUME IInv, NEW h \in Helpers, RollBack(h) PROVE IInv'
<1> USE DEF Disk, Packages, Goto
<1>1. PICK o \in used, l \in {"begin undo", "failing"} :
        op' = [op EXCEPT ![h] = o] /\ pc' = [pc EXCEPT ![h] = l] /\ (l = "begin undo" => db[o].saved)
  BY DEF RollBack
<1>2. UNCHANGED <<app, db, backup, used, faults, writer, moved, staged, incoming, fetch>> /\ pc[h] = "idle"
  BY DEF RollBack
<1>3. o \in Ops /\ Types /\ Alike(db, db')
  BY <1>2, SameRows DEF IInv, Types, TypeOK
<1>4. Types'
  BY <1>1, <1>2, <1>3 DEF Types, TypeOK
<1>5. l = "begin undo" => backup[o].whole
  BY <1>1, <1>3 DEF IInv, CoverInv, Covered
<1>6. WorkInv' /\ LockInv' /\ CoverInv' /\ GoodInv'
  BY <1>1, <1>2, <1>3, <1>5, Outside
<1> QED
  BY <1>4, <1>6 DEF IInv

LEMMA FailingStep == ASSUME IInv, NEW h \in Helpers, Failing(h) PROVE IInv'
<1> USE DEF Disk, Packages, Goto, Done
<1>1. /\ op' = [op EXCEPT ![h] = 0] /\ pc' = [pc EXCEPT ![h] = "idle"]
      /\ writer' = Left(h) /\ moved' \subseteq moved /\ pc[h] = "failing"
      /\ UNCHANGED <<app, backup, used, faults, staged, incoming, fetch>>
  BY DEF Failing
<1>2. Types /\ op[h] \in Ops
  BY <1>1, OpInOps DEF IInv
<1>3. Alike(db, db')
  <2>1. CASE UNCHANGED db
    BY <2>1, SameRows
  <2>2. CASE db' = [db EXCEPT ![op[h]].status = IF @ = "none" THEN @ ELSE "failed"]
    <3>1. CASE db[op[h]].status = "none"
      <4>1. db' = [db EXCEPT ![op[h]].status = "none"]
        BY <2>2, <3>1
      <4> QED
        BY <4>1, <1>2, NewStatus
    <3>2. CASE db[op[h]].status # "none"
      <4>1. db' = [db EXCEPT ![op[h]].status = "failed"]
        BY <2>2, <3>2
      <4> QED
        BY <4>1, <1>2, NewStatus
    <3> QED
      BY <3>1, <3>2
  <2> QED
    BY <2>1, <2>2 DEF Failing
<1>4. Types'
  BY <1>1, <1>2, <1>3 DEF Types, TypeOK, Alike, Left
<1>5. WorkInv' /\ LockInv' /\ CoverInv' /\ GoodInv'
  BY <1>1, <1>3, Outside
<1> QED
  BY <1>4, <1>5 DEF IInv

-----------------------------------------------------------------------------
(* Updater: steps of the transaction                                       *)

\* Who changes files or database is alone.
LEMMA Alone ==
  ASSUME IInv, NEW h \in Helpers, pc[h] \in Changing
  PROVE  writer = h /\ \A g \in Helpers \ {h} : pc[g] \notin Changing /\ pc[g] \notin Altering
  BY DEF IInv, LockInv, Changing, Altering

LEMMA BeginStep == ASSUME IInv, NEW h \in Helpers, Begin(h) PROVE IInv'
<1> USE DEF Disk, Packages, Process, Goto
<1>1. /\ pc[h] \in {"begin", "begin undo"}
      /\ UNCHANGED <<app, db, backup, used, faults, staged, incoming, fetch, op, moved>>
  BY DEF Begin
<1>2. Types /\ op[h] \in used /\ Alike(db, db')
  BY <1>1, OpInOps, SameRows DEF IInv
<1>3. CASE Free /\ writer' = Written(h) /\ h \notin moved /\
           pc' = [pc EXCEPT ![h] = IF pc[h] = "begin" THEN "backup" ELSE "undo"]
  <2>1. Types'
    BY <1>1, <1>2, <1>3 DEF Types, TypeOK, Written, Changing
  <2>2. WorkInv'
    BY <1>1, <1>2, <1>3 DEF IInv, WorkInv, Backed, Types, TypeOK
  <2>3. \A g \in Helpers : pc[g] \notin Changing
    BY <1>3, UpdaterAssumption DEF IInv, LockInv, Free
  <2>4. LockInv'
    BY <1>1, <1>2, <1>3, <2>3 DEF LockInv, Written, Types, TypeOK
  <2>5. CoverInv' /\ GoodInv'
    BY <1>1, <1>2, <1>3, Quiet DEF Altering, Types, TypeOK
  <2> QED
    BY <2>1, <2>2, <2>4, <2>5 DEF IInv
<1>4. CASE pc' = [pc EXCEPT ![h] = "failing"] /\ UNCHANGED writer
  <2>1. Types'
    BY <1>1, <1>2, <1>4 DEF Types, TypeOK
  <2>2. op' = [op EXCEPT ![h] = op[h]]
    BY <1>1, <1>2 DEF Types, TypeOK
  <2>3. WorkInv' /\ LockInv' /\ CoverInv' /\ GoodInv'
    BY <1>1, <1>2, <1>4, <2>2, Outside
  <2> QED
    BY <2>1, <2>3 DEF IInv
<1> QED
  BY <1>3, <1>4 DEF Begin

LEMMA WholeDirectories ==
  ASSUME NEW d \in Directories, d.whole
  PROVE  d.made /\ d.app \in App /\ d.db \in Rows
<1>1. CASE d = NoBackup
  BY <1>1 DEF NoBackup
<1>2. CASE d = Begun
  BY <1>2 DEF Begun
<1>3. CASE d \in Complete
  <2>1. d.made \in {TRUE} /\ d.app \in App /\ d.db \in Rows
    BY <1>3 DEF Complete
  <2> QED
    BY <2>1
<1> QED
  BY <1>1, <1>2, <1>3 DEF Directories

\* A backup that is made where none was leaves the others as they are.
LEMMA NewBackup ==
  ASSUME IInv, NEW o \in Ops, ~backup[o].made, NEW b \in Directories, backup' = [backup EXCEPT ![o] = b]
  PROVE  /\ backup' \in [Ops -> Directories] /\ backup'[o] = b
         /\ \A q \in Ops : backup[q].whole => q # o /\ backup'[q] = backup[q]
<1>1. \A d \in Directories : d.whole => d.made
  BY WholeDirectories
<1>2. backup \in [Ops -> Directories]
  BY DEF IInv, Types
<1> QED
  BY <1>1, <1>2

LEMMA CreateBackupStep == ASSUME IInv, NEW h \in Helpers, CreateBackup(h) PROVE IInv'
<1> USE DEF Packages, Process, Goto
<1>1. pc[h] = "backup" /\ UNCHANGED <<db, writer, faults, app, staged, used, incoming, fetch, op, moved>>
  BY DEF CreateBackup
<1>2. Types /\ op[h] \in used /\ op[h] \in Ops /\ Alike(db, db')
  BY <1>1, OpInOps, SameRows DEF IInv
<1>3. /\ writer = h /\ h \notin moved
      /\ \A g \in Helpers \ {h} : pc[g] \notin Changing /\ pc[g] \notin Altering
  BY <1>1, Alone DEF Changing, IInv, LockInv
<1>4. CASE backup[op[h]].made
  <2>1. pc' = [pc EXCEPT ![h] = "failing"] /\ UNCHANGED backup
    BY <1>4 DEF CreateBackup
  <2>2. Types'
    BY <1>1, <1>2, <2>1 DEF Types, TypeOK
  <2>3. WorkInv' /\ LockInv'
    BY <1>1, <1>2, <2>1 DEF IInv, WorkInv, LockInv, Backed, Changing, Types, TypeOK
  <2>4. CoverInv' /\ GoodInv'
    BY <1>1, <1>2, <2>1, Quiet DEF Altering, Types, TypeOK
  <2> QED
    BY <2>2, <2>3, <2>4 DEF IInv
<1>5. CASE ~backup[op[h]].made
  <2> DEFINE b == [made |-> TRUE, whole |-> TRUE, app |-> app, db |-> db]
  <2>1. pc' = [pc EXCEPT ![h] = "apply files"] /\ backup' = [backup EXCEPT ![op[h]] = b]
    BY <1>5 DEF CreateBackup
  <2>2. b \in Directories /\ b.whole /\ b.app = app /\ b.db = db
    BY <1>2 DEF Directories, Complete, Types, TypeOK
  <2> HIDE DEF b
  <2>3. /\ backup' \in [Ops -> Directories] /\ backup'[op[h]] = b
        /\ \A q \in Ops : backup[q].whole => q # op[h] /\ backup'[q] = backup[q]
    BY <1>2, <1>5, <2>1, <2>2, NewBackup
  <2>4. Types'
    BY <1>1, <1>2, <2>1, <2>3 DEF Types, TypeOK, Changing
  <2>5. WorkInv'
    BY <1>1, <1>2, <2>1, <2>2, <2>3 DEF IInv, WorkInv, Backed, Types, TypeOK
  <2>6. LockInv'
    BY <1>1, <1>2, <1>3, <2>1 DEF LockInv, Types, TypeOK
  <2>7. CoverInv'
    <3>1. \A d \in Rows : Covered(d, used, backup) => Covered(d, used, backup')
      BY <2>3 DEF Covered
    <3>2. \A q \in Ops : backup'[q].whole => q = op[h] \/ backup'[q] = backup[q]
      BY <1>2, <2>1 DEF Types
    <3>3. \A q \in Ops : backup[q].whole => Covered(backup[q].db, used, backup')
      BY <2>3 DEF IInv, CoverInv, Covered
    <3>4. Covered(db, used, backup')
      BY <1>2, <3>1 DEF IInv, CoverInv, Types, TypeOK
    <3> QED
      BY <1>1, <2>2, <2>3, <3>2, <3>3, <3>4 DEF CoverInv
  <2>8. GoodInv'
    <3> SUFFICES ASSUME faults' = 0 PROVE Undamaged'
      BY DEF GoodInv
    <3>1. Undamaged
      BY <1>1 DEF IInv, GoodInv
    <3>2. \A a, d : Good(a, d, backup) => Good(a, d, backup')
      BY <2>3 DEF Good
    <3>3. app \in App /\ Good(app, db, backup')
      BY <1>1, <1>2, <1>3, <3>1, <3>2 DEF Undamaged, Altering, Types, TypeOK
    <3>4. \A d \in Directories : d.whole => d.app \in App
      BY WholeDirectories
    <3>5. ASSUME NEW q \in Ops, backup'[q].whole PROVE Good(backup'[q].app, backup'[q].db, backup')
      <4>1. CASE q = op[h]
        BY <4>1, <1>1, <2>2, <2>3, <3>3 DEF Good
      <4>2. CASE q # op[h]
        <5>1. backup'[q] = backup[q] /\ backup[q] \in Directories
          BY <4>2, <1>2, <2>1 DEF Types
        <5> QED
          BY <5>1, <3>1, <3>2, <3>4, <3>5 DEF Undamaged
      <4> QED
        BY <4>1, <4>2
    <3>6. \A g \in Helpers : pc'[g] \notin {"migrate", "start", "restore db", "undo db"}
      BY <1>2, <1>3, <2>1 DEF Altering, Types, TypeOK
    <3>7. pc'[h] \in Altering
      BY <1>2, <2>1 DEF Altering, Types, TypeOK
    <3> QED
      BY <3>5, <3>6, <3>7 DEF Undamaged
  <2> QED
    BY <2>4, <2>5, <2>6, <2>7, <2>8 DEF IInv
<1> QED
  BY <1>4, <1>5

\* Steps of the stretch in which one helper replaces files: database, backups and
\* operations stay; app and the place it goes to fit together.
LEMMA Replacing ==
  ASSUME IInv, NEW h \in Helpers, pc[h] \in Altering \cup {"undo"}, NEW l \in Altering,
         pc' = [pc EXCEPT ![h] = l], app' \in App,
         UNCHANGED <<db, backup, used, op, moved, writer, faults, incoming, staged, fetch>>,
         faults = 0 /\ l \in {"migrate", "start"} => app' = db[op[h]].target,
         l \in {"restore db", "undo db"} => app' = backup[op[h]].app
  PROVE  IInv'
<1>1. Types
  BY DEF IInv
<1>2. /\ writer = h /\ h \notin moved
      /\ \A g \in Helpers \ {h} : pc[g] \notin Changing /\ pc[g] \notin Altering
  BY Alone DEF Changing, Altering, IInv, LockInv
<1>3. Types'
  BY <1>1 DEF Types, TypeOK, Changing, Altering
<1>4. WorkInv'
  BY <1>1 DEF IInv, WorkInv, Backed, Altering, Types, TypeOK
<1>5. LockInv'
  BY <1>1, <1>2 DEF LockInv, Types, TypeOK
<1>6. CoverInv'
  BY DEF IInv, CoverInv, Covered
<1>7. GoodInv'
  <2> SUFFICES ASSUME faults' = 0 PROVE Undamaged'
    BY DEF GoodInv
  <2>1. Undamaged
    BY DEF IInv, GoodInv
  <2>2. pc'[h] = l /\ \A g \in Helpers \ {h} : pc'[g] \notin Altering
    BY <1>1, <1>2 DEF Types, TypeOK
  <2>3. \A o \in Ops : backup'[o].whole => Good(backup'[o].app, backup'[o].db, backup')
    BY <2>1 DEF Undamaged
  <2>4. \A g \in Helpers :
         /\ pc'[g] \in {"migrate", "start"} => app' = db'[op'[g]].target
         /\ pc'[g] \in {"restore db", "undo db"} => app' = backup'[op'[g]].app
    BY <2>2 DEF Altering
  <2> QED
    BY <2>2, <2>3, <2>4 DEF Undamaged
<1> QED
  BY <1>3, <1>4, <1>5, <1>6, <1>7 DEF IInv

LEMMA ApplyFilesStep == ASSUME IInv, NEW h \in Helpers, ApplyFiles(h) PROVE IInv'
<1> USE DEF Packages, Process, Goto
<1>1. /\ pc[h] = "apply files" /\ pc[h] \in Altering
      /\ UNCHANGED <<db, backup, used, op, moved, writer, faults, incoming, staged, fetch>>
  BY DEF ApplyFiles, Altering
<1>2. Types /\ op[h] \in Ops
  BY <1>1, OpInOps DEF IInv
<1>3. CASE app' = Mixed /\ UNCHANGED pc
  <2>1. pc' = [pc EXCEPT ![h] = "apply files"] /\ app' \in App
    BY <1>1, <1>2, <1>3 DEF Types, TypeOK, App
  <2> QED
    BY <1>1, <2>1, Replacing DEF Altering
<1>4. CASE app' = db[op[h]].target /\ pc' = [pc EXCEPT ![h] = "migrate"]
  <2>1. app' \in App
    BY <1>2, <1>4 DEF Types, TypeOK, Rows, Row, App
  <2> QED
    BY <1>1, <1>4, <2>1, Replacing DEF Altering
<1>5. CASE UNCHANGED app /\ pc' = [pc EXCEPT ![h] = "restore"]
  BY <1>1, <1>2, <1>5, Replacing DEF Altering, Types, TypeOK
<1> QED
  BY <1>3, <1>4, <1>5 DEF ApplyFiles

LEMMA RunMigrationsStep == ASSUME IInv, NEW h \in Helpers, RunMigrations(h) PROVE IInv'
<1> USE DEF Disk, Packages, Process, Goto
<1>1. /\ pc[h] = "migrate" /\ pc[h] \in Altering
      /\ UNCHANGED <<app, db, backup, used, op, moved, writer, faults, incoming, staged, fetch>>
  BY DEF RunMigrations, Altering
<1>2. PICK l \in {"restore", "start"} : pc' = [pc EXCEPT ![h] = l]
  BY DEF RunMigrations
<1>3. app' \in App
  BY <1>1 DEF IInv, Types, TypeOK
<1>4. faults = 0 => app' = db[op[h]].target
  BY <1>1 DEF IInv, GoodInv, Undamaged
<1> QED
  BY <1>1, <1>2, <1>3, <1>4, Replacing DEF Altering

LEMMA RestoreFilesStep == ASSUME IInv, NEW h \in Helpers, RestoreFiles(h) PROVE IInv'
<1> USE DEF Packages, Process, Goto
<1>1. /\ pc[h] \in {"restore", "undo"} /\ app' = backup[op[h]].app
      /\ UNCHANGED <<db, backup, used, op, moved, writer, faults, incoming, staged, fetch>>
  BY DEF RestoreFiles, Restored
<1>2. PICK l \in {"restore db", "undo db"} : pc' = [pc EXCEPT ![h] = l]
  BY DEF RestoreFiles
<1>3. op[h] \in Ops /\ backup[op[h]].whole /\ backup[op[h]] \in Directories
  BY <1>1, OpInOps DEF IInv, WorkInv, Backed, Types
<1>4. app' \in App
  BY <1>1, <1>3, WholeDirectories
<1> QED
  BY <1>1, <1>2, <1>4, Replacing DEF Altering

LEMMA RestoreDatabaseStep == ASSUME IInv, NEW h \in Helpers, RestoreDatabase(h) PROVE IInv'
<1> USE DEF Packages, Goto
<1>1. /\ pc[h] \in {"restore db", "undo db"} /\ pc[h] \in Changing /\ pc[h] \in Altering
      /\ db' = backup[op[h]].db /\ writer' = Left(h)
      /\ moved' = {g \in Helpers \ {h} : pc[g] \in {"begin", "begin undo"}}
                 \cup IF fetch THEN {"fetch"} ELSE {}
      /\ UNCHANGED <<app, backup, used, faults, incoming, staged, fetch>>
  BY DEF RestoreDatabase, Changing, Altering
<1>2. PICK l \in {"failing", "idle"} :
        /\ pc' = [pc EXCEPT ![h] = l]
        /\ op' = IF l = "idle" THEN [op EXCEPT ![h] = 0] ELSE op
  BY DEF RestoreDatabase
<1>3. Types /\ op[h] \in used /\ op[h] \in Ops /\ backup[op[h]].whole /\ backup[op[h]] \in Directories
  BY <1>1, OpInOps DEF IInv, WorkInv, Backed, Types
<1>4. /\ writer = h /\ h \notin moved
      /\ \A g \in Helpers \ {h} : pc[g] \notin Changing /\ pc[g] \notin Altering
  BY <1>1, Alone DEF IInv, LockInv
<1>5. db' \in Rows /\ app \in App
  BY <1>1, <1>3, WholeDirectories DEF Types, TypeOK
<1>6. Types'
  BY <1>1, <1>2, <1>3, <1>5 DEF Types, TypeOK, Left
<1>7. pc'[h] = l /\ \A g \in Helpers \ {h} : pc'[g] = pc[g] /\ op'[g] = op[g]
  BY <1>2, <1>3 DEF Types, TypeOK
<1>8. WorkInv'
  <2>1. l # "idle" => op'[h] = op[h]
    BY <1>2
  <2> QED
    BY <1>1, <1>3, <1>7, <2>1 DEF IInv, WorkInv, Backed
<1>9. LockInv'
  BY <1>4, <1>7 DEF LockInv, Changing
<1>10. CoverInv'
  BY <1>1, <1>3 DEF IInv, CoverInv
<1>11. GoodInv'
  <2> SUFFICES ASSUME faults' = 0 PROVE Undamaged'
    BY DEF GoodInv
  <2>1. Undamaged
    BY <1>1 DEF IInv, GoodInv
  <2>2. app = backup[op[h]].app /\ Good(backup[op[h]].app, backup[op[h]].db, backup)
    BY <1>1, <1>3, <2>1 DEF Undamaged
  <2>3. Good(app, db, backup)'
    BY <1>1, <2>2 DEF Good
  <2>4. \A o \in Ops : backup'[o].whole => Good(backup'[o].app, backup'[o].db, backup')
    BY <1>1, <2>1 DEF Undamaged
  <2>5. \A g \in Helpers : pc'[g] \notin Altering
    BY <1>4, <1>7 DEF Altering
  <2> QED
    BY <2>3, <2>4, <2>5 DEF Undamaged, Altering
<1> QED
  BY <1>6, <1>8, <1>9, <1>10, <1>11 DEF IInv

LEMMA SucceedStep == ASSUME IInv, NEW h \in Helpers, Succeed(h) PROVE IInv'
<1> USE DEF Packages, Goto, Done
<1>1. /\ pc[h] = "start" /\ pc[h] \in Changing /\ pc[h] \in Altering
      /\ UNCHANGED <<app, backup, used, faults, incoming, staged, fetch>>
  BY DEF Succeed, Changing, Altering
<1>2. Types /\ op[h] \in used /\ op[h] \in Ops /\ backup[op[h]].whole
  BY <1>1, OpInOps DEF IInv, WorkInv, Backed
<1>3. CASE pc' = [pc EXCEPT ![h] = "restore"] /\ UNCHANGED <<db, writer, op, moved>>
  <2>1. app' \in App
    BY <1>1, <1>2 DEF Types, TypeOK
  <2> QED
    BY <1>1, <1>3, <2>1, Replacing DEF Altering
<1>4. CASE /\ db' = [db EXCEPT ![op[h]].status = "success", ![op[h]].saved = TRUE]
           /\ writer' = Left(h)
           /\ pc' = [pc EXCEPT ![h] = "idle"] /\ op' = [op EXCEPT ![h] = 0] /\ moved' = moved \ {h}
  <2>1. /\ writer = h /\ h \notin moved
        /\ \A g \in Helpers \ {h} : pc[g] \notin Changing /\ pc[g] \notin Altering
    BY <1>1, Alone DEF IInv, LockInv
  <2> DEFINE new == [db[op[h]] EXCEPT !.status = "success", !.saved = TRUE]
  <2>2. db' = [db EXCEPT ![op[h]] = new]
    BY <1>4
  <2>3. \A r \in Row : LET n == [r EXCEPT !.status = "success", !.saved = TRUE] IN
          n \in Row /\ n.saved = TRUE /\ n.target = r.target
    BY DEF Row
  <2>4. db \in [Ops -> Row] /\ db[op[h]] \in Row
    BY <1>2 DEF Types, TypeOK, Rows
  <2>5. new \in Row /\ new.saved /\ new.target = db[op[h]].target
    BY <2>3, <2>4
  <2> HIDE DEF new
  <2>6. /\ db' \in Rows /\ db'[op[h]].saved /\ db'[op[h]].target = db[op[h]].target
        /\ \A o \in Ops \ {op[h]} : db'[o] = db[o]
    BY <1>2, <2>2, <2>4, <2>5 DEF Rows
  <2>7. Types'
    BY <1>1, <1>2, <1>4, <2>6 DEF Types, TypeOK, Left
  <2>8. pc'[h] = "idle" /\ \A g \in Helpers \ {h} : pc'[g] = pc[g] /\ op'[g] = op[g]
    BY <1>2, <1>4 DEF Types, TypeOK
  <2>9. WorkInv'
    BY <1>1, <2>8 DEF IInv, WorkInv, Backed
  <2>10. LockInv'
    BY <2>1, <2>8 DEF LockInv, Changing
  <2>11. CoverInv'
    BY <1>1, <1>2, <2>6 DEF IInv, CoverInv, Covered
  <2>12. GoodInv'
    <3> SUFFICES ASSUME faults' = 0 PROVE Undamaged'
      BY DEF GoodInv
    <3>1. Undamaged
      BY <1>1 DEF IInv, GoodInv
    <3>2. Good(app, db, backup)'
      BY <1>1, <1>2, <2>6, <3>1 DEF Good, Undamaged
    <3>3. \A o \in Ops : backup'[o].whole => Good(backup'[o].app, backup'[o].db, backup')
      BY <1>1, <3>1 DEF Undamaged
    <3>4. \A g \in Helpers : pc'[g] \notin Altering
      BY <2>1, <2>8 DEF Altering
    <3> QED
      BY <3>2, <3>3, <3>4 DEF Undamaged, Altering
  <2> QED
    BY <2>7, <2>9, <2>10, <2>11, <2>12 DEF IInv
<1> QED
  BY <1>3, <1>4 DEF Succeed

LEMMA KilledStep == ASSUME IInv, NEW h \in Helpers, Killed(h) PROVE IInv'
<1> USE DEF Packages, Goto, Done
<1>1. /\ pc[h] # "idle" /\ faults' = faults + 1 /\ writer' = Left(h)
      /\ pc' = [pc EXCEPT ![h] = "idle"] /\ op' = [op EXCEPT ![h] = 0] /\ moved' = moved \ {h}
      /\ UNCHANGED <<app, db, used, incoming, staged, fetch>>
  BY DEF Killed
<1>2. Types /\ op[h] \in Ops
  BY <1>1, OpInOps DEF IInv
<1>3. /\ backup' \in [Ops -> Directories]
      /\ \A q \in Ops : backup[q].whole => backup'[q] = backup[q]
      /\ \A q \in Ops : backup'[q].whole => backup[q].whole
  <2>1. CASE UNCHANGED backup
    BY <1>2, <2>1 DEF Types
  <2>2. CASE ~backup[op[h]].made /\ backup' = [backup EXCEPT ![op[h]] = Begun]
    <3>1. Begun \in Directories /\ ~Begun.whole
      BY DEF Directories, Begun
    <3>2. /\ backup' \in [Ops -> Directories] /\ backup'[op[h]] = Begun
          /\ \A q \in Ops : backup[q].whole => q # op[h] /\ backup'[q] = backup[q]
      BY <1>2, <2>2, <3>1, NewBackup
    <3>3. \A q \in Ops : q # op[h] => backup'[q] = backup[q]
      BY <1>2, <2>2 DEF Types
    <3> QED
      BY <3>1, <3>2, <3>3
  <2> QED
    BY <2>1, <2>2 DEF Killed
<1>4. Types'
  <2>1. pc' \in [Helpers -> Changing \cup {"idle", "begin", "begin undo", "failing"}]
    BY <1>1, <1>2 DEF Types, TypeOK
  <2>2. op' \in [Helpers -> Ops \cup {0}] /\ moved' \subseteq Helpers \cup {"fetch"}
    BY <1>1, <1>2 DEF Types, TypeOK
  <2>3. writer' \in Helpers \cup {NoHelper}
    BY <1>1, <1>2 DEF Types, TypeOK, Left
  <2>4. faults' \in Nat
    BY <1>1, <1>2 DEF Types
  <2> QED
    BY <1>1, <1>2, <1>3, <2>1, <2>2, <2>3, <2>4 DEF Types, TypeOK
<1>5. pc'[h] = "idle" /\ \A g \in Helpers \ {h} : pc'[g] = pc[g] /\ op'[g] = op[g]
  BY <1>1, <1>2 DEF Types, TypeOK
<1>6. WorkInv'
  BY <1>1, <1>2, <1>3, <1>5 DEF IInv, WorkInv, Backed, Types, TypeOK
<1>7. LockInv'
  BY <1>1, <1>5 DEF IInv, LockInv, Changing, Left
<1>8. CoverInv'
  <2>1. Covered(db, used, backup')
    BY <1>3 DEF IInv, CoverInv, Covered
  <2>2. ASSUME NEW o \in Ops, backup'[o].whole PROVE Covered(backup'[o].db, used, backup')
    <3>1. backup'[o] = backup[o] /\ Covered(backup[o].db, used, backup)
      BY <2>2, <1>3 DEF IInv, CoverInv
    <3> QED
      BY <3>1, <1>3 DEF Covered
  <2> QED
    BY <1>1, <2>1, <2>2 DEF CoverInv
<1>9. GoodInv'
  BY <1>1, <1>2 DEF GoodInv, Types
<1> QED
  BY <1>4, <1>6, <1>7, <1>8, <1>9 DEF IInv

-----------------------------------------------------------------------------
(* Updater: packages arrive                                                *)

\* The web application and the download worker: rows come, helpers stay where they are.
LEMMA Arriving ==
  ASSUME IInv, Alike(db, db'), UNCHANGED <<app, staged, backup, writer, pc, op>>,
         used \subseteq used', used' \subseteq Ops, incoming' \subseteq used',
         fetch' \in BOOLEAN, moved' \subseteq moved,
         faults' = faults \/ faults' = faults + 1
  PROVE  IInv'
<1>1. Types
  BY DEF IInv
<1>2. faults' \in Nat /\ (faults' = faults \/ faults' # 0)
  BY <1>1 DEF Types
<1>3. Types'
  BY <1>1, <1>2 DEF Types, TypeOK, Alike
<1>4. WorkInv' /\ LockInv'
  BY DEF IInv, WorkInv, LockInv
<1>5. CoverInv' /\ GoodInv'
  BY <1>2, Quiet
<1> QED
  BY <1>3, <1>4, <1>5 DEF IInv

LEMMA ArriveStep == ASSUME IInv, Arrive PROVE IInv'
<1> USE DEF World
<1>1. Types /\ Alike(db, db)
  BY SameRows DEF IInv
<1>2. CASE Upload
  <2>1. PICK o \in NextOp, v \in 1..Latest, s \in {"uploaded", "ready", "rejected"} :
          /\ db' = [db EXCEPT ![o] = Created(v, s)]
          /\ used' = used \cup {o}
          /\ incoming' \in {incoming, incoming \cup {o}}
    BY <1>2 DEF Upload
  <2>2. o \in Ops \ used /\ v \in Installed
    BY UpdaterAssumption DEF NextOp, Installed
  <2>3. Alike(db, db')
    BY <2>1, <2>2, NewRow
  <2> QED
    BY <1>1, <1>2, <2>1, <2>2, <2>3, Arriving DEF Upload, Types, TypeOK
<1>3. CASE TakeDownload
  BY <1>1, <1>3, Arriving DEF TakeDownload, Types, TypeOK
<1>4. CASE Package
  <2>1. CASE UNCHANGED <<db, used>>
    BY <1>1, <1>4, <2>1, Arriving DEF Package, Types, TypeOK
  <2>2. CASE \E o \in NextOp : db' = [db EXCEPT ![o] = Created(Latest, "ready")] /\ used' = used \cup {o}
    <3>1. PICK o \in NextOp : db' = [db EXCEPT ![o] = Created(Latest, "ready")] /\ used' = used \cup {o}
      BY <2>2
    <3>2. o \in Ops \ used /\ Latest \in Installed
      BY UpdaterAssumption DEF NextOp, Installed
    <3>3. Alike(db, db')
      BY <3>1, <3>2, NewRow
    <3> QED
      BY <1>1, <1>4, <3>1, <3>2, <3>3, Arriving DEF Package, Types, TypeOK
  <2> QED
    BY <1>4, <2>1, <2>2 DEF Package
<1>5. CASE DownloadEnds
  BY <1>1, <1>5, Arriving DEF DownloadEnds, Types, TypeOK
<1> QED
  BY <1>2, <1>3, <1>4, <1>5 DEF Arrive

-----------------------------------------------------------------------------
(* Updater: theorems                                                       *)

\* Every step keeps the invariant.
LEMMA Inductive == IInv /\ [Next]_vars => IInv'
<1> SUFFICES ASSUME IInv, [Next]_vars PROVE IInv'
  OBVIOUS
<1>1. ASSUME NEW h \in Helpers, Help(h) PROVE IInv'
  BY <1>1, ValidateStep, StageStep, ExtractStep, BeginStep, CreateBackupStep, ApplyFilesStep,
     RunMigrationsStep, SucceedStep, RestoreFilesStep, RestoreDatabaseStep, FailingStep, RollBackStep
     DEF Help
<1>2. ASSUME NEW h \in Helpers, Killed(h) PROVE IInv'
  BY <1>2, KilledStep
<1>3. CASE Arrive
  BY <1>3, ArriveStep
<1>4. CASE UNCHANGED vars
  BY <1>4 DEF vars, IInv, Types, TypeOK, CoverInv, Covered, WorkInv, LockInv, GoodInv, Undamaged, Good
<1> QED
  BY <1>1, <1>2, <1>3, <1>4 DEF Next

\* The invariant holds in every reachable state.
THEOREM Invariant == Spec => []IInv
<1>1. Init => IInv
  BY FirstState
<1>2. IInv /\ [Next]_vars => IInv'
  BY Inductive
<1> QED
  BY <1>1, <1>2, PTL DEF Spec

\* However many helpers run and wherever they are killed, one of them at a time changes
\* the application, and it writes in the database that is in place.
THEOREM OneAtATime == Spec => []OneInstaller
<1>1. IInv => OneInstaller
  BY DEF IInv, Types, LockInv, OneInstaller
<1> QED
  BY <1>1, Invariant, PTL

\* Unless a helper was killed, what is installed can be taken back.
THEOREM AlwaysReversible == Spec => []Reversible
<1>1. IInv => Reversible
  <2> SUFFICES ASSUME IInv, faults = 0, writer = NoHelper
               PROVE  app = 0 \/ \E o \in Ops : db[o].saved /\ db[o].target = app /\ backup[o].whole
    BY DEF Reversible
  <2>1. \A h \in Helpers : pc[h] \notin Altering
    BY UpdaterAssumption DEF IInv, LockInv, Changing, Altering
  <2> QED
    BY <2>1 DEF IInv, GoodInv, Undamaged, Good
<1> QED
  BY <1>1, Invariant, PTL

-----------------------------------------------------------------------------
(* Accounts: users and their rows                                          *)

UserTables == UNION {[S -> UserType] : S \in SUBSET Names}
DataType == [users : UserTables, sessions : SUBSET Names, setup : BOOLEAN, rows : 0..MaxRows,
             first : BOOLEAN]

\* A database: every session is of a user that exists.
Database(d) == d \in DataType /\ d.sessions \subseteq DOMAIN d.users

LEMMA TableFacts ==
  ASSUME NEW d, Database(d)
  PROVE  /\ d.users = [u \in DOMAIN d.users |-> d.users[u]]
         /\ DOMAIN d.users \in SUBSET Names /\ d.sessions \in SUBSET Names
         /\ \A u \in DOMAIN d.users : d.users[u] \in UserType
  BY DEF Database, DataType, UserTables

LEMMA SetUserRow ==
  ASSUME NEW d, Database(d), NEW u \in Names, NEW row \in UserType
  PROVE  LET e == SetUser(d, u, row) IN
         /\ Database(e)
         /\ DOMAIN e.users = DOMAIN d.users \cup {u} /\ e.users[u] = row
         /\ \A v \in DOMAIN d.users : v # u => e.users[v] = d.users[v]
         /\ e.sessions = d.sessions /\ e.setup = d.setup /\ e.rows = d.rows
         /\ e.first = d.first
<1> DEFINE S == DOMAIN d.users \cup {u}
           t == [v \in S |-> IF v = u THEN row ELSE d.users[v]]
<1>1. t \in [S -> UserType]
  BY TableFacts
<1>2. S \in SUBSET Names
  BY TableFacts
<1>3. t \in UserTables
  BY <1>1, <1>2 DEF UserTables
<1>4. SetUser(d, u, row) = [d EXCEPT !.users = t]
  BY DEF SetUser
<1>5. DOMAIN t = S /\ t[u] = row /\ \A v \in DOMAIN d.users : v # u => t[v] = d.users[v]
  OBVIOUS
<1> HIDE DEF t
<1> QED
  BY <1>3, <1>4, <1>5 DEF Database, DataType

\* A password is a row, and a word about it.
LEMMA PasswordRow ==
  ASSUME NEW d, Database(d), NEW u \in Names, NEW row \in UserType, NEW f \in BOOLEAN
  PROVE  LET e == Password(d, u, row, f) IN
         /\ Database(e) /\ e.users = SetUser(d, u, row).users
         /\ e.sessions = d.sessions /\ e.setup = d.setup /\ e.rows = d.rows
<1> DEFINE e == SetUser(d, u, row)
<1>1. Database(e) /\ e.sessions = d.sessions /\ e.setup = d.setup /\ e.rows = d.rows
  BY SetUserRow
<1>2. Password(d, u, row, f) = [e EXCEPT !.first = f]
  BY DEF Password
<1> HIDE DEF e
<1> QED
  BY <1>1, <1>2 DEF e, Database, DataType

\* The table with one row set anew, as a function.
LEMMA SetUserExcept ==
  ASSUME NEW d, Database(d), NEW u \in DOMAIN d.users, NEW row
  PROVE  SetUser(d, u, row) = [d EXCEPT !.users = [d.users EXCEPT ![u] = row]]
<1> DEFINE t == [v \in DOMAIN d.users \cup {u} |-> IF v = u THEN row ELSE d.users[v]]
<1>1. [d.users EXCEPT ![u] = row] = t
  BY TableFacts
<1>2. SetUser(d, u, row) = [d EXCEPT !.users = t]
  BY DEF SetUser
<1> QED
  BY <1>1, <1>2

LEMMA SeedIsADatabase == Database(Seed) /\ Database(NoCopy) /\ DOMAIN NoCopy.users = {} /\ Has(Seed, Seeded)
<1>1. User("admin", 0) \in UserType
  BY DEF User, UserType, Roles
<1> DEFINE t == [u \in {Seeded} |-> User("admin", 0)]
           e == [u \in {} |-> NoOne]
<1>2. t \in [{Seeded} -> UserType] /\ {Seeded} \in SUBSET Names
  BY <1>1, NamesAssumption
<1>3. t \in UserTables /\ DOMAIN t = {Seeded}
  BY <1>2 DEF UserTables
<1>4. e \in [{} -> UserType] /\ {} \in SUBSET Names
  OBVIOUS
<1>5. e \in UserTables /\ DOMAIN e = {}
  BY <1>4 DEF UserTables
<1>6. Seed = [users |-> t, sessions |-> {}, setup |-> FALSE, rows |-> 0, first |-> TRUE]
  BY DEF Seed
<1>7. NoCopy = [Seed EXCEPT !.users = e]
  BY DEF NoCopy
<1> HIDE DEF t, e
<1>8. NoCopy = [users |-> e, sessions |-> {}, setup |-> FALSE, rows |-> 0, first |-> TRUE]
  BY <1>6, <1>7
<1> QED
  BY <1>3, <1>5, <1>6, <1>8, NamesAssumption DEF Database, DataType, Has

-----------------------------------------------------------------------------
(* Accounts: the inductive invariant                                       *)

ToolType == [step : {"idle", "inspected", "selected", "copied", "committed"}, sel : Names, before : 0..MaxRows,
             old : Hashes \cup {0, Unknown}, new : Hashes \cup {0}, said : {"nothing", "ok", "cancelled"}]

RequestType == [op : AdminOps \cup {"none", "login", "change"}, by : Names \cup {NoOne}, late : BOOLEAN]

Copied == tool.step \in {"copied", "committed"}

\* The run has its user, and its copy from the moment it is made; its new password is
\* not the copy's; and a user of whom something was said is there for good.
RunInv ==
  /\ tool.step # "idle" => tool.said = "nothing"
  /\ tool.step \in {"inspected", "selected", "copied"} => tool.new = 0
  /\ tool.step # "idle" \/ tool.said # "nothing" => Has(data, tool.sel)
  /\ IF Copied THEN Has(copy, tool.sel) ELSE copy = NoCopy /\ since = 0
  /\ tool.step = "committed" => tool.new # 0 /\ copy.users[tool.sel].hash # tool.new

ToolInv ==
  /\ AccountsTypeOK /\ Database(data) /\ Database(copy) /\ tool \in ToolType
  /\ req \in RequestType
  /\ RunInv
  /\ Told
  /\ AllOrNothing

LEMMA HasCopy == ASSUME NEW u, Has(copy, u) PROVE copy # NoCopy
  BY SeedIsADatabase DEF Has

\* A new hash is nobody's that matters.
LEMMA NewHashIsNew ==
  ASSUME NEW u \in Names, tool \in ToolType, Database(copy)
  PROVE  NewHash(u) \in Hashes /\ NewHash(u) \notin Remembered(u)
<1> DEFINE a == IF Has(copy, u) THEN copy.users[u].hash ELSE 0
           b == IF tool.sel = u THEN tool.old ELSE 0
           c == IF tool.sel = u THEN tool.new ELSE 0
           Usable(h) == h \in Hashes \ Remembered(u)
<1>1. /\ a \in Hashes \cup {0, Unknown} /\ b \in Hashes \cup {0, Unknown}
      /\ c \in Hashes \cup {0, Unknown}
  BY TableFacts DEF Has, UserType, ToolType
<1>2. \A h \in Hashes : h \in Remembered(u) => h \in {a, b, c}
  BY DEF Remembered, Hashes
<1> HIDE DEF a, b, c
<1>3. Usable(1) \/ Usable(2) \/ Usable(3) \/ Usable(4)
  BY <1>1, <1>2 DEF Hashes, Unknown
<1>4. \A h : Usable(h) => h \in {1, 2, 3, 4}
  BY DEF Hashes
<1> HIDE DEF Usable
<1>5. \E h : Usable(h) /\ \A g : Usable(g) => h <= g
  BY <1>3, <1>4
<1> QED
  BY <1>5 DEF NewHash, Usable

-----------------------------------------------------------------------------
(* Accounts: what a step of the services leaves                            *)

\* A step of the services, and of the workers: users stay, a hash stays or is one
\* nothing remembers, and a change is counted if the tool has a copy.
Serves ==
  /\ Database(data')
  /\ DOMAIN data.users \subseteq DOMAIN data'.users
  /\ \A u \in DOMAIN data.users :
       \/ data'.users[u].hash = data.users[u].hash
       \/ data'.users[u].hash \in Hashes /\ data'.users[u].hash \notin Remembered(u)
  /\ since' = IF copy = NoCopy \/ data' = data THEN since ELSE since + 1
  /\ since' <= MaxSince
  /\ UNCHANGED <<tool, copy>>
  /\ req' \in RequestType
  /\ overtaken' \in BOOLEAN

LEMMA ServesKeeps == ASSUME ToolInv, Serves PROVE ToolInv'
<1> USE DEF ToolInv
<1>1. since \in Nat /\ since' \in 0..MaxSince
  BY NamesAssumption DEF AccountsTypeOK, Serves
<1>2. Typed(data)' /\ Typed(copy)'
  BY TableFacts DEF Serves, Database, DataType, Typed
<1>3. AccountsTypeOK'
  BY <1>1, <1>2 DEF AccountsTypeOK, RequestType, Serves
<1>4. RunInv'
  BY <1>1, HasCopy DEF RunInv, Serves, Has, Copied
<1>5. Told'
  <2> SUFFICES ASSUME tool.said # "nothing"
               PROVE  /\ tool.said = "ok" => data'.users[tool.sel].hash # tool.old
                      /\ tool.said = "cancelled" => data'.users[tool.sel].hash # tool.new
    BY DEF Told, Serves
  <2>1. tool.sel \in DOMAIN data.users
    BY DEF RunInv, Has
  <2>2. tool.old \in Remembered(tool.sel) /\ tool.new \in Remembered(tool.sel)
    BY DEF Remembered
  <2> QED
    BY <2>1, <2>2 DEF Serves, Told, Has
<1>6. AllOrNothing'
  <2> SUFFICES ASSUME copy # NoCopy, since' = 0 PROVE AllOrNothing'
    BY DEF AllOrNothing, Serves
  <2>1. data' = data /\ since = 0
    BY <1>1 DEF Serves
  <2> QED
    BY <2>1 DEF AllOrNothing, Serves, At, ResetDone
<1> QED
  BY <1>3, <1>4, <1>5, <1>6 DEF Serves

\* What a commit of the services needs to be such a step.
LEMMA CommitServes ==
  ASSUME ToolInv, NEW d, Commits(d), Database(d), DOMAIN data.users \subseteq DOMAIN d.users,
         \A u \in DOMAIN data.users :
           \/ d.users[u].hash = data.users[u].hash
           \/ d.users[u].hash \in Hashes /\ d.users[u].hash \notin Remembered(u),
         req' \in RequestType,
         overtaken' \in BOOLEAN
  PROVE  Serves
  BY DEF Commits, Serves

LEMMA IdleRequest ==
  /\ Idle \in RequestType
  /\ Idle.op = "none" /\ ~Idle.late
  /\ \A u \in Names, o \in AdminOps \cup {"login", "change"} :
       Request(o, u) \in RequestType
  BY DEF Idle, Request, RequestType

\* Sessions, setup and the rows of the workers are not the users' table.
LEMMA OtherRows ==
  ASSUME NEW d, Database(d)
  PROVE  /\ \A s \in SUBSET d.sessions : Database([d EXCEPT !.sessions = s])
         /\ \A u \in DOMAIN d.users : Database([d EXCEPT !.sessions = @ \cup {u}])
         /\ Database([d EXCEPT !.setup = TRUE])
         /\ \A n \in 0..MaxRows : Database([d EXCEPT !.rows = n])
  BY DEF Database, DataType, UserTables

-----------------------------------------------------------------------------
(* Accounts: the requests                                                  *)

LEMMA BeginServes ==
  ASSUME ToolInv, NEW o \in AdminOps \cup {"change"}, NEW kept \in SUBSET data.sessions, NEW u \in kept,
         BeginRequest(o, u, kept)
  PROVE  Serves
<1>1. Database([data EXCEPT !.sessions = kept])
  BY OtherRows DEF ToolInv
<1>2. u \in Names
  BY DEF ToolInv, AccountsTypeOK, Typed
<1>3. req' \in RequestType
  BY <1>2, IdleRequest DEF BeginRequest
<1>4. [data EXCEPT !.sessions = kept].users = data.users
  BY DEF ToolInv, Database, DataType
<1> QED
  BY <1>1, <1>3, <1>4, CommitServes DEF BeginRequest, ToolInv, AccountsTypeOK

\* A request that changes nothing but itself.
LEMMA RestServes ==
  ASSUME ToolInv, UNCHANGED <<data, tool, copy, since, overtaken>>,
         req' \in RequestType
  PROVE  Serves
<1>1. since <= MaxSince
  BY NamesAssumption DEF ToolInv, AccountsTypeOK
<1> QED
  BY <1>1 DEF ToolInv, AccountsTypeOK, Serves

LEMMA LogoutServes ==
  ASSUME ToolInv, NEW u \in Names, Logout(u) PROVE Serves
<1> DEFINE d == [data EXCEPT !.sessions = @ \ {u}]
<1>1. data.sessions \ {u} \in SUBSET data.sessions
  OBVIOUS
<1>2. Database(d)
  BY <1>1, OtherRows DEF ToolInv
<1>3. d.users = data.users
  BY DEF ToolInv, Database, DataType
<1>4. Commits(d)
  BY DEF Logout
<1> HIDE DEF d
<1> QED
  BY <1>2, <1>3, <1>4, CommitServes DEF Logout, ToolInv, AccountsTypeOK

\* What a request writes needs to be such a step.
LEMMA WriteServes ==
  ASSUME ToolInv, NEW o, NEW d, Writes(o, d), Database(d), DOMAIN data.users \subseteq DOMAIN d.users,
         \A u \in DOMAIN data.users :
           \/ d.users[u].hash = data.users[u].hash
           \/ d.users[u].hash \in Hashes /\ d.users[u].hash \notin Remembered(u)
  PROVE  Serves
<1>1. overtaken' \in BOOLEAN /\ req' = Idle /\ Commits(d)
  BY DEF Writes, ToolInv, AccountsTypeOK
<1> QED
  BY <1>1, CommitServes, IdleRequest

LEMMA LoginServes == ASSUME ToolInv, Login PROVE Serves
<1> DEFINE d == [data EXCEPT !.sessions = @ \cup {req.by}]
<1>1. Writes("login", d)
  BY DEF Login
<1>2. Database(d)
  BY <1>1, OtherRows DEF Writes, Has, ToolInv
<1>3. d.users = data.users
  BY DEF ToolInv, Database, DataType
<1> HIDE DEF d
<1> QED
  BY <1>1, <1>2, <1>3, WriteServes

LEMMA SetupServes == ASSUME ToolInv, Setup PROVE Serves
<1> DEFINE d == [data EXCEPT !.setup = TRUE]
<1>1. Writes("setup", d)
  BY DEF Setup
<1>2. Database(d)
  BY OtherRows DEF ToolInv
<1>3. d.users = data.users
  BY DEF ToolInv, Database, DataType
<1> HIDE DEF d
<1> QED
  BY <1>1, <1>2, <1>3, WriteServes

LEMMA WorkServes == ASSUME ToolInv, Work PROVE Serves
<1>1. PICK n \in 0..MaxRows : Commits([data EXCEPT !.rows = n])
  BY DEF Work
<1> DEFINE d == [data EXCEPT !.rows = n]
<1>2. Database(d)
  BY OtherRows DEF ToolInv
<1>3. d.users = data.users
  BY DEF ToolInv, Database, DataType
<1>4. req' = req /\ overtaken' = overtaken
  BY DEF Work
<1> HIDE DEF d
<1> QED
  BY <1>1, <1>2, <1>3, <1>4, CommitServes DEF d, ToolInv, AccountsTypeOK

\* One row written, its hash the one it had or a new one.
LEMMA TableServes ==
  ASSUME ToolInv, NEW o, NEW u \in Names, NEW row \in UserType, NEW d, Writes(o, d),
         Database(d), d.users = SetUser(data, u, row).users,
         ~Has(data, u) \/ row.hash = data.users[u].hash \/ row.hash = NewHash(u)
  PROVE  Serves
<1>1. /\ DOMAIN d.users = DOMAIN data.users \cup {u} /\ d.users[u] = row
      /\ \A v \in DOMAIN data.users : v # u => d.users[v] = data.users[v]
  BY SetUserRow DEF ToolInv
<1>2. NewHash(u) \in Hashes /\ NewHash(u) \notin Remembered(u)
  BY NewHashIsNew DEF ToolInv
<1>3. \A v \in DOMAIN data.users :
        \/ d.users[v].hash = data.users[v].hash
        \/ d.users[v].hash \in Hashes /\ d.users[v].hash \notin Remembered(v)
  BY <1>1, <1>2 DEF Has
<1> QED
  BY <1>1, <1>3, WriteServes

LEMMA RowServes ==
  ASSUME ToolInv, NEW o, NEW u \in Names, NEW row \in UserType, Writes(o, SetUser(data, u, row)),
         ~Has(data, u) \/ row.hash = data.users[u].hash \/ row.hash = NewHash(u)
  PROVE  Serves
<1>1. Database(SetUser(data, u, row))
  BY SetUserRow DEF ToolInv
<1> QED
  BY <1>1, TableServes

LEMMA FirstIsOneOfTwo == ASSUME ToolInv, NEW u PROVE MayBeFirst(u) \subseteq BOOLEAN
  BY DEF MayBeFirst, ToolInv, Database, DataType

\* A row of the table, with another access or another password.
LEMMA AccessType ==
  ASSUME NEW row \in UserType, NEW access \in Roles \cup {NoAccess}
  PROVE  LET new == [row EXCEPT !.access = access] IN
         new \in UserType /\ new.access = access /\ new.hash = row.hash /\ new.must = row.must
  BY DEF UserType

LEMMA UserTypes ==
  ASSUME NEW access \in Roles \cup {NoAccess}, NEW h \in Hashes \cup {0, Unknown}
  PROVE  /\ User(access, h) \in UserType
         /\ User(access, h).access = access /\ User(access, h).hash = h
  BY DEF User, UserType

LEMMA ChangeServes == ASSUME ToolInv, ChangePassword PROVE Serves
<1> DEFINE row == [data.users[req.by] EXCEPT !.hash = NewHash(req.by), !.must = FALSE]
<1>1. PICK f \in MayBeFirst(req.by) : Writes("change", Password(data, req.by, row, f))
  BY DEF ChangePassword
<1>2. req.by \in Names /\ data.users[req.by] \in UserType
  BY <1>1, TableFacts DEF Writes, Has, ToolInv
<1>3. NewHash(req.by) \in Hashes
  BY <1>2, NewHashIsNew DEF ToolInv
<1>4. row \in UserType /\ row.hash = NewHash(req.by)
  BY <1>2, <1>3 DEF UserType
<1> HIDE DEF row
<1>5. Database(Password(data, req.by, row, f)) /\ Password(data, req.by, row, f).users = SetUser(data, req.by, row).users
  BY <1>2, <1>4, FirstIsOneOfTwo, PasswordRow DEF ToolInv
<1> QED
  BY <1>1, <1>2, <1>4, <1>5, TableServes

LEMMA CreateServes == ASSUME ToolInv, NEW u \in Names, NEW role \in Roles, CreateUser(u, role) PROVE Serves
<1>1. NewHash(u) \in Hashes
  BY NewHashIsNew DEF ToolInv
<1>2. User(role, NewHash(u)) \in UserType
  BY <1>1, UserTypes
<1> QED
  BY <1>2, RowServes DEF CreateUser

LEMMA ImportServes ==
  ASSUME ToolInv, NEW u \in Names, NEW access \in Roles \cup {NoAccess}, Import(u, access) PROVE Serves
<1> DEFINE old == IF Has(data, u) THEN data.users[u] ELSE User(access, Unknown)
           row == [old EXCEPT !.access = access]
<1>1. old \in UserType
  BY TableFacts, UserTypes DEF Has, ToolInv
<1>2. row \in UserType /\ row.hash = old.hash
  <2> HIDE DEF old
  <2> QED
    BY <1>1, AccessType
<1>3. Writes("import", SetUser(data, u, row))
  BY DEF Import
<1>4. Has(data, u) => old = data.users[u]
  OBVIOUS
<1> HIDE DEF old, row
<1> QED
  BY <1>2, <1>3, <1>4, RowServes

LEMMA UpdateServes ==
  ASSUME ToolInv, NEW u \in Names, NEW access \in Roles \cup {NoAccess}, UpdateUser(u, access) PROVE Serves
<1> DEFINE kept == [data.users[u] EXCEPT !.access = access]
           d == SetUser(data, u, kept)
           second == [d.users[u] EXCEPT !.hash = NewHash(u), !.must = TRUE]
           e(first) == Password(d, u, second, first)
           f(first) == [e(first) EXCEPT !.sessions = @ \ ({u} \ {req.by})]
<1>1. u \in DOMAIN data.users /\ (Writes("users", d) \/ \E first \in MayBeFirst(u) : Writes("users", f(first)))
  BY DEF UpdateUser, Has
<1>2. kept \in UserType /\ kept.hash = data.users[u].hash
  <2>1. data.users[u] \in UserType
    BY <1>1, TableFacts DEF ToolInv
  <2> QED
    BY <2>1, AccessType
<1>3. /\ Database(d) /\ DOMAIN d.users = DOMAIN data.users /\ d.users[u] = kept
      /\ \A v \in DOMAIN data.users : v # u => d.users[v] = data.users[v]
  <2> HIDE DEF kept, d
  <2>1. DOMAIN data.users \cup {u} = DOMAIN data.users
    BY <1>1
  <2>2. /\ Database(d) /\ DOMAIN d.users = DOMAIN data.users \cup {u} /\ d.users[u] = kept
        /\ \A v \in DOMAIN data.users : v # u => d.users[v] = data.users[v]
    BY <1>2, SetUserRow DEF d, ToolInv
  <2> QED
    BY <2>1, <2>2
<1>4. CASE Writes("users", d)
  <2> HIDE DEF kept
  <2> QED
    BY <1>2, <1>4, RowServes
<1>5. ASSUME NEW first \in MayBeFirst(u), Writes("users", f(first)) PROVE Serves
  <2> HIDE DEF kept, d, e, f
  <2>1. NewHash(u) \in Hashes /\ NewHash(u) \notin Remembered(u)
    BY NewHashIsNew DEF ToolInv
  <2>2. second \in UserType /\ second.hash = NewHash(u)
    BY <1>2, <1>3, <2>1 DEF second, UserType
  <2> HIDE DEF second
  <2>3. /\ Database(e(first)) /\ DOMAIN e(first).users = DOMAIN data.users /\ e(first).users[u] = second
        /\ \A v \in DOMAIN data.users : v # u => e(first).users[v] = data.users[v]
    <3>1. DOMAIN d.users \cup {u} = DOMAIN d.users
      BY <1>1, <1>3
    <3>2. Database(e(first)) /\ e(first).users = SetUser(d, u, second).users
      BY <1>3, <2>2, FirstIsOneOfTwo, PasswordRow DEF e
    <3>3. /\ DOMAIN e(first).users = DOMAIN d.users \cup {u} /\ e(first).users[u] = second
          /\ \A v \in DOMAIN d.users : v # u => e(first).users[v] = d.users[v]
      BY <1>3, <2>2, <3>2, SetUserRow
    <3> QED
      BY <1>3, <3>1, <3>2, <3>3
  <2>4. Database(f(first)) /\ f(first).users = e(first).users
    <3>1. e(first).sessions \ ({u} \ {req.by}) \in SUBSET e(first).sessions
      OBVIOUS
    <3>2. Database(f(first))
      BY <2>3, <3>1, OtherRows DEF f
    <3> QED
      BY <2>3, <3>2 DEF f, Database, DataType
  <2>5. \A v \in DOMAIN data.users :
          \/ f(first).users[v].hash = data.users[v].hash
          \/ f(first).users[v].hash \in Hashes /\ f(first).users[v].hash \notin Remembered(v)
    BY <2>1, <2>2, <2>3, <2>4
  <2> QED
    BY <1>5, <2>3, <2>4, <2>5, WriteServes
<1> QED
  BY <1>1, <1>4, <1>5

LEMMA RequestsServe == ASSUME ToolInv, Requests PROVE Serves
<1>1. ASSUME NEW o \in AdminOps \cup {"change"}, NEW kept \in SUBSET data.sessions, NEW u \in kept,
             BeginRequest(o, u, kept)
      PROVE  Serves
  BY <1>1, BeginServes
<1>2. ASSUME NEW u \in Names, BeginLogin(u) PROVE Serves
  BY <1>2, RestServes, IdleRequest DEF BeginLogin
<1>3. ASSUME NEW u \in Names, Logout(u) PROVE Serves
  BY <1>3, LogoutServes
<1>4. ASSUME NEW u \in Names, NEW role \in Roles, CreateUser(u, role) PROVE Serves
  BY <1>4, CreateServes
<1>5. ASSUME NEW u \in Names, NEW access \in Roles \cup {NoAccess}, UpdateUser(u, access) \/ Import(u, access)
      PROVE  Serves
  BY <1>5, UpdateServes, ImportServes
<1>6. CASE GiveUp
  BY <1>6, RestServes, IdleRequest DEF GiveUp
<1> QED
  BY <1>1, <1>2, <1>3, <1>4, <1>5, <1>6, LoginServes, ChangeServes, SetupServes DEF Requests

-----------------------------------------------------------------------------
(* Accounts: the tool                                                      *)

LEMMA NoResetType ==
  /\ NoReset \in ToolType /\ NoReset.said = "nothing" /\ NoReset.step = "idle" /\ NoReset.new = 0
  /\ NoReset.sel = Seeded
  BY NamesAssumption DEF NoReset, ToolType

\* A run that ends with nothing said, or with something that is true of what it leaves.
LEMMA EndKeeps ==
  ASSUME ToolInv, NEW t \in ToolType, Ends(t), t.step = "idle", UNCHANGED overtaken,
         data' = data \/ data' = copy,
         req' \in RequestType,
         t.said # "nothing" =>
           /\ Has(data', t.sel)
           /\ t.said = "ok" => data'.users[t.sel].hash # t.old
           /\ t.said = "cancelled" => data'.users[t.sel].hash # t.new
  PROVE  ToolInv'
<1>1. Database(data)' /\ Database(copy)'
  BY SeedIsADatabase DEF Ends, ToolInv
<1>2. Typed(data)' /\ Typed(copy)'
  BY <1>1, TableFacts DEF Database, DataType, Typed
<1>3. AccountsTypeOK'
  BY <1>2, NamesAssumption DEF AccountsTypeOK, RequestType, ToolInv, Ends, ToolType
<1>4. RunInv' /\ Told' /\ AllOrNothing'
  BY DEF RunInv, Told, AllOrNothing, Ends, Copied, Has, ToolType
<1> QED
  BY <1>1, <1>3, <1>4 DEF ToolInv, Ends

LEMMA SaysKeeps ==
  ASSUME ToolInv, NEW word \in {"ok", "cancelled"}, Says(word), UNCHANGED overtaken,
         data' = data \/ data' = copy,
         req' \in RequestType,
         tool.new # 0 =>
           /\ Has(data', tool.sel)
           /\ word = "ok" => data'.users[tool.sel].hash # tool.old
           /\ word = "cancelled" => data'.users[tool.sel].hash # tool.new
  PROVE  ToolInv'
<1> DEFINE t == [NoReset EXCEPT !.sel = tool.sel, !.said = word, !.new = tool.new,
                                !.old = IF word = "ok" THEN tool.old ELSE 0]
<1>1. CASE tool.new = 0
  BY <1>1, EndKeeps, NoResetType DEF Says
<1>2. CASE tool.new # 0
  <2>1. Ends(t)
    BY <1>2 DEF Says
  <2>2. t \in ToolType /\ t.step = "idle" /\ t.said = word /\ t.sel = tool.sel /\ t.new = tool.new
    BY NoResetType DEF ToolType, ToolInv
  <2>3. word = "ok" => t.old = tool.old
    BY DEF NoReset
  <2> HIDE DEF t
  <2> QED
    BY <1>2, <2>1, <2>2, <2>3, EndKeeps
<1> QED
  BY <1>1, <1>2

LEMMA InspectKeeps == ASSUME ToolInv, NEW u \in Names, Inspect(u) PROVE ToolInv'
<1>1. tool' \in ToolType /\ tool'.step = "inspected" /\ tool'.sel = u /\ tool'.said = "nothing" /\ tool'.new = 0
  BY NoResetType DEF Inspect, ToolType, ToolInv, Database, DataType
<1>2. Has(data, u) /\ copy = NoCopy /\ since = 0
  BY DEF Inspect, Admins, At, ToolInv, RunInv, Copied, Has
<1>3. AccountsTypeOK'
  BY <1>1 DEF Inspect, ToolInv, AccountsTypeOK, Typed, ToolType
<1>4. RunInv' /\ Told' /\ AllOrNothing'
  BY <1>1, <1>2 DEF Inspect, RunInv, Told, AllOrNothing, Copied, Has
<1> QED
  BY <1>1, <1>3, <1>4 DEF Inspect, ToolInv

LEMMA SelectKeeps == ASSUME ToolInv, Select PROVE ToolInv'
<1>1. data.users[tool.sel] \in UserType
  BY TableFacts DEF Select, Admins, ToolInv
<1>2. /\ tool' \in ToolType /\ tool'.step = "selected" /\ tool'.sel = tool.sel /\ tool'.said = tool.said
      /\ tool'.new = tool.new
  BY <1>1 DEF Select, ToolType, ToolInv, UserType
<1>3. Has(data, tool.sel) /\ copy = NoCopy /\ since = 0 /\ tool.said = "nothing" /\ tool.new = 0
  BY DEF Select, At, ToolInv, RunInv, Copied
<1>4. AccountsTypeOK'
  BY <1>2 DEF Select, ToolInv, AccountsTypeOK, Typed, ToolType
<1>5. RunInv' /\ Told' /\ AllOrNothing'
  BY <1>2, <1>3 DEF Select, RunInv, Told, AllOrNothing, Copied, Has
<1> QED
  BY <1>2, <1>4, <1>5 DEF Select, ToolInv

LEMMA BackUpKeeps == ASSUME ToolInv, BackUp PROVE ToolInv'
<1>1. /\ tool' \in ToolType /\ tool'.step = "copied" /\ tool'.sel = tool.sel /\ tool'.said = tool.said
      /\ tool'.new = tool.new
  BY DEF BackUp, ToolType, ToolInv
<1>2. Has(data, tool.sel) /\ since = 0 /\ tool.said = "nothing" /\ tool.new = 0
  BY DEF BackUp, At, ToolInv, RunInv, Copied
<1>3. AccountsTypeOK'
  BY <1>1 DEF BackUp, ToolInv, AccountsTypeOK, Typed, ToolType
<1>4. RunInv' /\ Told' /\ AllOrNothing'
  BY <1>1, <1>2 DEF BackUp, RunInv, Told, AllOrNothing, Copied, Has, At
<1> QED
  BY <1>1, <1>3, <1>4 DEF BackUp, ToolInv

LEMMA CommitKeeps == ASSUME ToolInv, Commit PROVE ToolInv'
<1> DEFINE u == tool.sel
           h == NewHash(u)
           row == [data.users[u] EXCEPT !.hash = h, !.must = TRUE]
           d == SetUser(data, u, row)
<1>1. /\ u \in Names /\ u \in DOMAIN data.users /\ u \in DOMAIN copy.users
      /\ data.users[u] \in UserType /\ tool.said = "nothing" /\ copy # NoCopy
  BY TableFacts, HasCopy DEF Commit, At, ToolInv, RunInv, Copied, Has, ToolType
<1>2. h \in Hashes /\ h \notin Remembered(u)
  BY <1>1, NewHashIsNew DEF ToolInv
<1>3. h # copy.users[u].hash /\ h # tool.old /\ h # 0
  BY <1>1, <1>2 DEF Remembered, Has, Hashes
<1>4. /\ tool' \in ToolType /\ tool'.step = "committed" /\ tool'.sel = u /\ tool'.said = tool.said
      /\ tool'.new = h /\ tool'.old = tool.old
  <2> HIDE DEF h
  <2> QED
    BY <1>2 DEF Commit, ToolType, ToolInv, h
<1>5. row \in UserType /\ row.hash = h /\ row.must = TRUE
  <2> HIDE DEF h
  <2> QED
    BY <1>1, <1>2 DEF UserType
<1>6. /\ Database(d) /\ DOMAIN d.users = DOMAIN data.users \cup {u} /\ d.users[u] = row
      /\ d = [data EXCEPT !.users = [data.users EXCEPT ![u] = row]]
      /\ d.sessions = data.sessions
  <2> HIDE DEF row, h, u, d
  <2> QED
    BY <1>1, <1>5, SetUserRow, SetUserExcept DEF ToolInv, d
<1>7. PICK f \in BOOLEAN : data' = [Password(data, u, row, f) EXCEPT !.sessions = @ \ {u}]
  BY FirstIsOneOfTwo DEF Commit, Reset
<1> HIDE DEF d
<1>8. /\ Database(data') /\ data'.users = d.users /\ data'.first = f
      /\ data' = [data EXCEPT !.users = [data.users EXCEPT ![u] = row], !.sessions = data.sessions \ {u},
                              !.first = f]
  <2> DEFINE e == Password(data, u, row, f)
  <2> HIDE DEF row, u, h
  <2>1. Database(e) /\ e.users = d.users /\ e = [d EXCEPT !.first = f]
    BY <1>1, <1>5, PasswordRow DEF ToolInv, Password, d
  <2>2. data' = [e EXCEPT !.sessions = e.sessions \ {u}]
    BY <1>7
  <2> HIDE DEF e
  <2>3. e.sessions \ {u} \in SUBSET e.sessions
    OBVIOUS
  <2>4. Database(data')
    BY <2>1, <2>2, <2>3, OtherRows
  <2>5. data'.users = d.users /\ data'.first = f
    BY <2>1, <2>2, <2>4, <1>6 DEF Database, DataType
  <2> QED
    BY <1>6, <2>1, <2>2, <2>4, <2>5 DEF Database, DataType
<1>9. since = 0 => data = copy
  BY <1>1 DEF AllOrNothing, Commit, At, ToolInv
<1>10. AllOrNothing'
  <2> SUFFICES ASSUME since = 0 PROVE ResetDone(data)'
    BY <1>4 DEF AllOrNothing, Commit, At
  <2>1. data'.users[u].hash = h
    BY <1>5, <1>6, <1>8
  <2>2. row # copy.users[u]
    BY <1>3, <1>5
  <2>3. row = [copy.users[u] EXCEPT !.hash = data'.users[u].hash, !.must = TRUE]
    BY <1>9, <2>1
  <2>4. data' = [copy EXCEPT !.users = [copy.users EXCEPT ![u] = row], !.sessions = copy.sessions \ {u},
                              !.first = data'.first]
    BY <1>8, <1>9
  <2>5. copy' = copy
    BY DEF Commit
  <2> HIDE DEF row, u, h
  <2> QED
    BY <1>4, <2>2, <2>3, <2>4, <2>5 DEF ResetDone
<1>11. RunInv' /\ Told'
  <2> HIDE DEF row, u, h
  <2> QED
    BY <1>1, <1>3, <1>4, <1>6, <1>8 DEF RunInv, Told, Copied, Has, Commit
<1>12. AccountsTypeOK'
  <2> HIDE DEF row, h
  <2>1. Typed(data)'
    BY <1>8, TableFacts DEF Typed, Database, DataType
  <2> QED
    BY <1>4, <2>1 DEF Commit, ToolInv, AccountsTypeOK, Typed, ToolType
<1> QED
  BY <1>4, <1>8, <1>10, <1>11, <1>12 DEF ToolInv, Commit

LEMMA CancelKeeps == ASSUME ToolInv, Cancel PROVE ToolInv'
<1>1. tool.new = 0
  BY DEF Cancel, ToolInv, RunInv
<1> QED
  BY <1>1, SaysKeeps DEF Cancel, ToolInv

LEMMA CheckKeeps == ASSUME ToolInv, Check PROVE ToolInv'
<1>1. Has(data, tool.sel) /\ data.users[tool.sel].hash # tool.old
  BY DEF Check, Confirmed, At, ToolInv, RunInv
<1> QED
  BY <1>1, SaysKeeps DEF Check, ToolInv, Has

LEMMA RestoreKeeps == ASSUME ToolInv, Restore PROVE ToolInv'
<1>1. Has(copy, tool.sel) /\ copy.users[tool.sel].hash # tool.new
  BY DEF Restore, At, ToolInv, RunInv, Copied
<1>2. req' \in RequestType
  BY DEF Restore, ToolInv, RequestType
<1> QED
  BY <1>1, <1>2, SaysKeeps DEF Restore, Has

LEMMA DiesKeeps == ASSUME ToolInv, Dies PROVE ToolInv'
  BY EndKeeps, NoResetType DEF Dies, ToolInv

LEMMA ToolKeeps == ASSUME ToolInv, [AccountsNext]_accountVars PROVE ToolInv'
<1>1. CASE Requests \/ Work
  BY <1>1, RequestsServe, WorkServes, ServesKeeps
<1>2. CASE Tool
  BY <1>2, InspectKeeps, SelectKeeps, BackUpKeeps, CommitKeeps, CancelKeeps, CheckKeeps, RestoreKeeps, DiesKeeps
     DEF Tool
<1>3. CASE UNCHANGED accountVars
  BY <1>3, RestServes, ServesKeeps DEF accountVars, ToolInv
<1> QED
  BY <1>1, <1>2, <1>3 DEF AccountsNext

LEMMA ToolInit == AccountsInit => ToolInv
<1> SUFFICES ASSUME AccountsInit PROVE ToolInv
  OBVIOUS
<1>1. Database(data) /\ Database(copy) /\ Typed(data) /\ Typed(copy)
  BY SeedIsADatabase, TableFacts DEF AccountsInit, Typed, Database, DataType
<1>2. tool \in ToolType /\ tool.said = "nothing" /\ tool.step = "idle" /\ tool.sel \in Names
  BY NoResetType, NamesAssumption DEF AccountsInit
<1>3. AccountsTypeOK
  <2>1. req.op = "none" /\ req.by = NoOne /\ req.late = FALSE
    BY DEF AccountsInit, Idle, Request
  <2>2. since \in 0..MaxSince
    BY NamesAssumption DEF AccountsInit
  <2>3. overtaken \in BOOLEAN
    BY DEF AccountsInit
  <2> QED
    BY <1>1, <1>2, <2>1, <2>2, <2>3 DEF AccountsTypeOK
<1>4. RunInv /\ Told /\ AllOrNothing
  BY <1>2 DEF AccountsInit, RunInv, Told, AllOrNothing, Copied
<1> QED
  BY <1>1, <1>2, <1>3, <1>4, IdleRequest DEF ToolInv, AccountsInit

\* Whatever the services commit beside the tool, and however often, the tool has done
\* what it said last, and with nothing committed beside it has changed one user's
\* password and sessions or nothing at all.
THEOREM ResetsAreWhole == AccountsSpec => []ResetIsWhole
<1>1. ToolInv => ResetIsWhole
  BY DEF ToolInv, ResetIsWhole
<1> QED
  BY <1>1, ToolInit, ToolKeeps, PTL DEF AccountsSpec

-----------------------------------------------------------------------------
(* Accounts: who administers                                               *)

\* Somebody who has not yet changed the password the installation came with is alone.
Fresh(d) ==
  /\ Has(d, Seeded)
  /\ d.users[Seeded].hash = 0 =>
       DOMAIN d.users = {Seeded} /\ d.users[Seeded].must /\ ~d.setup

Fit(d, u) == u \in Admins(d) /\ d.users[Seeded].hash # 0

\* Whoever asked as an administrator is one still, also in the copy that a restore
\* would put back without the request's knowledge; and a copy has an administrator as
\* long as the database has.
AdminInv == ~overtaken =>
  /\ Fresh(data)
  /\ copy # NoCopy => Fresh(copy) /\ (Admins(data) # {} => Admins(copy) # {})
  /\ req.op \in AdminOps /\ ~req.late =>
       Fit(data, req.by) /\ (copy # NoCopy /\ since = 0 => Fit(copy, req.by))

\* A step that gives and takes no access.
Tame ==
  /\ DOMAIN data'.users = DOMAIN data.users
  /\ \A u \in DOMAIN data.users :
       /\ data'.users[u].access = data.users[u].access
       /\ data'.users[u] = data.users[u] \/ data'.users[u].hash # 0
  /\ data'.setup = data.setup

LEMMA TameFacts ==
  ASSUME Tame, Fresh(data)
  PROVE  Fresh(data') /\ Admins(data') = Admins(data) /\ \A u : Fit(data, u) => Fit(data', u)
<1>1. Fresh(data')
  BY DEF Tame, Fresh, Has
<1>2. Admins(data') = Admins(data)
  BY DEF Tame, Admins
<1>3. ASSUME NEW u, Fit(data, u) PROVE Fit(data', u)
  BY <1>2, <1>3 DEF Tame, Fresh, Has, Fit
<1> QED
  BY <1>1, <1>2, <1>3

\* A set-up installation has its password changed.
LEMMA FreshIsPast == ASSUME NEW d, Fresh(d) PROVE PastFirstAccess(d)
  BY DEF Fresh, PastFirstAccess

\* A tame step with the request it had, or with one that administers nothing.
LEMMA TameStep ==
  ASSUME ToolInv, AdminInv, Tame, overtaken' = overtaken,
         \/ copy' = copy /\ (since' = 0 => since = 0)
         \/ copy' = NoCopy,
         req' = req \/ (req'.op \notin AdminOps /\ (req.op \in AdminOps => data' = data))
  PROVE  AdminInv' /\ (AdminKept \/ overtaken')
<1> SUFFICES ASSUME ~overtaken PROVE AdminInv' /\ AdminKept
  BY DEF AdminInv
<1>1. Fresh(data)
  BY DEF AdminInv
<1>2. Fresh(data') /\ Admins(data') = Admins(data) /\ \A u : Fit(data, u) => Fit(data', u)
  BY <1>1, TameFacts
<1>3. AdminKept
  <2>1. ~(req.op \in AdminOps /\ req' = Idle /\ data' # data)
    BY IdleRequest DEF AdminOps
  <2> QED
    BY <1>2, <2>1, FreshIsPast DEF AdminKept
<1>4. AdminInv'
  BY <1>2 DEF AdminInv, Fit, Fresh, Has, Admins
<1> QED
  BY <1>3, <1>4

LEMMA SameUsersAreTame ==
  ASSUME ToolInv, data'.users = data.users, data'.setup = data.setup PROVE Tame
  BY DEF Tame

LEMMA CountsOn ==
  ASSUME ToolInv, NEW d, Commits(d)
  PROVE  /\ data' = d /\ copy' = copy /\ tool' = tool
         /\ since' = 0 => since = 0 /\ (copy # NoCopy => data' = data)
  BY DEF ToolInv, AccountsTypeOK, Commits

LEMMA LogoutAdmin ==
  ASSUME ToolInv, AdminInv, NEW u \in Names, Logout(u)
  PROVE  AdminInv' /\ (AdminKept \/ overtaken')
<1>1. Commits([data EXCEPT !.sessions = @ \ {u}])
  BY DEF Logout
<1>2. data'.users = data.users /\ data'.setup = data.setup
  BY <1>1 DEF Commits, ToolInv, Database, DataType
<1> QED
  BY <1>1, <1>2, CountsOn, SameUsersAreTame, TameStep DEF Logout

LEMMA LoginAdmin ==
  ASSUME ToolInv, AdminInv, Login
  PROVE  AdminInv' /\ (AdminKept \/ overtaken')
<1>1. Commits([data EXCEPT !.sessions = @ \cup {req.by}]) /\ req' = Idle /\ overtaken' = overtaken
  BY DEF Login, Writes, AdminOps, ToolInv, AccountsTypeOK
<1>2. data'.users = data.users /\ data'.setup = data.setup
  BY <1>1 DEF Commits, ToolInv, Database, DataType
<1>3. req'.op \notin AdminOps /\ req.op \notin AdminOps
  BY <1>1, IdleRequest DEF AdminOps, Login, Writes
<1> QED
  BY <1>1, <1>2, <1>3, CountsOn, SameUsersAreTame, TameStep

LEMMA WorkAdmin ==
  ASSUME ToolInv, AdminInv, Work
  PROVE  AdminInv' /\ (AdminKept \/ overtaken')
<1>1. PICK n \in 0..MaxRows : Commits([data EXCEPT !.rows = n])
  BY DEF Work
<1>2. data'.users = data.users /\ data'.setup = data.setup
  BY <1>1 DEF Commits, ToolInv, Database, DataType
<1> QED
  BY <1>1, <1>2, CountsOn, SameUsersAreTame, TameStep DEF Work

LEMMA ChangeAdmin ==
  ASSUME ToolInv, AdminInv, ChangePassword
  PROVE  AdminInv' /\ (AdminKept \/ overtaken')
<1> DEFINE row == [data.users[req.by] EXCEPT !.hash = NewHash(req.by), !.must = FALSE]
           d(f) == Password(data, req.by, row, f)
<1>1. PICK f \in MayBeFirst(req.by) : Writes("change", d(f))
  BY DEF ChangePassword
<1>2. /\ Commits(d(f)) /\ req' = Idle /\ overtaken' = overtaken /\ req.op = "change"
      /\ req.by \in DOMAIN data.users /\ req.by \in Names /\ data.users[req.by] \in UserType
  BY <1>1, TableFacts DEF Writes, AdminOps, ToolInv, AccountsTypeOK, Has
<1>3. NewHash(req.by) \in Hashes
  BY <1>2, NewHashIsNew DEF ToolInv
<1>4. row \in UserType /\ row.hash # 0 /\ row.access = data.users[req.by].access
  <2>1. \A h \in Hashes : h # 0
    BY DEF Hashes
  <2> QED
    BY <1>2, <1>3, <2>1 DEF UserType
<1> HIDE DEF row
<1>5. /\ DOMAIN d(f).users = DOMAIN data.users \cup {req.by} /\ d(f).users[req.by] = row
      /\ \A v \in DOMAIN data.users : v # req.by => d(f).users[v] = data.users[v]
      /\ d(f).setup = data.setup
  BY <1>2, <1>4, SetUserRow, PasswordRow, FirstIsOneOfTwo DEF ToolInv
<1> HIDE DEF d
<1>6. data' = d(f) /\ copy' = copy /\ (since' = 0 => since = 0)
  BY <1>2, CountsOn
<1>7. Tame
  BY <1>2, <1>4, <1>5, <1>6 DEF Tame
<1>8. req'.op \notin AdminOps /\ req.op \notin AdminOps
  BY <1>2, IdleRequest DEF AdminOps
<1> QED
  BY <1>2, <1>6, <1>7, <1>8, TameStep

LEMMA BeginAdmin ==
  ASSUME ToolInv, AdminInv, NEW o \in AdminOps \cup {"change"}, NEW kept \in SUBSET data.sessions, NEW u \in kept,
         BeginRequest(o, u, kept)
  PROVE  AdminInv' /\ (AdminKept \/ overtaken')
<1>1. /\ Commits([data EXCEPT !.sessions = kept]) /\ req' = Request(o, u) /\ overtaken' = overtaken
      /\ u \in DOMAIN data.users
  BY DEF BeginRequest, ToolInv, Database
<1>2. data'.users = data.users /\ data'.setup = data.setup
  BY <1>1 DEF Commits, ToolInv, Database, DataType
<1>3. /\ copy' = copy /\ tool' = tool
      /\ since' = 0 => since = 0 /\ (copy # NoCopy => data' = data)
  BY <1>1, CountsOn
<1>4. CASE overtaken
  BY <1>1, <1>4 DEF AdminInv
<1>5. CASE o \notin AdminOps
  <2>1. req'.op \notin AdminOps /\ req.op \notin AdminOps
    BY <1>1, <1>5, IdleRequest DEF Request, BeginRequest, AdminOps
  <2> QED
    BY <1>1, <1>2, <1>3, <2>1, SameUsersAreTame, TameStep
<1>6. CASE o \in AdminOps /\ ~overtaken
  <2>1. data.users[u].access = "admin" /\ ~data.users[u].must
    BY <1>6 DEF BeginRequest, MayAsk, AdminOps
  <2>2. Fresh(data) /\ (copy # NoCopy => Fresh(copy) /\ (Admins(data) # {} => Admins(copy) # {}))
    BY <1>6 DEF AdminInv
  <2>3. Fresh(data') /\ Admins(data') = Admins(data) /\ \A v : Fit(data, v) => Fit(data', v)
    BY <1>2, <2>2, SameUsersAreTame, TameFacts
  \* Whoever may ask has changed the first password.
  <2>4. \A e : Fresh(e) /\ u \in DOMAIN e.users /\ e.users[u] = data.users[u] => Fit(e, u)
    BY <2>1 DEF Fresh, Fit, Admins
  <2>5. Fit(data', u)
    BY <1>1, <2>2, <2>3, <2>4
  <2>6. copy' # NoCopy /\ since' = 0 => Fit(copy', u)
    <3> SUFFICES ASSUME copy # NoCopy, since' = 0 PROVE Fit(copy, u)
      BY <1>3
    <3>1. IF At("copied") THEN data = copy ELSE ResetDone(data)
      BY <1>3 DEF ToolInv, AllOrNothing
    <3>2. CASE At("copied")
      BY <1>1, <2>2, <2>4, <3>1, <3>2
    <3>3. CASE ~At("copied")
      <4> DEFINE row == [copy.users[tool.sel] EXCEPT !.hash = data.users[tool.sel].hash, !.must = TRUE]
      <4>1. tool.sel \in DOMAIN copy.users
        BY SeedIsADatabase DEF ToolInv, RunInv, Has
      <4>2. data.users = [copy.users EXCEPT ![tool.sel] = row]
        BY <3>1, <3>3 DEF ResetDone, ToolInv, Database, DataType
      <4>3. row.must
        BY <4>1, TableFacts DEF ToolInv, UserType
      <4>4. copy.users = [v \in DOMAIN copy.users |-> copy.users[v]]
        BY TableFacts DEF ToolInv
      <4> HIDE DEF row
      <4>5. u # tool.sel /\ u \in DOMAIN copy.users /\ copy.users[u] = data.users[u]
        BY <1>1, <2>1, <4>1, <4>2, <4>3, <4>4
      <4> QED
        BY <2>2, <2>4, <4>5
    <3> QED
      BY <3>2, <3>3
  <2>7. AdminKept
    BY <2>3, FreshIsPast, IdleRequest DEF AdminKept, BeginRequest, AdminOps
  <2>8. req'.op = o /\ req'.by = u
    BY <1>1 DEF Request
  <2>9. AdminInv'
    BY <1>3, <2>2, <2>3, <2>5, <2>6, <2>8 DEF AdminInv, Fresh, Has, Admins
  <2> QED
    BY <2>7, <2>9
<1> QED
  BY <1>4, <1>5, <1>6

\* A request that writes what only administrators may: it began for one, who still is.
LEMMA WriteAdmin ==
  ASSUME ToolInv, AdminInv, NEW o \in AdminOps, NEW d, Writes(o, d),
         ~overtaken /\ ~req.late /\ Fit(data, req.by) /\ Fresh(data) =>
           Fresh(d) /\ (o # "import" => Admins(d) # {})
  PROVE  AdminInv' /\ (AdminKept \/ overtaken')
<1> SUFFICES ASSUME ~overtaken, ~req.late PROVE AdminInv' /\ AdminKept
  BY DEF Writes, AdminInv
<1>1. Fresh(data) /\ Fit(data, req.by)
  BY DEF AdminInv, Writes
<1>2. data' = d /\ copy' = copy /\ req' = Idle /\ req.op = o
  BY CountsOn DEF Writes
<1>3. Admins(data) # {}
  BY <1>1 DEF Fit
<1>4. AdminKept
  BY <1>1, <1>2, FreshIsPast DEF AdminKept, Fit
<1>5. AdminInv'
  <2>1. req'.op \notin AdminOps
    BY <1>2, IdleRequest DEF AdminOps
  <2> QED
    BY <1>1, <1>2, <1>3, <2>1 DEF AdminInv, Fresh, Has, Admins
<1> QED
  BY <1>4, <1>5

LEMMA SetupAdmin ==
  ASSUME ToolInv, AdminInv, Setup
  PROVE  AdminInv' /\ (AdminKept \/ overtaken')
<1> DEFINE d == [data EXCEPT !.setup = TRUE]
<1>1. d.users = data.users
  BY DEF ToolInv, Database, DataType
<1>2. Writes("setup", d) /\ "setup" \in AdminOps
  BY DEF Setup, AdminOps
<1> HIDE DEF d
<1>3. Fit(data, req.by) /\ Fresh(data) => Fresh(d) /\ Admins(d) # {}
  BY <1>1 DEF Fit, Fresh, Has, Admins
<1> QED
  BY <1>2, <1>3, WriteAdmin

\* One row written by an administrator: another user's, or with the administrator's
\* access kept.
LEMMA RowAdmin ==
  ASSUME ToolInv, Fit(data, req.by), Fresh(data), NEW e, NEW u \in Names, NEW row \in UserType,
         DOMAIN e.users = DOMAIN data.users \cup {u}, e.users[u] = row,
         \A v \in DOMAIN data.users : v # u => e.users[v] = data.users[v],
         Has(data, u) => row.hash = data.users[u].hash \/ row.hash # 0
  PROVE  Fresh(e) /\ (u # req.by \/ row.access = "admin" => Admins(e) # {})
<1>1. Fresh(e)
  BY DEF Fresh, Has, Fit
<1>2. ASSUME u # req.by \/ row.access = "admin" PROVE req.by \in Admins(e)
  BY <1>2 DEF Fit, Admins
<1> QED
  BY <1>1, <1>2

LEMMA CreateAdmin ==
  ASSUME ToolInv, AdminInv, NEW u \in Names, NEW role \in Roles, CreateUser(u, role)
  PROVE  AdminInv' /\ (AdminKept \/ overtaken')
<1> DEFINE row == User(role, NewHash(u))
           d == SetUser(data, u, row)
<1>1. row \in UserType
  <2>1. NewHash(u) \in Hashes
    BY NewHashIsNew DEF ToolInv
  <2> QED
    BY <2>1, UserTypes
<1>2. ~Has(data, u) /\ Writes("users", d) /\ "users" \in AdminOps
  BY DEF CreateUser, AdminOps
<1> HIDE DEF row
<1>3. /\ DOMAIN d.users = DOMAIN data.users \cup {u} /\ d.users[u] = row
      /\ \A v \in DOMAIN data.users : v # u => d.users[v] = data.users[v]
  BY <1>1, SetUserRow DEF ToolInv
<1> HIDE DEF d
<1>4. ASSUME Fit(data, req.by), Fresh(data) PROVE Fresh(d) /\ Admins(d) # {}
  <2>1. u # req.by
    BY <1>2, <1>4 DEF Fit, Admins, Has
  <2> QED
    BY <1>1, <1>2, <1>3, <1>4, <2>1, RowAdmin
<1> QED
  BY <1>2, <1>4, WriteAdmin

LEMMA ImportAdmin ==
  ASSUME ToolInv, AdminInv, NEW u \in Names, NEW access \in Roles \cup {NoAccess}, Import(u, access)
  PROVE  AdminInv' /\ (AdminKept \/ overtaken')
<1> DEFINE old == IF Has(data, u) THEN data.users[u] ELSE User(access, Unknown)
           row == [old EXCEPT !.access = access]
           d == SetUser(data, u, row)
<1>1. old \in UserType
  BY TableFacts, UserTypes DEF Has, ToolInv
<1>2. row \in UserType /\ row.hash = old.hash
  <2> HIDE DEF old
  <2> QED
    BY <1>1, AccessType
<1>3. Writes("import", d) /\ "import" \in AdminOps
  BY DEF Import, AdminOps
<1>4. Has(data, u) => row.hash = data.users[u].hash
  BY <1>2
<1> HIDE DEF row
<1>5. /\ DOMAIN d.users = DOMAIN data.users \cup {u} /\ d.users[u] = row
      /\ \A v \in DOMAIN data.users : v # u => d.users[v] = data.users[v]
  BY <1>2, SetUserRow DEF ToolInv
<1> HIDE DEF d
<1>6. Fit(data, req.by) /\ Fresh(data) => Fresh(d)
  BY <1>2, <1>4, <1>5, RowAdmin
<1> QED
  BY <1>3, <1>6, WriteAdmin

LEMMA UpdateAdmin ==
  ASSUME ToolInv, AdminInv, NEW u \in Names, NEW access \in Roles \cup {NoAccess}, UpdateUser(u, access)
  PROVE  AdminInv' /\ (AdminKept \/ overtaken')
<1> DEFINE kept == [data.users[u] EXCEPT !.access = access]
           d == SetUser(data, u, kept)
           second == [d.users[u] EXCEPT !.hash = NewHash(u), !.must = TRUE]
           e(first) == Password(d, u, second, first)
           f(first) == [e(first) EXCEPT !.sessions = @ \ ({u} \ {req.by})]
<1>1. /\ u \in DOMAIN data.users /\ MayUpdate(u, access)
      /\ Writes("users", d) \/ \E first \in MayBeFirst(u) : Writes("users", f(first))
  BY DEF UpdateUser, Has
<1>2. kept \in UserType /\ kept.hash = data.users[u].hash /\ kept.access = access
  <2>1. data.users[u] \in UserType
    BY <1>1, TableFacts DEF ToolInv
  <2> QED
    BY <2>1, AccessType
<1> HIDE DEF kept, d, e, f
<1>3. /\ Database(d) /\ DOMAIN d.users = DOMAIN data.users \cup {u} /\ d.users[u] = kept
      /\ \A v \in DOMAIN data.users : v # u => d.users[v] = data.users[v]
  BY <1>2, SetUserRow DEF d, ToolInv
<1>4. second \in UserType /\ second.hash # 0 /\ second.access = access
  <2>1. NewHash(u) \in Hashes
    BY NewHashIsNew DEF ToolInv
  <2>2. \A h \in Hashes : h # 0
    BY DEF Hashes
  <2> QED
    BY <1>2, <1>3, <2>1, <2>2 DEF UserType
<1> HIDE DEF second
<1>5. ASSUME NEW first \in MayBeFirst(u)
      PROVE  /\ DOMAIN f(first).users = DOMAIN data.users \cup {u} /\ f(first).users[u] = second
             /\ \A v \in DOMAIN data.users : v # u => f(first).users[v] = data.users[v]
  <2>1. Database(e(first)) /\ e(first).users = SetUser(d, u, second).users
    BY <1>3, <1>4, FirstIsOneOfTwo, PasswordRow DEF e
  <2>2. /\ DOMAIN e(first).users = DOMAIN d.users \cup {u} /\ e(first).users[u] = second
        /\ \A v \in DOMAIN d.users : v # u => e(first).users[v] = d.users[v]
    BY <1>3, <1>4, <2>1, SetUserRow
  <2>3. f(first).users = e(first).users
    BY <2>1 DEF f, Database, DataType
  <2> QED
    BY <1>3, <2>2, <2>3
<1>8. "users" \in AdminOps
  BY DEF AdminOps
<1>9. Fit(data, req.by) /\ Fresh(data) => Fresh(d) /\ Admins(d) # {}
  BY <1>1, <1>2, <1>3, RowAdmin DEF MayUpdate
<1>10. ASSUME NEW first \in MayBeFirst(u)
       PROVE  Fit(data, req.by) /\ Fresh(data) => Fresh(f(first)) /\ Admins(f(first)) # {}
  BY <1>1, <1>4, <1>5, RowAdmin DEF MayUpdate
<1> QED
  BY <1>1, <1>8, <1>9, <1>10, WriteAdmin

LEMMA CommitAdmin ==
  ASSUME ToolInv, AdminInv, Commit
  PROVE  AdminInv' /\ (AdminKept \/ overtaken')
<1> DEFINE u == tool.sel
           row == [data.users[u] EXCEPT !.hash = NewHash(u), !.must = TRUE]
           d == SetUser(data, u, row)
<1>1. u \in Names /\ u \in DOMAIN data.users
  BY DEF Commit, At, ToolInv, RunInv, Has, ToolType
<1>2. row \in UserType /\ row.hash # 0 /\ row.access = data.users[u].access
  <2>1. data.users[u] \in UserType /\ NewHash(u) \in Hashes
    BY <1>1, TableFacts, NewHashIsNew DEF ToolInv
  <2>2. \A h \in Hashes : h # 0
    BY DEF Hashes
  <2> QED
    BY <2>1, <2>2 DEF UserType
<1> HIDE DEF row
<1>3. /\ Database(d) /\ DOMAIN d.users = DOMAIN data.users \cup {u} /\ d.users[u] = row
      /\ \A v \in DOMAIN data.users : v # u => d.users[v] = data.users[v]
      /\ d.setup = data.setup
  BY <1>1, <1>2, SetUserRow DEF ToolInv
<1>4. PICK f \in BOOLEAN : data' = [Password(data, u, row, f) EXCEPT !.sessions = @ \ {u}]
  BY FirstIsOneOfTwo DEF Commit, Reset, row
<1>5. data'.users = d.users /\ data'.setup = d.setup
  <2> DEFINE e == Password(data, u, row, f)
  <2>1. Database(e) /\ e.users = d.users /\ e.setup = d.setup
    BY <1>1, <1>2, <1>3, PasswordRow DEF ToolInv
  <2>2. data' = [e EXCEPT !.sessions = @ \ {u}]
    BY <1>4
  <2> HIDE DEF e, d
  <2> QED
    BY <2>1, <2>2 DEF Database, DataType
<1> HIDE DEF d
<1>6. Tame
  BY <1>1, <1>2, <1>3, <1>5 DEF Tame
<1> QED
  BY <1>6, TameStep DEF Commit

LEMMA BackUpAdmin ==
  ASSUME ToolInv, AdminInv, BackUp
  PROVE  AdminInv' /\ (AdminKept \/ overtaken')
<1>1. copy' = data /\ UNCHANGED <<data, req, since, overtaken>>
  BY DEF BackUp
<1>2. AdminKept
  BY <1>1 DEF AdminKept
<1> QED
  BY <1>1, <1>2 DEF AdminInv, Fresh, Fit, Has, Admins

\* A restore puts back what has an administrator, and the request's if it does not know.
LEMMA RestoreAdmin ==
  ASSUME ToolInv, AdminInv, Restore
  PROVE  AdminInv' /\ (AdminKept \/ overtaken')
<1> SUFFICES ASSUME ~overtaken PROVE AdminInv' /\ AdminKept
  BY DEF Restore, AdminInv
<1>1. Has(copy, tool.sel)
  BY DEF Restore, At, ToolInv, RunInv, Copied
<1>2. copy # NoCopy
  BY <1>1, HasCopy
<1>3. data' = copy /\ copy' = NoCopy
  BY DEF Restore, Says, Ends
<1>4. Fresh(copy) /\ (Admins(data) # {} => Admins(copy) # {})
  BY <1>2 DEF AdminInv
<1>5. AdminKept
  <2>1. req'.op = req.op
    BY DEF Restore, ToolInv
  <2> QED
    BY <1>3, <1>4, <2>1, FreshIsPast, IdleRequest DEF AdminKept, AdminOps
<1>6. ASSUME req'.op \in AdminOps, ~req'.late PROVE Fit(data, req.by)' 
  <2>1. req'.op = req.op /\ req'.by = req.by /\ req'.late = (req.late \/ (req # Idle /\ since > 0))
    BY DEF Restore, ToolInv
  <2>2. req # Idle
    BY <1>6, <2>1, IdleRequest DEF AdminOps
  <2>3. ~req.late /\ ~(since > 0)
    BY <1>6, <2>1, <2>2
  <2>4. since = 0
    BY <2>3 DEF ToolInv, AccountsTypeOK
  <2> QED
    BY <1>2, <1>3, <1>6, <2>1, <2>3, <2>4 DEF AdminInv, Fit, Admins
<1>7. AdminInv'
  BY <1>3, <1>4, <1>6 DEF AdminInv, Fresh, Has
<1> QED
  BY <1>5, <1>7

LEMMA RestAdmin ==
  ASSUME ToolInv, AdminInv, UNCHANGED <<data, overtaken>>,
         copy' = NoCopy \/ UNCHANGED <<copy, since>>,
         req' = req \/ req'.op \notin AdminOps
  PROVE  AdminInv' /\ (AdminKept \/ overtaken')
  BY SameUsersAreTame, TameStep

LEMMA AdminStep ==
  ASSUME ToolInv, AdminInv, [AccountsNext]_accountVars
  PROVE  AdminInv' /\ (AdminKept \/ overtaken')
<1>1. ASSUME NEW o \in AdminOps \cup {"change"}, NEW kept \in SUBSET data.sessions, NEW u \in kept,
             BeginRequest(o, u, kept)
      PROVE  AdminInv' /\ (AdminKept \/ overtaken')
  BY <1>1, BeginAdmin
<1>2. ASSUME NEW u \in Names, BeginLogin(u) PROVE AdminInv' /\ (AdminKept \/ overtaken')
  BY <1>2, RestAdmin DEF BeginLogin, Request, AdminOps
<1>3. ASSUME NEW u \in Names, Logout(u) PROVE AdminInv' /\ (AdminKept \/ overtaken')
  BY <1>3, LogoutAdmin
<1>4. ASSUME NEW u \in Names, NEW role \in Roles, CreateUser(u, role)
      PROVE  AdminInv' /\ (AdminKept \/ overtaken')
  BY <1>4, CreateAdmin
<1>5. ASSUME NEW u \in Names, NEW access \in Roles \cup {NoAccess}, UpdateUser(u, access) \/ Import(u, access)
      PROVE  AdminInv' /\ (AdminKept \/ overtaken')
  BY <1>5, UpdateAdmin, ImportAdmin
<1>6. CASE GiveUp
  BY <1>6, RestAdmin, IdleRequest DEF GiveUp, AdminOps
<1>7. CASE Requests
  BY <1>1, <1>2, <1>3, <1>4, <1>5, <1>6, <1>7, LoginAdmin, ChangeAdmin, SetupAdmin DEF Requests
<1>8. ASSUME NEW u \in Names, Inspect(u) PROVE AdminInv' /\ (AdminKept \/ overtaken')
  BY <1>8, RestAdmin DEF Inspect
<1>9. CASE Select
  BY <1>9, RestAdmin DEF Select
<1>10. CASE Cancel \/ Check \/ Dies
  BY <1>10, RestAdmin DEF Cancel, Check, Dies, Says, Ends
<1>11. CASE Tool
  BY <1>8, <1>9, <1>10, <1>11, BackUpAdmin, CommitAdmin, RestoreAdmin DEF Tool
<1>12. CASE UNCHANGED accountVars
  BY <1>12, RestAdmin DEF accountVars
<1> QED
  BY <1>7, <1>11, <1>12, WorkAdmin DEF AccountsNext

LEMMA AdminInit == AccountsInit => AdminInv
<1> SUFFICES ASSUME AccountsInit PROVE AdminInv
  OBVIOUS
<1>1. DOMAIN Seed.users = {Seeded} /\ Seed.users[Seeded] = User("admin", 0) /\ Seed.setup = FALSE
  BY DEF Seed
<1>2. Fresh(data)
  BY <1>1 DEF AccountsInit, Fresh, Has, User
<1>3. req.op \notin AdminOps
  BY IdleRequest DEF AccountsInit, AdminOps
<1> QED
  BY <1>2, <1>3 DEF AdminInv, AccountsInit

\* However many requests fall between the tool's steps: what only administrators may
\* is written for one who is; an installation that is set up has had its first hash
\* replaced; and it keeps an administrator but for an import; all of this until a
\* request that the tool has overtaken writes.
THEOREM AlwaysAdministered == AccountsSpec => Administered
<1>1. ToolInv /\ AdminInv /\ [AccountsNext]_accountVars => ToolInv' /\ AdminInv'
  BY ToolKeeps, AdminStep
<1>2. ToolInv /\ AdminInv /\ [AccountsNext]_accountVars => [AdminKept \/ overtaken']_accountVars
  BY AdminStep
<1> QED
  BY <1>1, <1>2, ToolInit, AdminInit, PTL DEF AccountsSpec, Administered
=============================================================================
