------------------------- MODULE InstallationProofs -------------------------
(***************************************************************************)
(* Theorems about an installation and their proofs.                        *)
(*                                                                         *)
(* Schema: the recorded migrations are a beginning of the manifest, the    *)
(* data is kept and served, and a migration begins with a copy.            *)
(*                                                                         *)
(* ServerSetup, with FtpAccounts: what a script refuses or takes back it   *)
(* leaves as it was, and the server agrees with the rows of the receiving  *)
(* accounts.                                                               *)
(***************************************************************************)
EXTENDS Schema, ServerSetup, SequenceTheorems, FiniteSetTheorems, TLAPS


-----------------------------------------------------------------------------
(* Schema: the inductive invariant                                         *)

\* What the guard keeps and restores opens and is sound; no file has the data of
\* the system without the record of its migrations.
Recordless(c) == c.versions = {} /\ ~c.data
Whole(c) == c.exists /\ c.sound /\ (c.data => c.versions # {})
Restoring == {"stopped", "replaced"}
Restored == {"replaced", "copied"}

\* Who migrates has the lock; what it has still to apply ends the manifest.
LockInv ==
  \A p \in Migrators :
    /\ pc[p] \in {"examine", "backup", "open", "apply", "done"} => lock = p
    /\ IsBeginning(Versions \ pending[p])

\* Who has a file open applies migrations to it.
Connected(p) ==
  /\ conn[p] # "none" => pc[p] = "apply"
  /\ conn[p] = "live" => live.exists

\* What the guard has moved aside it keeps until it is done.
FileInv ==
  /\ ~live.exists => Recordless(live)
  /\ live.data => live.versions # {}
  /\ evidence.data => evidence.versions # {}
  /\ gpc \in Restored => evidence.exists
  /\ \A p \in Migrators : Connected(p)

CopyInv ==
  /\ auto # <<>>
  /\ \A i \in DOMAIN auto : Whole(auto[i])
  /\ gpc \in Restoring => Whole(sel)

\* As long as the guard has replaced the file under no migrate, every file that
\* may come into use has a beginning, and who migrates has the rest before it.
Ready(p) ==
  /\ pc[p] \in {"backup", "open", "apply"} => pending[p] = Missing(live.versions)
  /\ pc[p] = "apply" => conn[p] = "live"

OrderInv ==
  /\ IsBeginning(live.versions)
  /\ \A i \in DOMAIN auto : IsBeginning(auto[i].versions)
  /\ gpc \in Restoring => IsBeginning(sel.versions)
  /\ IsBeginning(evidence.versions)
  /\ \A p \in Migrators : Ready(p)

\* As long as the guard was not killed between two steps, every copy has the
\* data, and so has the file, but for the time when it is moved aside.
DataInv ==
  /\ \A i \in DOMAIN auto : auto[i].data
  /\ gpc # "replaced" => live.exists /\ live.data
  /\ gpc \in Restoring => sel.data
  /\ gpc \in Restored => evidence.data

\* The copy that a migration of the system's database begins with.
CopyBefore == \E vs \in saved : vs \subseteq live.versions

Backed(p) == pc[p] \in {"open", "apply"} /\ pending[p] # {} /\ live.data => CopyBefore

BackInv ==
  /\ gpc = "replaced" => ~live.data
  /\ swapped \/ \A p \in Migrators : Backed(p)

IInv ==
  /\ TypeOK /\ LockInv /\ FileInv /\ CopyInv
  /\ swapped \/ OrderInv
  /\ Torn \/ DataInv
  /\ BackInv

-----------------------------------------------------------------------------
(* Schema: files and backups                                               *)

LEMMA FileUpdates ==
  \A c \in Content :
    /\ LET n == [c EXCEPT !.seeded = TRUE] IN
         n \in Content /\ n.versions = c.versions /\ n.exists = c.exists /\ n.data = c.data
    /\ LET n == [c EXCEPT !.sound = FALSE] IN
         n \in Content /\ n.versions = c.versions /\ n.exists = c.exists /\ n.data = c.data
    /\ LET n == [c EXCEPT !.tied = FALSE] IN
         n \in Content /\ n.versions = c.versions /\ n.exists = c.exists /\ n.data = c.data
BY DEF Content

LEMMA MigratedFact ==
  ASSUME NEW c \in Content, NEW v \in Versions
  PROVE  /\ Migrated(c, v) \in Content /\ Migrated(c, v).versions = c.versions \cup {v}
         /\ Migrated(c, v).exists = c.exists /\ Migrated(c, v).data = c.data
BY DEF Content, Migrated

LEMMA NewFiles ==
  /\ NoFile \in Content /\ Recordless(NoFile) /\ ~NoFile.exists
  /\ EmptyFile \in Content /\ Recordless(EmptyFile) /\ EmptyFile.exists
<1>1. NoFile \in Content /\ Recordless(NoFile) /\ ~NoFile.exists
  BY DEF NoFile, Content, Recordless
<1>2. \A c \in Content : LET n == [c EXCEPT !.exists = TRUE, !.sound = TRUE, !.tied = TRUE] IN
        n \in Content /\ n.exists /\ n.versions = c.versions /\ n.data = c.data
  BY DEF Content
<1>3. /\ EmptyFile \in Content /\ EmptyFile.exists
      /\ EmptyFile.versions = NoFile.versions /\ EmptyFile.data = NoFile.data
  BY <1>1, <1>2 DEF EmptyFile
<1> QED
  BY <1>1, <1>3 DEF Recordless

LEMMA EmptyIsBeginning == IsBeginning({})
<1>1. {} = 1..0 /\ 0 \in 0..Release
  BY SchemaAssumption
<1> QED
  BY <1>1 DEF IsBeginning

LEMMA AllIsBeginning == IsBeginning(Versions \ {})
<1>1. Versions \ {} = 1..Release /\ Release \in 0..Release
  BY SchemaAssumption DEF Versions
<1> QED
  BY <1>1 DEF IsBeginning

\* Connecting changes nothing but that there is a file.
LEMMA OpenedFact ==
  ASSUME live \in Content, FileInv
  PROVE  /\ Opened \in Content /\ Opened.exists
         /\ Opened.versions = live.versions /\ Opened.data = live.data
         /\ live.exists => Opened = live
<1>1. CASE live.exists
  BY <1>1 DEF Opened
<1>2. CASE ~live.exists
  <2>1. Opened = EmptyFile /\ Recordless(live)
    BY <1>2 DEF Opened, FileInv
  <2>2. Opened.data \in BOOLEAN /\ live.data \in BOOLEAN
    BY <2>1, NewFiles DEF Content
  <2> QED
    BY <1>2, <2>1, <2>2, NewFiles DEF Recordless
<1> QED
  BY <1>1, <1>2

\* The newest Keep of a sequence that has one more at most.
LEMMA TrimFact ==
  ASSUME NEW s \in Seq(Content), NEW c \in Content
  PROVE  LET t == Trim(Append(s, c)) IN
           /\ t \in Seq(Content) /\ Len(t) <= Keep /\ t # <<>>
           /\ \A i \in DOMAIN t : t[i] = c \/ \E j \in DOMAIN s : t[i] = s[j]
<1> DEFINE a == Append(s, c)
           m == IF Len(a) > Keep THEN Len(a) - Keep + 1 ELSE 1
           t == SubSeq(a, m, Len(a))
<1>1. a \in Seq(Content) /\ Len(a) = Len(s) + 1 /\ Len(s) \in Nat
  OBVIOUS
<1>2. \A i \in 1..Len(a) : a[i] \in Content /\ (a[i] = c \/ \E j \in DOMAIN s : a[i] = s[j])
  OBVIOUS
<1>3. Keep \in Nat \ {0} /\ m \in 1..Len(a) /\ Len(a) - m + 1 <= Keep /\ Len(a) \in Nat
  BY <1>1, SchemaAssumption
<1> HIDE DEF a, m
<1>4. /\ t \in Seq(Content) /\ Len(t) = Len(a) - m + 1
      /\ \A i \in 1..(Len(a) - m + 1) : t[i] = a[m + i - 1]
  BY <1>2, <1>3, SubSeqProperties
<1>5. t # <<>>
  <2>1. Len(t) # 0
    BY <1>3, <1>4
  <2> HIDE DEF t
  <2> QED
    BY <2>1
<1>6. DOMAIN t = 1..(Len(a) - m + 1)
  BY <1>4
<1>7. \A i \in DOMAIN t : m + i - 1 \in 1..Len(a)
  BY <1>3, <1>6
<1>8. \A i \in DOMAIN t : t[i] = c \/ \E j \in DOMAIN s : t[i] = s[j]
  BY <1>2, <1>4, <1>6, <1>7
<1>9. Trim(a) = t
  BY DEF Trim, m
<1>10. Len(t) <= Keep
  BY <1>3, <1>4
<1> QED
  BY <1>4, <1>5, <1>8, <1>9, <1>10 DEF a

\* The first missing migration continues a beginning.
LEMMA Continues ==
  ASSUME NEW vs \in SUBSET Versions, IsBeginning(vs), Missing(vs) # {}
  PROVE  /\ Least(Missing(vs)) \in Missing(vs)
         /\ IsBeginning(vs \cup {Least(Missing(vs))})
         /\ Missing(vs \cup {Least(Missing(vs))}) = Missing(vs) \ {Least(Missing(vs))}
<1>1. PICK n \in 0..Release : vs = 1..n
  BY DEF IsBeginning
<1>2. n < Release
  BY <1>1, SchemaAssumption DEF Missing, Versions
<1>3. Missing(vs) = (n + 1)..Release
  BY <1>1, <1>2, SchemaAssumption DEF Missing, Versions
<1>4. n + 1 \in Missing(vs) /\ \A w \in Missing(vs) : n + 1 <= w
  BY <1>2, <1>3, SchemaAssumption
<1>5. Least(Missing(vs)) = n + 1
  <2>1. \A v \in Missing(vs) : (\A w \in Missing(vs) : v <= w) => v = n + 1
    BY <1>3, <1>4, SchemaAssumption
  <2> QED
    BY <1>4, <2>1 DEF Least
<1>6. vs \cup {n + 1} = 1..(n + 1) /\ n + 1 \in 0..Release
  BY <1>1, <1>2, SchemaAssumption
<1> QED
  BY <1>4, <1>5, <1>6 DEF IsBeginning, Missing

-----------------------------------------------------------------------------
(* Schema: every step keeps the invariant                                  *)

LEMMA FirstState == Init => IInv
<1> SUFFICES ASSUME Init PROVE IInv
  OBVIOUS
<1>1. PICK n \in Versions :
        LET db == [exists |-> TRUE, versions |-> 1..n, seeded |-> TRUE, data |-> TRUE, sound |-> TRUE, tied |-> TRUE] IN
          live \in {db, [db EXCEPT !.sound = FALSE], [db EXCEPT !.tied = FALSE]} /\ auto = <<db>>
  BY DEF Init
<1> DEFINE db == [exists |-> TRUE, versions |-> 1..n, seeded |-> TRUE, data |-> TRUE, sound |-> TRUE, tied |-> TRUE]
<1>2. n \in 0..Release /\ 1 \in 1..n /\ 1..n \subseteq Versions /\ 1 <= Keep
  BY SchemaAssumption DEF Versions
<1>3. db \in Content /\ db.versions = 1..n /\ Whole(db) /\ db.data
  BY <1>2 DEF Content, Whole
<1>4. live \in Content /\ live.versions = 1..n /\ live.exists /\ live.data
  <2>1. CASE live = db
    BY <1>3, <2>1 DEF Whole
  <2>2. CASE live = [db EXCEPT !.sound = FALSE]
    BY <1>3, <2>2, FileUpdates DEF Whole
  <2>3. CASE live = [db EXCEPT !.tied = FALSE]
    BY <1>3, <2>3, FileUpdates DEF Whole
  <2> QED
    BY <1>1, <2>1, <2>2, <2>3
<1>5. auto = <<db>>
  BY <1>1
<1> HIDE DEF db
<1>6. auto \in Seq(Content) /\ Len(auto) = 1 /\ auto # <<>> /\ DOMAIN auto = {1} /\ auto[1] = db
  BY <1>3, <1>5
<1>7. TypeOK
  <2>1. live \in Content /\ sel \in Content /\ evidence \in Content /\ auto \in Seq(Content) /\ Len(auto) <= Keep
    BY <1>2, <1>4, <1>6, NewFiles DEF Init
  <2>2. saved \subseteq SUBSET Versions /\ lock \in Migrators \cup {NoOne} /\ faults \in 0..MaxFaults
    BY SchemaAssumption DEF Init
  <2>3. /\ pc \in [Migrators -> {"idle", "quiesce", "copy", "lock", "examine", "backup", "open", "apply", "done", "restart"}]
        /\ pending \in [Migrators -> SUBSET Versions]
        /\ conn \in [Migrators -> {"none", "live", "old"}]
    BY DEF Init
  <2> QED
    BY <2>1, <2>2, <2>3 DEF Init, TypeOK
<1>8. LockInv /\ FileInv /\ CopyInv
  BY AllIsBeginning, NewFiles, <1>2, <1>3, <1>4, <1>6
     DEF Init, LockInv, FileInv, Connected, CopyInv, Restoring, Restored, Recordless
<1>9. OrderInv
  <2>1. IsBeginning(evidence.versions)
    BY NewFiles, EmptyIsBeginning DEF Init, Recordless
  <2> QED
    BY <1>2, <1>3, <1>4, <1>6, <2>1 DEF Init, OrderInv, Ready, IsBeginning, Restoring
<1>10. DataInv /\ BackInv
  BY <1>3, <1>4, <1>6 DEF Init, DataInv, BackInv, Backed, Restoring, Restored
<1> QED
  BY <1>7, <1>8, <1>9, <1>10 DEF IInv

\* A file with the same migrations and data, which exists if it did.
Alike ==
  /\ live' \in Content
  /\ live'.versions = live.versions /\ (live'.data <=> live.data)
  /\ live.exists => live'.exists

\* What one process does that leaves the files alike.
OneStep(p) ==
  /\ \A q \in Migrators \ {p} : pc'[q] = pc[q] /\ conn'[q] = conn[q] /\ pending'[q] = pending[q]
  /\ UNCHANGED <<auto, gpc, sel, evidence, died, swapped>>
  /\ saved \subseteq saved'

LEMMA AlikeKeeps ==
  ASSUME IInv, Alike, NEW p \in Migrators, OneStep(p), TypeOK', LockInv', Connected(p)',
         swapped \/ (Ready(p)' /\ Backed(p)')
  PROVE  IInv'
<1>1. FileInv'
  BY DEF IInv, FileInv, Recordless, Connected, Restored, Alike, OneStep
<1>2. CopyInv'
  BY DEF IInv, CopyInv, Whole, Restoring, OneStep
<1>3. (swapped \/ OrderInv)'
  BY DEF IInv, OrderInv, Ready, Restoring, Alike, OneStep
<1>4. (Torn \/ DataInv)'
  BY DEF IInv, DataInv, Torn, Restoring, Restored, Alike, OneStep
<1>5. BackInv'
  BY DEF IInv, BackInv, Backed, CopyBefore, Alike, OneStep
<1> QED
  BY <1>1, <1>2, <1>3, <1>4, <1>5 DEF IInv

\* A process that ends has nothing left to show.
LEMMA StopKeeps ==
  ASSUME IInv, NEW p \in Migrators, Stop(p), Alike, UNCHANGED <<auto, gpc, sel, evidence, died, swapped, faults>>,
         saved' \subseteq SUBSET Versions, saved \subseteq saved', services' \in BOOLEAN, timer' \in BOOLEAN
  PROVE  IInv'
<1>1. TypeOK'
  BY DEF IInv, TypeOK, Stop, Goto, Alike
<1>2. LockInv'
  BY AllIsBeginning DEF IInv, TypeOK, LockInv, Stop, Goto
<1>3. Connected(p)' /\ Ready(p)' /\ Backed(p)' /\ OneStep(p)
  BY DEF IInv, TypeOK, Connected, Ready, Backed, OneStep, Stop, Goto
<1> QED
  BY <1>1, <1>2, <1>3, AlikeKeeps

LEMMA SameIsAlike == ASSUME IInv, UNCHANGED live PROVE Alike
BY DEF IInv, TypeOK, Alike

LEMMA UsableFact == ASSUME IInv PROVE Usable(live) \subseteq SUBSET Versions
BY DEF IInv, TypeOK, Content, Usable

-----------------------------------------------------------------------------
(* Schema: a migration                                                     *)

LEMMA BeginKeeps == ASSUME IInv, NEW p \in Migrators, Begin(p) PROVE IInv'
<1>1. Alike
  BY OpenedFact, SameIsAlike DEF IInv, TypeOK, Begin, Alike
<1>2. /\ pc' = pc \/ pc' = [pc EXCEPT ![p] = "quiesce"] \/ pc' = [pc EXCEPT ![p] = "lock"]
      /\ UNCHANGED <<saved, lock, pending, conn, auto, gpc, sel, evidence, services, timer, faults, died, swapped>>
  BY DEF Begin, Goto, Guard, World
<1>3. TypeOK'
  BY <1>1, <1>2 DEF IInv, TypeOK, Alike
<1>4. LockInv'
  BY <1>2 DEF IInv, TypeOK, LockInv
<1>5. Connected(p)' /\ Ready(p)' /\ Backed(p)' /\ OneStep(p)
  BY <1>2 DEF IInv, TypeOK, FileInv, Connected, Ready, Backed, OneStep, Begin, Goto
<1> QED
  BY <1>1, <1>3, <1>4, <1>5, AlikeKeeps

\* The deployment stops the guard, wherever it is.
LEMMA QuiesceKeeps == ASSUME IInv, NEW p \in Migrators, Quiesce(p) PROVE IInv'
<1>1. TypeOK'
  BY NewFiles DEF IInv, TypeOK, Quiesce, Goto
<1>2. LockInv' /\ FileInv'
  BY NewFiles DEF Restored, IInv, TypeOK, LockInv, FileInv, Connected, Recordless, Quiesce, Goto
<1>3. CopyInv'
  BY DEF IInv, CopyInv, Whole, Restoring, Quiesce
<1>4. (swapped \/ OrderInv)'
  BY NewFiles, EmptyIsBeginning DEF IInv, TypeOK, OrderInv, Ready, Recordless, Restoring, Quiesce, Goto
<1>5. (Torn \/ DataInv)'
  BY DEF Restored, IInv, TypeOK, DataInv, Torn, Restoring, Quiesce
<1>6. BackInv'
  BY DEF IInv, TypeOK, BackInv, Backed, CopyBefore, Quiesce, Goto
<1> QED
  BY <1>1, <1>2, <1>3, <1>4, <1>5, <1>6 DEF IInv

LEMMA CopyDatabaseKeeps == ASSUME IInv, NEW p \in Migrators, CopyDatabase(p) PROVE IInv'
<1>1. Alike
  BY SameIsAlike DEF CopyDatabase
<1>2. TypeOK'
  BY UsableFact DEF IInv, TypeOK, CopyDatabase, Goto, Guard, World
<1>3. LockInv'
  BY DEF IInv, TypeOK, LockInv, CopyDatabase, Goto
<1>4. Connected(p)' /\ Ready(p)' /\ Backed(p)' /\ OneStep(p)
  BY DEF Restored, IInv, TypeOK, FileInv, Connected, Ready, Backed, OneStep, CopyDatabase, Goto, Guard, World
<1> QED
  BY <1>1, <1>2, <1>3, <1>4, AlikeKeeps

LEMMA LockKeeps == ASSUME IInv, NEW p \in Migrators, Lock(p) PROVE IInv'
<1>1. Alike
  BY SameIsAlike DEF Lock
<1>2. TypeOK'
  BY DEF IInv, TypeOK, Lock, Goto, Guard, World
<1>3. LockInv'
  BY SchemaAssumption DEF IInv, TypeOK, LockInv, Lock, Goto
<1>4. Connected(p)' /\ Ready(p)' /\ Backed(p)' /\ OneStep(p)
  BY DEF Restored, IInv, TypeOK, FileInv, Connected, Ready, Backed, OneStep, Lock, Goto, Guard, World
<1> QED
  BY <1>1, <1>2, <1>3, <1>4, AlikeKeeps

\* Without a record of migrations the file is not the system's, so a database
\* that has its data is copied before anything is applied to it.
LEMMA ExamineKeeps == ASSUME IInv, NEW p \in Migrators, Examine(p) PROVE IInv'
<1> DEFINE todo == Missing(live.versions)
<1>1. Alike
  BY SameIsAlike DEF Examine
<1>2. UNCHANGED <<saved, auto, gpc, sel, evidence, services, timer, faults, died, swapped>>
  BY DEF Examine, Guard, World
<1>3. CASE Stop(p)
  BY <1>1, <1>2, <1>3, StopKeeps DEF IInv, TypeOK
<1>4. ASSUME pc[p] = "examine", todo = {}, Goto(p, "done"), UNCHANGED <<lock, pending, conn>>
      PROVE  IInv'
  <2>1. TypeOK' /\ LockInv'
    BY <1>1, <1>2, <1>4 DEF IInv, TypeOK, LockInv, Goto, Alike
  <2>2. Connected(p)' /\ Ready(p)' /\ Backed(p)' /\ OneStep(p)
    BY <1>2, <1>4 DEF Restored, IInv, TypeOK, FileInv, Connected, Ready, Backed, OneStep, Goto
  <2> QED
    BY <1>1, <2>1, <2>2, AlikeKeeps
<1>5. ASSUME pc[p] = "examine", pending' = [pending EXCEPT ![p] = todo], IsBeginning(live.versions), UNCHANGED <<lock, conn>>,
             ((todo = {} \/ live.versions = {}) /\ Goto(p, "open")) \/ Goto(p, "backup")
      PROVE  IInv'
  <2>1. todo \in SUBSET Versions /\ Versions \ todo = live.versions
    BY DEF IInv, TypeOK, Content, Missing
  <2>2. TypeOK' /\ LockInv'
    BY <1>1, <1>2, <1>5, <2>1 DEF IInv, TypeOK, LockInv, Goto, Alike
  <2>3. pending'[p] = todo /\ pc'[p] \in {"backup", "open"} /\ (pc'[p] = "open" => todo = {} \/ live.versions = {})
    BY <1>5 DEF IInv, TypeOK, Goto
  <2>4. Connected(p)' /\ OneStep(p)
    BY <1>2, <1>5, <2>3 DEF Restored, IInv, TypeOK, FileInv, Connected, OneStep, Goto
  <2>5. Ready(p)' /\ Backed(p)'
    BY <1>1, <2>3 DEF Restored, IInv, FileInv, Ready, Backed, Alike
  <2> QED
    BY <1>1, <2>2, <2>4, <2>5, AlikeKeeps
<1> QED
  BY <1>3, <1>4, <1>5 DEF Examine

LEMMA BackUpKeeps == ASSUME IInv, NEW p \in Migrators, BackUp(p) PROVE IInv'
<1>1. Alike
  BY SameIsAlike DEF BackUp
<1>2. UNCHANGED <<live, auto, gpc, sel, evidence, services, timer, faults, died, swapped>> /\ pc[p] = "backup"
  BY DEF BackUp, Guard, World
<1>3. CASE Stop(p) /\ UNCHANGED saved
  BY <1>1, <1>2, <1>3, StopKeeps DEF IInv, TypeOK
<1>4. ASSUME Verified(live), saved' = saved \cup Usable(live), Goto(p, "open"), UNCHANGED <<lock, pending, conn>>
      PROVE  IInv'
  <2>1. TypeOK' /\ LockInv'
    BY <1>2, <1>4, UsableFact DEF IInv, TypeOK, LockInv, Goto
  <2>2. Connected(p)' /\ OneStep(p)
    BY <1>2, <1>4 DEF Restored, IInv, TypeOK, FileInv, Connected, OneStep, Goto
  <2>3. swapped \/ Ready(p)'
    BY <1>2, <1>4 DEF IInv, TypeOK, OrderInv, Ready, Goto
  <2>4. live.data => live.versions \in saved'
    BY <1>4 DEF Verified, Usable
  <2>5. Backed(p)'
    BY <1>2, <2>4 DEF Backed, CopyBefore
  <2> QED
    BY <1>1, <2>1, <2>2, <2>3, <2>5, AlikeKeeps
<1> QED
  BY <1>3, <1>4 DEF BackUp

LEMMA OpenKeeps == ASSUME IInv, NEW p \in Migrators, Open(p) PROVE IInv'
<1>1. Alike /\ live'.exists
  BY OpenedFact DEF IInv, TypeOK, Open, Alike
<1>2. TypeOK' /\ LockInv'
  BY <1>1 DEF IInv, TypeOK, LockInv, Open, Goto, Guard, World, Alike
<1>3. pc'[p] = "apply" /\ conn'[p] = "live" /\ pc[p] = "open" /\ pending'[p] = pending[p] /\ OneStep(p)
  BY DEF IInv, TypeOK, OneStep, Open, Goto, Guard, World
<1>4. Connected(p)'
  BY <1>1, <1>3 DEF Connected
<1>5. swapped \/ Ready(p)'
  BY <1>1, <1>3 DEF IInv, OrderInv, Ready, Alike
<1>6. swapped \/ Backed(p)'
  BY <1>1, <1>3 DEF IInv, BackInv, Backed, CopyBefore, Alike, Open
<1> QED
  BY <1>1, <1>2, <1>3, <1>4, <1>5, <1>6, AlikeKeeps

\* The migration that is applied next is the first of those still missing.
LEMMA NextMigration ==
  ASSUME IInv, NEW p \in Migrators, pending[p] # {}
  PROVE  LET v == Least(pending[p]) IN
           /\ v \in pending[p] /\ v \in Versions
           /\ IsBeginning(Versions \ (pending[p] \ {v}))
<1> DEFINE vs == Versions \ pending[p]
<1>1. vs \in SUBSET Versions /\ Missing(vs) = pending[p] /\ IsBeginning(vs) /\ pending[p] \subseteq Versions
  BY DEF IInv, TypeOK, LockInv, Missing
<1>2. /\ Least(pending[p]) \in pending[p]
      /\ IsBeginning(vs \cup {Least(pending[p])})
  BY <1>1, Continues
<1>3. vs \cup {Least(pending[p])} = Versions \ (pending[p] \ {Least(pending[p])})
  BY <1>1, <1>2
<1> QED
  BY <1>1, <1>2, <1>3

\* What a migration leaves in the file that is open, and in the one moved aside.
LEMMA RecordedFact ==
  ASSUME IInv, NEW p \in Migrators, NEW v \in Versions, Record(p, v),
         \/ conn[p] # "live" /\ live' = live
         \/ conn[p] = "live" /\ live' = Migrated(live, v)
         \/ conn[p] = "live" /\ live' = [Migrated(live, v) EXCEPT !.tied = FALSE]
  PROVE  /\ live' \in Content
         /\ live'.versions = IF conn[p] = "live" THEN live.versions \cup {v} ELSE live.versions
         /\ live'.exists = live.exists /\ live'.data = live.data
         /\ evidence' \in Content /\ evidence'.exists = evidence.exists /\ evidence'.data = evidence.data
         /\ evidence.versions \subseteq evidence'.versions
         /\ conn[p] # "old" => evidence' = evidence
<1>1. live \in Content /\ evidence \in Content
  BY DEF IInv, TypeOK
<1>2. /\ live' \in Content
      /\ live'.versions = IF conn[p] = "live" THEN live.versions \cup {v} ELSE live.versions
      /\ live'.exists = live.exists /\ live'.data = live.data
  <2>1. CASE conn[p] # "live" /\ live' = live
    BY <1>1, <2>1
  <2>2. CASE conn[p] = "live" /\ live' = Migrated(live, v)
    BY <1>1, <2>2, MigratedFact
  <2>3. CASE conn[p] = "live" /\ live' = [Migrated(live, v) EXCEPT !.tied = FALSE]
    <3> DEFINE m == Migrated(live, v)
    <3>1. m \in Content /\ m.versions = live.versions \cup {v} /\ m.exists = live.exists /\ m.data = live.data
      BY <1>1, MigratedFact
    <3>2. live' = [m EXCEPT !.tied = FALSE]
      BY <2>3
    <3>3. conn[p] = "live"
      BY <2>3
    <3> HIDE DEF m
    <3> QED
      BY <3>1, <3>2, <3>3, FileUpdates
  <2> QED
    BY <2>1, <2>2, <2>3
<1>3. /\ evidence' \in {evidence, Migrated(evidence, v)}
      /\ conn[p] # "old" => evidence' = evidence
  BY DEF Record
<1>4. CASE evidence' = evidence
  BY <1>1, <1>2, <1>4
<1>5. CASE conn[p] = "old" /\ evidence' = Migrated(evidence, v)
  BY <1>1, <1>2, <1>5, MigratedFact
<1> QED
  BY <1>3, <1>4, <1>5

LEMMA ApplyKeeps == ASSUME IInv, NEW p \in Migrators, Apply(p) \/ LosesReference(p) PROVE IInv'
<1> DEFINE v == Least(pending[p])
<1>1. /\ v \in pending[p] /\ v \in Versions
      /\ IsBeginning(Versions \ (pending[p] \ {v})) /\ pc[p] = "apply" /\ pending[p] # {}
  BY NextMigration DEF Apply, LosesReference
<1>2. /\ UNCHANGED <<saved, auto, gpc, sel, services, timer, died, swapped>>
      /\ Record(p, v)
      /\ \/ conn[p] # "live" /\ live' = live
         \/ conn[p] = "live" /\ live' = Migrated(live, v)
         \/ conn[p] = "live" /\ live' = [Migrated(live, v) EXCEPT !.tied = FALSE]
      /\ faults' \in 0..MaxFaults
  BY SchemaAssumption DEF IInv, TypeOK, Apply, LosesReference, Fault, World
<1> HIDE DEF v
<1>3. /\ live' \in Content /\ live.versions \subseteq live'.versions
      /\ (live'.exists <=> live.exists) /\ (live'.data <=> live.data)
      /\ live'.versions = IF conn[p] = "live" THEN live.versions \cup {v} ELSE live.versions
      /\ evidence' \in Content /\ evidence'.exists = evidence.exists /\ evidence'.data = evidence.data
      /\ evidence.versions \subseteq evidence'.versions
      /\ conn[p] # "old" => evidence' = evidence
  BY <1>1, <1>2, RecordedFact
<1>4. /\ \/ pending' = [pending EXCEPT ![p] = @ \ {v}] /\ UNCHANGED <<lock, pc, conn>>
         \/ Stop(p)
      /\ pending[p] \in SUBSET Versions
  BY DEF Apply, LosesReference, v, IInv, TypeOK
<1>5. /\ \A q \in Migrators \ {p} : pc'[q] = pc[q] /\ conn'[q] = conn[q] /\ pending'[q] = pending[q]
      /\ \/ pc'[p] = "apply" /\ conn'[p] = conn[p] /\ pending'[p] = pending[p] \ {v}
         \/ pc'[p] = "idle" /\ conn'[p] = "none"
  BY <1>1, <1>4 DEF IInv, TypeOK, Stop, Goto
<1>6. TypeOK'
  <2>1. /\ pending' \in [Migrators -> SUBSET Versions]
        /\ conn' \in [Migrators -> {"none", "live", "old"}]
        /\ lock' \in Migrators \cup {NoOne}
        /\ pc' \in [Migrators -> {"idle", "quiesce", "copy", "lock", "examine", "backup", "open", "apply", "done", "restart"}]
    BY <1>4 DEF IInv, TypeOK, Stop, Goto
  <2> QED
    BY <1>2, <1>3, <2>1 DEF IInv, TypeOK
<1>7. LockInv'
  <2>1. CASE Stop(p)
    BY <2>1, AllIsBeginning DEF IInv, TypeOK, LockInv, Stop, Goto
  <2>2. CASE pending' = [pending EXCEPT ![p] = @ \ {v}] /\ UNCHANGED <<lock, pc, conn>>
    BY <1>1, <2>2 DEF IInv, TypeOK, LockInv
  <2> QED
    BY <1>4, <2>1, <2>2
<1>8. FileInv'
  BY <1>1, <1>2, <1>3, <1>5 DEF IInv, FileInv, Recordless, Connected, Restored
<1>9. CopyInv'
  BY <1>2 DEF IInv, CopyInv, Whole, Restoring
<1>10. \A q \in Migrators : pc[q] \in {"backup", "open", "apply"} => q = p
  BY <1>1 DEF IInv, LockInv
<1>11. (swapped \/ OrderInv)'
  <2> SUFFICES ASSUME ~swapped PROVE OrderInv'
    BY <1>2
  <2>1. OrderInv /\ pending[p] = Missing(live.versions) /\ conn[p] = "live"
    BY <1>1 DEF IInv, OrderInv, Ready
  <2>2. live.versions \in SUBSET Versions /\ v = Least(Missing(live.versions))
    BY <2>1 DEF IInv, TypeOK, Content, v
  <2>3. IsBeginning(live'.versions) /\ Missing(live'.versions) = pending[p] \ {v}
    BY <1>1, <1>3, <2>1, <2>2, Continues DEF OrderInv
  <2>4. Ready(p)'
    BY <1>5, <2>1, <2>3 DEF Ready
  <2>5. \A q \in Migrators : Ready(q)'
    BY <1>5, <1>10, <2>4 DEF Ready
  <2> QED
    BY <1>2, <1>3, <2>1, <2>3, <2>5 DEF OrderInv, Restoring
<1>12. (Torn \/ DataInv)'
  BY <1>2, <1>3 DEF IInv, DataInv, Torn, Restoring, Restored
<1>13. BackInv'
  <2>1. Backed(p) => Backed(p)'
    BY <1>1, <1>2, <1>3, <1>5 DEF Backed, CopyBefore
  <2>2. \A q \in Migrators : Backed(q) => Backed(q)'
    BY <1>5, <1>10, <2>1 DEF Backed
  <2> QED
    BY <1>2, <1>3, <2>2 DEF IInv, BackInv
<1> QED
  BY <1>6, <1>7, <1>8, <1>9, <1>11, <1>12, <1>13 DEF IInv

LEMMA SealKeeps == ASSUME IInv, NEW p \in Migrators, Seal(p) PROVE IInv'
<1>1. UNCHANGED <<saved, auto, gpc, sel, evidence, services, timer, faults, died, swapped>> /\ pc[p] = "apply" /\ pending[p] = {}
  BY DEF Seal, Guard, World
<1>2. CASE Stop(p) /\ UNCHANGED live
  BY <1>1, <1>2, SameIsAlike, StopKeeps DEF IInv, TypeOK
<1>3. ASSUME live' = live \/ live' = [live EXCEPT !.seeded = TRUE], Goto(p, "done"), conn' = [conn EXCEPT ![p] = "none"],
             UNCHANGED <<lock, pending>>
      PROVE  IInv'
  <2>1. Alike
    <3>1. CASE live' = live
      BY <3>1, SameIsAlike
    <3>2. CASE live' = [live EXCEPT !.seeded = TRUE]
      BY <3>2, FileUpdates DEF IInv, TypeOK, Alike
    <3> QED
      BY <1>3, <3>1, <3>2
  <2>2. TypeOK' /\ LockInv'
    BY <1>1, <1>3, <2>1 DEF IInv, TypeOK, LockInv, Goto, Alike
  <2>3. Connected(p)' /\ Ready(p)' /\ Backed(p)' /\ OneStep(p)
    BY <1>1, <1>3 DEF IInv, TypeOK, Connected, Ready, Backed, OneStep, Goto
  <2> QED
    BY <2>1, <2>2, <2>3, AlikeKeeps
<1> QED
  BY <1>2, <1>3 DEF Seal

LEMMA FinishKeeps == ASSUME IInv, NEW p \in Migrators, Finish(p) PROVE IInv'
<1>1. UNCHANGED <<live, saved, auto, gpc, sel, evidence, services, timer, faults, died, swapped>> /\ pc[p] = "done"
  BY DEF Finish, Guard, World
<1>2. CASE Stop(p)
  BY <1>1, <1>2, SameIsAlike, StopKeeps DEF IInv, TypeOK
<1>3. ASSUME Goto(p, "restart"), lock' = NoOne, UNCHANGED <<pending, conn>>
      PROVE  IInv'
  <2>1. TypeOK' /\ LockInv'
    BY <1>1, <1>3 DEF IInv, TypeOK, LockInv, Goto
  <2>2. Connected(p)' /\ Ready(p)' /\ Backed(p)' /\ OneStep(p)
    BY <1>1, <1>3 DEF Restored, IInv, TypeOK, FileInv, Connected, Ready, Backed, OneStep, Goto
  <2> QED
    BY <1>1, <2>1, <2>2, AlikeKeeps, SameIsAlike
<1> QED
  BY <1>2, <1>3 DEF Finish

LEMMA EndsKeeps == ASSUME IInv, NEW p \in Migrators, Restart(p) \/ Fail(p) PROVE IInv'
BY SameIsAlike, StopKeeps DEF IInv, TypeOK, Restart, Fail, Guard, World

-----------------------------------------------------------------------------
(* Schema: the guard                                                       *)

\* The guard writes nothing that belongs to the migrators.
LEMMA GuardTypes ==
  ASSUME IInv, UNCHANGED <<saved, lock, pc, pending>>,
         live' \in Content, sel' \in Content, evidence' \in Content, auto' \in Seq(Content), Len(auto') <= Keep,
         conn' \in [Migrators -> {"none", "live", "old"}],
         gpc' \in {"idle", "stopped", "replaced", "copied"}, services' \in BOOLEAN, timer' \in BOOLEAN,
         died' \subseteq {"idle", "stopped", "replaced", "copied"}, swapped' \in BOOLEAN, faults' \in 0..MaxFaults
  PROVE  TypeOK' /\ LockInv'
BY DEF IInv, TypeOK, LockInv

LEMMA LookKeeps == ASSUME IInv, Look PROVE IInv'
<1>1. UNCHANGED <<live, evidence, saved, lock, pc, pending, conn, timer, faults, died, swapped>> /\ gpc = "idle"
  BY DEF Look
<1>2. live \in Content /\ auto \in Seq(Content) /\ auto # <<>> /\ sel \in Content /\ Len(auto) <= Keep
  BY DEF IInv, TypeOK, CopyInv
<1>3. CASE Healthy(live) /\ auto' = Trim(Append(auto, live)) /\ UNCHANGED <<gpc, sel, services>>
  <2>1. /\ auto' \in Seq(Content) /\ Len(auto') <= Keep /\ auto' # <<>>
        /\ \A i \in DOMAIN auto' : auto'[i] = live \/ \E j \in DOMAIN auto : auto'[i] = auto[j]
    BY <1>2, <1>3, TrimFact
  <2>2. TypeOK' /\ LockInv'
    BY <1>1, <1>2, <1>3, <2>1, GuardTypes DEF IInv, TypeOK
  <2>3. FileInv' /\ BackInv'
    BY <1>1, <1>3 DEF Restored, IInv, FileInv, Recordless, Connected, BackInv, Backed, CopyBefore
  <2>4. Whole(live)
    BY <1>3 DEF Restored, Healthy, Valid, Whole, IInv, FileInv
  <2>5. CopyInv'
    BY <1>1, <1>3, <2>1, <2>4 DEF IInv, CopyInv, Restoring
  <2>6. (swapped \/ OrderInv)'
    BY <1>1, <1>3, <2>1 DEF IInv, OrderInv, Ready, Restoring
  <2>7. (Torn \/ DataInv)'
    BY <1>1, <1>3, <2>1 DEF Restored, IInv, DataInv, Torn, Restoring
  <2> QED
    BY <2>2, <2>3, <2>5, <2>6, <2>7 DEF IInv
<1>4. CASE sel' = Last(auto) /\ services' = FALSE /\ gpc' = "stopped" /\ UNCHANGED auto
  <2>1. Len(auto) \in DOMAIN auto /\ sel' = auto[Len(auto)]
    BY <1>2, <1>4 DEF Last
  <2>2. sel' \in Content
    BY <1>2, <2>1
  <2>3. TypeOK' /\ LockInv'
    BY <1>1, <1>2, <1>4, <2>2, GuardTypes DEF IInv, TypeOK
  <2>4. FileInv' /\ BackInv'
    BY <1>1, <1>4 DEF Restored, IInv, FileInv, Recordless, Connected, BackInv, Backed, CopyBefore
  <2>5. CopyInv'
    BY <1>4, <2>1 DEF IInv, CopyInv, Whole
  <2>6. (swapped \/ OrderInv)'
    BY <1>1, <1>4, <2>1 DEF IInv, OrderInv, Ready
  <2>7. (Torn \/ DataInv)'
    BY <1>1, <1>4, <2>1 DEF Restored, IInv, DataInv, Torn
  <2> QED
    BY <2>3, <2>4, <2>5, <2>6, <2>7 DEF IInv
<1> QED
  BY <1>3, <1>4 DEF Look

LEMMA MoveAsideKeeps == ASSUME IInv, MoveAside PROVE IInv'
<1>1. UNCHANGED <<auto, sel, saved, lock, pc, pending, services, timer, faults, died>> /\ gpc = "stopped"
  BY DEF MoveAside
<1>2. CASE /\ live.exists /\ live' = NoFile /\ evidence' = live
           /\ conn' = [p \in Migrators |-> IF conn[p] = "live" THEN "old" ELSE conn[p]]
           /\ swapped' = (swapped \/ Migrating) /\ gpc' = "replaced"
  <2>1. TypeOK' /\ LockInv'
    <3>1. conn' \in [Migrators -> {"none", "live", "old"}] /\ swapped' \in BOOLEAN
      BY <1>2 DEF IInv, TypeOK
    <3> QED
      BY <1>1, <1>2, <3>1, NewFiles, GuardTypes DEF IInv, TypeOK
  <2>2. FileInv'
    BY <1>1, <1>2, NewFiles DEF Restored, IInv, TypeOK, FileInv, Recordless, Connected
  <2>3. CopyInv'
    BY <1>1, <1>2 DEF IInv, CopyInv, Whole, Restoring
  <2>4. (swapped \/ OrderInv)'
    BY <1>1, <1>2, NewFiles, EmptyIsBeginning DEF IInv, OrderInv, Ready, Recordless, Restoring, Migrating
  <2>5. (Torn \/ DataInv)'
    BY <1>1, <1>2 DEF Restored, IInv, DataInv, Torn, Restoring
  <2>6. BackInv'
    BY <1>1, <1>2, NewFiles DEF BackInv, Backed, Recordless
  <2> QED
    BY <2>1, <2>2, <2>3, <2>4, <2>5, <2>6 DEF IInv
<1>3. CASE ~live.exists /\ gpc' = "idle" /\ UNCHANGED <<live, conn, swapped, evidence>>
  <2>1. TypeOK' /\ LockInv'
    BY <1>1, <1>3, GuardTypes DEF IInv, TypeOK
  <2>2. FileInv' /\ CopyInv'
    BY <1>1, <1>3 DEF Restored, IInv, FileInv, Recordless, Connected, CopyInv, Whole, Restoring
  <2>3. (swapped \/ OrderInv)' /\ (Torn \/ DataInv)'
    BY <1>1, <1>3 DEF Restored, IInv, OrderInv, Ready, DataInv, Torn, Restoring
  <2>4. BackInv'
    BY <1>1, <1>3 DEF IInv, BackInv, Backed, CopyBefore
  <2> QED
    BY <2>1, <2>2, <2>3, <2>4 DEF IInv
<1> QED
  BY <1>2, <1>3 DEF MoveAside

LEMMA PutBackKeeps == ASSUME IInv, PutBack PROVE IInv'
<1>1. /\ UNCHANGED <<auto, sel, evidence, saved, lock, pc, pending, conn, services, timer, faults, died>>
      /\ gpc = "replaced" /\ gpc' = "copied" /\ live' = sel /\ swapped' = (swapped \/ Migrating)
  BY DEF PutBack
<1>2. Whole(sel)
  BY <1>1 DEF IInv, CopyInv, Restoring
<1>3. TypeOK' /\ LockInv'
  BY <1>1, GuardTypes DEF IInv, TypeOK
<1>4. FileInv' /\ CopyInv'
  BY <1>1, <1>2 DEF Restored, IInv, FileInv, Whole, Connected, CopyInv, Restoring
<1>5. (swapped \/ OrderInv)'
  BY <1>1 DEF IInv, OrderInv, Ready, Restoring, Migrating
<1>6. (Torn \/ DataInv)'
  BY <1>1, <1>2 DEF Restored, IInv, DataInv, Torn, Whole, Restoring
<1>7. BackInv'
  BY <1>1 DEF BackInv, Backed, Migrating
<1> QED
  BY <1>3, <1>4, <1>5, <1>6, <1>7 DEF IInv

LEMMA StartServicesKeeps == ASSUME IInv, StartServices PROVE IInv'
<1>1. /\ UNCHANGED <<live, auto, saved, lock, pc, pending, conn, timer, faults, died, swapped>>
      /\ gpc = "copied" /\ gpc' = "idle" /\ sel' = NoFile /\ evidence' = NoFile /\ services' = TRUE
  BY DEF StartServices
<1>2. TypeOK' /\ LockInv'
  BY <1>1, NewFiles, GuardTypes DEF IInv, TypeOK
<1>3. FileInv' /\ CopyInv'
  BY <1>1, NewFiles DEF Restored, IInv, FileInv, Recordless, Connected, CopyInv, Whole, Restoring
<1>4. (swapped \/ OrderInv)' /\ (Torn \/ DataInv)'
  BY <1>1, NewFiles, EmptyIsBeginning DEF Restored, Recordless, IInv, OrderInv, Ready, DataInv, Torn, Restoring
<1>5. BackInv'
  BY <1>1 DEF IInv, BackInv, Backed, CopyBefore
<1> QED
  BY <1>2, <1>3, <1>4, <1>5 DEF IInv

\* A file that comes back has the data if the one put in its place had it.
LEMMA RestoreInvalidKeeps == ASSUME IInv, RestoreInvalid PROVE IInv'
<1>1. /\ UNCHANGED <<auto, saved, lock, pc, pending, services, timer, faults, died>>
      /\ gpc = "copied" /\ gpc' = "idle" /\ sel' = NoFile /\ evidence' = NoFile
      /\ live' = evidence /\ swapped' = (swapped \/ Migrating)
  BY DEF RestoreInvalid
<1>2. /\ conn' \in [Migrators -> {"none", "live", "old"}]
      /\ \A p \in Migrators : (conn'[p] = "none") <=> (conn[p] = "none")
  <2>1. PICK back \in SUBSET {p \in Migrators : conn[p] = "old"} :
          conn' = [p \in Migrators |-> IF p \in back THEN "live" ELSE IF conn[p] = "none" THEN "none" ELSE "old"]
    BY DEF RestoreInvalid
  <2> QED
    BY <2>1
<1>3. evidence \in Content /\ evidence.exists
  BY <1>1 DEF IInv, TypeOK, FileInv, Restored
<1>4. TypeOK' /\ LockInv'
  BY <1>1, <1>2, <1>3, NewFiles, GuardTypes DEF IInv, TypeOK
<1>5. FileInv' /\ CopyInv'
  BY <1>1, <1>2, <1>3, NewFiles DEF IInv, FileInv, Restored, Connected, Recordless, CopyInv, Whole, Restoring
<1>6. (swapped \/ OrderInv)'
  BY <1>1, NewFiles, EmptyIsBeginning DEF IInv, OrderInv, Ready, Recordless, Restoring, Migrating
<1>7. (Torn \/ DataInv)'
  BY <1>1, <1>3 DEF IInv, DataInv, Torn, Restoring, Restored
<1>8. BackInv'
  BY <1>1 DEF BackInv, Backed, Migrating
<1> QED
  BY <1>4, <1>5, <1>6, <1>7, <1>8 DEF IInv

LEMMA GuardDiesKeeps == ASSUME IInv, GuardDies PROVE IInv'
<1>1. /\ UNCHANGED <<auto, saved, lock, pc, pending, conn, services, timer, swapped>>
      /\ gpc' = "idle" /\ sel' = NoFile /\ evidence' = NoFile /\ died' = died \cup {gpc}
      /\ live' \in {live, Opened} /\ (gpc # "replaced" => live' = live)
  BY DEF GuardDies
<1>2. faults' \in 0..MaxFaults
  BY SchemaAssumption DEF IInv, TypeOK, GuardDies, Fault
<1>3. Alike
  BY <1>1, SameIsAlike, OpenedFact DEF IInv, TypeOK, Alike
<1>4. TypeOK' /\ LockInv'
  BY <1>1, <1>3, <1>2, NewFiles, GuardTypes DEF IInv, TypeOK, Alike
<1>5. FileInv' /\ CopyInv'
  BY <1>1, <1>3, NewFiles DEF Restored, IInv, FileInv, Recordless, Connected, CopyInv, Whole, Restoring, Alike
<1>6. (swapped \/ OrderInv)'
  BY <1>1, <1>3, NewFiles, EmptyIsBeginning DEF IInv, OrderInv, Ready, Recordless, Restoring, Alike
<1>7. (Torn \/ DataInv)'
  BY <1>1 DEF Restored, IInv, DataInv, Torn, Restoring
<1>8. BackInv'
  BY <1>1, <1>3 DEF IInv, BackInv, Backed, CopyBefore, Alike
<1> QED
  BY <1>4, <1>5, <1>6, <1>7, <1>8 DEF IInv

LEMMA CorruptKeeps == ASSUME IInv, Corrupt PROVE IInv'
<1>1. /\ UNCHANGED <<auto, saved, lock, pc, pending, conn, gpc, sel, evidence, services, timer, died, swapped>>
      /\ faults' \in 0..MaxFaults /\ live.exists
  BY SchemaAssumption DEF IInv, TypeOK, Corrupt, Valid, Fault
<1>2. Alike
  <2>1. CASE live' = [live EXCEPT !.sound = FALSE]
    BY <2>1, FileUpdates DEF IInv, TypeOK, Alike
  <2>2. CASE live' = [live EXCEPT !.tied = FALSE]
    BY <2>2, FileUpdates DEF IInv, TypeOK, Alike
  <2> QED
    BY <2>1, <2>2 DEF Corrupt
<1>3. TypeOK' /\ LockInv'
  BY <1>1, <1>2, GuardTypes DEF IInv, TypeOK, Alike
<1>4. FileInv' /\ CopyInv'
  BY <1>1, <1>2 DEF Restored, IInv, FileInv, Connected, CopyInv, Whole, Restoring, Alike
<1>5. (swapped \/ OrderInv)' /\ (Torn \/ DataInv)'
  BY <1>1, <1>2 DEF Restored, IInv, OrderInv, Ready, DataInv, Torn, Restoring, Alike
<1>6. BackInv'
  BY <1>1, <1>2 DEF IInv, BackInv, Backed, CopyBefore, Alike
<1> QED
  BY <1>3, <1>4, <1>5, <1>6 DEF IInv

-----------------------------------------------------------------------------
(* Schema: the theorems                                                    *)

LEMMA Inductive == IInv /\ [Next]_vars => IInv'
<1> SUFFICES ASSUME IInv, [Next]_vars PROVE IInv'
  OBVIOUS
<1>1. CASE UNCHANGED vars
  BY <1>1 DEF vars, IInv, TypeOK, LockInv, FileInv, Recordless, Connected, CopyInv, Whole, Restoring, Restored, OrderInv, Ready,
              DataInv, Torn, BackInv, Backed, CopyBefore
<1>2. ASSUME NEW p \in Migrators, Migrate(p) \/ Fail(p) PROVE IInv'
  BY <1>2, BeginKeeps, QuiesceKeeps, CopyDatabaseKeeps, LockKeeps, ExamineKeeps, BackUpKeeps, OpenKeeps,
     ApplyKeeps, SealKeeps, FinishKeeps, EndsKeeps DEF Migrate
<1>3. CASE Recover
  BY <1>3, LookKeeps, MoveAsideKeeps, PutBackKeeps, StartServicesKeeps, RestoreInvalidKeeps DEF Recover
<1> QED
  BY <1>1, <1>2, <1>3, GuardDiesKeeps, CorruptKeeps DEF Next

\* The inductive invariant holds of every state of the specification.
THEOREM Invariant == Spec => []IInv
<1>1. Init => IInv
  BY FirstState
<1>2. IInv /\ [Next]_vars => IInv'
  BY Inductive
<1> QED
  BY <1>1, <1>2, PTL DEF Spec

\* The migrations recorded in the file are a beginning of the manifest, unless
\* the guard has replaced the file under a migrate (db.py, migrate).
THEOREM RecordsABeginning == Spec => []PrefixApplied
<1>1. IInv => PrefixApplied
  BY DEF IInv, OrderInv, PrefixApplied
<1> QED
  BY <1>1, Invariant, PTL

\* Unless the guard was killed between two of its steps, a sound file with the
\* data of the system exists: each copy is one.
THEOREM DataIsKept == Spec => []DataKept
<1>1. ASSUME IInv PROVE DataKept
  <2>1. CASE Torn
    BY <2>1 DEF DataKept
  <2>2. CASE ~Torn
    <3>1. 1 \in DOMAIN auto
      BY <1>1 DEF IInv, TypeOK, CopyInv
    <3>2. auto[1] \in ToSet(auto) /\ auto[1].exists /\ auto[1].sound /\ auto[1].data
      BY <1>1, <2>2, <3>1 DEF IInv, CopyInv, Whole, DataInv, ToSet
    <3> QED
      BY <3>2 DEF DataKept
  <2> QED
    BY <2>1, <2>2
<1> QED
  BY <1>1, Invariant, PTL

\* What the application serves is the database of the system, with the same
\* exception.
THEOREM ItsDataIsServed == Spec => []ServesItsData
<1>1. IInv => ServesItsData
  BY DEF IInv, DataInv, ServesItsData
<1> QED
  BY <1>1, Invariant, PTL

\* Versions are added by a migration, and by the guard when it puts a file back.
LEMMA StepCopies == IInv /\ [Next]_vars => [CopiedFirst]_vars
<1> SUFFICES ASSUME IInv, Next PROVE CopiedFirst
  OBVIOUS
<1>1. ASSUME NEW p \in Migrators, Apply(p) \/ LosesReference(p) PROVE CopiedFirst
  <2> SUFFICES ASSUME NEW v \in Versions, v \in live'.versions \ live.versions, live.data, ~swapped'
               PROVE  CopyBefore
    BY DEF CopiedFirst, CopyBefore
  <2>1. pc[p] = "apply" /\ pending[p] # {} /\ ~swapped
    BY <1>1 DEF Apply, LosesReference, World
  <2> QED
    BY <2>1 DEF IInv, BackInv, Backed
<1>2. CASE PutBack \/ RestoreInvalid
  BY <1>2 DEF PutBack, RestoreInvalid, CopiedFirst
<1>3. CASE MoveAside
  BY <1>3, NewFiles DEF MoveAside, CopiedFirst, Recordless
<1>4. CASE live'.versions = live.versions
  BY <1>4 DEF CopiedFirst
<1>5. ASSUME NEW p \in Migrators, Begin(p) \/ Open(p) \/ Seal(p) PROVE live'.versions = live.versions
  <2>1. live \in Content /\ Opened.versions = live.versions
    BY OpenedFact DEF IInv, TypeOK
  <2> QED
    BY <1>5, <2>1, FileUpdates DEF Begin, Open, Seal
<1>6. ASSUME NEW p \in Migrators,
             Quiesce(p) \/ CopyDatabase(p) \/ Lock(p) \/ Examine(p) \/ BackUp(p) \/ Finish(p) \/ Restart(p) \/ Fail(p)
      PROVE  live'.versions = live.versions
  BY <1>6 DEF Quiesce, CopyDatabase, Lock, Examine, BackUp, Finish, Restart, Fail
<1>7. ASSUME Look \/ StartServices \/ GuardDies \/ Corrupt PROVE live'.versions = live.versions
  <2>1. live \in Content /\ Opened.versions = live.versions
    BY OpenedFact DEF IInv, TypeOK
  <2> QED
    BY <1>7, <2>1, FileUpdates DEF Look, StartServices, GuardDies, Corrupt
<1> QED
  BY <1>1, <1>2, <1>3, <1>4, <1>5, <1>6, <1>7 DEF Next, Migrate, Recover

\* A migration of a database that is in use begins with a verified copy of it, of
\* no later version (db.py, migrate; docs/MIGRATIONS.md).
THEOREM CopiesFirst == Spec => BackupBeforeMigration
  BY StepCopies, Invariant, PTL DEF Spec, BackupBeforeMigration

-----------------------------------------------------------------------------
(* Scripts: the machine and the copies                                     *)

ItemSet == {"pure", "sudoers", "helper", "units", "setting"}
Contents == {"absent", "old", "new", "mixed", "good", "bad"}

\* The items of which backup_one has a copy so far.
Saving == {{}, {"pure"}, {"pure", "sudoers"}, {"pure", "sudoers", "helper"},
           {"pure", "sudoers", "helper", "units"}}

LEMMA ItemFacts ==
  /\ Items[1] = "pure" /\ Items[2] = "sudoers" /\ Items[3] = "helper" /\ Items[4] = "units"
  /\ Items[5] = "setting" /\ DOMAIN Items = 1..5
  /\ {Items[i] : i \in DOMAIN Items} = ItemSet
  /\ Files = ItemSet \cup Sites /\ ItemSet \cap Sites = {}
  /\ \A kind : SiteOf(kind) \in Sites
<1>1. /\ Items[1] = "pure" /\ Items[2] = "sudoers" /\ Items[3] = "helper" /\ Items[4] = "units"
      /\ Items[5] = "setting" /\ DOMAIN Items = 1..5
  BY DEF Items
<1>2. {Items[i] : i \in DOMAIN Items} = ItemSet
  BY <1>1 DEF ItemSet
<1> QED
  BY <1>1, <1>2 DEF Files, ItemSet, Sites, SiteOf

LEMMA PutFacts ==
  ASSUME NEW f, NEW x, NEW v
  PROVE  /\ DOMAIN Put(f, x, v) = DOMAIN f \cup {x} /\ Put(f, x, v)[x] = v
         /\ \A y \in DOMAIN f : y # x => Put(f, x, v)[y] = f[y]
  BY DEF Put

\* Which copy is next.
LEMMA NextCopyFacts ==
  ASSUME DOMAIN kept \in Saving
  PROVE  /\ NextCopy \in ItemSet \ DOMAIN kept
         /\ NextCopy = "setting" => DOMAIN kept \cup {NextCopy} = ItemSet
         /\ NextCopy # "setting" => DOMAIN kept \cup {NextCopy} \in Saving
<1>1. IsFiniteSet({}) /\ Cardinality({}) = 0
  BY FS_EmptySet
<1>2. IsFiniteSet({"pure"}) /\ Cardinality({"pure"}) = 1
  BY FS_Singleton
<1>3. IsFiniteSet({"pure", "sudoers"}) /\ Cardinality({"pure", "sudoers"}) = 2
  <2>1. {"pure", "sudoers"} = {"pure"} \cup {"sudoers"} /\ "sudoers" \notin {"pure"}
    OBVIOUS
  <2> QED
    BY <1>2, <2>1, FS_AddElement
<1>4. IsFiniteSet({"pure", "sudoers", "helper"}) /\ Cardinality({"pure", "sudoers", "helper"}) = 3
  <2>1. {"pure", "sudoers", "helper"} = {"pure", "sudoers"} \cup {"helper"} /\ "helper" \notin {"pure", "sudoers"}
    OBVIOUS
  <2> QED
    BY <1>3, <2>1, FS_AddElement
<1>5. Cardinality({"pure", "sudoers", "helper", "units"}) = 4
  <2> DEFINE S == {"pure", "sudoers", "helper"}
  <2>1. {"pure", "sudoers", "helper", "units"} = S \cup {"units"} /\ "units" \notin S
    OBVIOUS
  <2> HIDE DEF S
  <2>2. Cardinality(S \cup {"units"}) = Cardinality(S) + 1
    BY <1>4, <2>1, FS_AddElement DEF S
  <2> QED
    BY <1>4, <2>1, <2>2 DEF S
<1> QED
  BY <1>1, <1>2, <1>3, <1>4, <1>5, ItemFacts DEF Saving, NextCopy, ItemSet

-----------------------------------------------------------------------------
(* Scripts: the inductive invariant                                        *)

EnableSteps == {"save", "configure", "tools", "check", "switch", "restart", "timer", "rollback",
                "restore", "resume"}
InstallSteps == {"stop", "configure", "tools", "setting", "start", "units", "render", "put", "link",
                 "services", "reload"}
HttpsSteps == {"issue", "put", "test", "reload"}

MachineTypes ==
  /\ files \in [Files -> Contents] /\ linked \subseteq Sites
  /\ \/ script = Quiet
     \/ script \in [kind : {"enable"}, step : EnableSteps]
     \/ script \in [kind : {"install"}, step : InstallSteps]
     \/ script \in [kind : {"https"}, step : HttpsSteps]
  /\ \A f \in DOMAIN kept : kept[f] \in Contents
  /\ script.kind \in {"install", "https"} /\ script.step \in {"link", "test", "services", "reload"} =>
       SiteOf(script.kind) \in DOMAIN kept
  /\ script = Quiet => kept = <<>>

\* Until the last copy is made nothing is replaced, and a copy is what was there.
EnableInv ==
  script.kind = "enable" =>
    /\ DOMAIN kept \in Saving \cup {ItemSet}
    /\ \A f \in DOMAIN kept : kept[f] = before.files[f]
    /\ script.step = "save" => DOMAIN kept \in Saving
    /\ script.step \in {"configure", "tools", "check", "switch", "restart", "timer"} => DOMAIN kept = ItemSet
    /\ script.step = "save" \/ (script.step = "resume" /\ "setting" \in DOMAIN kept) =>
         \A f \in ItemSet : files[f] = before.files[f]

\* A script over a site of its own, on a machine that served what lay on its disk: it
\* still does, or would if the copy were put back.
Late == {"link", "test", "services", "reload"}

SiteInv ==
  script.kind \in {"install", "https"} =>
    /\ before.by = script.kind
    /\ before.sure /\ SiteOf(script.kind) \in before.linked =>
         /\ SiteOf(script.kind) \in linked
         /\ IF script.step \in Late THEN Sure(SiteBack(SiteOf(script.kind))) ELSE Sure(files)

\* What a script refuses or takes back.
SetupUndone == RollbackRestores /\ SiteReturns

EndInv == IF script = Quiet THEN SetupUndone ELSE outcome = "none"

ScriptInv == MachineTypes /\ EnableInv /\ SiteInv /\ EndInv

LEMMA StepFacts ==
  ASSUME NEW kind, NEW step, Is(kind, step), NEW next, GoTo(next)
  PROVE  script' = [kind |-> kind, step |-> next]
  BY DEF Is, GoTo

LEMMA WithFacts ==
  ASSUME MachineTypes, NEW f \in Files, NEW v \in Contents
  PROVE  /\ With(f, v) \in [Files -> Contents] /\ With(f, v)[f] = v
         /\ \A g \in Files : g # f => With(f, v)[g] = files[g]
  BY DEF MachineTypes, With

\* What is not a site's file makes no difference to nginx.
SameSites(fs) == \A s \in Sites : fs[s] = files[s]

LEMMA WithSite ==
  ASSUME MachineTypes, NEW f \in ItemSet, NEW v \in Contents
  PROVE  With(f, v) \in [Files -> Contents] /\ SameSites(With(f, v))
<1>1. f \in Files /\ \A s \in Sites : s # f /\ s \in Files
  BY ItemFacts
<1> QED
  BY <1>1, WithFacts DEF SameSites

\* nginx is as sure of the new files as of the old ones.
LEMMA SureSame ==
  ASSUME linked \subseteq Sites, NEW fs, SameSites(fs), Sure(files)
  PROVE  Sure(fs)
<1>1. Loads(fs, linked)
  BY DEF Loads, SameSites, Sure
<1>2. Disk(fs, linked) = Disk(files, linked)
  BY DEF Disk, SameSites
<1> QED
  BY <1>1, <1>2 DEF Sure

LEMMA SureNext ==
  ASSUME NEW fs, linked' = linked, served' = served, Sure(fs), files' = fs
  PROVE  Sure(files)'
  BY DEF Sure

LEMMA WithAllFacts ==
  ASSUME MachineTypes, NEW fs, NEW v \in Contents
  PROVE  /\ WithAll(fs, v) \in [Files -> Contents]
         /\ \A g \in Files : g \notin fs => WithAll(fs, v)[g] = files[g]
  BY DEF MachineTypes, WithAll

\* A script that is over: what it was to leave as it was, is.
LEMMA OverKeeps ==
  ASSUME ScriptInv, NEW how \in {"done", "cut", "undone", "refused"}, Over(how),
         files' \in [Files -> Contents], linked' \subseteq Sites,
         how = "undone" =>
           /\ \A f \in ItemSet : files'[f] = before.files[f]
           /\ ("enabled" \in importerTimer') = ("enabled" \in before.timer),
         how = "refused" /\ before.sure /\ SiteOf(before.by) \in before.linked => Sure(files)'
  PROVE  ScriptInv'
<1>1. script' = Quiet /\ kept' = <<>> /\ outcome' = how
  BY DEF Over
<1>2. MachineTypes'
  BY <1>1 DEF MachineTypes, Quiet
<1>3. EnableInv' /\ SiteInv'
  BY <1>1 DEF EnableInv, SiteInv, Quiet
<1>4. RollbackRestores'
  <2> SUFFICES ASSUME how = "undone" PROVE RollbackRestores'
    BY <1>1 DEF RollbackRestores
  <2>1. before' = before
    BY DEF Over
  <2>2. \A i \in DOMAIN Items : files'[Items[i]] = before.files[Items[i]]
    BY ItemFacts
  <2> QED
    BY <2>1, <2>2 DEF RollbackRestores
<1>5. SiteReturns'
  BY <1>1 DEF SiteReturns, Over, Sure
<1> QED
  BY <1>1, <1>2, <1>3, <1>4, <1>5 DEF ScriptInv, EndInv, SetupUndone

\* A step that leaves what the invariant is about.
LEMMA SameMachine ==
  ASSUME ScriptInv,
         UNCHANGED <<files, linked, served, script, kept, before, outcome>>,
         script = Quiet => UNCHANGED importerTimer
  PROVE  ScriptInv'
  BY DEF ScriptInv, MachineTypes, EnableInv, SiteInv, EndInv, SetupUndone, RollbackRestores, SiteReturns, Sure,
         SiteBack, With

-----------------------------------------------------------------------------
(* Scripts: enable-ftp.sh                                                  *)

LEMMA QuietFacts == Quiet.kind = "none" /\ Quiet.step = "none"
  BY DEF Quiet

LEMMA StartKeeps ==
  ASSUME ScriptInv, NEW kind, NEW step, Start(kind, step),
         <<kind, step>> \in {<<"enable", "save">>, <<"install", "stop">>, <<"install", "units">>, <<"https", "issue">>}
  PROVE  ScriptInv'
<1>1. /\ script' = [kind |-> kind, step |-> step] /\ outcome' = "none" /\ before' = Machine(kind)
      /\ UNCHANGED <<files, linked, served, kept>>
  BY DEF Start
<1>2. kept = <<>>
  BY DEF Start, ScriptInv, MachineTypes
<1>3. MachineTypes'
  BY <1>1 DEF ScriptInv, MachineTypes, EnableSteps, InstallSteps, HttpsSteps, Quiet
<1>4. EnableInv'
  <2>1. DOMAIN kept = {}
    BY <1>2
  <2> QED
    BY <1>1, <2>1 DEF EnableInv, Machine, Saving
<1>5. SiteInv'
  <2>1. step \notin Late
    BY DEF Late
  <2> QED
    BY <1>1, <2>1 DEF SiteInv, Machine, Sure
<1>6. EndInv'
  BY <1>1 DEF EndInv, Quiet
<1> QED
  BY <1>3, <1>4, <1>5, <1>6 DEF ScriptInv

LEMMA SaveKeeps == ASSUME ScriptInv, Save PROVE ScriptInv'
<1>1. /\ script = [kind |-> "enable", step |-> "save"]
      /\ script' = [kind |-> "enable", step |-> IF NextCopy = "setting" THEN "configure" ELSE "save"]
      /\ kept' = Put(kept, NextCopy, files[NextCopy])
      /\ UNCHANGED <<files, linked, before, outcome>>
  BY DEF Save, Is, GoTo, Nginx
<1>2. DOMAIN kept \in Saving /\ \A f \in ItemSet : files[f] = before.files[f]
  BY <1>1 DEF ScriptInv, EnableInv
<1>3. NextCopy \in ItemSet \ DOMAIN kept /\ DOMAIN kept' = DOMAIN kept \cup {NextCopy}
  BY <1>1, <1>2, NextCopyFacts, PutFacts
<1>4. \A f \in DOMAIN kept' : kept'[f] = before.files[f] /\ kept'[f] \in Contents
  <2>1. \A f \in DOMAIN kept : kept[f] = before.files[f] /\ kept[f] \in Contents
    BY <1>1 DEF ScriptInv, EnableInv, MachineTypes
  <2>2. files[NextCopy] = before.files[NextCopy] /\ files[NextCopy] \in Contents
    BY <1>2, <1>3, ItemFacts DEF ScriptInv, MachineTypes
  <2>3. kept'[NextCopy] = files[NextCopy] /\ \A f \in DOMAIN kept : f # NextCopy => kept'[f] = kept[f]
    BY <1>1 DEF Put
  <2> QED
    BY <1>3, <2>1, <2>2, <2>3
<1>5. EnableInv'
  BY <1>1, <1>2, <1>3, <1>4, NextCopyFacts DEF EnableInv
<1>6. MachineTypes' /\ SiteInv' /\ EndInv'
  BY <1>1, <1>4 DEF ScriptInv, MachineTypes, SiteInv, EndInv, EnableSteps, Quiet
<1> QED
  BY <1>5, <1>6 DEF ScriptInv

\* The steps between the copies and the rollback, and into it.
LEMMA ReplaceKeeps ==
  ASSUME ScriptInv, NEW step \in EnableSteps \ {"save"}, NEW next \in EnableSteps \ {"save", "resume"},
         script = [kind |-> "enable", step |-> step], script' = [kind |-> "enable", step |-> next],
         files' \in [Files -> Contents], UNCHANGED <<linked, kept, before, outcome>>,
         step \in {"rollback", "restore", "resume"} => next \in {"rollback", "restore"}
  PROVE  ScriptInv'
<1>1. MachineTypes' /\ SiteInv' /\ EndInv'
  BY DEF ScriptInv, MachineTypes, SiteInv, EndInv, Quiet
<1>2. EnableInv'
  BY DEF ScriptInv, EnableInv, EnableSteps
<1> QED
  BY <1>1, <1>2 DEF ScriptInv

LEMMA EnableSteppers ==
  ASSUME ScriptInv, Configure \/ PutTools \/ Check \/ SwitchOn \/ Rollback \/ (RestartFtp /\ script'.step # "none")
  PROVE  ScriptInv'
<1>1. MachineTypes /\ files \in [Files -> Contents]
  BY DEF ScriptInv, MachineTypes
<1>2. CASE Configure
  <2>1. files' \in [Files -> Contents]
    <3>1. files' = With("pure", "new") /\ "pure" \in Files /\ "new" \in Contents
      BY <1>2, ItemFacts DEF Configure, ItemSet, Contents
    <3> QED
      BY <1>1, <3>1, WithFacts
  <2> QED
    BY <1>2, <2>1, ReplaceKeeps DEF Configure, Is, GoTo, Untouched, Nginx, EnableSteps
<1>3. CASE PutTools
  BY <1>1, <1>3, WithAllFacts, ReplaceKeeps, StepFacts DEF PutTools, Is, GoTo, Untouched, Nginx, EnableSteps, Contents
<1>4. CASE Check
  BY <1>1, <1>4, ReplaceKeeps DEF Check, Is, GoTo, Untouched, Nginx, EnableSteps
<1>5. CASE SwitchOn
  <2>1. files' \in [Files -> Contents]
    <3>1. files' = With("setting", "new") /\ "setting" \in Files /\ "new" \in Contents
      BY <1>5, ItemFacts DEF SwitchOn, ItemSet, Contents
    <3> QED
      BY <1>1, <3>1, WithFacts
  <2> QED
    BY <1>5, <2>1, ReplaceKeeps DEF SwitchOn, Is, GoTo, Untouched, Nginx, EnableSteps
<1>6. CASE Rollback
  BY <1>1, <1>6, ReplaceKeeps DEF Rollback, Is, GoTo, Untouched, Nginx, EnableSteps
<1>7. CASE RestartFtp
  BY <1>1, <1>7, ReplaceKeeps DEF RestartFtp, Is, GoTo, Untouched, Nginx, EnableSteps
<1> QED
  BY <1>2, <1>3, <1>4, <1>5, <1>6, <1>7

LEMMA TrapKeeps == ASSUME ScriptInv, Trap PROVE ScriptInv'
<1>1. /\ script \in [kind : {"enable"}, step : EnableSteps]
      /\ script' = [script EXCEPT !.step = "rollback"]
      /\ UNCHANGED <<files, linked, kept, before, outcome>>
  BY DEF Trap, ScriptInv, MachineTypes, GoTo, Untouched, Nginx, Quiet
<1>2. script' = [kind |-> "enable", step |-> "rollback"] /\ script.kind = "enable"
  BY <1>1
<1>3. MachineTypes' /\ SiteInv' /\ EndInv'
  BY <1>1, <1>2 DEF ScriptInv, MachineTypes, SiteInv, EndInv, EnableSteps, Quiet
<1>4. EnableInv'
  BY <1>1, <1>2 DEF ScriptInv, EnableInv
<1> QED
  BY <1>3, <1>4 DEF ScriptInv

LEMMA RestoreFiles ==
  ASSUME ScriptInv, Restore
  PROVE  /\ files' \in [Files -> Contents]
         /\ "setting" \in DOMAIN kept => \A f \in ItemSet : files'[f] = before.files[f]
<1>1. script.kind = "enable" /\ files \in [Files -> Contents] /\ \A f \in DOMAIN kept : kept[f] \in Contents
  BY DEF Restore, Is, ScriptInv, MachineTypes
<1>2. files' = [f \in Files |-> IF f \in Sites THEN files[f] ELSE CopyOf(f)]
  BY DEF Restore
<1>3. \A f \in Files : CopyOf(f) \in Contents
  BY <1>1 DEF CopyOf, Contents
<1>4. ASSUME "setting" \in DOMAIN kept, NEW f \in ItemSet PROVE files'[f] = before.files[f]
  <2>1. DOMAIN kept = ItemSet
    BY <1>1, <1>4 DEF ScriptInv, EnableInv, Saving
  <2>2. CopyOf(f) = kept[f] /\ kept[f] = before.files[f]
    BY <1>1, <1>4, <2>1 DEF CopyOf, ScriptInv, EnableInv
  <2>3. f \notin Sites /\ f \in Files
    BY <1>4, ItemFacts
  <2> QED
    BY <1>2, <2>2, <2>3
<1> QED
  BY <1>1, <1>2, <1>3, <1>4

LEMMA RestartTimerKeeps == ASSUME ScriptInv, RestartTimer PROVE ScriptInv'
  BY OverKeeps DEF RestartTimer, Nginx, ScriptInv, MachineTypes

LEMMA ResumeKeeps == ASSUME ScriptInv, Resume PROVE ScriptInv'
<1>1. script = [kind |-> "enable", step |-> "resume"]
  BY DEF Resume, Is
<1>2. "setting" \in DOMAIN kept => \A f \in ItemSet : files'[f] = before.files[f]
  BY <1>1 DEF Resume, ScriptInv, EnableInv
<1>3. ("enabled" \in importerTimer') = ("enabled" \in before.timer)
  BY DEF Resume
<1> QED
  BY <1>2, <1>3, OverKeeps DEF Resume, Nginx, ScriptInv, MachineTypes

LEMMA RestoreKeeps == ASSUME ScriptInv, Restore PROVE ScriptInv'
<1>1. /\ script = [kind |-> "enable", step |-> "restore"] /\ script' = [kind |-> "enable", step |-> "resume"]
      /\ UNCHANGED <<linked, kept, before, outcome>>
  BY DEF Restore, Is, GoTo, Untouched, Nginx
<1>2. MachineTypes' /\ SiteInv' /\ EndInv'
  BY <1>1, RestoreFiles DEF ScriptInv, MachineTypes, SiteInv, EndInv, EnableSteps, Quiet
<1>3. EnableInv'
  BY <1>1, RestoreFiles DEF ScriptInv, EnableInv
<1> QED
  BY <1>2, <1>3 DEF ScriptInv

LEMMA EnableKeeps == ASSUME ScriptInv, Enable PROVE ScriptInv'
<1>1. CASE StartEnable
  BY <1>1, StartKeeps DEF StartEnable
<1>2. RestartFtp => script'.step # "none"
  BY DEF RestartFtp, Is, GoTo
<1> QED
  BY <1>1, <1>2, SaveKeeps, EnableSteppers, RestartTimerKeeps, TrapKeeps, RestoreKeeps, ResumeKeeps DEF Enable

-----------------------------------------------------------------------------
(* Scripts: install.sh and configure-https.sh                              *)

\* A step that touches no site.
LEMMA InstallStep ==
  ASSUME ScriptInv, NEW kind \in {"install", "https"}, NEW step, NEW next,
         script = [kind |-> kind, step |-> step], script' = [kind |-> kind, step |-> next],
         script' \in [kind : {"install"}, step : InstallSteps] \cup [kind : {"https"}, step : HttpsSteps],
         step \notin Late, next \notin Late,
         files' \in [Files -> Contents], SameSites(files'), UNCHANGED <<linked, served, before, outcome>>,
         \A f \in DOMAIN kept' : kept'[f] \in Contents
  PROVE  ScriptInv'
<1>1. MachineTypes'
  BY DEF ScriptInv, MachineTypes, Quiet, Late
<1>2. Sure(files) => Sure(files)'
  <2>1. Sure(files) => Sure(files')
    BY SureSame DEF ScriptInv, MachineTypes
  <2> QED
    BY <2>1 DEF Sure
<1>3. SiteInv'
  BY <1>2 DEF ScriptInv, SiteInv
<1>4. EnableInv' /\ EndInv'
  BY DEF ScriptInv, EnableInv, EndInv, Quiet
<1> QED
  BY <1>1, <1>3, <1>4 DEF ScriptInv

\* A script of the kind whose site the machine served.
Standing(kind) == before.sure /\ SiteOf(kind) \in before.linked

\* The machine while no site is in question.
LEMMA SureSoFar ==
  ASSUME ScriptInv, NEW kind \in {"install", "https"}, NEW step, Is(kind, step), step \notin Late
  PROVE  /\ before.by = kind
         /\ Standing(kind) => SiteOf(kind) \in linked /\ Sure(files)
  BY DEF Is, ScriptInv, SiteInv, Standing

\* And once its own is replaced.
LEMMA SiteCopied ==
  ASSUME ScriptInv, NEW kind \in {"install", "https"}, NEW step \in Late, Is(kind, step)
  PROVE  /\ before.by = kind
         /\ Standing(kind) => /\ SiteOf(kind) \in linked /\ Sure(SiteBack(SiteOf(kind)))
                           /\ kept[SiteOf(kind)] \in {"old", "good"}
                           /\ served[SiteOf(kind)] = kept[SiteOf(kind)]
         /\ SiteOf(kind) \in DOMAIN kept
         /\ SiteBack(SiteOf(kind)) \in [Files -> Contents]
<1> DEFINE s == SiteOf(kind)
<1>1. /\ script.kind = kind /\ script.step = step /\ MachineTypes /\ s \in DOMAIN kept
      /\ s \in Sites /\ s \in Files /\ kept[s] \in Contents
  BY ItemFacts DEF Is, ScriptInv, MachineTypes, Late
<1>2. SiteBack(s) \in [Files -> Contents] /\ SiteBack(s)[s] = kept[s]
  BY <1>1, WithFacts DEF SiteBack
<1>3. before.by = kind /\ (Standing(kind) => s \in linked /\ Sure(SiteBack(s)))
  BY <1>1 DEF ScriptInv, SiteInv, Standing
<1>4. Standing(kind) => kept[s] \in {"old", "good"} /\ served[s] = kept[s]
  BY <1>1, <1>2, <1>3 DEF Sure, Loads, Disk
<1> QED
  BY <1>1, <1>2, <1>3, <1>4

LEMMA CopyTypes ==
  ASSUME ScriptInv, NEW f \in Files
  PROVE  /\ \A g \in DOMAIN Put(kept, f, files[f]) : Put(kept, f, files[f])[g] \in Contents
         /\ \A g \in DOMAIN Put(<<>>, f, files[f]) : Put(<<>>, f, files[f])[g] \in Contents
<1>1. files[f] \in Contents /\ \A g \in DOMAIN kept : kept[g] \in Contents
  BY DEF ScriptInv, MachineTypes
<1>2. DOMAIN <<>> = {}
  OBVIOUS
<1> QED
  BY <1>1, <1>2 DEF Put

\* A script that refuses before it has replaced a site.
LEMMA RefusedEarly ==
  ASSUME ScriptInv, NEW kind \in {"install", "https"}, NEW step, Is(kind, step), step \notin Late,
         files' \in [Files -> Contents], SameSites(files'), UNCHANGED <<linked, served>>, Over("refused")
  PROVE  ScriptInv'
<1>1. linked \subseteq Sites
  BY DEF ScriptInv, MachineTypes
<1>2. ASSUME before.sure /\ SiteOf(before.by) \in before.linked PROVE Sure(files)'
  <2>1. Sure(files)
    BY <1>2, SureSoFar DEF Standing
  <2>2. Sure(files')
    BY <1>1, <2>1, SureSame
  <2> QED
    BY <2>2 DEF Sure
<1> QED
  BY <1>1, <1>2, OverKeeps

LEMMA InstallBegins ==
  ASSUME ScriptInv, StopFtp \/ InstallConf \/ InstallSetting \/ InstallUnits
  PROVE  ScriptInv'
<1>1. /\ files \in [Files -> Contents] /\ MachineTypes /\ \A f \in DOMAIN kept : kept[f] \in Contents
      /\ "pure" \in Files /\ "setting" \in Files /\ "units" \in Files /\ "new" \in Contents
  BY ItemFacts DEF ScriptInv, MachineTypes, ItemSet, Contents
<1>2. CASE StopFtp
  BY <1>1, <1>2, CopyTypes, InstallStep DEF StopFtp, Is, GoTo, Nginx, InstallSteps, Late, SameSites
<1>3. CASE InstallConf
  <2>1. files' \in [Files -> Contents] /\ SameSites(files')
    <3>1. files' = With("pure", "new") /\ "pure" \in ItemSet
      BY <1>3 DEF InstallConf, ItemSet
    <3> QED
      BY <1>1, <3>1, WithSite
  <2> QED
    BY <1>1, <1>3, <2>1, InstallStep DEF InstallConf, Is, GoTo, Nginx, InstallSteps, Untouched, Late
<1>4. CASE InstallSetting
  <2>1. files' \in [Files -> Contents] /\ SameSites(files')
    <3>1. files' = With("setting", "new") /\ "setting" \in ItemSet
      BY <1>4 DEF InstallSetting, ItemSet
    <3> QED
      BY <1>1, <3>1, WithSite
  <2> QED
    BY <1>1, <1>4, <2>1, InstallStep DEF InstallSetting, Is, GoTo, Nginx, InstallSteps, Untouched, Late
<1>5. CASE InstallUnits
  <2>1. files' \in [Files -> Contents] /\ SameSites(files')
    <3>1. files' = With("units", "new") /\ "units" \in ItemSet
      BY <1>5 DEF InstallUnits, ItemSet
    <3> QED
      BY <1>1, <3>1, WithSite
  <2> QED
    BY <1>1, <1>5, <2>1, InstallStep DEF InstallUnits, Is, GoTo, Nginx, InstallSteps, Untouched, Late
<1> QED
  BY <1>2, <1>3, <1>4, <1>5

LEMMA InstallToolsKeeps == ASSUME ScriptInv, InstallTools PROVE ScriptInv'
<1>1. /\ files \in [Files -> Contents] /\ MachineTypes /\ \A f \in DOMAIN kept : kept[f] \in Contents
      /\ {"pure", "sudoers", "helper"} \subseteq ItemSet /\ {"new", "mixed", "absent"} \subseteq Contents
  BY DEF ScriptInv, MachineTypes, ItemSet, Contents
<1>2. CASE script'.step = "setting"
  <2>1. files' = WithAll({"sudoers", "helper"}, "new") /\ GoTo("setting") /\ kept' = kept /\ Untouched
    BY <1>2 DEF InstallTools, Over, Quiet
  <2>2. files' \in [Files -> Contents] /\ SameSites(files')
    <3>1. \A s \in Sites : s \in Files /\ s \notin {"sudoers", "helper"}
      BY ItemFacts DEF ItemSet
    <3> QED
      BY <1>1, <2>1, <3>1, WithAllFacts DEF SameSites
  <2> QED
    BY <1>1, <2>1, <2>2, InstallStep DEF InstallTools, Is, GoTo, Nginx, InstallSteps, Untouched, Late
<1>3. CASE script'.step # "setting"
  <2>1. /\ files' = [With("helper", "new") EXCEPT !["sudoers"] = "absent", !["pure"] = "mixed"]
        /\ Over("refused")
    BY <1>3 DEF InstallTools, Is, GoTo
  <2>2. With("helper", "new") \in [Files -> Contents] /\ SameSites(With("helper", "new"))
    BY <1>1, WithSite
  <2>3. files' \in [Files -> Contents] /\ SameSites(files')
    <3>1. \A s \in Sites : s \in Files /\ s \notin {"sudoers", "pure"}
      BY ItemFacts DEF ItemSet
    <3> QED
      BY <1>1, <2>1, <2>2, <3>1 DEF SameSites
  <2> QED
    BY <2>1, <2>3, RefusedEarly DEF InstallTools, Nginx, Late
<1> QED
  BY <1>2, <1>3

LEMMA InstallStartKeeps == ASSUME ScriptInv, InstallStart PROVE ScriptInv'
<1>1. /\ files \in [Files -> Contents] /\ MachineTypes /\ \A f \in DOMAIN kept : kept[f] \in Contents
      /\ "pure" \in ItemSet /\ "mixed" \in Contents
  BY DEF ScriptInv, MachineTypes, ItemSet, Contents
<1>2. CASE script'.step = "units"
  <2>1. files' = files /\ GoTo("units") /\ kept' = kept /\ Untouched
    BY <1>2 DEF InstallStart, Over, Quiet
  <2> QED
    BY <1>1, <2>1, InstallStep DEF InstallStart, Is, GoTo, Nginx, InstallSteps, Untouched, Late, SameSites
<1>3. CASE script'.step # "units"
  <2>1. files' = With("pure", "mixed") /\ Over("refused")
    BY <1>3 DEF InstallStart, Is, GoTo
  <2>2. files' \in [Files -> Contents] /\ SameSites(files')
    BY <1>1, <2>1, WithSite
  <2> QED
    BY <2>1, <2>2, RefusedEarly DEF InstallStart, Nginx, Late
<1> QED
  BY <1>2, <1>3

\* A step that puts no site and goes on to "put", or refuses to.
LEMMA BeforeSite == ASSUME ScriptInv, RenderSite \/ Issue PROVE ScriptInv'
<1>1. files \in [Files -> Contents] /\ \A f \in DOMAIN kept : kept[f] \in Contents
  BY DEF ScriptInv, MachineTypes
<1>2. files' = files /\ linked' = linked /\ served' = served
  BY DEF RenderSite, Issue, Nginx
<1>3. CASE Over("refused")
  BY <1>1, <1>2, <1>3, RefusedEarly DEF RenderSite, Issue, Late, SameSites
<1>4. CASE GoTo("put") /\ kept' = kept /\ Untouched /\ RenderSite
  BY <1>1, <1>2, <1>4, InstallStep DEF RenderSite, Is, GoTo, InstallSteps, Untouched, Late, SameSites
<1>5. CASE GoTo("put") /\ kept' = kept /\ Untouched /\ Issue
  BY <1>1, <1>2, <1>5, InstallStep DEF Issue, Is, GoTo, HttpsSteps, Untouched, Late, SameSites
<1> QED
  BY <1>3, <1>4, <1>5 DEF RenderSite, Issue

\* The site is put: the copy is the one that nginx serves.
LEMMA PutSiteKeeps ==
  ASSUME ScriptInv, NEW kind, NEW step, Is(kind, "put"), PutSite(SiteOf(kind), step),
         <<kind, step>> \in {<<"install", "link">>, <<"https", "test">>},
         linked' = linked \/ linked' = linked \cup {SiteOf(kind)}, served' = served
  PROVE  ScriptInv'
<1> DEFINE s == SiteOf(kind)
<1>1. /\ script = [kind |-> kind, step |-> "put"] /\ script' = [kind |-> kind, step |-> step]
      /\ kept' = Put(kept, s, files[s]) /\ before' = before /\ outcome' = outcome
      /\ \E v \in {"good", "bad"} : files' = With(s, v)
  BY DEF PutSite, Is, GoTo, Untouched
<1>2. s \in Sites /\ s \in Files /\ {"good", "bad"} \subseteq Contents
  BY ItemFacts DEF Contents
<1>3. files' \in [Files -> Contents] /\ (\A g \in Files : g # s => files'[g] = files[g])
  BY <1>1, <1>2, WithFacts DEF ScriptInv
<1>4. s \in DOMAIN kept' /\ kept'[s] = files[s]
  BY <1>1 DEF Put
<1>5. MachineTypes'
  <2>1. linked' \subseteq Sites
    BY <1>2 DEF ScriptInv, MachineTypes
  <2> QED
    BY <1>1, <1>2, <1>3, <1>4, <2>1, CopyTypes DEF MachineTypes, InstallSteps, HttpsSteps, Quiet
<1>6. before.by = kind /\ (Standing(kind) => s \in linked /\ Sure(files))
  BY SureSoFar DEF Late
<1>7. SiteInv'
  <2> SUFFICES ASSUME Standing(kind)
               PROVE  s \in linked' /\ Sure(SiteBack(s))'
    BY <1>1, <1>6 DEF SiteInv, Standing, Late
  <2>1. linked' = linked
    BY <1>6
  <2>2. SiteBack(s)' = [files' EXCEPT ![s] = kept'[s]]
    BY DEF SiteBack, With
  <2>3. [files' EXCEPT ![s] = kept'[s]] = files
    BY <1>2, <1>3, <1>4 DEF ScriptInv, MachineTypes
  <2> QED
    BY <1>6, <2>1, <2>2, <2>3 DEF Sure
<1>8. EnableInv' /\ EndInv'
  BY <1>1 DEF ScriptInv, EnableInv, EndInv, Quiet
<1> QED
  BY <1>5, <1>7, <1>8 DEF ScriptInv

\* On to the next step of a script whose site is replaced.
LEMMA LateStep ==
  ASSUME ScriptInv, NEW kind, NEW step, NEW next, Is(kind, step), GoTo(next),
         <<kind, step, next>> \in {<<"install", "link", "services">>, <<"install", "services", "reload">>,
                                   <<"https", "test", "reload">>},
         UNCHANGED <<files, kept, before, outcome>>,
         linked' = linked \/ linked' = linked \cup {SiteOf(kind)}, served' = served \/ ~Standing(kind)
  PROVE  ScriptInv'
<1>1. script = [kind |-> kind, step |-> step] /\ script' = [kind |-> kind, step |-> next]
  BY DEF Is, GoTo
<1>2. kind \in {"install", "https"} /\ step \in Late /\ next \in Late /\ SiteOf(kind) \in Sites
  BY ItemFacts DEF Late
<1>3. /\ before.by = kind /\ SiteOf(kind) \in DOMAIN kept
      /\ Standing(kind) => SiteOf(kind) \in linked /\ Sure(SiteBack(SiteOf(kind)))
  BY <1>2, SiteCopied
<1>4. MachineTypes'
  <2>1. linked' \subseteq Sites
    BY <1>2 DEF ScriptInv, MachineTypes
  <2>2. script' \in [kind : {"install"}, step : InstallSteps] \cup [kind : {"https"}, step : HttpsSteps]
    BY <1>1 DEF InstallSteps, HttpsSteps
  <2> QED
    BY <1>1, <1>2, <1>3, <2>1, <2>2 DEF ScriptInv, MachineTypes, Quiet
<1>5. SiteInv'
  <2> SUFFICES ASSUME Standing(kind)
               PROVE  SiteOf(kind) \in linked' /\ Sure(SiteBack(SiteOf(kind)))'
    BY <1>1, <1>2, <1>3 DEF SiteInv, Standing
  <2>1. linked' = linked /\ served' = served
    BY <1>3
  <2> QED
    BY <1>3, <2>1 DEF Sure, SiteBack, With
<1>6. EnableInv' /\ EndInv'
  BY <1>1, <1>2 DEF ScriptInv, EnableInv, EndInv, Quiet
<1> QED
  BY <1>4, <1>5, <1>6 DEF ScriptInv

\* A refused site is replaced by its copy, unless there is none.
LEMMA RefusedLate ==
  ASSUME ScriptInv, NEW kind \in {"install", "https"}, NEW step \in Late, Is(kind, step), Over("refused"),
         linked' = linked \/ linked' = linked \cup {SiteOf(kind)},
         files' = SiteBack(SiteOf(kind)) \/ (files' = files /\ kept[SiteOf(kind)] = "absent"),
         Standing(kind) => served' = served \/ (linked' = linked /\ served' = Disk(SiteBack(SiteOf(kind)), linked))
  PROVE  ScriptInv'
<1>1. files' \in [Files -> Contents] /\ linked' \subseteq Sites
  BY SiteCopied, ItemFacts DEF ScriptInv, MachineTypes
<1>2. before.by = kind
  BY SiteCopied
<1>3. ASSUME Standing(kind) PROVE Sure(files)'
  <2>1. /\ SiteOf(kind) \in linked /\ Sure(SiteBack(SiteOf(kind)))
        /\ kept[SiteOf(kind)] \in {"old", "good"}
    BY <1>3, SiteCopied
  <2>2. linked' = linked /\ files' = SiteBack(SiteOf(kind))
    BY <2>1
  <2>3. served' = served
    BY <1>3, <2>1 DEF Sure
  <2> QED
    BY <2>1, <2>2, <2>3, SureNext
<1> QED
  BY <1>1, <1>2, <1>3, OverKeeps DEF Standing

\* The new site is tested: it is there to be loaded, or the old one is back.
LEMMA TestKeeps == ASSUME ScriptInv, LinkSite \/ TestHttps PROVE ScriptInv'
<1>1. SiteOf("install") = "site" /\ SiteOf("https") = "https"
  BY DEF SiteOf
<1>2. CASE LinkSite /\ GoTo("services") /\ UNCHANGED <<files, kept>> /\ Untouched
  BY <1>1, <1>2, LateStep DEF LinkSite, Untouched
<1>3. CASE LinkSite /\ files' = SiteBack("site") /\ Over("refused")
  BY <1>1, <1>3, RefusedLate DEF LinkSite, Late
<1>4. CASE TestHttps /\ GoTo("reload") /\ UNCHANGED <<files, kept>> /\ Untouched
  BY <1>1, <1>4, LateStep DEF TestHttps, Untouched, Nginx
<1>5. CASE TestHttps /\ files' = (IF kept["https"] = "absent" THEN files ELSE SiteBack("https")) /\ Over("refused")
  BY <1>1, <1>5, RefusedLate DEF TestHttps, Late, Nginx
<1> QED
  BY <1>2, <1>3, <1>4, <1>5 DEF LinkSite, TestHttps

LEMMA StartUnitsKeeps == ASSUME ScriptInv, StartUnits PROVE ScriptInv'
<1>1. Is("install", "services") /\ "services" \in Late /\ SiteOf("install") = "site" /\ "site" \in Sites
  BY DEF StartUnits, Late, SiteOf, Sites
<1>2. Standing("install") => served["site"] \in {"old", "good"}
  BY <1>1, SiteCopied
<1>3. Disk(files, {})["site"] = "off"
  BY <1>1 DEF Disk
<1>4. served' = served \/ ~Standing("install")
  BY <1>2, <1>3 DEF StartUnits
<1> QED
  BY <1>1, <1>4, LateStep DEF StartUnits, Untouched

LEMMA ReloadKeeps == ASSUME ScriptInv, Reload PROVE ScriptInv'
<1>1. Is("install", "reload") /\ "reload" \in Late /\ SiteOf("install") = "site" /\ linked' = linked
  BY DEF Reload, Late, SiteOf
<1>2. linked' \subseteq Sites /\ files \in [Files -> Contents]
  BY <1>1 DEF ScriptInv, MachineTypes
<1>3. CASE Over("done") /\ files' = files
  BY <1>2, <1>3, OverKeeps
<1>4. CASE Over("refused") /\ files' = SiteBack("site")
  <2>1. ASSUME Standing("install") PROVE served' = Disk(SiteBack("site"), linked)
    <3>1. Loads(SiteBack("site"), linked)
      BY <1>1, <2>1, SiteCopied DEF Sure
    <3>2. IF Loads(files', linked) THEN served' = Disk(files', linked) ELSE TRUE
      BY <1>4 DEF Reload, Over
    <3> QED
      BY <1>4, <3>1, <3>2
  <2> QED
    BY <1>1, <1>4, <2>1, RefusedLate
<1> QED
  BY <1>3, <1>4 DEF Reload

LEMMA InstallKeeps == ASSUME ScriptInv, Install PROVE ScriptInv'
<1>1. CASE StartInstall
  BY <1>1, StartKeeps DEF StartInstall
<1>2. CASE InstallSite
  BY <1>2, PutSiteKeeps DEF InstallSite, Nginx, SiteOf
<1> QED
  BY <1>1, <1>2, InstallBegins, InstallToolsKeeps, InstallStartKeeps, BeforeSite, TestKeeps, StartUnitsKeeps, ReloadKeeps
     DEF Install

LEMMA RenewKeeps == ASSUME ScriptInv, Renew PROVE ScriptInv'
<1>1. MachineTypes' /\ EnableInv' /\ SiteInv'
  BY DEF Renew, ScriptInv, MachineTypes, EnableInv, SiteInv, Quiet
<1>2. EndInv'
  <2>1. ASSUME Sure(files) PROVE Sure(files)'
    BY <2>1 DEF Renew, Sure
  <2> QED
    BY <2>1 DEF Renew, ScriptInv, EndInv, SetupUndone, RollbackRestores, SiteReturns
<1> QED
  BY <1>1, <1>2 DEF ScriptInv

LEMMA HttpsKeeps == ASSUME ScriptInv, Https PROVE ScriptInv'
<1>1. CASE StartHttps
  BY <1>1, StartKeeps DEF StartHttps
<1>2. CASE HttpsSite
  BY <1>2, PutSiteKeeps DEF HttpsSite, SiteOf
<1>3. CASE ReloadHttps
  BY <1>3, OverKeeps DEF ReloadHttps, ScriptInv, MachineTypes
<1> QED
  BY <1>1, <1>2, <1>3, BeforeSite, TestKeeps, RenewKeeps DEF Https

LEMMA CutKeeps == ASSUME ScriptInv, Cut PROVE ScriptInv'
<1>1. files' \in [Files -> Contents]
  BY WithFacts, ItemFacts DEF Cut, ScriptInv, MachineTypes, ItemSet, Contents
<1> QED
  BY <1>1, OverKeeps DEF Cut, Nginx, ScriptInv, MachineTypes

LEMMA WebSame == ASSUME ScriptInv, Web PROVE ScriptInv'
  BY SameMachine DEF Web

LEMMA ScriptKeeps ==
  ASSUME ScriptInv, [Web \/ Enable \/ Install \/ Https \/ Cut]_<<ftpVars, setup>> PROVE ScriptInv'
<1>1. CASE UNCHANGED <<ftpVars, setup>>
  BY <1>1, SameMachine DEF setup
<1> QED
  BY <1>1, WebSame, EnableKeeps, InstallKeeps, HttpsKeeps, CutKeeps

LEMMA ScriptFirst == SetupInit => ScriptInv
<1> SUFFICES ASSUME SetupInit PROVE ScriptInv
  OBVIOUS
<1>1. MachineTypes
  BY DEF SetupInit, MachineTypes, Contents, Quiet
<1>2. EnableInv /\ SiteInv
  BY DEF SetupInit, EnableInv, SiteInv, Quiet
<1>3. EndInv
  BY DEF SetupInit, EndInv, SetupUndone, RollbackRestores, SiteReturns
<1> QED
  BY <1>1, <1>2, <1>3 DEF ScriptInv

\* RollbackRestores and SiteReturns: enable-ftp.sh's rollback leaves every item as it
\* found it, and a script that refuses a site installed over one of its own leaves
\* nginx serving what lies on the disk, all of which it would load, whatever the web
\* application did meanwhile.  Of a script that had no site of its own nothing is said.
THEOREM RefusedIsUndone == SetupSpec => [](RollbackRestores /\ SiteReturns)
<1>1. ScriptInv => RollbackRestores /\ SiteReturns
  BY DEF ScriptInv, EndInv, SetupUndone, RollbackRestores, SiteReturns
<1> QED
  BY <1>1, ScriptFirst, ScriptKeeps, PTL DEF SetupSpec

-----------------------------------------------------------------------------
(* Accounts: the inductive invariant                                       *)

LiveOf(R, u) == {a \in DOMAIN R : Live(R, a) /\ R[a].user = u}

\* What AgreesOn says of rows R and user database L, for rows with one live row at most
\* per username.
Matches(R, L, u) ==
  IF LiveOf(R, u) = {} THEN u \notin DOMAIN L
  ELSE u \in DOMAIN L /\ L[u].pass = "current" /\ L[u].home \in LiveOf(R, u)

SameAt(L, M, u) == (u \in DOMAIN L <=> u \in DOMAIN M) /\ (u \in DOMAIN L => L[u] = M[u])

Names == Usernames \cup {Generated}
LoginType == [home : Nat, pass : {"current", "old", "open"}]
Passes == {"none", "current", "open"}
RequestType == [op : Served, acct : Nat, user : Names, pass : Passes, old : {Idle} \cup RowType,
                step : {"call", "answer", "next"}, ok : BOOLEAN,
                built : BOOLEAN, todo : SUBSET Nat, dev : Devices \cup {NoDevice}]

TableTypes(R) == \A a \in DOMAIN R : R[a] \in RowType

RowsInv ==
  /\ last \in Nat /\ DOMAIN rows \subseteq 1..last /\ TableTypes(rows)
  /\ UniqueLive(rows)
  /\ \A u \in DOMAIN login : login[u] \in LoginType
  /\ req = Idle \/ req \in RequestType

\* The helper has been called, or has been and its answer is there.
Calling == req # Idle /\ req.step \in {"call", "answer"}
Acted == req.step = "answer" /\ req.ok

Taking == {"disable", "deactivate", "purge"}

\* The rows that the request leaves if its helper fails.
IfFailed ==
  LET a == req.acct IN
  CASE req.op = "create" -> [rows EXCEPT ![a].active = FALSE, ![a].deleted = TRUE]
    [] req.op \in {"disable", "purge"} ->
         [rows EXCEPT ![a].active = req.old.active, ![a].deleted = req.old.deleted]
    [] req.op = "deactivate" -> [rows EXCEPT ![a].active = TRUE]
    [] OTHER -> rows

FlightInv ==
  Calling =>
    /\ req.acct \in DOMAIN rows /\ req.user = rows[req.acct].user
    /\ req.op \in {"create", "link"} => Live(rows, req.acct)
    /\ req.op \in Taking => ~Live(rows, req.acct)
    /\ req.pass \in (IF req.op \in Taking THEN {"none"}
                     ELSE IF req.op = "link" THEN {"current", "open"} ELSE {"current"})
    /\ req.op \in {"disable", "purge"} => req.old \in RowType
    /\ UniqueLive(IfFailed)
    /\ Shared(req.acct, rows) \subseteq clouded

\* Of the accounts of equipment that is being removed, those are deleted that are not
\* still to be.
PurgeInv ==
  /\ req # Idle /\ ~Calling => req.op = "purge" /\ req.user = Generated /\ req.pass = "none"
  /\ req # Idle /\ req.op = "purge" =>
       /\ \A a \in OfDevice(req.dev) \ req.todo : rows[a].deleted
       /\ req.todo \subseteq DOMAIN rows
       /\ Calling => rows[req.acct].deleted

\* What the helper has written, or not touched, is what the request needs to end with.
SettleInv ==
  Calling /\ req.user \in Usernames \ reverted =>
    /\ Acted /\ Shared(req.acct, rows) = {} =>
         IF LiveOf(rows, req.user) = {} THEN req.user \notin DOMAIN login
         ELSE req.user \in DOMAIN login /\ login[req.user] = [home |-> req.acct, pass |-> req.pass]
    /\ ~Acted /\ req.op # "reset" /\ req.user \notin clouded => Matches(IfFailed, login, req.user)

AgreeInv == \A u \in Usernames \ (clouded \cup reverted) : ~Touches(u) => Matches(rows, login, u)

AccountInv == RowsInv /\ FlightInv /\ PurgeInv /\ SettleInv /\ AgreeInv

\* A copy of the user database has every login that was not dealt with since.
KeptInv ==
  "pure" \in DOMAIN kept =>
    /\ \A u \in DOMAIN logins : logins[u] \in LoginType
    /\ \A u \in Usernames \ touched :
         u \notin clouded \cup reverted \/ Touches(u) => SameAt(logins, login, u)

\* install.sh has a copy to go back to as long as it may.
HasPure ==
  script.kind = "install" /\ script.step \in {"configure", "tools", "setting", "start"} =>
    "pure" \in DOMAIN kept

-----------------------------------------------------------------------------
(* Accounts: lemmas                                                        *)

LEMMA MatchSame ==
  ASSUME NEW R, NEW S, NEW L, NEW M, NEW u, LiveOf(R, u) = LiveOf(S, u), SameAt(L, M, u), Matches(R, L, u)
  PROVE  Matches(S, M, u)
  BY DEF Matches, SameAt

LEMMA SameSame == ASSUME NEW L, NEW u PROVE SameAt(L, L, u)
  BY DEF SameAt

LEMMA MatchAgrees ==
  ASSUME RowsInv, NEW u, Matches(rows, login, u)
  PROVE  AgreesOn(u)
<1> DEFINE S == {a \in DOMAIN rows : Live(rows, a) /\ rows[a].user = u}
           Have == {[home |-> a, pass |-> "current"] : a \in S}
           Got == {login[v] : v \in DOMAIN login \cap {u}}
<1>1. S = LiveOf(rows, u)
  BY DEF LiveOf
<1>2. CASE S = {}
  <2>1. DOMAIN login \cap {u} = {}
    BY <1>1, <1>2 DEF Matches
  <2> QED
    BY <1>2, <2>1 DEF AgreesOn
<1>3. CASE S # {}
  <2>1. /\ u \in DOMAIN login /\ login[u].pass = "current" /\ login[u].home \in S
        /\ login[u] \in LoginType
    BY <1>1, <1>3 DEF Matches, RowsInv
  <2>2. \A a, b \in S : a = b
    BY DEF RowsInv, UniqueLive, Live
  <2>3. S = {login[u].home}
    BY <2>1, <2>2
  <2>4. login[u] = [home |-> login[u].home, pass |-> "current"]
    BY <2>1 DEF LoginType
  <2>5. Got = {login[u]}
    BY <2>1
  <2> HIDE DEF S
  <2>6. Have = {[home |-> login[u].home, pass |-> "current"]}
    BY <2>3
  <2>7. Have = Got
    BY <2>4, <2>5, <2>6
  <2> QED
    BY <2>7 DEF AgreesOn, S
<1> QED
  BY <1>2, <1>3

\* Tables that differ in row a only, of username w.
Differ(R, S, a, w) ==
  /\ DOMAIN R \ {a} = DOMAIN S \ {a}
  /\ \A b \in DOMAIN R \ {a} : S[b] = R[b]
  /\ a \in DOMAIN R => R[a].user = w
  /\ a \in DOMAIN S => S[a].user = w

LEMMA OthersLive ==
  ASSUME NEW R, NEW S, NEW a, NEW w, Differ(R, S, a, w), NEW u, u # w
  PROVE  LiveOf(S, u) = LiveOf(R, u)
  BY DEF Differ, LiveOf, Live

\* Fewer live rows.
LEMMA FewerUnique ==
  ASSUME NEW R, NEW S, UniqueLive(R), DOMAIN S \subseteq DOMAIN R,
         \A b \in DOMAIN S : Live(S, b) => Live(R, b) /\ S[b].user = R[b].user /\ S[b].dev = R[b].dev
  PROVE  UniqueLive(S)
  BY DEF UniqueLive, Live

\* S is R with other flags in row a.
Flagged(R, S, a, x, y) ==
  /\ DOMAIN S = DOMAIN R /\ TableTypes(S)
  /\ S[a].user = R[a].user /\ S[a].dev = R[a].dev /\ S[a].active = x /\ S[a].deleted = y
  /\ \A b \in DOMAIN R \ {a} : S[b] = R[b]
  /\ Differ(R, S, a, R[a].user)

LEMMA FlagsFacts ==
  ASSUME NEW R, TableTypes(R), NEW a \in DOMAIN R, NEW x \in BOOLEAN, NEW y \in BOOLEAN,
         NEW S, S = [R EXCEPT ![a].active = x, ![a].deleted = y]
  PROVE  Flagged(R, S, a, x, y)
<1>1. R[a] \in RowType
  BY DEF TableTypes
<1>2. DOMAIN S = DOMAIN R /\ \A b \in DOMAIN R \ {a} : S[b] = R[b]
  OBVIOUS
<1>3. S[a] \in RowType /\ S[a].user = R[a].user /\ S[a].dev = R[a].dev /\ S[a].active = x /\ S[a].deleted = y
  BY <1>1 DEF RowType
<1>4. TableTypes(S)
  BY <1>2, <1>3 DEF TableTypes
<1>5. Differ(R, S, a, R[a].user)
  BY <1>2, <1>3 DEF Differ
<1> QED
  BY <1>2, <1>3, <1>4, <1>5 DEF Flagged

LEMMA ActiveFacts ==
  ASSUME NEW R, TableTypes(R), NEW a \in DOMAIN R, NEW x \in BOOLEAN, NEW S, S = [R EXCEPT ![a].active = x]
  PROVE  Flagged(R, S, a, x, R[a].deleted)
<1>1. R[a] \in RowType
  BY DEF TableTypes
<1>2. DOMAIN S = DOMAIN R /\ \A b \in DOMAIN R \ {a} : S[b] = R[b]
  OBVIOUS
<1>3. /\ S[a] \in RowType /\ S[a].user = R[a].user /\ S[a].dev = R[a].dev
      /\ S[a].active = x /\ S[a].deleted = R[a].deleted
  BY <1>1 DEF RowType
<1>4. TableTypes(S)
  BY <1>2, <1>3 DEF TableTypes
<1>5. Differ(R, S, a, R[a].user)
  BY <1>2, <1>3 DEF Differ
<1> QED
  BY <1>2, <1>3, <1>4, <1>5 DEF Flagged

-----------------------------------------------------------------------------
(* Accounts: what a step leaves alone, and what it settles                 *)

Calm(u) == u \in Usernames \ (clouded \cup reverted)

\* A username that is of no request keeps its login and its live rows.
Rest ==
  \A u : Calm(u)' /\ ~Touches(u) /\ ~Touches(u)' =>
    Calm(u) /\ SameAt(login, login', u) /\ LiveOf(rows', u) = LiveOf(rows, u)

\* One whose request ends is in order.
Released == \A u : Calm(u)' /\ Touches(u) /\ ~Touches(u)' => Matches(rows', login', u)

Fine == Rest /\ Released /\ (RowsInv /\ FlightInv /\ PurgeInv /\ SettleInv)'

LEMMA BusyFacts ==
  ASSUME RowsInv
  PROVE  /\ (req # Idle) = Busy
         /\ Busy => req \in RequestType
<1>1. \A r \in RequestType : r.op \in Served
  BY DEF RequestType
<1>2. Idle.op = "none" /\ "none" \notin Served
  BY DEF Idle, Served, Changes
<1>3. req = Idle \/ req \in RequestType
  BY DEF RowsInv
<1> QED
  BY <1>1, <1>2, <1>3 DEF Busy

LEMMA FineAgrees ==
  ASSUME AgreeInv, Rest, Released
  PROVE  AgreeInv'
<1> SUFFICES ASSUME NEW u \in Usernames, u \notin (clouded \cup reverted)', ~Touches(u)'
             PROVE  Matches(rows', login', u)
  BY DEF AgreeInv
<1>1. Calm(u)'
  BY DEF Calm
<1>2. CASE Touches(u)
  BY <1>1, <1>2 DEF Released
<1>3. CASE ~Touches(u)
  <2>1. Calm(u) /\ SameAt(login, login', u) /\ LiveOf(rows', u) = LiveOf(rows, u)
    BY <1>1, <1>3 DEF Rest
  <2>2. Matches(rows, login, u)
    BY <1>3, <2>1 DEF AgreeInv, Calm
  <2> QED
    BY <2>1, <2>2, MatchSame
<1> QED
  BY <1>2, <1>3

\* The login of a username in order, no row of which is a, is not that of row a.
LEMMA HomeElsewhere ==
  ASSUME NEW R, NEW L, NEW u, Matches(R, L, u), NEW a, a \in DOMAIN R => R[a].user # u
  PROVE  u \in DOMAIN L => L[u].home # a
  BY DEF Matches, LiveOf

LEMMA OutdatedFacts ==
  ASSUME NEW L, NEW a
  PROVE  /\ DOMAIN Outdated(L, a) = DOMAIN L
         /\ \A u \in DOMAIN L : L[u].home # a => Outdated(L, a)[u] = L[u]
         /\ (\A u \in DOMAIN L : L[u] \in LoginType) => \A u \in DOMAIN L : Outdated(L, a)[u] \in LoginType
<1>1. DOMAIN Outdated(L, a) = DOMAIN L
  BY DEF Outdated
<1>2. \A u \in DOMAIN L : L[u].home # a => Outdated(L, a)[u] = L[u]
  BY DEF Outdated
<1>3. ASSUME NEW u \in DOMAIN L, L[u] \in LoginType PROVE Outdated(L, a)[u] \in LoginType
  <2>1. Outdated(L, a)[u] = L[u] \/ Outdated(L, a)[u] = [L[u] EXCEPT !.pass = "old"]
    BY DEF Outdated
  <2>2. [L[u] EXCEPT !.pass = "old"] \in LoginType
    BY <1>3 DEF LoginType
  <2> QED
    BY <1>3, <2>1, <2>2
<1> QED
  BY <1>1, <1>2, <1>3

LEMMA ClosedTypes ==
  ASSUME NEW L, NEW a, NEW ok, \A u \in DOMAIN L : L[u] \in LoginType,
         NEW M, M = L \/ M = Closed(L, a, ok)
  PROVE  DOMAIN M = DOMAIN L /\ \A u \in DOMAIN M : M[u] \in LoginType
<1>1. CASE M = L
  BY <1>1
<1>2. CASE M = Closed(L, a, ok)
  <2>1. DOMAIN M = DOMAIN L
    BY <1>2 DEF Closed
  <2>2. ASSUME NEW u \in DOMAIN L PROVE M[u] \in LoginType
    <3>1. \/ M[u] = L[u]
          \/ \E p \in {"current", "old"} \cup {L[u].pass} : M[u] = [L[u] EXCEPT !.pass = p]
      BY <1>2 DEF Closed
    <3>2. \A p \in {"current", "old"} \cup {L[u].pass} : [L[u] EXCEPT !.pass = p] \in LoginType
      BY DEF LoginType
    <3> QED
      BY <3>1, <3>2
  <2> QED
    BY <2>1, <2>2
<1> QED
  BY <1>1, <1>2

\* It fails: one that is the account's stays so.
LEMMA ClosedBack ==
  ASSUME NEW L, NEW a, NEW ok, ~ok, NEW u,
         u \in DOMAIN L => L[u] \in LoginType /\ L[u].pass = "current",
         NEW M, M = L \/ M = Closed(L, a, ok)
  PROVE  SameAt(L, M, u)
<1>1. CASE M = L
  BY <1>1 DEF SameAt
<1>2. CASE M = Closed(L, a, ok)
  <2>1. DOMAIN M = DOMAIN L
    BY <1>2 DEF Closed
  <2>2. ASSUME u \in DOMAIN L PROVE M[u] = L[u]
    <3>1. M[u] = L[u] \/ M[u] = [L[u] EXCEPT !.pass = L[u].pass]
      BY <1>2, <2>2 DEF Closed
    <3> QED
      BY <2>2, <3>1 DEF LoginType
  <2> QED
    BY <2>1, <2>2 DEF SameAt
<1> QED
  BY <1>1, <1>2

\* A step about row a and its username w touches no other username.
LEMMA RestFacts ==
  ASSUME RowsInv, AgreeInv, NEW a, NEW w,
         a \in DOMAIN rows => rows[a].user = w,
         Differ(rows, rows', a, w),
         \/ login' = login
         \/ login' = Outdated(login, a)
         \/ \E ok \in BOOLEAN : login' = Closed(login, a, ok),
         w \notin Usernames \/ Touches(w) \/ Touches(w)',
         clouded \subseteq clouded' \cup {w}, reverted' = reverted
  PROVE  Rest
<1> SUFFICES ASSUME NEW u, Calm(u)', ~Touches(u), ~Touches(u)'
             PROVE  Calm(u) /\ SameAt(login, login', u) /\ LiveOf(rows', u) = LiveOf(rows, u)
  BY DEF Rest
<1>1. u # w /\ Calm(u)
  BY DEF Calm
<1>2. LiveOf(rows', u) = LiveOf(rows, u)
  BY <1>1, OthersLive
<1>3. Matches(rows, login, u)
  BY <1>1 DEF AgreeInv, Calm
<1>4. u \in DOMAIN login => login[u].home # a
  BY <1>1, <1>3, HomeElsewhere
<1>5. CASE login' = login
  BY <1>1, <1>2, <1>5, SameSame
<1>6. CASE login' = Outdated(login, a)
  BY <1>1, <1>2, <1>4, <1>6, OutdatedFacts DEF SameAt
<1>7. ASSUME NEW ok \in BOOLEAN, login' = Closed(login, a, ok)
      PROVE  SameAt(login, login', u)
  <2>1. /\ DOMAIN Closed(login, a, ok) = DOMAIN login
        /\ \A v \in DOMAIN login : login[v].home # a => Closed(login, a, ok)[v] = login[v]
    BY DEF Closed
  <2> QED
    BY <1>4, <1>7, <2>1 DEF SameAt
<1> QED
  BY <1>1, <1>2, <1>5, <1>6, <1>7

\* The only other row in the way of a withdrawal is a live one of the same username.
LEMMA SharedFacts ==
  ASSUME NEW R, NEW a, a \in DOMAIN R, R[a].user \in Usernames
  PROVE  /\ Shared(a, R) = {} => LiveOf(R, R[a].user) = (IF Live(R, a) THEN {a} ELSE {})
         /\ Shared(a, R) # {} => Shared(a, R) = {R[a].user}
<1>1. Shared(a, R) = {} \/ Shared(a, R) = {R[a].user}
  BY DEF Shared
<1>2. ASSUME Shared(a, R) = {} PROVE LiveOf(R, R[a].user) = (IF Live(R, a) THEN {a} ELSE {})
  <2>1. \A b \in DOMAIN R \ {a} : ~(Live(R, b) /\ R[b].user = R[a].user)
    BY <1>2 DEF Shared
  <2>2. \A b \in LiveOf(R, R[a].user) : b = a /\ Live(R, a)
    BY <2>1 DEF LiveOf
  <2>3. Live(R, a) => a \in LiveOf(R, R[a].user)
    BY DEF LiveOf
  <2> QED
    BY <2>2, <2>3
<1> QED
  BY <1>1, <1>2

-----------------------------------------------------------------------------
(* Accounts: a request begins                                              *)

\* r is a fresh request.
Fresh(r, op, a, u, pass) ==
  /\ r \in RequestType
  /\ r.op = op /\ r.acct = a /\ r.user = u /\ r.pass = pass /\ r.step = "call"

LEMMA RequestFacts ==
  ASSUME NEW op \in Served, NEW a \in Nat, NEW pass \in Passes, NEW R, TableTypes(R),
         NEW r, r = Request(op, a, pass, R)
  PROVE  Fresh(r, op, a, UserOf(R, a), pass)
<1>1. UserOf(R, a) \in Names
  BY DEF UserOf, Names, TableTypes, RowType
<1>2. NoDevice \in Devices \cup {NoDevice} /\ {} \in SUBSET Nat /\ Idle \in {Idle} \cup RowType
  OBVIOUS
<1> QED
  BY <1>1, <1>2 DEF Request, RequestType, Fresh

LEMMA AskedFacts ==
  ASSUME NEW op, NEW a, NEW pass, NEW u, NEW r, Fresh(r, op, a, u, pass),
         NEW old \in RowType, NEW s, s = [r EXCEPT !.old = old]
  PROVE  Fresh(s, op, a, u, pass) /\ s.old = old
  BY DEF RequestType, Fresh

\* A row where there was none.
LEMMA PutRow ==
  ASSUME RowsInv, NEW r \in RowType, NEW R, R = Put(rows, last + 1, r)
  PROVE  /\ last + 1 \notin DOMAIN rows /\ last + 1 \in Nat
         /\ DOMAIN R = DOMAIN rows \cup {last + 1} /\ DOMAIN R \subseteq 1..last + 1
         /\ TableTypes(R) /\ R[last + 1] = r
         /\ Differ(rows, R, last + 1, r.user)
<1>1. last + 1 \notin DOMAIN rows /\ last + 1 \in Nat /\ DOMAIN rows \cup {last + 1} \subseteq 1..last + 1
  BY DEF RowsInv
<1>2. DOMAIN R = DOMAIN rows \cup {last + 1} /\ R[last + 1] = r
  BY DEF Put
<1>3. \A b \in DOMAIN rows : R[b] = rows[b]
  BY <1>1 DEF Put
<1>4. \A b \in DOMAIN rows : rows[b] \in RowType
  BY DEF RowsInv, TableTypes
<1>5. TableTypes(R)
  BY <1>2, <1>3, <1>4 DEF TableTypes
<1>6. Differ(rows, R, last + 1, r.user)
  BY <1>1, <1>2, <1>3 DEF Differ
<1> QED
  BY <1>1, <1>2, <1>5, <1>6

Unheld == \A u \in Usernames : ~Touches(u)

LEMMA FreeUnheld ==
  ASSUME Free
  PROVE  Unheld /\ ~Busy
  BY DEF Unheld, Touches, Free

LEMMA BeginsFine ==
  ASSUME AccountInv, Unheld, NEW a, NEW w,
         a \in DOMAIN rows => rows[a].user = w, Differ(rows, rows', a, w),
         login' = login \/ login' = Outdated(login, a),
         clouded \subseteq clouded', reverted' = reverted,
         Busy', req'.step = "call", req'.user = w,
         RowsInv', FlightInv', PurgeInv',
         req'.op # "reset" /\ Calm(w) => LiveOf(IfFailed', w) = LiveOf(rows, w) /\ SameAt(login, login', w)
  PROVE  Fine
<1>1. Released
  BY DEF Released, Unheld, Calm
<1>2. Touches(w)'
  BY DEF Touches
<1>3. Rest
  BY <1>2, RestFacts DEF AccountInv
<1>4. SettleInv'
  <2> SUFFICES ASSUME req'.user \in (Usernames \ reverted)', req'.op # "reset", req'.user \notin clouded'
               PROVE  Matches(IfFailed', login', w)
    BY DEF SettleInv, Acted
  <2>1. Calm(w) /\ ~Touches(w)
    BY DEF Calm, Unheld
  <2>2. Matches(rows, login, w)
    BY <2>1 DEF AccountInv, AgreeInv, Calm
  <2>3. LiveOf(IfFailed', w) = LiveOf(rows, w) /\ SameAt(login, login', w)
    BY <2>1
  <2> QED
    BY <2>2, <2>3, MatchSame
<1> QED
  BY <1>1, <1>3, <1>4 DEF Fine

\* A request that is no removal of equipment.
LEMMA ChangesPurge ==
  ASSUME Busy', req'.op \in Changes, req'.step = "call", RowsInv'
  PROVE  PurgeInv'
<1>1. "purge" \notin Changes
  BY DEF Changes
<1>2. (req # Idle)'
  BY DEF Busy, Idle
<1>3. Calling'
  BY <1>2 DEF Calling
<1> QED
  BY <1>1, <1>3 DEF PurgeInv

\* The facts every first transaction starts from.
LEMMA AtRest ==
  ASSUME AccountInv
  PROVE  /\ last \in Nat /\ DOMAIN rows \subseteq 1..last /\ DOMAIN rows \subseteq Nat
         /\ TableTypes(rows) /\ UniqueLive(rows)
         /\ \A a \in DOMAIN rows : rows[a] \in RowType /\ UserOf(rows, a) = rows[a].user
         /\ \A u \in DOMAIN login : login[u] \in LoginType
  BY DEF AccountInv, RowsInv, TableTypes, UserOf

LEMMA SameDiffer == ASSUME NEW R, NEW a, a \in DOMAIN R PROVE Differ(R, R, a, R[a].user)
  BY DEF Differ

LEMMA ServedOps ==
  /\ Changes \subseteq Served /\ "purge" \in Served /\ "none" \notin Served /\ "purge" \notin Changes
  /\ {"create", "reset", "disable", "deactivate", "link"} = Changes /\ Taking \subseteq Served
  BY DEF Served, Changes, Taking

\* Creating an account.
LEMMA CreateFine ==
  ASSUME AccountInv, NEW u \in Usernames, NEW d \in Devices \cup {NoDevice}, Create(u, d), reverted' = reverted
  PROVE  Fine
<1> DEFINE n == last + 1
           R == Put(rows, n, Row(u, d))
           r == Request("create", n, "current", R)
<1>1. Row(u, d) \in RowType /\ Row(u, d).user = u
  BY DEF Row, RowType
<1>2. /\ n \notin DOMAIN rows /\ n \in Nat
      /\ DOMAIN R = DOMAIN rows \cup {n} /\ DOMAIN R \subseteq 1..n
      /\ TableTypes(R) /\ R[n] = Row(u, d)
      /\ Differ(rows, R, n, u)
  BY <1>1, PutRow DEF AccountInv
<1>3. n = last + 1
  OBVIOUS
<1>4. r = Request("create", n, "current", R)
  OBVIOUS
<1> HIDE DEF R, r, n
<1>5. Fresh(r, "create", n, u, "current")
  <2>1. UserOf(R, n) = u
    BY <1>1, <1>2 DEF UserOf
  <2>2. "create" \in Served /\ "current" \in Passes
    BY ServedOps DEF Passes
  <2> QED
    BY <1>2, <1>4, <2>1, <2>2, RequestFacts
<1>6. /\ Free /\ rows' = R /\ last' = n /\ req' = r /\ login' = Outdated(login, n)
      /\ clouded' = clouded \cup Shared(n, R) /\ UniqueLive(R)
  BY DEF Create, AskNew, R, r, n
<1>7. /\ req' \in RequestType /\ req'.op = "create" /\ req'.acct = n /\ req'.user = u
      /\ req'.pass = "current" /\ req'.step = "call"
  BY <1>5, <1>6 DEF Fresh
<1>8. Live(R, n)
  BY <1>2 DEF Live, Row
<1>9. RowsInv'
  <2>1. \A v \in DOMAIN login' : login'[v] \in LoginType
    BY <1>6, AtRest, OutdatedFacts
  <2> QED
    BY <1>2, <1>7, <1>6, <1>3, <2>1 DEF RowsInv
<1> DEFINE F == [R EXCEPT ![n].active = FALSE, ![n].deleted = TRUE]
<1>10. IfFailed' = F
  BY <1>7, <1>6 DEF IfFailed
<1>11. F = [R EXCEPT ![n].active = FALSE, ![n].deleted = TRUE]
  OBVIOUS
<1> HIDE DEF F
<1>12. /\ DOMAIN F = DOMAIN R /\ F[n].user = u /\ ~Live(F, n)
       /\ \A b \in DOMAIN R \ {n} : F[b] = R[b]
  <2>1. n \in DOMAIN R /\ R[n].user = u
    BY <1>1, <1>2
  <2>2. Flagged(R, F, n, FALSE, TRUE)
    BY <1>2, <1>11, <2>1, FlagsFacts
  <2> QED
    BY <2>1, <2>2 DEF Live, Flagged
<1>13. UniqueLive(F)
  BY <1>6, <1>12, FewerUnique DEF Live
<1>14. FlightInv'
  <2>1. req'.op \notin Taking /\ req'.op # "link" /\ req'.op # "disable" /\ req'.op # "purge"
    BY <1>7, <1>6 DEF Taking
  <2> QED
    BY <1>1, <1>2, <1>7, <1>6, <1>8, <1>10, <1>13, <2>1 DEF FlightInv
<1>15. Busy' /\ req'.op \in Changes
  BY <1>7, <1>6, ServedOps DEF Busy
<1>16. LiveOf(IfFailed', u) = LiveOf(rows, u) /\ (Calm(u) => SameAt(login, login', u))
  <2>1. \A b \in DOMAIN R : b # n /\ Live(R, b) => R[b].user # u
    BY <1>1, <1>2, <1>6, <1>8 DEF UniqueLive
  <2>2. LiveOf(F, u) = {}
    BY <1>12, <2>1 DEF LiveOf, Live
  <2>3. LiveOf(rows, u) = {}
    BY <1>2, <2>1 DEF LiveOf, Live, Differ
  <2>4. ASSUME Calm(u) PROVE u \notin DOMAIN login
    BY <1>6, <2>3, <2>4, FreeUnheld DEF AccountInv, AgreeInv, Matches, Calm, Unheld
  <2>5. DOMAIN login' = DOMAIN login
    BY <1>6, OutdatedFacts
  <2> QED
    BY <1>10, <2>2, <2>3, <2>4, <2>5 DEF SameAt
<1>17. PurgeInv'
  BY <1>7, <1>6, <1>9, <1>15, ChangesPurge
<1>18. clouded \subseteq clouded'
  BY <1>6
<1> QED
  BY <1>2, <1>7, <1>6, <1>9, <1>14, <1>15, <1>16, <1>17, <1>18, FreeUnheld, BeginsFine

-----------------------------------------------------------------------------
(* Accounts: requests about an account there is                            *)

LEMMA SharedSame ==
  ASSUME NEW R, NEW S, NEW a, NEW w, Differ(R, S, a, w), a \in DOMAIN R, a \in DOMAIN S
  PROVE  Shared(a, S) = Shared(a, R)
<1>1. S[a].user = R[a].user
  BY DEF Differ
<1>2. DOMAIN S \ {a} = DOMAIN R \ {a}
  BY DEF Differ
<1>3. \A b \in DOMAIN R \ {a} : Live(S, b) = Live(R, b) /\ S[b].user = R[b].user
  BY DEF Differ, Live
<1> QED
  BY <1>1, <1>2, <1>3 DEF Shared

LEMMA StartFine ==
  ASSUME AccountInv, Unheld, reverted' = reverted,
         NEW op \in Served, NEW a \in DOMAIN rows, NEW w, NEW pass, Fresh(req', op, a, w, pass),
         rows[a].user = w, TableTypes(rows'), UniqueLive(rows'),
         DOMAIN rows' = DOMAIN rows, Differ(rows, rows', a, w), last' = last,
         login' = login \/ login' = Outdated(login, a),
         clouded' = clouded \cup Shared(a, rows'),
         op \in {"create", "link"} => Live(rows', a),
         op \in Taking => ~Live(rows', a),
         pass \in (IF op \in Taking THEN {"none"}
                   ELSE IF op = "link" THEN {"current", "open"} ELSE {"current"}),
         op \in {"disable", "purge"} => req'.old \in RowType,
         UniqueLive(IfFailed'),
         op # "reset" => LiveOf(IfFailed', w) = LiveOf(rows, w) /\ login' = login,
         op \in Changes \/ PurgeInv'
  PROVE  Fine
<1>1. /\ req' \in RequestType /\ req'.op = op /\ req'.acct = a /\ req'.user = w
      /\ req'.pass = pass /\ req'.step = "call"
  BY DEF Fresh
<1>2. Busy'
  BY <1>1, ServedOps DEF Busy
<1>3. RowsInv'
  <2>1. \A v \in DOMAIN login' : login'[v] \in LoginType
    BY AtRest, OutdatedFacts
  <2> QED
    BY <1>1, <2>1, AtRest DEF RowsInv
<1>4. PurgeInv'
  BY <1>1, <1>2, <1>3, ChangesPurge
<1>5. FlightInv'
  <2>1. rows'[a].user = w
    BY DEF Differ
  <2> QED
    BY <1>1, <2>1 DEF FlightInv
<1>6. req'.op # "reset" /\ Calm(w) => LiveOf(IfFailed', w) = LiveOf(rows, w) /\ SameAt(login, login', w)
  BY <1>1, SameSame
<1>7. clouded \subseteq clouded'
  OBVIOUS
<1> QED
  BY <1>1, <1>2, <1>3, <1>4, <1>5, <1>6, <1>7, BeginsFine

\* A new password for a live account, or for one that becomes live.
LEMMA RenewFine ==
  ASSUME AccountInv, NEW a \in DOMAIN rows, Free, UniqueLive(rows'),
         rows' = rows \/ rows' = [rows EXCEPT ![a].active = TRUE], last' = last,
         AskNew("reset", a, rows'), reverted' = reverted
  PROVE  Fine
<1>1. /\ DOMAIN rows' = DOMAIN rows /\ TableTypes(rows') /\ Differ(rows, rows', a, rows[a].user)
      /\ rows'[a].user = rows[a].user
  <2>1. CASE rows' = rows
    BY <2>1, AtRest, SameDiffer
  <2>2. CASE rows' = [rows EXCEPT ![a].active = TRUE]
    <3>1. Flagged(rows, rows', a, TRUE, rows[a].deleted)
      BY <2>2, AtRest, ActiveFacts
    <3> QED
      BY <3>1 DEF Flagged
  <2> QED
    BY <2>1, <2>2
<1>2. Fresh(req', "reset", a, rows[a].user, "current")
  <2>1. req' = Request("reset", a, "current", rows')
    BY DEF AskNew
  <2>2. "reset" \in Served /\ "current" \in Passes /\ a \in Nat
    BY ServedOps, AtRest DEF Passes
  <2>3. UserOf(rows', a) = rows[a].user
    BY <1>1 DEF UserOf
  <2> QED
    BY <1>1, <2>1, <2>2, <2>3, RequestFacts
<1>3. req'.op = "reset"
  BY <1>2 DEF Fresh
<1>4. IfFailed' = rows'
  BY <1>3 DEF IfFailed
<1>5. login' = Outdated(login, a) /\ clouded' = clouded \cup Shared(a, rows')
  BY DEF AskNew
<1>6. "reset" \notin Taking /\ "reset" \in Changes
  BY DEF Taking, Changes
<1> QED
  BY <1>1, <1>2, <1>4, <1>5, <1>6, FreeUnheld, ServedOps, StartFine

LEMMA ResetFine ==
  ASSUME AccountInv, NEW a \in DOMAIN rows, Reset(a), reverted' = reverted
  PROVE  Fine
<1>1. Free /\ rows' = rows /\ last' = last /\ AskNew("reset", a, rows')
  BY DEF Reset
<1> QED
  BY <1>1, AtRest, RenewFine

LEMMA RotateFine ==
  ASSUME AccountInv, NEW a \in DOMAIN rows, Rotate(a), reverted' = reverted
  PROVE  Fine
<1>1. /\ Free /\ rows' = [rows EXCEPT ![a].active = TRUE] /\ UniqueLive(rows') /\ last' = last
      /\ AskNew("reset", a, rows')
  BY DEF Rotate, Rotated
<1> QED
  BY <1>1, RenewFine

\* The password kept or changed within an open transaction.
LEMMA LinkFine ==
  ASSUME AccountInv, NEW a \in DOMAIN rows, NEW pass \in {"current", "open"}, Link(a, pass), reverted' = reverted
  PROVE  Fine
<1>1. /\ Free /\ Live(rows, a) /\ rows' = rows /\ last' = last /\ login' = login
      /\ req' = Request("link", a, pass, rows) /\ clouded' = clouded \cup Shared(a, rows')
  BY DEF Link
<1>2. "link" \in Changes /\ "link" \in Served /\ "link" \notin Taking /\ pass \in Passes /\ a \in Nat
  BY ServedOps, AtRest DEF Taking, Passes
<1>3. Fresh(req', "link", a, rows[a].user, pass)
  BY <1>1, <1>2, AtRest, RequestFacts
<1>4. req'.op = "link"
  BY <1>3 DEF Fresh
<1>5. IfFailed' = rows'
  BY <1>4 DEF IfFailed
<1>6. Differ(rows, rows', a, rows[a].user)
  BY <1>1, SameDiffer
<1> QED
  BY <1>1, <1>2, <1>3, <1>5, <1>6, AtRest, FreeUnheld, StartFine

-----------------------------------------------------------------------------
(* Accounts: a request that withdraws an account begins                    *)

LEMMA WithdrawnFacts ==
  ASSUME NEW R, TableTypes(R), NEW a \in DOMAIN R, NEW delete \in BOOLEAN
  PROVE  Flagged(R, Withdrawn(R, a, delete), a, FALSE, R[a].deleted \/ delete)
<1> DEFINE S == Withdrawn(R, a, delete)
           y == R[a].deleted \/ delete
<1>1. S = [R EXCEPT ![a].active = FALSE, ![a].deleted = y]
  BY DEF Withdrawn
<1>2. y \in BOOLEAN /\ FALSE \in BOOLEAN
  OBVIOUS
<1> HIDE DEF S, y
<1>3. Flagged(R, S, a, FALSE, y)
  BY <1>1, <1>2, FlagsFacts
<1> QED
  BY <1>3 DEF S, y

\* Two tables that differ in no user, no device and no live row.
SameLive(R, S) ==
  /\ DOMAIN S = DOMAIN R
  /\ \A b \in DOMAIN R : S[b].user = R[b].user /\ S[b].dev = R[b].dev /\ Live(S, b) = Live(R, b)

LEMMA SameLiveFacts ==
  ASSUME NEW R, UniqueLive(R), NEW S, SameLive(R, S)
  PROVE  UniqueLive(S) /\ \A u : LiveOf(S, u) = LiveOf(R, u)
<1>1. UniqueLive(S)
  BY FewerUnique DEF SameLive
<1>2. \A u : LiveOf(S, u) = LiveOf(R, u)
  BY DEF LiveOf, SameLive
<1> QED
  BY <1>1, <1>2

LEMMA WithdrawFine ==
  ASSUME AccountInv, Unheld, reverted' = reverted, NEW op \in {"disable", "deactivate", "purge"},
         NEW a \in DOMAIN rows, NEW delete \in BOOLEAN,
         rows' = Withdrawn(rows, a, delete), last' = last, login' = login,
         Fresh(req', op, a, rows[a].user, "none"), req'.old = rows[a],
         clouded' = clouded \cup Shared(a, rows),
         op = "deactivate" => Live(rows, a) /\ ~delete,
         op = "purge" => PurgeInv'
  PROVE  Fine
<1>1. Flagged(rows, rows', a, FALSE, rows[a].deleted \/ delete)
  BY WithdrawnFacts, AtRest
<1>2. /\ DOMAIN rows' = DOMAIN rows /\ TableTypes(rows') /\ Differ(rows, rows', a, rows[a].user)
      /\ rows'[a].deleted = (rows[a].deleted \/ delete)
  BY <1>1 DEF Flagged
<1>3. ~Live(rows', a) /\ UniqueLive(rows')
  <2>1. ~Live(rows', a)
    BY <1>1 DEF Flagged, Live
  <2>2. \A b \in DOMAIN rows' : Live(rows', b) =>
          Live(rows, b) /\ rows'[b].user = rows[b].user /\ rows'[b].dev = rows[b].dev
    BY <1>1, <2>1 DEF Flagged, Live
  <2> QED
    BY <1>2, <2>1, <2>2, AtRest, FewerUnique
<1>4. clouded' = clouded \cup Shared(a, rows')
  BY <1>2, SharedSame
<1>5. req'.op = op /\ req'.acct = a
  BY DEF Fresh
<1> DEFINE F == IfFailed'
<1>6. UniqueLive(F) /\ LiveOf(F, rows[a].user) = LiveOf(rows, rows[a].user)
  <2>1. CASE op \in {"disable", "purge"}
    <3>1. F = [rows' EXCEPT ![a].active = rows[a].active, ![a].deleted = rows[a].deleted]
      BY <1>5, <2>1 DEF IfFailed
    <3>2. rows[a].active \in BOOLEAN /\ rows[a].deleted \in BOOLEAN
      BY AtRest DEF RowType
    <3> HIDE DEF F
    <3>3. Flagged(rows', F, a, rows[a].active, rows[a].deleted)
      BY <1>2, <3>1, <3>2, FlagsFacts
    <3>4. F[a].user = rows[a].user /\ F[a].dev = rows[a].dev /\ Live(F, a) = Live(rows, a)
      BY <1>1, <3>3 DEF Flagged, Live
    <3>5. DOMAIN F = DOMAIN rows /\ \A b \in DOMAIN rows \ {a} : F[b] = rows[b]
      BY <1>1, <3>3 DEF Flagged
    <3>6. SameLive(rows, F)
      BY <3>4, <3>5 DEF SameLive, Live
    <3> QED
      BY <3>6, AtRest, SameLiveFacts
  <2>2. CASE op = "deactivate"
    <3>1. F = [rows' EXCEPT ![a].active = TRUE]
      BY <1>5, <2>2 DEF IfFailed
    <3> HIDE DEF F
    <3>2. Flagged(rows', F, a, TRUE, rows'[a].deleted)
      BY <1>2, <3>1, ActiveFacts
    <3>3. rows[a].active /\ ~rows[a].deleted /\ ~delete
      BY <2>2 DEF Live
    <3>4. F[a].user = rows[a].user /\ F[a].dev = rows[a].dev /\ Live(F, a) = Live(rows, a)
      BY <1>1, <3>2, <3>3 DEF Flagged, Live
    <3>5. DOMAIN F = DOMAIN rows /\ \A b \in DOMAIN rows \ {a} : F[b] = rows[b]
      BY <1>1, <3>2 DEF Flagged
    <3>6. SameLive(rows, F)
      BY <3>4, <3>5 DEF SameLive, Live
    <3> QED
      BY <3>6, AtRest, SameLiveFacts
  <2> QED
    BY <2>1, <2>2
<1>7. op \in Taking /\ op \in Served /\ (op # "purge" => op \in Changes) /\ op \notin {"create", "link"}
  BY DEF Taking, Served, Changes
<1> QED
  BY <1>2, <1>3, <1>4, <1>6, <1>7, AtRest, StartFine

LEMMA AskFacts ==
  ASSUME AccountInv, NEW op \in Served, NEW a \in DOMAIN rows, Ask(op, a, rows[a], rows)
  PROVE  /\ Fresh(req', op, a, rows[a].user, "none") /\ req'.old = rows[a]
         /\ clouded' = clouded \cup Shared(a, rows)
<1> DEFINE r == Request(op, a, "none", rows)
<1>1. r = Request(op, a, "none", rows)
  OBVIOUS
<1>2. req' = [r EXCEPT !.old = rows[a]] /\ clouded' = clouded \cup Shared(a, rows)
  BY DEF Ask
<1>3. "none" \in Passes /\ a \in Nat
  BY AtRest DEF Passes
<1> HIDE DEF r
<1>4. Fresh(r, op, a, rows[a].user, "none")
  BY <1>1, <1>3, AtRest, RequestFacts
<1>5. Fresh(req', op, a, rows[a].user, "none") /\ req'.old = rows[a]
  BY <1>2, <1>4, AtRest, AskedFacts
<1> QED
  BY <1>2, <1>5

LEMMA DisableFine ==
  ASSUME AccountInv, NEW a \in DOMAIN rows, NEW delete \in BOOLEAN, Disable(a, delete), reverted' = reverted
  PROVE  Fine
<1>1. /\ Free /\ rows' = Withdrawn(rows, a, delete) /\ last' = last /\ login' = login
      /\ Ask("disable", a, rows[a], rows)
  BY DEF Disable
<1>2. "disable" \in Served
  BY ServedOps
<1>3. /\ Fresh(req', "disable", a, rows[a].user, "none") /\ req'.old = rows[a]
      /\ clouded' = clouded \cup Shared(a, rows)
  BY <1>1, <1>2, AskFacts
<1>4. "disable" \in {"disable", "deactivate", "purge"} /\ "disable" # "purge" /\ "disable" # "deactivate"
  OBVIOUS
<1> QED
  BY <1>1, <1>3, <1>4, FreeUnheld, WithdrawFine

LEMMA DeactivateFine ==
  ASSUME AccountInv, NEW a \in DOMAIN rows, Deactivate(a), reverted' = reverted
  PROVE  Fine \/ UNCHANGED <<rows, last, login, req, clouded>>
<1>1. CASE Live(rows, a) /\ rows' = Withdrawn(rows, a, FALSE) /\ Ask("deactivate", a, rows[a], rows)
  <2>1. Free /\ last' = last /\ login' = login
    BY DEF Deactivate
  <2>2. "deactivate" \in Served
    BY ServedOps
  <2>3. /\ Fresh(req', "deactivate", a, rows[a].user, "none") /\ req'.old = rows[a]
        /\ clouded' = clouded \cup Shared(a, rows)
    BY <1>1, <2>2, AskFacts
  <2>4. "deactivate" \in {"disable", "deactivate", "purge"} /\ "deactivate" # "purge" /\ FALSE \in BOOLEAN
    OBVIOUS
  <2> QED
    BY <1>1, <2>1, <2>3, <2>4, FreeUnheld, WithdrawFine
<1>2. CASE UNCHANGED <<rows, req, clouded>>
  BY <1>2 DEF Deactivate
<1> QED
  BY <1>1, <1>2 DEF Deactivate

\* Nothing the invariant speaks of changes.
LEMMA StillFine ==
  ASSUME AccountInv, UNCHANGED <<rows, last, login, req, clouded>>, reverted' = reverted
  PROVE  Fine
<1>1. Rest /\ Released
  BY SameSame DEF Rest, Released, Calm, Touches, Busy
<1>2. RowsInv'
  BY DEF AccountInv, RowsInv
<1>3. Calling' = Calling /\ Acted' = Acted /\ IfFailed' = IfFailed
  BY DEF Calling, Acted, IfFailed
<1>4. FlightInv'
  BY <1>3 DEF AccountInv, FlightInv
<1>5. PurgeInv'
  BY <1>3 DEF AccountInv, PurgeInv, OfDevice
<1>6. SettleInv'
  BY <1>3 DEF AccountInv, SettleInv
<1> QED
  BY <1>1, <1>2, <1>4, <1>5, <1>6 DEF Fine

\* No request is about a username before or after, and no live row changes.
LEMMA PausedFine ==
  ASSUME AccountInv, Unheld, Unheld', ~Calling', UNCHANGED <<login, clouded, reverted>>,
         \A u \in Usernames : LiveOf(rows', u) = LiveOf(rows, u),
         RowsInv', PurgeInv'
  PROVE  Fine
<1>1. Rest /\ Released
  BY SameSame DEF Rest, Released, Calm, Unheld
<1> QED
  BY <1>1 DEF Fine, FlightInv, SettleInv

\* The account that is created and taken back at once.
LEMMA IsolatedFine ==
  ASSUME AccountInv, NEW d \in Devices, LinkIsolated(d), reverted' = reverted
  PROVE  Fine
<1> DEFINE n == last + 1
           r == [Row(Generated, d) EXCEPT !.active = FALSE, !.deleted = TRUE]
<1>1. /\ Free /\ last' = n /\ rows' = Put(rows, n, r) /\ UNCHANGED <<login, req, clouded, reverted>>
  BY DEF LinkIsolated
<1>2. r \in RowType /\ r.active = FALSE
  BY DEF Row, RowType
<1>3. n = last + 1
  OBVIOUS
<1> HIDE DEF r
<1>4. /\ n \notin DOMAIN rows /\ n \in Nat
      /\ DOMAIN rows' = DOMAIN rows \cup {n} /\ DOMAIN rows' \subseteq 1..n
      /\ TableTypes(rows') /\ rows'[n] = r
      /\ Differ(rows, rows', n, r.user)
  BY <1>1, <1>2, PutRow DEF AccountInv
<1> HIDE DEF n
<1>5. ~Live(rows', n) /\ \A b \in DOMAIN rows : rows'[b] = rows[b]
  BY <1>2, <1>4 DEF Live, Differ
<1>6. UniqueLive(rows')
  BY <1>4, <1>5, AtRest DEF UniqueLive, Live
<1>7. \A u \in Usernames : LiveOf(rows', u) = LiveOf(rows, u)
  BY <1>4, <1>5 DEF LiveOf, Live
<1>8. req' = Idle /\ Unheld /\ Unheld'
  BY <1>1, BusyFacts, FreeUnheld DEF AccountInv, Unheld, Touches, Busy
<1>9. RowsInv' /\ ~Calling' /\ PurgeInv'
  BY <1>1, <1>4, <1>6, <1>8, AtRest DEF RowsInv, Calling, PurgeInv
<1> QED
  BY <1>1, <1>7, <1>8, <1>9, PausedFine

-----------------------------------------------------------------------------
(* Accounts: equipment is removed                                          *)

LEMMA BetweenFacts ==
  ASSUME AccountInv, Busy, ~Calling
  PROVE  Unheld /\ req.op = "purge" /\ req.user = Generated /\ req.pass = "none"
  BY BusyFacts, AccountsAssumption DEF AccountInv, PurgeInv, Unheld, Touches

LEMMA StartPurgeFine ==
  ASSUME AccountInv, NEW d \in Devices, StartPurge(d), reverted' = reverted
  PROVE  Fine
<1> DEFINE r == Request("purge", 0, "none", rows)
           T == {a \in OfDevice(d) : ~rows[a].deleted}
<1>1. /\ Free /\ UNCHANGED <<rows, last, login, clouded, reverted>>
      /\ req' = [r EXCEPT !.step = "next", !.dev = d, !.todo = T]
  BY DEF StartPurge
<1>2. r = Request("purge", 0, "none", rows)
  OBVIOUS
<1>3. T \subseteq DOMAIN rows /\ T \in SUBSET Nat /\ \A a \in OfDevice(d) \ T : rows[a].deleted
  <2>1. OfDevice(d) \subseteq DOMAIN rows
    BY DEF OfDevice
  <2>2. T \subseteq OfDevice(d)
    OBVIOUS
  <2>3. \A a \in OfDevice(d) \ T : rows[a].deleted
    OBVIOUS
  <2> QED
    BY <2>1, <2>2, <2>3, AtRest
<1> HIDE DEF r, T
<1>4. Fresh(r, "purge", 0, Generated, "none")
  <2>1. UserOf(rows, 0) = Generated
    BY AtRest DEF UserOf
  <2>2. "purge" \in Served /\ "none" \in Passes /\ 0 \in Nat
    BY ServedOps DEF Passes
  <2> QED
    BY <1>2, <2>1, <2>2, AtRest, RequestFacts
<1>5. /\ req' \in RequestType /\ req'.op = "purge" /\ req'.user = Generated /\ req'.pass = "none"
      /\ req'.step = "next" /\ req'.dev = d /\ req'.todo = T
  <2>1. r \in RequestType /\ r.op = "purge" /\ r.user = Generated /\ r.pass = "none"
    BY <1>4 DEF Fresh
  <2> QED
    BY <1>1, <1>3, <2>1 DEF RequestType
<1>6. ~Calling' /\ Unheld'
  BY <1>5, AccountsAssumption DEF Calling, Unheld, Touches
<1>7. RowsInv'
  BY <1>1, <1>5, AtRest DEF RowsInv
<1>8. OfDevice(d)' = OfDevice(d)
  BY <1>1 DEF OfDevice
<1>9. PurgeInv'
  BY <1>1, <1>3, <1>5, <1>6, <1>8 DEF PurgeInv
<1> QED
  BY <1>1, <1>6, <1>7, <1>9, FreeUnheld, PausedFine

LEMMA PurgeNextFine ==
  ASSUME AccountInv, PurgeNext, reverted' = reverted
  PROVE  Fine
<1>1. /\ Busy /\ req.op = "purge" /\ req.step = "next" /\ UNCHANGED <<last, login>>
  BY ServedOps DEF PurgeNext, At, Busy
<1>2. ~Calling
  BY <1>1 DEF Calling
<1>3. Unheld /\ req.user = Generated /\ req.pass = "none"
  BY <1>1, <1>2, BetweenFacts
<1>4. PICK a \in req.todo :
        /\ rows' = Withdrawn(rows, a, TRUE)
        /\ req' = [req EXCEPT !.acct = a, !.user = rows[a].user, !.old = rows[a], !.step = "call"]
        /\ clouded' = clouded \cup Shared(a, rows)
  BY DEF PurgeNext
<1>5. /\ req \in RequestType /\ req # Idle /\ a \in DOMAIN rows
      /\ req.todo \subseteq DOMAIN rows
      /\ \A b \in OfDevice(req.dev) \ req.todo : rows[b].deleted
  BY <1>1, BusyFacts DEF AccountInv, PurgeInv
<1>6. rows[a] \in RowType /\ a \in Nat
  BY <1>5, AtRest
<1>7. Fresh(req', "purge", a, rows[a].user, "none") /\ req'.old = rows[a]
  BY <1>1, <1>3, <1>4, <1>5, <1>6 DEF Fresh, RequestType, RowType, Names
<1>8. Flagged(rows, rows', a, FALSE, rows[a].deleted \/ TRUE)
  BY <1>4, <1>5, WithdrawnFacts, AtRest
<1>9. /\ DOMAIN rows' = DOMAIN rows /\ rows'[a].dev = rows[a].dev /\ rows'[a].deleted
      /\ \A b \in DOMAIN rows \ {a} : rows'[b] = rows[b]
  BY <1>8 DEF Flagged
<1>10. req'.dev = req.dev /\ req'.todo = req.todo /\ req'.op = "purge" /\ req'.step = "call" /\ req'.acct = a
  BY <1>1, <1>4, <1>5 DEF RequestType
<1>11. PurgeInv'
  <2>1. \A b \in DOMAIN rows' : rows'[b].dev = req'.dev /\ b \notin req'.todo => rows'[b].deleted
    BY <1>5, <1>9, <1>10 DEF OfDevice
  <2>2. req'.todo \subseteq DOMAIN rows'
    BY <1>5, <1>9, <1>10
  <2>3. Calling'
    BY <1>1, <1>10 DEF Calling, Idle
  <2> QED
    BY <1>9, <1>10, <2>1, <2>2, <2>3 DEF PurgeInv, OfDevice
<1>12. "purge" \in {"disable", "deactivate", "purge"} /\ TRUE \in BOOLEAN /\ "purge" # "deactivate"
  OBVIOUS
<1> QED
  BY <1>1, <1>3, <1>4, <1>5, <1>7, <1>11, <1>12, WithdrawFine

LEMMA PurgeAllFine ==
  ASSUME AccountInv, PurgeAll, reverted' = reverted
  PROVE  Fine
<1>1. /\ Busy /\ req.op = "purge" /\ req.step = "next" /\ req.todo = {}
      /\ rows' = [a \in DOMAIN rows \ OfDevice(req.dev) |-> rows[a]]
      /\ req' = Idle /\ UNCHANGED <<last, login, clouded, reverted>>
  BY ServedOps DEF PurgeAll, At, Ended, Busy
<1>2. Unheld /\ Unheld' /\ ~Calling' /\ PurgeInv'
  BY <1>1, BetweenFacts DEF Calling, PurgeInv, Unheld, Touches, Busy, Idle
<1>3. \A a \in OfDevice(req.dev) : rows[a].deleted
  BY <1>1, BusyFacts DEF AccountInv, PurgeInv
<1>4. /\ DOMAIN rows' = DOMAIN rows \ OfDevice(req.dev)
      /\ \A a \in DOMAIN rows' : rows'[a] = rows[a]
  BY <1>1
<1>5. \A a \in DOMAIN rows' : Live(rows', a) = Live(rows, a)
  BY <1>4 DEF Live
<1>6. \A a \in DOMAIN rows : Live(rows, a) => a \in DOMAIN rows'
  BY <1>3, <1>4 DEF Live
<1>7. UniqueLive(rows')
  BY <1>4, <1>5, AtRest, FewerUnique
<1>8. \A u \in Usernames : LiveOf(rows', u) = LiveOf(rows, u)
  BY <1>4, <1>5, <1>6 DEF LiveOf
<1>9. RowsInv'
  BY <1>1, <1>4, <1>7, AtRest DEF RowsInv, TableTypes
<1> QED
  BY <1>1, <1>2, <1>8, <1>9, PausedFine

-----------------------------------------------------------------------------
(* Accounts: the helper and its answer                                     *)

LEMMA CallFacts ==
  ASSUME AccountInv, At(Served, {"call"}) \/ At(Served, {"answer"})
  PROVE  /\ Busy /\ Calling /\ req \in RequestType /\ req # Idle
         /\ req.acct \in DOMAIN rows /\ req.acct \in Nat /\ req.user = rows[req.acct].user
  BY BusyFacts, ServedOps, AtRest DEF AccountInv, FlightInv, Calling, At, Busy

\* Only the answer to the call changes.
LEMMA AnswerFine ==
  ASSUME AccountInv, At(Served, {"call"}) \/ At(Served, {"answer"}),
         UNCHANGED <<rows, last>>,
         NEW ok \in BOOLEAN, NEW built \in BOOLEAN,
         req' = [req EXCEPT !.step = "answer", !.ok = ok, !.built = built],
         clouded \subseteq clouded', clouded' \subseteq clouded \cup {req.user},
         reverted \subseteq reverted' \cup {req.user},
         \A u : u # req.user => SameAt(login, login', u),
         \A v \in DOMAIN login' : login'[v] \in LoginType,
         SettleInv'
  PROVE  Fine
<1>1. /\ Busy /\ Calling /\ req \in RequestType /\ req # Idle
      /\ req.acct \in DOMAIN rows /\ req.user = rows[req.acct].user
  BY CallFacts
<1>2. /\ req' \in RequestType /\ req'.op = req.op /\ req'.acct = req.acct /\ req'.user = req.user
      /\ req'.pass = req.pass /\ req'.old = req.old /\ req'.todo = req.todo /\ req'.dev = req.dev
      /\ req'.step = "answer"
  BY <1>1 DEF RequestType
<1>3. Busy' /\ Calling' /\ req' # Idle
  <2>1. req'.op # "none"
    BY <1>1, <1>2 DEF Busy
  <2> QED
    BY <1>2, <2>1 DEF Busy, Calling, Idle
<1>4. \A u : Touches(u)' = Touches(u)
  BY <1>1, <1>2, <1>3 DEF Touches
<1>5. Released
  BY <1>4 DEF Released
<1>6. Rest
  <2> SUFFICES ASSUME NEW u, Calm(u)', ~Touches(u)
               PROVE  Calm(u) /\ SameAt(login, login', u) /\ LiveOf(rows', u) = LiveOf(rows, u)
    BY DEF Rest
  <2>1. u # req.user
    BY <1>1 DEF Touches
  <2> QED
    BY <2>1 DEF Calm
<1>7. RowsInv'
  BY <1>2, AtRest DEF RowsInv
<1>8. IfFailed' = IfFailed
  BY <1>2 DEF IfFailed
<1>9. FlightInv'
  BY <1>1, <1>2, <1>8 DEF AccountInv, FlightInv
<1>10. PurgeInv'
  BY <1>1, <1>2, <1>3 DEF AccountInv, PurgeInv, OfDevice
<1> QED
  BY <1>5, <1>6, <1>7, <1>9, <1>10 DEF Fine

\* The helper does not act.
LEMMA RefusedFine ==
  ASSUME AccountInv, HelperFails \/ HelperMissing, reverted' = reverted
  PROVE  Fine
<1>1. /\ At(Served, {"call"}) /\ UNCHANGED <<rows, last, login, clouded>>
      /\ req' = [req EXCEPT !.step = "answer", !.ok = FALSE, !.built = FALSE]
  BY DEF HelperFails, HelperMissing, Answer
<1>2. Calling /\ req \in RequestType /\ req.step = "call"
  BY <1>1, CallFacts DEF At
<1>3. /\ req'.op = req.op /\ req'.acct = req.acct /\ req'.user = req.user /\ req'.old = req.old
      /\ req'.step = "answer" /\ req'.ok = FALSE
  BY <1>1, <1>2 DEF RequestType
<1>4. IfFailed' = IfFailed
  BY <1>1, <1>3 DEF IfFailed
<1>5. ~Acted /\ ~Acted'
  BY <1>2, <1>3 DEF Acted
<1>6. SettleInv'
  BY <1>1, <1>2, <1>3, <1>4, <1>5 DEF AccountInv, SettleInv
<1>7. FALSE \in BOOLEAN /\ \A v \in DOMAIN login' : login'[v] \in LoginType
  BY <1>1, AtRest
<1> QED
  BY <1>1, <1>6, <1>7, SameSame, AnswerFine

\* It acts, and its answer is lost.
LEMMA LostFine ==
  ASSUME AccountInv, AnswerLost, reverted' = reverted
  PROVE  Fine
<1>1. /\ At(Served, {"answer"}) /\ UNCHANGED <<rows, last, login>>
      /\ req' = [req EXCEPT !.ok = FALSE]
      /\ clouded' = clouded \cup ({req.user} \cap Usernames)
  BY DEF AnswerLost
<1>2. req \in RequestType /\ req.step = "answer"
  BY <1>1, CallFacts DEF At
<1>3. req.built \in BOOLEAN /\ req' = [req EXCEPT !.step = "answer", !.ok = FALSE, !.built = req.built]
  BY <1>1, <1>2 DEF RequestType
<1>4. req'.user = req.user /\ req'.ok = FALSE
  BY <1>2, <1>3 DEF RequestType
<1>5. SettleInv'
  BY <1>1, <1>4 DEF SettleInv, Acted
<1>6. FALSE \in BOOLEAN /\ \A v \in DOMAIN login' : login'[v] \in LoginType
  BY <1>1, AtRest
<1> QED
  BY <1>1, <1>3, <1>5, <1>6, SameSame, AnswerFine

\* What the helper makes of the file: only its own username changes.
LEMMA ChangedFacts ==
  ASSUME AccountInv, At(Served, {"call"})
  PROVE  /\ \A u : u # req.user => SameAt(login, Changed, u)
         /\ IF Live(rows, req.acct)
            THEN /\ req.user \in DOMAIN Changed
                 /\ Changed[req.user] = [home |-> req.acct, pass |-> req.pass]
            ELSE req.user \notin DOMAIN Changed
         /\ \A v \in DOMAIN Changed : Changed[v] \in LoginType
<1> DEFINE a == req.acct
           w == req.user
           e == [home |-> a, pass |-> req.pass]
           L == Changed
<1>1. Calling /\ req \in RequestType /\ a \in DOMAIN rows /\ a \in Nat /\ w = rows[a].user
  BY CallFacts
<1>2. /\ req.op \in Taking => ~Live(rows, a)
      /\ req.op \notin Taking => req.pass \in {"current", "open"}
  BY <1>1 DEF AccountInv, FlightInv
<1>3. Wants(req.op, a) = IF Live(rows, a) THEN "write" ELSE "remove"
  BY <1>2 DEF Wants, Taking
<1>4. L = IF Live(rows, a) THEN Put(login, w, e) ELSE Without(w)
  BY <1>3 DEF Changed
<1> HIDE DEF L
<1>5. \A u : u # w => SameAt(login, L, u)
  BY <1>4 DEF SameAt, Put, Without
<1>6. IF Live(rows, a) THEN w \in DOMAIN L /\ L[w] = e ELSE w \notin DOMAIN L
  BY <1>4 DEF Put, Without
<1>7. Live(rows, a) => e \in LoginType
  BY <1>1, <1>2 DEF LoginType
<1>8. ASSUME NEW v \in DOMAIN L PROVE L[v] \in LoginType
  <2>1. CASE v = w
    BY <1>6, <1>7, <2>1
  <2>2. CASE v # w
    BY <1>5, <2>2, AtRest DEF SameAt
  <2> QED
    BY <2>1, <2>2
<1> QED
  BY <1>5, <1>6, <1>8 DEF L

LEMMA HelperFine ==
  ASSUME AccountInv, HelperActs, reverted' = reverted \ {req.user}
  PROVE  Fine
<1> DEFINE a == req.acct
           w == req.user
           b == Wants(req.op, req.acct) = "write" \/ req.user \in DOMAIN login
<1>1. /\ At(Served, {"call"}) /\ UNCHANGED <<rows, last, clouded>>
      /\ req' = [req EXCEPT !.step = "answer", !.ok = TRUE, !.built = b]
      /\ login' = Changed
  BY DEF HelperActs, Answer
<1>2. Calling /\ req \in RequestType /\ a \in DOMAIN rows /\ a \in Nat /\ w = rows[a].user
  BY <1>1, CallFacts
<1>3. /\ req'.op = req.op /\ req'.acct = a /\ req'.user = w /\ req'.pass = req.pass
      /\ req'.step = "answer" /\ req'.ok = TRUE
  BY <1>1, <1>2 DEF RequestType
<1>4. SettleInv'
  <2> SUFFICES ASSUME w \in Usernames, Shared(a, rows) = {}
               PROVE  IF LiveOf(rows, w) = {} THEN w \notin DOMAIN login'
                      ELSE w \in DOMAIN login' /\ login'[w] = [home |-> a, pass |-> req.pass]
    BY <1>1, <1>3 DEF SettleInv, Acted
  <2>1. LiveOf(rows, w) = IF Live(rows, a) THEN {a} ELSE {}
    BY <1>2, SharedFacts
  <2> QED
    BY <1>1, <2>1, ChangedFacts
<1>5. TRUE \in BOOLEAN /\ b \in BOOLEAN /\ reverted \subseteq reverted' \cup {req.user}
  OBVIOUS
<1>6. /\ \A u : u # req.user => SameAt(login, login', u)
      /\ \A v \in DOMAIN login' : login'[v] \in LoginType
  BY <1>1, ChangedFacts
<1>7. clouded \subseteq clouded' /\ clouded' \subseteq clouded \cup {req.user}
  BY <1>1
<1> HIDE DEF b
<1> QED
  BY <1>1, <1>4, <1>5, <1>6, <1>7, AnswerFine

\* The helper changes the file, and fails: its username is clouded.
LEMMA HalfwayFine ==
  ASSUME AccountInv, HelperHalfway, reverted' = reverted
  PROVE  Fine
<1>1. /\ At(Served, {"call"}) /\ UNCHANGED <<rows, last>> /\ login' = Changed
      /\ req' = [req EXCEPT !.step = "answer", !.ok = FALSE, !.built = FALSE]
      /\ clouded' = clouded \cup ({req.user} \cap Usernames)
  BY DEF HelperHalfway, Answer
<1>2. req \in RequestType
  BY <1>1, CallFacts
<1>3. req'.user = req.user /\ req'.ok = FALSE
  BY <1>1, <1>2 DEF RequestType
<1>4. SettleInv'
  BY <1>1, <1>3 DEF SettleInv, Acted
<1>5. /\ \A u : u # req.user => SameAt(login, login', u)
      /\ \A v \in DOMAIN login' : login'[v] \in LoginType
  BY <1>1, ChangedFacts
<1>6. FALSE \in BOOLEAN /\ clouded \subseteq clouded' /\ clouded' \subseteq clouded \cup {req.user}
  BY <1>1
<1> QED
  BY <1>1, <1>4, <1>5, <1>6, AnswerFine

-----------------------------------------------------------------------------
(* Accounts: a request ends                                                *)

LEMMA IfFailedFacts ==
  ASSUME AccountInv, Calling
  PROVE  /\ DOMAIN IfFailed = DOMAIN rows /\ TableTypes(IfFailed) /\ UniqueLive(IfFailed)
         /\ Differ(rows, IfFailed, req.acct, rows[req.acct].user)
<1> DEFINE a == req.acct
           F == IfFailed
<1>1. /\ a \in DOMAIN rows /\ UniqueLive(F)
      /\ req.op \in {"disable", "purge"} => req.old \in RowType
  BY DEF AccountInv, FlightInv
<1>2. CASE req.op = "create"
  <2>1. F = [rows EXCEPT ![a].active = FALSE, ![a].deleted = TRUE]
    BY <1>2 DEF IfFailed
  <2>2. TRUE \in BOOLEAN /\ FALSE \in BOOLEAN
    OBVIOUS
  <2> HIDE DEF F, a
  <2>3. Flagged(rows, F, a, FALSE, TRUE)
    BY <1>1, <2>1, <2>2, AtRest, FlagsFacts
  <2> QED
    BY <1>1, <2>3 DEF Flagged, F, a
<1>3. CASE req.op \in {"disable", "purge"}
  <2>1. F = [rows EXCEPT ![a].active = req.old.active, ![a].deleted = req.old.deleted]
    BY <1>3 DEF IfFailed
  <2>2. req.old.active \in BOOLEAN /\ req.old.deleted \in BOOLEAN
    BY <1>1, <1>3 DEF RowType
  <2> HIDE DEF F, a
  <2>3. Flagged(rows, F, a, req.old.active, req.old.deleted)
    BY <1>1, <2>1, <2>2, AtRest, FlagsFacts
  <2> QED
    BY <1>1, <2>3 DEF Flagged, F, a
<1>4. CASE req.op = "deactivate"
  <2>1. F = [rows EXCEPT ![a].active = TRUE]
    BY <1>4 DEF IfFailed
  <2> HIDE DEF F, a
  <2>2. Flagged(rows, F, a, TRUE, rows[a].deleted)
    BY <1>1, <2>1, AtRest, ActiveFacts
  <2> QED
    BY <1>1, <2>2 DEF Flagged, F, a
<1>5. CASE req.op \notin {"create", "disable", "purge", "deactivate"}
  <2>1. F = rows
    BY <1>5 DEF IfFailed
  <2> QED
    BY <1>1, <2>1, AtRest, SameDiffer
<1> QED
  BY <1>2, <1>3, <1>4, <1>5

\* What the username of a request that ends is left with, if it is not clouded.
LEMMA SettledMatches ==
  ASSUME AccountInv, Calling, req.step = "answer", req \in RequestType,
         req.user \in Usernames \ reverted, req.user \notin Settled
  PROVE  Matches(IF req.ok THEN rows ELSE IfFailed,
                 IF req.pass = "open" THEN Closed(login, req.acct, req.ok) ELSE login, req.user)
<1> DEFINE a == req.acct
           w == req.user
           L == IF req.pass = "open" THEN Closed(login, a, req.ok) ELSE login
<1>1. a \in DOMAIN rows /\ w = rows[a].user /\ Shared(a, rows) \subseteq clouded /\ req.ok \in BOOLEAN
  BY DEF AccountInv, FlightInv, RequestType
<1>2. CASE req.ok
  <2>1. Shared(a, rows) = {}
    <3>1. Shared(a, rows) # {} => w \in clouded
      BY <1>1, SharedFacts
    <3>2. Shared(a, rows) # {} => Settled = clouded
      BY <1>2 DEF Settled
    <3> QED
      BY <3>1, <3>2
  <2>2. LiveOf(rows, w) = IF Live(rows, a) THEN {a} ELSE {}
    BY <1>1, <2>1, SharedFacts
  <2>3. IF LiveOf(rows, w) = {} THEN w \notin DOMAIN login
        ELSE w \in DOMAIN login /\ login[w] = [home |-> a, pass |-> req.pass]
    BY <1>2, <2>1 DEF AccountInv, SettleInv, Acted
  <2>4. CASE Live(rows, a)
    <3>1. req.pass \in {"current", "open"}
      BY <2>4 DEF AccountInv, FlightInv
    <3>2. w \in DOMAIN login /\ login[w] = [home |-> a, pass |-> req.pass]
      BY <2>2, <2>3, <2>4
    <3>3. w \in DOMAIN L /\ L[w] = [home |-> a, pass |-> "current"]
      <4>1. CASE req.pass = "current"
        BY <3>2, <4>1
      <4>2. CASE req.pass = "open"
        <5>1. login[w].home = a /\ login[w].pass = "open"
          BY <3>2, <4>2
        <5>2. w \in DOMAIN L /\ L[w] = [login[w] EXCEPT !.pass = "current"]
          BY <1>2, <3>2, <4>2, <5>1 DEF Closed
        <5>3. [[home |-> a, pass |-> "open"] EXCEPT !.pass = "current"] = [home |-> a, pass |-> "current"]
          OBVIOUS
        <5> QED
          BY <3>2, <4>2, <5>2, <5>3
      <4> QED
        BY <3>1, <4>1, <4>2
    <3>4. L[w].pass = "current" /\ L[w].home = a
      BY <3>3
    <3> HIDE DEF L
    <3>5. Matches(rows, L, w)
      BY <2>2, <2>4, <3>3, <3>4 DEF Matches
    <3> QED
      BY <1>2, <3>5 DEF L
  <2>5. CASE ~Live(rows, a)
    <3>1. w \notin DOMAIN login
      BY <2>2, <2>3, <2>5
    <3>2. DOMAIN L = DOMAIN login
      BY DEF Closed
    <3> QED
      BY <1>2, <2>2, <2>5, <3>1, <3>2 DEF Matches
  <2> QED
    BY <2>4, <2>5
<1>3. CASE ~req.ok
  <2>1. req.op # "reset" /\ Settled = clouded
    BY <1>3 DEF Settled
  <2>2. Matches(IfFailed, login, w)
    BY <1>3, <2>1 DEF AccountInv, SettleInv, Acted
  <2>3. SameAt(login, L, w)
    <3>1. w \in DOMAIN login => login[w] \in LoginType /\ login[w].pass = "current"
      BY <2>2, AtRest DEF Matches
    <3>2. L = login \/ L = Closed(login, a, req.ok)
      OBVIOUS
    <3> QED
      BY <1>3, <3>1, <3>2, ClosedBack
  <2> HIDE DEF L
  <2>4. Matches(IfFailed, L, w)
    BY <2>2, <2>3, MatchSame
  <2> QED
    BY <1>3, <2>4 DEF L
<1> QED
  BY <1>1, <1>2, <1>3

LEMMA SettledFine ==
  ASSUME AccountInv, At(Served, {"answer"}), reverted' = reverted, last' = last,
         rows' = (IF req.ok THEN rows ELSE IfFailed),
         login' = (IF req.pass = "open" THEN Closed(login, req.acct, req.ok) ELSE login),
         clouded' = Settled,
         ~Calling', Unheld', req' = Idle \/ req' \in RequestType, PurgeInv'
  PROVE  Fine
<1>1. /\ Busy /\ Calling /\ req \in RequestType /\ req.step = "answer"
      /\ req.acct \in DOMAIN rows /\ req.user = rows[req.acct].user
  BY CallFacts DEF At
<1>2. /\ DOMAIN rows' = DOMAIN rows /\ TableTypes(rows') /\ UniqueLive(rows')
      /\ Differ(rows, rows', req.acct, req.user)
  BY <1>1, IfFailedFacts, AtRest, SameDiffer
<1>3. login' = login \/ \E ok \in BOOLEAN : login' = Closed(login, req.acct, ok)
  BY <1>1 DEF RequestType
<1>4. RowsInv'
  <2>1. \A v \in DOMAIN login' : login'[v] \in LoginType
    BY AtRest, ClosedTypes
  <2> QED
    BY <1>2, <2>1, AtRest DEF RowsInv
<1>5. Rest
  <2>1. Touches(req.user)
    BY <1>1 DEF Touches
  <2>2. clouded \subseteq clouded' \cup {req.user}
    BY DEF Settled
  <2> QED
    BY <1>1, <1>2, <1>3, <2>1, <2>2, RestFacts DEF AccountInv
<1>6. Released
  <2> SUFFICES ASSUME NEW u, Calm(u)', Touches(u)
               PROVE  Matches(rows', login', u)
    BY DEF Released
  <2>1. u = req.user /\ u \in Usernames \ reverted /\ u \notin Settled
    BY DEF Calm, Touches
  <2> QED
    BY <1>1, <2>1, SettledMatches
<1> QED
  BY <1>4, <1>5, <1>6 DEF Fine, FlightInv, SettleInv

\* The tables a request leaves.
LEMMA ResultFacts ==
  ASSUME AccountInv, Calling, req.op \in Served
  PROVE  Result.rows = IF req.ok THEN rows ELSE IfFailed
<1>1. CASE req.op = "create"
  BY <1>1 DEF Result, Created, Outcome, IfFailed
<1>2. CASE req.op = "reset"
  BY <1>2 DEF Result, Outcome, IfFailed
<1>3. CASE req.op \in {"disable", "purge"}
  BY <1>3 DEF Result, Disabled, Outcome, IfFailed
<1>4. CASE req.op = "deactivate"
  BY <1>4 DEF Result, Deactivated, Outcome, IfFailed
<1>5. CASE req.op = "link"
  BY <1>5 DEF Result, Linked, Outcome, IfFailed
<1> QED
  BY <1>1, <1>2, <1>3, <1>4, <1>5 DEF Served, Changes

LEMMA EndFine ==
  ASSUME AccountInv, EndRequest, reverted' = reverted
  PROVE  Fine
<1>1. At(Served, {"answer"}) /\ req' = Idle /\ last' = last /\ rows' = Result.rows
  BY ServedOps DEF EndRequest, At, Ended
<1>2. Calling /\ req.op \in Served
  BY <1>1, CallFacts DEF At
<1>3. ~Calling' /\ Unheld' /\ PurgeInv'
  BY <1>1 DEF Calling, Unheld, Touches, Busy, Idle, PurgeInv
<1>4. /\ rows' = (IF req.ok THEN rows ELSE IfFailed)
      /\ login' = (IF req.pass = "open" THEN Closed(login, req.acct, req.ok) ELSE login)
      /\ clouded' = Settled
  BY <1>1, <1>2, ResultFacts DEF EndRequest
<1> QED
  BY <1>1, <1>3, <1>4, SettledFine

LEMMA NotedFine ==
  ASSUME AccountInv, PurgeNoted, reverted' = reverted
  PROVE  Fine
<1>1. /\ At(Served, {"answer"}) /\ req.op = "purge"
      /\ last' = last /\ rows' = Result.rows /\ login' = login /\ clouded' = Settled
  BY ServedOps DEF PurgeNoted, At
<1>2. /\ Calling /\ req \in RequestType /\ req # Idle /\ req.acct \in DOMAIN rows
  BY <1>1, CallFacts
<1>3. req.pass = "none"
  BY <1>1, <1>2 DEF AccountInv, FlightInv, Taking
<1>4. /\ rows' = (IF req.ok THEN rows ELSE IfFailed)
      /\ login' = (IF req.pass = "open" THEN Closed(login, req.acct, req.ok) ELSE login)
  BY <1>1, <1>2, <1>3, ResultFacts DEF RequestType
<1>5. CASE req.ok
  <2>1. req' = [req EXCEPT !.todo = @ \ {req.acct}, !.step = "next", !.user = Generated]
    BY <1>5 DEF PurgeNoted
  <2>2. /\ req' \in RequestType /\ req'.op = "purge" /\ req'.step = "next" /\ req'.user = Generated
        /\ req'.pass = "none" /\ req'.dev = req.dev /\ req'.todo = req.todo \ {req.acct}
    BY <1>1, <1>2, <1>3, <2>1 DEF RequestType, Names
  <2>3. ~Calling' /\ Unheld'
    BY <2>2, AccountsAssumption DEF Calling, Unheld, Touches
  <2>4. rows' = rows
    BY <1>4, <1>5
  <2>5. /\ rows[req.acct].deleted /\ req.todo \subseteq DOMAIN rows
        /\ \A a \in OfDevice(req.dev) \ req.todo : rows[a].deleted
    BY <1>1, <1>2 DEF AccountInv, PurgeInv
  <2>6. PurgeInv'
    BY <2>2, <2>3, <2>4, <2>5 DEF PurgeInv, OfDevice
  <2> QED
    BY <1>1, <1>4, <2>2, <2>3, <2>6, SettledFine
<1>6. CASE ~req.ok
  <2>1. req' = Idle
    BY <1>6 DEF PurgeNoted, Ended
  <2>2. ~Calling' /\ Unheld' /\ PurgeInv'
    BY <2>1 DEF Calling, Unheld, Touches, Busy, Idle, PurgeInv
  <2> QED
    BY <1>1, <1>4, <2>1, <2>2, SettledFine
<1> QED
  BY <1>5, <1>6

LEMMA DiesFine ==
  ASSUME AccountInv, Dies, reverted' = reverted
  PROVE  Fine
<1>1. /\ Busy /\ req' = Idle /\ UNCHANGED <<rows, last>>
      /\ login' = (IF req.pass = "open" THEN Closed(login, req.acct, FALSE) ELSE login)
      /\ clouded' = clouded \cup ({req.user} \cap Usernames)
  BY DEF Dies, Ended
<1>2. ~Calling' /\ Unheld' /\ PurgeInv'
  BY <1>1 DEF Calling, Unheld, Touches, Busy, Idle, PurgeInv
<1>3. login' = login \/ login' = Closed(login, req.acct, FALSE)
  BY <1>1
<1>4. RowsInv'
  <2>1. \A v \in DOMAIN login' : login'[v] \in LoginType
    BY <1>3, AtRest, ClosedTypes
  <2> QED
    BY <1>1, <1>2, <2>1, AtRest DEF RowsInv
<1>5. Released
  BY <1>1 DEF Released, Calm, Touches
<1>6. Rest
  <2>1. Touches(req.user) /\ clouded \subseteq clouded' \cup {req.user}
    BY <1>1 DEF Touches
  <2>2. CASE Calling
    <3>1. req.acct \in DOMAIN rows /\ req.user = rows[req.acct].user
      BY <2>2 DEF AccountInv, FlightInv
    <3>2. Differ(rows, rows', req.acct, req.user)
      BY <1>1, <3>1, SameDiffer
    <3>3. login' = login \/ \E ok \in BOOLEAN : login' = Closed(login, req.acct, ok)
      BY <1>3
    <3> QED
      BY <1>1, <2>1, <3>1, <3>2, <3>3, RestFacts DEF AccountInv
  <2>3. CASE ~Calling
    <3>1. login' = login
      BY <1>1, <2>3, BetweenFacts
    <3> QED
      BY <1>1, <2>1, <3>1, SameSame DEF Rest, Calm, Touches
  <2> QED
    BY <2>2, <2>3
<1> QED
  BY <1>2, <1>4, <1>5, <1>6 DEF Fine, FlightInv, SettleInv

-----------------------------------------------------------------------------
(* Accounts: every step of the web application                             *)

LEMMA WebFine == ASSUME AccountInv, Web PROVE Fine
<1>1. CASE HelperActs /\ reverted' = reverted \ {req.user}
  BY <1>1, HelperFine
<1>2. CASE Begins /\ reverted' = reverted
  <2>1. CASE \E u \in Usernames, d \in Devices \cup {NoDevice} : Create(u, d)
    BY <1>2, <2>1, CreateFine
  <2>2. ASSUME NEW a \in DOMAIN rows, Account(a) PROVE Fine
    <3>1. CASE Deactivate(a)
      BY <1>2, <3>1, DeactivateFine, StillFine
    <3>2. CASE LinkUnread(a)
      BY <1>2, <3>2, StillFine DEF LinkUnread
    <3> QED
      BY <1>2, <2>2, <3>1, <3>2, ResetFine, DisableFine, RotateFine, LinkFine DEF Account
  <2>3. CASE \E d \in Devices : LinkIsolated(d) \/ StartPurge(d)
    BY <1>2, <2>3, IsolatedFine, StartPurgeFine
  <2> QED
    BY <1>2, <2>1, <2>2, <2>3 DEF Begins
<1>3. CASE Step /\ reverted' = reverted
  <2>1. CASE \E d \in Devices : RemoveEquipment(d)
    BY <1>3, <2>1, StillFine DEF RemoveEquipment
  <2> QED
    BY <1>3, <2>1, RefusedFine, LostFine, EndFine, NotedFine, PurgeNextFine, PurgeAllFine, DiesFine DEF Step
<1>4. CASE HelperMissing /\ reverted' = reverted
  BY <1>4, RefusedFine
<1>5. CASE HelperHalfway /\ reverted' = reverted
  BY <1>5, HalfwayFine
<1> QED
  BY <1>1, <1>2, <1>3, <1>4, <1>5 DEF Web

LEMMA WebKeeps ==
  ASSUME AccountInv, KeptInv, Web
  PROVE  AccountInv' /\ KeptInv'
<1>1. Fine
  BY WebFine
<1>2. AccountInv'
  BY <1>1, FineAgrees DEF AccountInv, Fine
<1>3. KeptInv'
  <2>1. kept' = kept /\ logins' = logins
    BY DEF Web
  <2> SUFFICES ASSUME "pure" \in DOMAIN kept, NEW u \in Usernames, u \notin touched',
                      u \notin (clouded \cup reverted)' \/ Touches(u)'
               PROVE  SameAt(logins, login', u)
    BY <2>1 DEF KeptInv
  <2>2. touched' = touched \cup ({q.user : q \in {r \in {req, req'} : r # Idle}} \cap Usernames)
    BY DEF Web
  <2>3. Busy => req # Idle
    BY BusyFacts DEF AccountInv
  <2>4. Busy' => req' # Idle
    BY DEF Busy, Idle
  <2>5. ~Touches(u) /\ ~Touches(u)' /\ u \notin touched
    BY <2>2, <2>3, <2>4 DEF Touches
  <2>6. Calm(u)'
    BY <2>5 DEF Calm
  <2>7. Calm(u) /\ SameAt(login, login', u)
    BY <1>1, <2>5, <2>6 DEF Fine, Rest
  <2>8. SameAt(logins, login, u)
    BY <2>5, <2>7 DEF KeptInv, Calm
  <2> QED
    BY <2>7, <2>8 DEF SameAt
<1> QED
  BY <1>2, <1>3

-----------------------------------------------------------------------------
(* Accounts: the scripts' steps                                            *)

Untroubled == UNCHANGED <<rows, last, login, req, clouded, reverted>>

\* A step that changes no account and at most takes a copy, or gives one up.
LEMMA PlainKeeps ==
  ASSUME AccountInv, KeptInv, Untroubled,
         \/ "pure" \notin DOMAIN kept'
         \/ UNCHANGED <<logins, touched>> /\ ("pure" \in DOMAIN kept' => "pure" \in DOMAIN kept)
         \/ logins' = login /\ touched' = {}
  PROVE  AccountInv' /\ KeptInv'
<1>1. AccountInv'
  BY StillFine, FineAgrees DEF AccountInv, Fine, Untroubled
<1>2. \A u : Touches(u)' = Touches(u)
  BY DEF Touches, Busy, Untroubled
<1>3. KeptInv'
  BY <1>2, SameSame, AtRest DEF KeptInv, Untroubled
<1> QED
  BY <1>1, <1>3

\* A user database with the logins of all usernames but the lost ones.
LEMMA BackKeeps ==
  ASSUME AccountInv, UNCHANGED <<rows, last, req, clouded>>, reverted \cap Usernames \subseteq reverted',
         \A u \in Usernames \ reverted' : u \notin clouded \/ Touches(u) => SameAt(login, login', u),
         \A u \in DOMAIN login' : login'[u] \in LoginType
  PROVE  AccountInv'
<1>1. RowsInv' /\ Calling' = Calling /\ Acted' = Acted /\ IfFailed' = IfFailed
  BY DEF AccountInv, RowsInv, Calling, Acted, IfFailed
<1>2. FlightInv' /\ PurgeInv'
  BY <1>1 DEF AccountInv, FlightInv, PurgeInv, OfDevice
<1>3. \A u : Touches(u)' = Touches(u)
  BY DEF Touches, Busy
<1>4. SettleInv'
  <2> SUFFICES ASSUME Calling, req.user \in Usernames \ reverted'
               PROVE  SettleInv'
    BY <1>1 DEF SettleInv
  <2>1. Busy
    BY BusyFacts DEF AccountInv, Calling
  <2>2. SameAt(login, login', req.user)
    BY <2>1 DEF Touches
  <2>3. ASSUME Acted, Shared(req.acct, rows) = {}
        PROVE  IF LiveOf(rows, req.user) = {} THEN req.user \notin DOMAIN login'
               ELSE req.user \in DOMAIN login' /\ login'[req.user] = [home |-> req.acct, pass |-> req.pass]
    BY <2>2, <2>3 DEF AccountInv, SettleInv, SameAt
  <2>4. ASSUME ~Acted, req.op # "reset", req.user \notin clouded
        PROVE  Matches(IfFailed, login', req.user)
    BY <2>2, <2>4, MatchSame DEF AccountInv, SettleInv
  <2> QED
    BY <1>1, <2>3, <2>4 DEF SettleInv
<1>5. AgreeInv'
  <2> SUFFICES ASSUME NEW u \in Usernames, u \notin clouded, u \notin reverted', ~Touches(u)
               PROVE  Matches(rows, login', u)
    BY <1>3 DEF AgreeInv
  <2>1. SameAt(login, login', u) /\ Matches(rows, login, u)
    BY DEF AccountInv, AgreeInv
  <2> QED
    BY <2>1, MatchSame
<1> QED
  BY <1>1, <1>2, <1>4, <1>5 DEF AccountInv

\* The copy replaces the user database, ...
LEMMA CopyBack ==
  ASSUME AccountInv, KeptInv, "pure" \in DOMAIN kept, LoginBack(logins, touched),
         "pure" \notin DOMAIN kept' \/ logins' = logins
  PROVE  AccountInv' /\ KeptInv'
<1>1. /\ UNCHANGED <<rows, last, req, clouded>> /\ login' = logins /\ reverted' = reverted \cup touched
  BY DEF LoginBack
<1>2. \A u \in DOMAIN login' : login'[u] \in LoginType
  BY <1>1 DEF KeptInv
<1>3. \A u \in Usernames \ reverted' : u \notin clouded \/ Touches(u) => SameAt(login, login', u)
  BY <1>1 DEF KeptInv, SameAt
<1>4. AccountInv'
  BY <1>1, <1>2, <1>3, BackKeeps
<1>5. KeptInv'
  BY <1>1, <1>2, SameSame DEF KeptInv
<1> QED
  BY <1>4, <1>5

\* ... or it is lost.
LEMMA AllLost ==
  ASSUME AccountInv, UNCHANGED <<rows, last, req, clouded>>, login' = <<>>,
         Usernames \subseteq reverted', "pure" \notin DOMAIN kept'
  PROVE  AccountInv' /\ KeptInv'
<1>1. DOMAIN login' = {}
  OBVIOUS
<1>2. AccountInv'
  BY <1>1, BackKeeps
<1> QED
  BY <1>2 DEF KeptInv

ServedInv == AccountInv /\ KeptInv /\ HasPure

\* Steps that go nowhere a copy of the user database is needed.
LEMMA ElsewhereKeeps ==
  ASSUME ServedInv, Untroubled,
         \/ "pure" \notin DOMAIN kept'
         \/ UNCHANGED <<logins, touched>> /\ ("pure" \in DOMAIN kept' => "pure" \in DOMAIN kept)
         \/ logins' = login /\ touched' = {},
         HasPure'
  PROVE  ServedInv'
  BY PlainKeeps DEF ServedInv

LEMMA NoAccountsFacts == NoAccounts => Untroubled
  BY DEF NoAccounts, ftpVars, Untroubled

LEMMA OverFacts ==
  ASSUME NEW how, Over(how)
  PROVE  "pure" \notin DOMAIN kept' /\ HasPure'
<1>1. kept' = <<>> /\ script' = Quiet
  BY DEF Over
<1>2. DOMAIN kept' = {}
  BY <1>1
<1> QED
  BY <1>1, <1>2 DEF HasPure, Quiet

LEMMA EnableServed ==
  ASSUME ScriptInv, ServedInv, Enable
  PROVE  ServedInv'
<1>1. CASE StartEnable
  BY <1>1, ElsewhereKeeps, NoAccountsFacts DEF StartEnable, Start, HasPure
<1>2. CASE Save
  <2>1. NoAccounts /\ kept' = Put(kept, NextCopy, files[NextCopy])
    BY <1>2 DEF Save
  <2>2. \/ NextCopy = "pure" /\ logins' = login /\ touched' = {}
        \/ NextCopy # "pure" /\ UNCHANGED <<logins, touched>>
    BY <1>2 DEF Save
  <2>3. DOMAIN kept' = DOMAIN kept \cup {NextCopy}
    BY <2>1 DEF Put
  <2>4. HasPure'
    BY <1>2 DEF Save, Is, GoTo, HasPure
  <2> QED
    BY <2>1, <2>2, <2>3, <2>4, ElsewhereKeeps, NoAccountsFacts
<1>3. CASE Configure \/ PutTools \/ Check \/ SwitchOn \/ RestartFtp \/ Rollback
  <2>1. NoAccounts /\ UNCHANGED <<kept, logins, touched>>
    BY <1>3 DEF Configure, PutTools, Check, SwitchOn, RestartFtp, Rollback, Untouched
  <2>2. script.kind = "enable" /\ \E step : script' = [script EXCEPT !.step = step]
    BY <1>3 DEF Configure, PutTools, Check, SwitchOn, RestartFtp, Rollback, Is, GoTo
  <2>3. HasPure'
    BY <2>2 DEF HasPure, ScriptInv, MachineTypes, Quiet
  <2> QED
    BY <2>1, <2>3, ElsewhereKeeps, NoAccountsFacts
<1>4. CASE RestartTimer \/ Resume
  <2>1. NoAccounts /\ \E how : Over(how)
    BY <1>4 DEF RestartTimer, Resume
  <2> QED
    BY <2>1, OverFacts, ElsewhereKeeps, NoAccountsFacts
<1>5. CASE Trap
  <2>1. Untroubled /\ UNCHANGED <<kept, logins, touched>>
    BY <1>5 DEF Trap, Untouched, Untroubled
  <2>2. HasPure'
    BY <1>5 DEF Trap, GoTo, HasPure, ScriptInv, MachineTypes, Quiet
  <2> QED
    BY <2>1, <2>2, ElsewhereKeeps
<1>6. CASE Restore
  <2>1. UNCHANGED <<kept, logins>>
    BY <1>6 DEF Restore
  <2>2. HasPure'
    BY <1>6 DEF Restore, Is, GoTo, HasPure
  <2>3. CASE "pure" \in DOMAIN kept
    BY <1>6, <2>1, <2>2, <2>3, CopyBack DEF Restore, ServedInv
  <2>4. CASE "pure" \notin DOMAIN kept
    BY <1>6, <2>1, <2>2, <2>4, AllLost DEF Restore, LoginBack, ServedInv
  <2> QED
    BY <2>3, <2>4
<1> QED
  BY <1>1, <1>2, <1>3, <1>4, <1>5, <1>6 DEF Enable

LEMMA PutSiteServed ==
  ASSUME ServedInv, NEW kind, NEW step, Is(kind, "put"), PutSite(SiteOf(kind), step), step \in {"link", "test"}
  PROVE  ServedInv'
<1>1. NoAccounts /\ kept' = Put(kept, SiteOf(kind), files[SiteOf(kind)]) /\ UNCHANGED <<logins, touched>>
  BY DEF PutSite, Untouched
<1>2. DOMAIN kept' = DOMAIN kept \cup {SiteOf(kind)}
  BY <1>1 DEF Put
<1>3. HasPure' /\ SiteOf(kind) # "pure"
  BY DEF PutSite, Is, GoTo, HasPure, SiteOf
<1> QED
  BY <1>1, <1>2, <1>3, ElsewhereKeeps, NoAccountsFacts

LEMMA InstallServed ==
  ASSUME ScriptInv, ServedInv, Install
  PROVE  ServedInv'
<1>1. CASE StartInstall
  BY <1>1, ElsewhereKeeps, NoAccountsFacts DEF StartInstall, Start, HasPure
<1>2. CASE StopFtp
  <2>1. NoAccounts /\ kept' = Put(<<>>, "pure", files["pure"]) /\ logins' = login /\ touched' = {}
    BY <1>2 DEF StopFtp
  <2>2. HasPure'
    BY <2>1 DEF HasPure, Put
  <2> QED
    BY <2>1, <2>2, ElsewhereKeeps, NoAccountsFacts
<1>3. ASSUME NoAccounts, UNCHANGED <<kept, logins>>, Untouched, script.kind = "install",
             \/ script.step \in {"configure", "tools", "setting"}
             \/ \E step : GoTo(step) /\ step \notin {"configure", "tools", "setting", "start"},
             \E step : GoTo(step)
      PROVE  ServedInv'
  <2>1. HasPure'
    BY <1>3 DEF ServedInv, HasPure, GoTo, ScriptInv, MachineTypes, Quiet
  <2> QED
    BY <1>3, <2>1, ElsewhereKeeps, NoAccountsFacts DEF Untouched
<1>4. ASSUME NoAccounts, NEW how, Over(how) PROVE ServedInv'
  BY <1>4, OverFacts, ElsewhereKeeps, NoAccountsFacts
<1>5. ASSUME script.kind = "install", script.step \in {"tools", "start"}, LoginBack(logins, touched), Over("refused")
      PROVE  ServedInv'
  BY <1>5, OverFacts, CopyBack DEF ServedInv, HasPure
<1>6. CASE InstallConf \/ InstallSetting
  BY <1>3, <1>6 DEF InstallConf, InstallSetting, Is
<1>7. CASE InstallTools
  BY <1>3, <1>5, <1>7 DEF InstallTools, Is
<1>8. CASE InstallStart
  BY <1>3, <1>5, <1>8 DEF InstallStart, Is
<1>9. CASE InstallUnits \/ StartUnits
  BY <1>3, <1>9 DEF InstallUnits, StartUnits, Is
<1>10. CASE RenderSite
  BY <1>3, <1>4, <1>10 DEF RenderSite, Is
<1>11. CASE LinkSite
  BY <1>3, <1>4, <1>11 DEF LinkSite, Is
<1>12. CASE Reload
  BY <1>4, <1>12 DEF Reload
<1>13. CASE InstallSite
  BY <1>13, PutSiteServed DEF InstallSite, SiteOf
<1> QED
  BY <1>1, <1>2, <1>6, <1>7, <1>8, <1>9, <1>10, <1>11, <1>12, <1>13 DEF Install

LEMMA HttpsServed ==
  ASSUME ScriptInv, ServedInv, Https
  PROVE  ServedInv'
<1>1. CASE StartHttps
  BY <1>1, ElsewhereKeeps, NoAccountsFacts DEF StartHttps, Start, HasPure
<1>2. ASSUME NoAccounts, UNCHANGED <<kept, logins>>, Untouched, script.kind = "https", NEW step, GoTo(step)
      PROVE  ServedInv'
  <2>1. HasPure'
    BY <1>2 DEF HasPure, GoTo, ScriptInv, MachineTypes, Quiet
  <2> QED
    BY <1>2, <2>1, ElsewhereKeeps, NoAccountsFacts DEF Untouched
<1>3. ASSUME NoAccounts, NEW how, Over(how) PROVE ServedInv'
  BY <1>3, OverFacts, ElsewhereKeeps, NoAccountsFacts
<1>4. CASE Issue
  BY <1>2, <1>3, <1>4 DEF Issue, Is
<1>5. CASE TestHttps
  BY <1>2, <1>3, <1>5 DEF TestHttps, Is
<1>6. CASE ReloadHttps
  BY <1>3, <1>6 DEF ReloadHttps
<1>7. CASE HttpsSite
  BY <1>7, PutSiteServed DEF HttpsSite, SiteOf
<1>8. CASE Renew
  BY <1>8, ElsewhereKeeps, NoAccountsFacts DEF Renew, HasPure, ServedInv
<1> QED
  BY <1>1, <1>4, <1>5, <1>6, <1>7, <1>8 DEF Https

LEMMA CutServed ==
  ASSUME ServedInv, Cut
  PROVE  ServedInv'
<1>1. "pure" \notin DOMAIN kept' /\ HasPure'
  BY OverFacts DEF Cut
<1>2. CASE UNCHANGED <<login, reverted>>
  <2>1. Untroubled
    BY <1>2 DEF Cut, Untroubled
  <2> QED
    BY <1>1, <2>1, ElsewhereKeeps
<1>3. CASE login' = <<>> /\ reverted' = Usernames
  <2>1. UNCHANGED <<rows, last, req, clouded>>
    BY DEF Cut
  <2> QED
    BY <1>1, <1>3, <2>1, AllLost DEF ServedInv
<1> QED
  BY <1>2, <1>3 DEF Cut

LEMMA ServedKeeps ==
  ASSUME ScriptInv, ServedInv, [Web \/ Enable \/ Install \/ Https \/ Cut]_<<ftpVars, setup>>
  PROVE  ServedInv'
<1>1. CASE Web
  BY <1>1, WebKeeps DEF ServedInv, HasPure, Web
<1>2. CASE UNCHANGED <<ftpVars, setup>>
  BY <1>2, ElsewhereKeeps DEF ftpVars, setup, Untroubled, ServedInv, HasPure
<1> QED
  BY <1>1, <1>2, EnableServed, InstallServed, HttpsServed, CutServed

LEMMA ServedFirst == SetupInit => ServedInv
<1> SUFFICES ASSUME SetupInit PROVE ServedInv
  OBVIOUS
<1>1. /\ rows = <<>> /\ last = 0 /\ login = <<>> /\ req = Idle /\ kept = <<>> /\ script = Quiet
  BY DEF SetupInit, FtpInit
<1>2. DOMAIN rows = {} /\ DOMAIN login = {} /\ DOMAIN kept = {}
  BY <1>1
<1>3. RowsInv
  BY <1>1, <1>2 DEF RowsInv, TableTypes, UniqueLive
<1>4. FlightInv /\ PurgeInv /\ SettleInv
  BY <1>1 DEF FlightInv, PurgeInv, SettleInv, Calling
<1>5. AgreeInv
  BY <1>2 DEF AgreeInv, Matches, LiveOf
<1>6. KeptInv /\ HasPure
  BY <1>1, <1>2 DEF KeptInv, HasPure, Quiet
<1> QED
  BY <1>3, <1>4, <1>5, <1>6 DEF ServedInv, AccountInv

\* With no request under way on a username, the server accepts it exactly when a live
\* row has it, with that row's directory and last password, however the requests, their
\* failures and the scripts' copies of the user database interleave; but for the usernames
\* a failure or a copy put back has left in doubt.
THEOREM ServerFollowsRows == SetupSpec => []ServersAgree
<1>1. ServedInv => ServersAgree
  <2> SUFFICES ASSUME ServedInv, NEW u \in Usernames \ (clouded \cup reverted), ~Touches(u)
               PROVE  AgreesOn(u)
    BY DEF ServersAgree
  <2>1. RowsInv /\ Matches(rows, login, u)
    BY DEF ServedInv, AccountInv, AgreeInv
  <2> QED
    BY <2>1, MatchAgrees
<1> QED
  BY <1>1, ScriptFirst, ScriptKeeps, ServedFirst, ServedKeeps, PTL DEF SetupSpec
=============================================================================
