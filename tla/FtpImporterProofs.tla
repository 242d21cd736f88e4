-------------------------- MODULE FtpImporterProofs --------------------------
(***************************************************************************)
(* What the FTP importer promises, for any number of scans at once, of     *)
(* files in a pair, of uploads, crashes and failures.                      *)
(*                                                                         *)
(* The argument: a file in processing and the row that was claimed for it  *)
(* belong to one scan; what a scan decides about an artifact it writes     *)
(* over tables that no other has changed, because its claim and its        *)
(* correlation were committed; and the committed tables and the writer's   *)
(* copy each say the truth about the files, so it does not matter which of *)
(* the two survives.                                                       *)
(***************************************************************************)
EXTENDS FtpImporter, FiniteSetTheorems, TLAPS

-----------------------------------------------------------------------------
(* The invariant                                                           *)

\* The steps at which a scan weighs a file of its own in processing, those at
\* which it has one there, those at which its row is, and those at which it has
\* written nothing.
Weighing == {"judge", "invalid", "conflict", "repeat", "store"}
Holding == Weighing \cup {"setaside"}
Owning == Holding \cup {"correlate", "move", "repeatrow", "fail"}
Unwritten == Weighing \cup {"idle", "correlate", "repeatrow"}

\* What the tables say of the files, pl being the directories and us the uploads.
Backed(d, pl, us) ==
  /\ \A u \in d.stored : pl[u] = "backups"
  /\ \A a \in Artifacts : d.arts[a].state \in {"valid", "late"} =>
       LET x == d.arts[a] IN
         /\ x.backup \in d.stored /\ us[x.backup].name = a
         /\ us[x.backup].content = x.sha /\ x.sha \notin Bad
Told(d, us) ==
  /\ d.op = "success" => \A a \in Artifacts : d.arts[a].state = "valid"
  /\ \A u \in Uploads : d.sent[u] > 0 => u \in d.stored
  /\ (\E u \in Uploads : d.sent[u] > 0 /\ us[u].name \in Artifacts)
       => \A a \in Artifacts : \E u \in Uploads : d.sent[u] > 0 /\ us[u].name = a
Good(d, pl, us) == d \in Tables /\ Backed(d, pl, us) /\ Told(d, us)

\* What a transaction may make of the committed tables.
Follows(d, e) ==
  /\ d.stored \subseteq e.stored
  /\ d.op = "expired" => e.op # "success"
  /\ \A r \in Rows : d.rows[r].status = "imported" => e.rows[r].status \in {"imported", "rejected"}

WriterInv == \A p \in Importers : pc[p] \in Unwritten => writer # p
DataInv == Good(db, place, up) /\ Good(tx, place, up) /\ Follows(db, tx)

JobOf(p) ==
  LET j == job[p] IN
    /\ pc[p] \notin {"idle", "scan"} => j.name \in Names
    /\ pc[p] \notin {"idle", "scan", "detect"} => j.row \in Rows
    /\ pc[p] \in Holding \cup {"move"} => j.name \in Artifacts \cup Plain
    /\ pc[p] \in {"invalid", "conflict", "repeat"} => j.name \in Artifacts
    /\ pc[p] \in Holding =>
         j.got \in Uploads /\ place[j.got] = "processing" /\ up[j.got].name = j.name
    /\ pc[p] = "store" /\ j.name \in Artifacts => up[j.got].content \notin Bad
    /\ pc[p] = "invalid" => up[j.got].content \in Bad
    /\ pc[p] = "repeat" =>
         \E v \in db.stored : up[v].name = up[j.got].name /\ up[v].content = up[j.got].content
JobInv == \A p \in Importers : JobOf(p)

\* A claimed row is its scan's, but for the other scan that rejects it.
Taken == {"processing", "rejected"}
RowOf(p) ==
  pc[p] \in Owning =>
    /\ db.rows[job[p].row].status \in Taken
    /\ tx.rows[job[p].row].status \in Taken \/ (writer = p /\ pc[p] = "fail")
RowInv == \A p \in Importers : RowOf(p)

Apart(p, q) ==
  /\ pc[p] \in Holding /\ pc[q] \in Holding => job[p].got # job[q].got
  /\ pc[p] \in Owning /\ pc[q] \in Owning => job[p].row # job[q].row
ApartInv == \A p, q \in Importers : p # q => Apart(p, q)

IInv == TypeOK /\ WriterInv /\ DataInv /\ JobInv /\ RowInv /\ ApartInv

-----------------------------------------------------------------------------
(* What the updates do to the tables                                       *)

\* Only rows differ.
SameButRows(d, e) ==
  e.op = d.op /\ e.past = d.past /\ e.arts = d.arts /\ e.stored = d.stored /\ e.sent = d.sent

LEMMA RowTypes ==
  /\ \A r \in Row : /\ r.status \in RowStatuses /\ \A s \in RowStatuses : [r EXCEPT !.status = s] \in Row
                    /\ \A s \in RowStatuses : [r EXCEPT !.status = s].status = s
  /\ \A r \in Row : /\ [r EXCEPT !.calm = FALSE] \in Row /\ [r EXCEPT !.calm = TRUE] \in Row
                    /\ [r EXCEPT !.calm = FALSE].status = r.status
                    /\ [r EXCEPT !.calm = TRUE].status = r.status
  /\ \A r \in Row : \A u \in 0..MaxUploads :
       [r EXCEPT !.seen = u] \in Row /\ [r EXCEPT !.seen = u].status = r.status
<1> DEFINE Numbers == 0..MaxUploads
           Named == Names \cup {NoOne}
<1>1. Row = [name : Named, status : RowStatuses, seen : Numbers, calm : BOOLEAN]
  BY DEF Row
<1> HIDE DEF Numbers, Named
<1>2. \A r \in Row : /\ r.status \in RowStatuses /\ \A s \in RowStatuses : [r EXCEPT !.status = s] \in Row
                     /\ \A s \in RowStatuses : [r EXCEPT !.status = s].status = s
  BY <1>1
<1>3. \A r \in Row : /\ [r EXCEPT !.calm = FALSE] \in Row /\ [r EXCEPT !.calm = TRUE] \in Row
                     /\ [r EXCEPT !.calm = FALSE].status = r.status
                     /\ [r EXCEPT !.calm = TRUE].status = r.status
  BY <1>1
<1>4. \A r \in Row : \A u \in Numbers :
        [r EXCEPT !.seen = u] \in Row /\ [r EXCEPT !.seen = u].status = r.status
  BY <1>1
<1> QED
  BY <1>2, <1>3, <1>4 DEF Numbers

\* A row put in the place of another.
PutRow(d, r, row) == [d EXCEPT !.rows[r] = row]

LEMMA PutRowFacts ==
  ASSUME NEW d \in Tables, NEW r \in Rows, NEW row \in Row
  PROVE  /\ PutRow(d, r, row) \in Tables /\ SameButRows(d, PutRow(d, r, row))
         /\ PutRow(d, r, row).rows[r] = row
         /\ \A q \in Rows \ {r} : PutRow(d, r, row).rows[q] = d.rows[q]
BY DEF Tables, SameButRows, PutRow

LEMMA SetStatusFacts ==
  ASSUME NEW d \in Tables, NEW r \in Rows, NEW s \in RowStatuses
  PROVE  /\ SetStatus(d, r, s) \in Tables /\ SameButRows(d, SetStatus(d, r, s))
         /\ SetStatus(d, r, s).rows[r].status = s
         /\ \A q \in Rows \ {r} : SetStatus(d, r, s).rows[q] = d.rows[q]
<1> DEFINE row == [d.rows[r] EXCEPT !.status = s]
<1>1. d.rows[r] \in Row
  BY DEF Tables
<1>2. row \in Row /\ row.status = s
  BY <1>1, RowTypes
<1>3. SetStatus(d, r, s) = PutRow(d, r, row)
  BY Zenon DEF SetStatus, PutRow
<1> HIDE DEF row
<1> QED
  BY <1>2, <1>3, PutRowFacts

\* reduce_operation_state finds success only when every artifact is valid.
LEMMA ReduceFacts ==
  ASSUME NEW arts \in [Artifacts -> Artifact], NEW past \in BOOLEAN
  PROVE  /\ Reduce(arts, past) \in OpStatuses
         /\ Reduce(arts, past) = "success" => \A a \in Artifacts : arts[a].state = "valid"
<1> DEFINE states == {arts[a].state : a \in Artifacts}
<1>1. Reduce(arts, past) \in OpStatuses
  BY DEF Reduce, OpStatuses
<1>2. Reduce(arts, past) = "success" => states = {"valid"}
  BY DEF Reduce
<1>3. states = {"valid"} => \A a \in Artifacts : arts[a].state = "valid"
  OBVIOUS
<1> QED
  BY <1>1, <1>2, <1>3

\* Everything but the operation and its artifacts is the same.
SameButArts(d, e) ==
  e.rows = d.rows /\ e.past = d.past /\ e.stored = d.stored /\ e.sent = d.sent

LEMMA ReducedFacts ==
  ASSUME NEW d \in Tables, NEW now \in BOOLEAN
  PROVE  /\ Reduced(d, now) \in Tables /\ SameButArts(d, Reduced(d, now))
         /\ Reduced(d, now).arts = d.arts
         /\ Reduced(d, now).op = "success" => \A a \in Artifacts : d.arts[a].state = "valid"
<1>1. d.arts \in [Artifacts -> Artifact]
  BY DEF Tables
<1> DEFINE o == Reduce(d.arts, now)
<1>2. o \in OpStatuses /\ (o = "success" => \A a \in Artifacts : d.arts[a].state = "valid")
  BY <1>1, ReduceFacts
<1>3. Reduced(d, now) = [d EXCEPT !.op = o]
  BY DEF Reduced
<1> HIDE DEF o
<1> QED
  BY <1>2, <1>3 DEF Tables, SameButArts

\* An artifact put in the place of another.
PutArtifact(d, a, x) == [d EXCEPT !.arts[a] = x]

LEMMA PutArtifactFacts ==
  ASSUME NEW d \in Tables, NEW a \in Artifacts, NEW x \in Artifact
  PROVE  /\ PutArtifact(d, a, x) \in Tables /\ SameButArts(d, PutArtifact(d, a, x))
         /\ PutArtifact(d, a, x).op = d.op /\ PutArtifact(d, a, x).arts[a] = x
         /\ \A b \in Artifacts \ {a} : PutArtifact(d, a, x).arts[b] = d.arts[b]
BY DEF Tables, SameButArts, PutArtifact

\* An artifact with the verdict on the content.
Judged(x, s, c) == [x EXCEPT !.state = s, !.sha = c]

LEMMA ArtifactTypes ==
  /\ \A x \in Artifact : \A s \in {"expected", "validating", "invalid", "suspicious", "expired"} :
       [x EXCEPT !.state = s] \in Artifact /\ [x EXCEPT !.state = s].state = s
  /\ \A x \in Artifact : \A s \in {"invalid", "suspicious"} : \A c \in Contents \cup {NoOne} :
       Judged(x, s, c) \in Artifact /\ Judged(x, s, c).state = s
<1> DEFINE Numbers == 0..MaxUploads
           Shas == Contents \cup {NoOne}
           States == {"expected", "validating", "valid", "invalid", "suspicious", "expired", "late"}
<1>1. Artifact = [state : States, sha : Shas, backup : Numbers]
  BY DEF Artifact
<1>2. {"expected", "validating", "invalid", "suspicious", "expired"} \subseteq States
  OBVIOUS
<1> HIDE DEF Numbers, Shas, States
<1>3. \A x \in Artifact : \A s \in {"expected", "validating", "invalid", "suspicious", "expired"} :
        [x EXCEPT !.state = s] \in Artifact /\ [x EXCEPT !.state = s].state = s
  BY <1>1, <1>2
<1>4. \A x \in Artifact : \A s \in {"invalid", "suspicious"} : \A c \in Shas :
        Judged(x, s, c) \in Artifact /\ Judged(x, s, c).state = s
  BY <1>1, <1>2 DEF Judged
<1> QED
  BY <1>3, <1>4 DEF Shas

\* A file of the pair is at work or turned down: no success.
LEMMA NotValid ==
  ASSUME NEW d \in Tables, NEW a \in Artifacts, NEW s \in {"expected", "validating", "invalid", "suspicious", "expired"},
         NEW now \in BOOLEAN,
         NEW e \in Tables, SameButArts(d, e), e.arts[a].state = s,
         \A b \in Artifacts \ {a} : e.arts[b] = d.arts[b]
  PROVE  /\ Reduced(e, now) \in Tables /\ SameButArts(d, Reduced(e, now))
         /\ Reduced(e, now).op # "success" /\ Reduced(e, now).arts[a].state = s
         /\ \A b \in Artifacts \ {a} : Reduced(e, now).arts[b] = d.arts[b]
BY ReducedFacts DEF SameButArts

LEMMA BegunFacts ==
  ASSUME NEW d \in Tables, NEW a \in Artifacts, NEW now \in BOOLEAN
  PROVE  /\ Begun(d, a, now) \in Tables /\ SameButArts(d, Begun(d, a, now))
         /\ Begun(d, a, now).op = "success" => d.op = "success"
         /\ \/ Begun(d, a, now).arts = d.arts
            \/ /\ Begun(d, a, now).arts[a].state = "validating" /\ Begun(d, a, now).op # "success"
               /\ \A b \in Artifacts \ {a} : Begun(d, a, now).arts[b] = d.arts[b]
<1> DEFINE e == Ensured(d)
           x == [e.arts[a] EXCEPT !.state = "validating"]
           f == PutArtifact(e, a, x)
<1>1. e \in Tables /\ SameButArts(d, e) /\ e.arts = d.arts /\ (e.op = "success" => d.op = "success")
  BY DEF Ensured, Tables, SameButArts, OpStatuses
<1>2. e.arts[a] \in Artifact
  BY <1>1 DEF Tables
<1>3. SetState(e, a, "validating") = f
  BY Zenon DEF SetState, PutArtifact
<1>4. Begun(d, a, now) = IF e.arts[a].state \in {"valid", "late", "expired"} THEN e ELSE Reduced(f, now)
  BY <1>3 DEF Begun
<1> HIDE DEF e
<1>5. x \in Artifact /\ x.state = "validating"
  BY <1>2, ArtifactTypes
<1> HIDE DEF x
<1>6. /\ f \in Tables /\ SameButArts(e, f) /\ f.arts[a].state = "validating"
      /\ \A b \in Artifacts \ {a} : f.arts[b] = e.arts[b]
  BY <1>1, <1>5, PutArtifactFacts
<1> HIDE DEF f
<1>7. /\ Reduced(f, now) \in Tables /\ SameButArts(e, Reduced(f, now))
      /\ Reduced(f, now).op # "success" /\ Reduced(f, now).arts[a].state = "validating"
      /\ \A b \in Artifacts \ {a} : Reduced(f, now).arts[b] = e.arts[b]
  BY <1>1, <1>6, NotValid
<1> QED
  BY <1>1, <1>4, <1>7 DEF SameButArts

LEMMA ExpireFacts ==
  ASSUME NEW d \in Tables
  PROVE  /\ Expire(d) \in Tables /\ SameButArts(d, Expire(d))
         /\ \A a \in Artifacts : \/ Expire(d).arts[a] = d.arts[a]
                                 \/ Expire(d).arts[a].state = "expired"
         /\ Expire(d).op = "success" => \A a \in Artifacts : Expire(d).arts[a].state = "valid"
<1> DEFINE arts == [a \in Artifacts |->
              IF d.arts[a].state = "expected" THEN [d.arts[a] EXCEPT !.state = "expired"] ELSE d.arts[a]]
           e == [d EXCEPT !.arts = arts]
<1>1. \A a \in Artifacts : d.arts[a] \in Artifact
  BY DEF Tables
<1>2. /\ arts \in [Artifacts -> Artifact]
      /\ \A a \in Artifacts : arts[a] = d.arts[a] \/ arts[a].state = "expired"
  BY <1>1, ArtifactTypes
<1>3. Expire(d) = Reduced(e, TRUE)
  BY DEF Expire
<1> HIDE DEF arts
<1>4. e \in Tables /\ SameButArts(d, e) /\ e.arts = arts
  BY <1>2 DEF Tables, SameButArts
<1> HIDE DEF e
<1>5. /\ Reduced(e, TRUE) \in Tables /\ SameButArts(e, Reduced(e, TRUE)) /\ Reduced(e, TRUE).arts = arts
      /\ Reduced(e, TRUE).op = "success" => \A a \in Artifacts : arts[a].state = "valid"
  BY <1>4, ReducedFacts
<1> QED
  BY <1>2, <1>3, <1>4, <1>5 DEF SameButArts

LEMMA ElapsedFacts ==
  ASSUME NEW d \in Tables
  PROVE  /\ Elapsed(d) \in Tables /\ SameButRows(d, Elapsed(d))
         /\ \A r \in Rows : Elapsed(d).rows[r].status = d.rows[r].status
<1> DEFINE rows == [r \in Rows |-> IF d.rows[r].status \in Active
                                   THEN [d.rows[r] EXCEPT !.calm = TRUE] ELSE d.rows[r]]
<1>1. \A r \in Rows : d.rows[r] \in Row
  BY DEF Tables
<1>2. rows \in [Rows -> Row] /\ \A r \in Rows : rows[r].status = d.rows[r].status
  BY <1>1, RowTypes
<1>3. Elapsed(d) = [d EXCEPT !.rows = rows]
  BY DEF Elapsed
<1> HIDE DEF rows
<1> QED
  BY <1>2, <1>3 DEF Tables, SameButRows

LEMMA StoreBackupFacts ==
  ASSUME NEW d \in Tables, NEW r \in Rows, NEW u \in Uploads
  PROVE  LET e == StoreBackup(d, r, u) IN
           /\ e \in Tables /\ e.op = d.op /\ e.past = d.past /\ e.arts = d.arts /\ e.sent = d.sent
           /\ e.stored = d.stored \cup {u} /\ e.rows[r].status = "imported"
           /\ \A q \in Rows \ {r} : e.rows[q] = d.rows[q]
<1> DEFINE f == [d EXCEPT !.stored = @ \cup {u}]
<1>1. /\ f \in Tables /\ f.op = d.op /\ f.past = d.past /\ f.arts = d.arts /\ f.sent = d.sent
      /\ f.stored = d.stored \cup {u} /\ f.rows = d.rows
  BY DEF Tables
<1>2. StoreBackup(d, r, u) = SetStatus(f, r, "imported")
  BY DEF StoreBackup
<1> HIDE DEF f
<1>3. "imported" \in RowStatuses
  BY DEF RowStatuses
<1> QED
  BY <1>1, <1>2, <1>3, SetStatusFacts DEF SameButRows

LEMMA DispatchFacts ==
  ASSUME NEW d \in Tables, NEW us
  PROVE  LET e == Dispatch(d, us) IN
           /\ e \in Tables /\ e.op = d.op /\ e.past = d.past /\ e.arts = d.arts /\ e.stored = d.stored
           /\ e.rows = d.rows
           /\ \A u \in Uploads : e.sent[u] > 0 <=> (d.sent[u] > 0 \/ u \in us)
<1> DEFINE sent == [u \in Uploads |-> IF u \in us THEN Bump(d.sent[u]) ELSE d.sent[u]]
<1>1. \A n \in 0..2 : Bump(n) \in 0..2 /\ Bump(n) > 0
  BY DEF Bump
<1>2. d.sent \in [Uploads -> 0..2]
  BY DEF Tables
<1>3. /\ sent \in [Uploads -> 0..2]
      /\ \A u \in Uploads : sent[u] > 0 <=> (d.sent[u] > 0 \/ u \in us)
  BY <1>1, <1>2
<1>4. Dispatch(d, us) = [d EXCEPT !.sent = sent]
  BY DEF Dispatch
<1> HIDE DEF sent
<1> QED
  BY <1>3, <1>4 DEF Tables

-----------------------------------------------------------------------------
(* The updates keep what the tables say of the files                       *)

LEMMA GoodRows ==
  ASSUME NEW d, NEW e \in Tables, NEW pl, NEW us, Good(d, pl, us), SameButRows(d, e)
  PROVE  Good(e, pl, us)
BY DEF Good, Backed, Told, SameButRows

\* Files that are stored stay where and what they are.
LEMMA GoodFiles ==
  ASSUME NEW d, NEW pl, NEW us, NEW ql, NEW vs, Good(d, pl, us),
         \A u \in Uploads : pl[u] = "backups" => ql[u] = "backups" /\ vs[u] = us[u]
  PROVE  Good(d, ql, vs)
<1>1. d \in Tables /\ d.stored \subseteq Uploads
  BY DEF Good, Tables
<1>2. \A u \in d.stored : pl[u] = "backups" /\ ql[u] = "backups" /\ vs[u] = us[u]
  BY <1>1 DEF Good, Backed
<1>3. Backed(d, ql, vs)
  BY <1>2 DEF Good, Backed
<1>4. \A u \in Uploads : d.sent[u] > 0 => u \in d.stored /\ vs[u] = us[u]
  BY <1>2 DEF Good, Told
<1>5. Told(d, vs)
  BY <1>4 DEF Good, Told
<1> QED
  BY <1>1, <1>3, <1>5 DEF Good

\* Artifacts that change become neither valid nor late, and success is told
\* only of valid ones.
LEMMA GoodArts ==
  ASSUME NEW d, NEW e \in Tables, NEW pl, NEW us, Good(d, pl, us),
         e.stored = d.stored, e.sent = d.sent,
         \A a \in Artifacts : e.arts[a] = d.arts[a] \/ e.arts[a].state \notin {"valid", "late"},
         e.op = "success" => \A a \in Artifacts : e.arts[a].state = "valid"
  PROVE  Good(e, pl, us)
<1>1. Backed(e, pl, us)
  BY DEF Good, Backed
<1>2. Told(e, us)
  BY DEF Good, Told
<1> QED
  BY <1>1, <1>2 DEF Good

LEMMA BegunGood ==
  ASSUME NEW d, NEW a \in Artifacts, NEW now \in BOOLEAN, NEW pl, NEW us, Good(d, pl, us)
  PROVE  Good(Begun(d, a, now), pl, us)
<1> DEFINE e == Begun(d, a, now)
<1>1. d \in Tables
  BY DEF Good
<1>2. /\ e \in Tables /\ SameButArts(d, e) /\ (e.op = "success" => d.op = "success")
      /\ \/ e.arts = d.arts
         \/ /\ e.arts[a].state = "validating" /\ e.op # "success"
            /\ \A b \in Artifacts \ {a} : e.arts[b] = d.arts[b]
  BY <1>1, BegunFacts
<1> HIDE DEF e
<1>3. \A b \in Artifacts : e.arts[b] = d.arts[b] \/ e.arts[b].state \notin {"valid", "late"}
  BY <1>2
<1>4. e.op = "success" => \A b \in Artifacts : e.arts[b].state = "valid"
  BY <1>2 DEF Good, Told
<1>5. e.stored = d.stored /\ e.sent = d.sent
  BY <1>2 DEF SameButArts
<1>6. Good(e, pl, us)
  BY <1>2, <1>3, <1>4, <1>5, GoodArts
<1> QED
  BY <1>6 DEF e

LEMMA ExpireGood ==
  ASSUME NEW d, NEW pl, NEW us, Good(d, pl, us)
  PROVE  Good(Expire(d), pl, us)
<1>1. d \in Tables
  BY DEF Good
<1>2. \A a \in Artifacts : Expire(d).arts[a] = d.arts[a] \/ Expire(d).arts[a].state \notin {"valid", "late"}
  BY <1>1, ExpireFacts
<1> QED
  BY <1>1, <1>2, ExpireFacts, GoodArts DEF SameButArts

LEMMA StorePlainFacts ==
  ASSUME NEW d, NEW r \in Rows, NEW u \in Uploads, NEW pl, NEW us, Good(d, pl, us),
         pl[u] = "backups", us[u].name \notin Artifacts
  PROVE  /\ Good(StoreBackup(d, r, u), pl, us) /\ Good(StorePlain(d, r, u), pl, us)
         /\ StorePlain(d, r, u).rows = StoreBackup(d, r, u).rows
         /\ StorePlain(d, r, u).op = d.op /\ d.stored \subseteq StorePlain(d, r, u).stored
<1> DEFINE e == StoreBackup(d, r, u)
           f == Dispatch(e, {u})
<1>1. d \in Tables
  BY DEF Good
<1>2. /\ e \in Tables /\ e.op = d.op /\ e.arts = d.arts /\ e.sent = d.sent
      /\ e.stored = d.stored \cup {u}
  BY <1>1, StoreBackupFacts
<1>3. f = StorePlain(d, r, u)
  BY DEF StorePlain
<1> HIDE DEF e
<1>4. /\ f \in Tables /\ f.op = e.op /\ f.arts = e.arts /\ f.stored = e.stored /\ f.rows = e.rows
      /\ \A v \in Uploads : f.sent[v] > 0 <=> (e.sent[v] > 0 \/ v \in {u})
  BY <1>2, DispatchFacts
<1> HIDE DEF f
<1>5. Good(e, pl, us)
  BY <1>2 DEF Good, Backed, Told
<1>6. Backed(f, pl, us)
  BY <1>4, <1>5 DEF Good, Backed
<1>7. Told(f, us)
  <2>1. f.op = "success" => \A a \in Artifacts : f.arts[a].state = "valid"
    BY <1>4, <1>5 DEF Good, Told
  <2>2. \A v \in Uploads : f.sent[v] > 0 => v \in f.stored
    BY <1>2, <1>4, <1>5 DEF Good, Told
  <2>3. \A v \in Uploads : f.sent[v] > 0 /\ us[v].name \in Artifacts => e.sent[v] > 0
    BY <1>4
  <2>4. \A v \in Uploads : e.sent[v] > 0 => f.sent[v] > 0
    BY <1>4
  <2> QED
    BY <1>5, <2>1, <2>2, <2>3, <2>4 DEF Good, Told
<1> QED
  BY <1>2, <1>3, <1>4, <1>5, <1>6, <1>7 DEF e, Good

\* complete_artifact: a late file makes no success.
LEMMA CompleteFacts ==
  ASSUME NEW d \in Tables, NEW a \in Artifacts, NEW u \in Uploads, NEW now \in BOOLEAN,
         up[u].content \in Contents \cup {NoOne}
  PROVE  LET e == CompleteArtifact(d, a, u, now) IN
           /\ e \in Tables /\ SameButArts(d, e)
           /\ e.arts[a].state \in {"valid", "late"} /\ e.arts[a].backup = u
           /\ e.arts[a].sha = up[u].content
           /\ \A b \in Artifacts \ {a} : e.arts[b] = d.arts[b]
           /\ e.op = "success" => \A b \in Artifacts : e.arts[b].state = "valid"
           /\ d.op = "expired" => e.op # "success"
<1> DEFINE x == [state |-> IF IsLate(d, now) THEN "late" ELSE "valid", sha |-> up[u].content, backup |-> u]
           f == PutArtifact(d, a, x)
<1>1. x \in Artifact
  BY DEF Artifact, Uploads
<1>2. /\ x.state \in {"valid", "late"} /\ x.sha = up[u].content /\ x.backup = u
      /\ d.op = "expired" => x.state = "late"
  BY DEF IsLate
<1>3. CompleteArtifact(d, a, u, now) = Reduced(f, now)
  BY DEF CompleteArtifact, PutArtifact
<1> HIDE DEF x
<1>4. /\ f \in Tables /\ SameButArts(d, f) /\ f.arts[a] = x
      /\ \A b \in Artifacts \ {a} : f.arts[b] = d.arts[b]
  BY <1>1, PutArtifactFacts
<1> HIDE DEF f
<1>5. /\ Reduced(f, now) \in Tables /\ SameButArts(f, Reduced(f, now)) /\ Reduced(f, now).arts = f.arts
      /\ Reduced(f, now).op = "success" => \A b \in Artifacts : f.arts[b].state = "valid"
  BY <1>4, ReducedFacts
<1> QED
  BY <1>2, <1>3, <1>4, <1>5 DEF SameButArts

LEMMA StoreArtifactFacts ==
  ASSUME NEW d, NEW r \in Rows, NEW a \in Artifacts, NEW u \in Uploads, NEW now \in BOOLEAN, NEW pl,
         Good(d, pl, up), pl[u] = "backups", up[u].name = a,
         up[u].content \in Contents \cup {NoOne}, up[u].content \notin Bad
  PROVE  /\ Good(StoreArtifact(d, r, a, u, now), pl, up)
         /\ StoreArtifact(d, r, a, u, now).rows = StoreBackup(d, r, u).rows
         /\ d.op = "expired" => StoreArtifact(d, r, a, u, now).op # "success"
         /\ d.stored \subseteq StoreArtifact(d, r, a, u, now).stored
<1> DEFINE f == StoreBackup(d, r, u)
           e == CompleteArtifact(f, a, u, now)
           us == ToDispatch(d, e, u)
           g == Dispatch(e, us)
<1>1. g = StoreArtifact(d, r, a, u, now)
  BY DEF StoreArtifact
<1>2. d \in Tables
  BY DEF Good
<1>3. /\ f \in Tables /\ f.op = d.op /\ f.arts = d.arts /\ f.sent = d.sent
      /\ f.stored = d.stored \cup {u}
  BY <1>2, StoreBackupFacts
<1>4. us = IF d.op # "success" /\ e.op = "success" THEN ValidBackups(e) ELSE {}
  BY DEF ToDispatch
<1> HIDE DEF f
<1>5. /\ e \in Tables /\ SameButArts(f, e)
      /\ e.arts[a].state \in {"valid", "late"} /\ e.arts[a].backup = u
      /\ e.arts[a].sha = up[u].content
      /\ \A b \in Artifacts \ {a} : e.arts[b] = f.arts[b]
      /\ e.op = "success" => \A b \in Artifacts : e.arts[b].state = "valid"
      /\ f.op = "expired" => e.op # "success"
  BY <1>3, CompleteFacts
<1> HIDE DEF e, us
<1>6. /\ g \in Tables /\ g.op = e.op /\ g.arts = e.arts /\ g.stored = e.stored /\ g.rows = e.rows
      /\ \A v \in Uploads : g.sent[v] > 0 <=> (e.sent[v] > 0 \/ v \in us)
  BY <1>5, DispatchFacts
<1> HIDE DEF g
<1>7. g.stored = d.stored \cup {u} /\ g.rows = f.rows /\ e.sent = d.sent
  BY <1>3, <1>5, <1>6 DEF SameButArts
<1>8. Backed(g, pl, up)
  <2>1. \A v \in g.stored : pl[v] = "backups"
    BY <1>7 DEF Good, Backed
  <2>2. ASSUME NEW b \in Artifacts, g.arts[b].state \in {"valid", "late"}
        PROVE  /\ g.arts[b].backup \in g.stored /\ up[g.arts[b].backup].name = b
               /\ up[g.arts[b].backup].content = g.arts[b].sha /\ g.arts[b].sha \notin Bad
    <3>1. CASE b = a
      BY <1>5, <1>6, <1>7, <3>1
    <3>2. CASE b # a
      <4>1. g.arts[b] = d.arts[b]
        BY <1>3, <1>5, <1>6, <3>2
      <4> QED
        BY <1>7, <2>2, <4>1 DEF Good, Backed
    <3> QED
      BY <3>1, <3>2
  <2> QED
    BY <2>1, <2>2 DEF Backed
<1>9. \A v \in us : \E b \in Artifacts : e.op = "success" /\ g.arts[b].state = "valid" /\ v = g.arts[b].backup
  BY <1>4, <1>6 DEF ValidBackups
<1>10. Told(g, up)
  <2>1. g.op = "success" => \A b \in Artifacts : g.arts[b].state = "valid"
    BY <1>5, <1>6
  <2>2. \A v \in Uploads : g.sent[v] > 0 => v \in g.stored
    BY <1>6, <1>7, <1>8, <1>9 DEF Good, Told, Backed
  <2>3. ASSUME NEW v \in Uploads, g.sent[v] > 0, up[v].name \in Artifacts
        PROVE  \A b \in Artifacts : \E w \in Uploads : g.sent[w] > 0 /\ up[w].name = b
    <3>1. CASE d.sent[v] > 0
      <4>1. \A b \in Artifacts : \E w \in Uploads : d.sent[w] > 0 /\ up[w].name = b
        BY <2>3, <3>1 DEF Good, Told
      <4>2. \A w \in Uploads : d.sent[w] > 0 => g.sent[w] > 0
        BY <1>6, <1>7
      <4> QED
        BY <4>1, <4>2
    <3>2. CASE v \in us
      <4> SUFFICES ASSUME NEW b \in Artifacts PROVE \E w \in Uploads : g.sent[w] > 0 /\ up[w].name = b
        OBVIOUS
      <4>1. e.op = "success" /\ us = ValidBackups(e)
        BY <1>4, <1>9, <3>2
      <4>2. e.arts[b].state = "valid" /\ e.arts[b].backup \in us
        BY <1>5, <4>1 DEF ValidBackups
      <4>3. e.arts[b].backup \in g.stored /\ up[e.arts[b].backup].name = b
        BY <1>6, <1>8, <4>2 DEF Backed
      <4>4. e.arts[b].backup \in Uploads
        BY <1>6, <4>3 DEF Tables
      <4> QED
        BY <1>6, <4>2, <4>3, <4>4
    <3> QED
      BY <1>6, <1>7, <2>3, <3>1, <3>2
  <2> QED
    BY <2>1, <2>2, <2>3 DEF Told
<1> QED
  BY <1>1, <1>3, <1>5, <1>6, <1>7, <1>8, <1>10 DEF f, Good

LEMMA RejectedGood ==
  ASSUME NEW d, NEW a \in Artifacts, NEW f \in Tables, NEW now \in BOOLEAN,
         NEW pl, NEW us, Good(d, pl, us),
         SameButArts(d, f), f.arts[a].state \in {"invalid", "suspicious"},
         \A b \in Artifacts \ {a} : f.arts[b] = d.arts[b]
  PROVE  LET e == Reduced(f, now) IN
           Good(e, pl, us) /\ e.op # "success" /\ e.stored = d.stored /\ e.rows = d.rows
<1> DEFINE g == Reduced(f, now)
<1>1. d \in Tables
  BY DEF Good
<1>2. /\ g \in Tables /\ SameButArts(d, g) /\ g.op # "success" /\ g.arts[a].state \in {"invalid", "suspicious"}
      /\ \A b \in Artifacts \ {a} : g.arts[b] = d.arts[b]
  BY <1>1, NotValid
<1> HIDE DEF g
<1>3. Good(g, pl, us)
  <2>1. \A b \in Artifacts : g.arts[b] = d.arts[b] \/ g.arts[b].state \notin {"valid", "late"}
    BY <1>2
  <2> QED
    BY <1>2, <2>1, GoodArts DEF SameButArts
<1> QED
  BY <1>2, <1>3 DEF g, SameButArts

-----------------------------------------------------------------------------
(* The initial states, and the step of one scan                            *)

LEMMA FirstState == Init => IInv
<1> SUFFICES ASSUME Init PROVE IInv
  OBVIOUS
<1>1. NoRow \in Row /\ Expected \in Artifact
  BY ImporterAssumption DEF NoRow, Row, RowStatuses, Expected, Artifact
<1>2. db \in Tables /\ tx = db
  BY <1>1 DEF Init, Tables, OpStatuses
<1>3. TypeOK
  BY <1>2, ImporterAssumption DEF Init, TypeOK, Steps, NoJob
<1>4. WriterInv
  BY ImporterAssumption DEF Init, WriterInv
<1>5. Good(db, place, up)
  BY <1>2 DEF Init, Good, Backed, Told, Expected
<1>6. DataInv
  BY <1>2, <1>5 DEF DataInv, Follows
<1>7. JobInv /\ RowInv /\ ApartInv
  BY DEF Init, JobInv, JobOf, RowInv, RowOf, ApartInv, Apart, Holding, Weighing, Owning
<1> QED
  BY <1>3, <1>4, <1>6, <1>7 DEF IInv

Places == [Uploads -> {"none", "incoming", "processing", "rejected", "backups", "gone"}]
Looks == [name : Names \cup {NoOne}, row : 0..MaxRows, got : 0..MaxUploads]

\* A step of one scan: files in processing move only if they are its own, what
\* is stored stays, and the other scans go on as they were.
Files(p) ==
  /\ up' = up /\ place' \in Places
  /\ \A u \in Uploads : place[u] = "backups" => place'[u] = "backups"
  /\ \A u \in Uploads : place[u] = "processing" =>
       place'[u] = "processing" \/ (pc[p] \in Holding /\ u = job[p].got)
Frame(p) ==
  /\ pc' \in [Importers -> Steps] /\ job' \in [Importers -> Looks]
  /\ todo' \in [Importers -> SUBSET Names] /\ due' \in [Importers -> BOOLEAN]
  /\ faults' \in 0..MaxFaults /\ Files(p)
  /\ \A q \in Importers \ {p} : pc'[q] = pc[q] /\ job'[q] = job[q]

\* What a scan sees of the tables when it may write.
LEMMA SeenFacts ==
  ASSUME IInv, NEW p \in Importers
  PROVE  /\ Good(Seen(p), place, up) /\ Seen(p) \in Tables /\ Follows(db, Seen(p))
         /\ pc[p] \in Unwritten => Seen(p) = db
         /\ \A q \in Importers \ {p} :
              pc[q] \in Owning => Seen(p).rows[job[q].row].status \in Taken
<1>1. Good(Seen(p), place, up) /\ Follows(db, Seen(p))
  BY DEF Seen, IInv, DataInv, Follows
<1>2. Seen(p) \in Tables
  BY <1>1 DEF Good
<1>3. pc[p] \in Unwritten => Seen(p) = db
  BY DEF Seen, IInv, WriterInv
<1>4. ASSUME NEW q \in Importers \ {p}, pc[q] \in Owning
      PROVE  Seen(p).rows[job[q].row].status \in Taken
  BY <1>4 DEF Seen, IInv, RowInv, RowOf
<1> QED
  BY <1>1, <1>2, <1>3, <1>4

LEMMA OthersKeep ==
  ASSUME IInv, NEW p \in Importers, Frame(p), db.stored \subseteq db'.stored
  PROVE  \A q \in Importers \ {p} : JobOf(q)'
<1> SUFFICES ASSUME NEW q \in Importers \ {p} PROVE JobOf(q)'
  OBVIOUS
<1>1. JobOf(q) /\ pc'[q] = pc[q] /\ job'[q] = job[q] /\ up' = up
  BY DEF IInv, JobInv, Frame, Files
<1>2. pc[q] \in Holding => place'[job[q].got] = "processing"
  BY <1>1 DEF IInv, ApartInv, Apart, JobOf, Frame, Files
<1> QED
  BY <1>1, <1>2 DEF JobOf

\* The conditions on the scan that moves.
Own(p) ==
  /\ JobOf(p)' /\ RowOf(p)'
  /\ \A q \in Importers \ {p} : Apart(p, q)' /\ Apart(q, p)'

LEMMA ApartKeep ==
  ASSUME IInv, NEW p \in Importers, Frame(p), Own(p)
  PROVE  ApartInv'
<1> SUFFICES ASSUME NEW q \in Importers, NEW s \in Importers, q # s PROVE Apart(q, s)'
  BY DEF ApartInv
<1>1. CASE q = p \/ s = p
  BY <1>1 DEF Own
<1>2. CASE q # p /\ s # p
  BY <1>2 DEF IInv, ApartInv, Apart, Frame
<1> QED
  BY <1>1, <1>2

\* The scan changes no table, writes, or commits.
LEMMA SilentKeeps ==
  ASSUME IInv, NEW p \in Importers, Frame(p), Own(p), NoWrite, pc'[p] \in Unwritten => writer # p
  PROVE  IInv'
<1>1. db' = db /\ tx' = tx /\ writer' = writer
  BY DEF NoWrite
<1>2. TypeOK'
  BY <1>1 DEF IInv, TypeOK, Frame, Files, Places, Looks
<1>3. WriterInv'
  BY <1>1 DEF IInv, WriterInv, Frame
<1>4. DataInv'
  <2>1. \A u \in Uploads : place[u] = "backups" => place'[u] = "backups" /\ up'[u] = up[u]
    BY DEF Frame, Files
  <2>2. Good(db, place', up') /\ Good(tx, place', up')
    BY <2>1, GoodFiles DEF IInv, DataInv
  <2> QED
    BY <1>1, <2>2 DEF IInv, DataInv
<1>5. JobInv'
  BY <1>1, OthersKeep DEF Own, JobInv
<1>6. RowInv'
  BY <1>1 DEF IInv, RowInv, RowOf, Own, Frame
<1> QED
  BY <1>2, <1>3, <1>4, <1>5, <1>6, ApartKeep DEF IInv

LEMMA WriteKeeps ==
  ASSUME IInv, NEW p \in Importers, Frame(p), Own(p), NEW d, Write(p, d), pc'[p] \notin Unwritten,
         Good(d, place', up), Follows(db, d),
         \A q \in Importers \ {p} : pc[q] \in Owning => d.rows[job[q].row].status \in Taken
  PROVE  IInv'
<1>1. db' = db /\ tx' = d /\ writer' = p /\ d \in Tables /\ up' = up
  BY DEF Write, Good, Frame, Files
<1>2. TypeOK'
  BY <1>1 DEF IInv, TypeOK, Frame, Files, Places, Looks
<1>3. WriterInv'
  BY <1>1 DEF WriterInv
<1>4. DataInv'
  <2>1. \A u \in Uploads : place[u] = "backups" => place'[u] = "backups" /\ up[u] = up[u]
    BY DEF Frame, Files
  <2>2. Good(db, place', up)
    BY <2>1, GoodFiles DEF IInv, DataInv
  <2> QED
    BY <1>1, <2>2 DEF DataInv
<1>5. JobInv'
  BY <1>1, OthersKeep DEF Own, JobInv
<1>6. RowInv'
  <2> SUFFICES ASSUME NEW q \in Importers PROVE RowOf(q)'
    BY DEF RowInv
  <2>1. CASE q = p
    BY <2>1 DEF Own
  <2>2. CASE q # p
    BY <1>1, <2>2 DEF IInv, RowInv, RowOf, Frame
  <2> QED
    BY <2>1, <2>2
<1> QED
  BY <1>2, <1>3, <1>4, <1>5, <1>6, ApartKeep DEF IInv

LEMMA CommitKeeps ==
  ASSUME IInv, NEW p \in Importers, Frame(p), Own(p), NEW d, Commit(d),
         Good(d, place', up), Follows(db, d),
         \A q \in Importers \ {p} : pc[q] \in Owning => d.rows[job[q].row].status \in Taken
  PROVE  IInv'
<1>1. db' = d /\ tx' = d /\ writer' = NoOne /\ d \in Tables /\ up' = up
  BY DEF Commit, Good, Frame, Files
<1>2. TypeOK'
  BY <1>1 DEF IInv, TypeOK, Frame, Files, Places, Looks
<1>3. WriterInv'
  BY <1>1, ImporterAssumption DEF WriterInv
<1>4. DataInv'
  BY <1>1 DEF DataInv, Follows
<1>5. JobInv'
  BY <1>1, OthersKeep DEF Own, JobInv, Follows
<1>6. RowInv'
  <2> SUFFICES ASSUME NEW q \in Importers PROVE RowOf(q)'
    BY DEF RowInv
  <2>1. CASE q = p
    BY <2>1 DEF Own
  <2>2. CASE q # p
    BY <1>1, <2>2 DEF RowOf, Frame
  <2> QED
    BY <2>1, <2>2
<1> QED
  BY <1>2, <1>3, <1>4, <1>5, <1>6, ApartKeep DEF IInv

-----------------------------------------------------------------------------
(* Rows of a name                                                          *)

\* Were there none, adding one would map the numbers below some member of K
\* into those that are not 0: fewer numbers.
LEMMA GreatestExists ==
  ASSUME NEW n \in Nat, NEW K \in SUBSET (1..n), K # {}
  PROVE  \E r \in K : \A q \in K : q <= r
<1> SUFFICES ASSUME \A r \in K : \E q \in K : q > r PROVE FALSE
  OBVIOUS
<1> DEFINE Below == {x \in 0..n : \E k \in K : x < k}
           Next1 == [x \in Below |-> x + 1]
<1>1. IsFiniteSet(Below)
  <2>1. IsFiniteSet(0..n) /\ Below \subseteq 0..n
    BY FS_Interval
  <2> QED
    BY <2>1, FS_Subset
<1>2. 0 \in Below
  <2>1. PICK k \in K : TRUE
    OBVIOUS
  <2>2. k \in 1..n /\ 0 \in 0..n /\ 0 < k
    BY <2>1
  <2> QED
    BY <2>1, <2>2
<1>3. \A x \in Below : x + 1 \in Below \ {0}
  <2> SUFFICES ASSUME NEW x \in Below PROVE x + 1 \in Below \ {0}
    OBVIOUS
  <2>1. PICK k \in K : x < k
    OBVIOUS
  <2>2. PICK q \in K : q > k
    OBVIOUS
  <2> QED
    BY <2>1, <2>2
<1>4. \A x, y \in Below : x + 1 = y + 1 => x = y
  OBVIOUS
<1> HIDE DEF Below
<1>5. Next1 \in [Below -> Below \ {0}] /\ \A x \in Below : Next1[x] = x + 1
  BY <1>3
<1> HIDE DEF Next1
<1>6. IsFiniteSet(Below \ {0}) /\ Cardinality(Below \ {0}) < Cardinality(Below)
  <2>1. IsFiniteSet(Below \ {0}) /\ Cardinality(Below \ {0}) = Cardinality(Below) - 1
    BY <1>1, <1>2, FS_RemoveElement
  <2>2. Cardinality(Below) \in Nat
    BY <1>1, FS_CardinalityType
  <2> QED
    BY <2>1, <2>2
<1>7. \E x, y \in Below : x # y /\ Next1[x] = Next1[y]
  BY <1>1, <1>5, <1>6, FS_PigeonHole
<1> QED
  BY <1>4, <1>5, <1>7

LEMMA LatestRowFacts ==
  ASSUME NEW d, NEW n
  PROVE  LatestRow(d, n) = 0 \/ LatestRow(d, n) \in Rows
<1>1. CASE Known(d, n) = {}
  BY <1>1 DEF LatestRow
<1>2. CASE Known(d, n) # {}
  <2>1. Known(d, n) \in SUBSET (1..MaxRows) /\ MaxRows \in Nat
    BY ImporterAssumption DEF Known, Rows
  <2>2. \E r \in Known(d, n) : \A q \in Known(d, n) : q <= r
    BY <1>2, <2>1, GreatestExists
  <2>3. LatestRow(d, n) \in Known(d, n)
    BY <1>2, <2>2 DEF LatestRow
  <2> QED
    BY <2>1, <2>3 DEF Rows
<1> QED
  BY <1>1, <1>2

-----------------------------------------------------------------------------
(* The steps of a scan                                                     *)

LEMMA SameFiles == ASSUME IInv, NEW p, UNCHANGED <<up, place>> PROVE Files(p)
BY DEF IInv, TypeOK, Files, Places

\* A file that is in the directory, or the scan's own, is moved.
LEMMA PutFiles ==
  ASSUME IInv, NEW p, NEW u \in Uploads, UNCHANGED up,
         NEW there \in {"processing", "rejected", "backups", "gone"}, Put(u, there),
         place[u] = "incoming" \/ (place[u] = "processing" /\ pc[p] \in Holding /\ u = job[p].got)
  PROVE  Files(p) /\ place'[u] = there
BY DEF IInv, TypeOK, Files, Places, Put

LEMMA NextFileFrame ==
  ASSUME IInv, NEW p \in Importers, NextFile(p), Files(p)
  PROVE  Frame(p) /\ Own(p) /\ pc'[p] \notin Unwritten
<1>1. /\ pc' = [pc EXCEPT ![p] = "scan"] /\ job' = [job EXCEPT ![p] = NoJob]
      /\ UNCHANGED <<todo, due, faults>>
  BY DEF NextFile, Goto
<1>2. NoJob \in Looks
  BY ImporterAssumption DEF NoJob, Looks
<1>3. Frame(p) /\ pc'[p] = "scan"
  BY <1>1, <1>2 DEF IInv, TypeOK, Frame, Looks, Steps
<1>4. Own(p)
  BY <1>3 DEF Own, JobOf, RowOf, Apart, Holding, Weighing, Owning
<1> QED
  BY <1>3, <1>4 DEF Unwritten, Holding, Weighing

LEMMA ProceedFrame ==
  ASSUME IInv, NEW p \in Importers, NEW l \in Steps, Proceed(p, l), Files(p)
  PROVE  Frame(p) /\ pc'[p] = l /\ job' = job
BY DEF IInv, TypeOK, Proceed, Goto, Frame, Looks

LEMMA LookKeeps == ASSUME IInv, NEW p \in Importers, Look(p) PROVE IInv'
<1>1. /\ pc[p] = "scan" /\ NoWrite /\ UNCHANGED <<up, place, due, faults>>
      /\ \E n \in todo[p] :
           LET r == LatestRow(Seen(p), n) IN
             /\ todo' = [todo EXCEPT ![p] = @ \ {n}]
             /\ \/ UNCHANGED <<pc, job>>
                \/ \E u \in Incoming(n) :
                     /\ job' = [job EXCEPT ![p] = [name |-> n, row |-> r, got |-> u]]
                     /\ \/ r = 0 /\ Goto(p, "detect")
                        \/ r # 0 /\ (Goto(p, "observe") \/ Goto(p, "claim") \/ Goto(p, "rejectfile"))
  BY DEF Look
<1>2. PICK n \in todo[p] :
        /\ todo' = [todo EXCEPT ![p] = @ \ {n}]
        /\ \/ UNCHANGED <<pc, job>>
           \/ \E u \in Incoming(n) : \E r \in 0..MaxRows :
                /\ job' = [job EXCEPT ![p] = [name |-> n, row |-> r, got |-> u]]
                /\ \/ r = 0 /\ Goto(p, "detect")
                   \/ r # 0 /\ (Goto(p, "observe") \/ Goto(p, "claim") \/ Goto(p, "rejectfile"))
  <2>1. PICK n \in todo[p] :
          LET r == LatestRow(Seen(p), n) IN
            /\ todo' = [todo EXCEPT ![p] = @ \ {n}]
            /\ \/ UNCHANGED <<pc, job>>
               \/ \E u \in Incoming(n) :
                    /\ job' = [job EXCEPT ![p] = [name |-> n, row |-> r, got |-> u]]
                    /\ \/ r = 0 /\ Goto(p, "detect")
                       \/ r # 0 /\ (Goto(p, "observe") \/ Goto(p, "claim") \/ Goto(p, "rejectfile"))
    BY <1>1
  <2>2. LatestRow(Seen(p), n) \in 0..MaxRows
    BY LatestRowFacts, ImporterAssumption DEF Rows
  <2> QED
    BY <2>1, <2>2
<1>3. Files(p)
  BY <1>1, SameFiles
<1>4. n \in Names /\ todo' \in [Importers -> SUBSET Names]
  BY <1>2 DEF IInv, TypeOK
<1>5. CASE UNCHANGED <<pc, job>>
  <2>1. Frame(p)
    BY <1>1, <1>3, <1>4, <1>5 DEF IInv, TypeOK, Frame, Looks
  <2>2. Own(p)
    BY <1>1, <1>5 DEF Own, JobOf, RowOf, Apart, Holding, Weighing, Owning
  <2>3. pc'[p] \notin Unwritten
    BY <1>1, <1>5 DEF Unwritten, Holding, Weighing
  <2> QED
    BY <1>1, <2>1, <2>2, <2>3, SilentKeeps
<1>6. ASSUME NEW u \in Incoming(n), NEW r \in 0..MaxRows,
             job' = [job EXCEPT ![p] = [name |-> n, row |-> r, got |-> u]],
             \/ r = 0 /\ Goto(p, "detect")
             \/ r # 0 /\ (Goto(p, "observe") \/ Goto(p, "claim") \/ Goto(p, "rejectfile"))
      PROVE  IInv'
  <2>1. [name |-> n, row |-> r, got |-> u] \in Looks
    BY <1>4 DEF Looks, Incoming, Uploads
  <2>2. /\ pc'[p] \in {"detect", "observe", "claim", "rejectfile"} /\ (pc'[p] # "detect" => r # 0)
        /\ pc' \in [Importers -> Steps] /\ \A q \in Importers \ {p} : pc'[q] = pc[q]
    BY <1>6 DEF IInv, TypeOK, Goto, Steps
  <2>3. job' \in [Importers -> Looks] /\ job'[p] = [name |-> n, row |-> r, got |-> u]
    BY <1>6, <2>1 DEF IInv, TypeOK, Looks
  <2>4. Frame(p)
    BY <1>1, <1>3, <1>4, <1>6, <2>2, <2>3 DEF IInv, TypeOK, Frame
  <2>5. Own(p)
    BY <1>4, <2>2, <2>3 DEF Own, JobOf, RowOf, Apart, Holding, Weighing, Owning, Rows
  <2>6. pc'[p] \notin Unwritten
    BY <2>2 DEF Unwritten, Holding, Weighing
  <2> QED
    BY <1>1, <2>4, <2>5, <2>6, SilentKeeps
<1> QED
  BY <1>2, <1>5, <1>6

\* A status written over what the scan sees of its row.
LEMMA StatusWritten ==
  ASSUME IInv, NEW p \in Importers, NEW s \in RowStatuses, job[p].row \in Rows, Files(p),
         s \in {"imported", "rejected"} \/ db.rows[job[p].row].status # "imported",
         s \in Taken \/ pc[p] \in Owning
  PROVE  LET d == SetStatus(Seen(p), job[p].row, s) IN
           /\ Good(d, place', up) /\ Follows(db, d) /\ d.rows[job[p].row].status = s
           /\ \A q \in Importers \ {p} : pc[q] \in Owning => d.rows[job[q].row].status \in Taken
<1> DEFINE r == job[p].row
           c == Seen(p)
           d == SetStatus(c, r, s)
<1>1. /\ Good(c, place, up) /\ c \in Tables /\ Follows(db, c)
      /\ \A q \in Importers \ {p} : pc[q] \in Owning => c.rows[job[q].row].status \in Taken
  BY SeenFacts
<1> HIDE DEF c
<1>2. /\ d \in Tables /\ SameButRows(c, d) /\ d.rows[r].status = s
      /\ \A q \in Rows \ {r} : d.rows[q] = c.rows[q]
  BY <1>1, SetStatusFacts
<1> HIDE DEF d
<1>3. Good(d, place', up)
  <2>1. \A u \in Uploads : place[u] = "backups" => place'[u] = "backups" /\ up[u] = up[u]
    BY DEF Files
  <2>2. Good(c, place', up)
    BY <1>1, <2>1, GoodFiles
  <2> QED
    BY <1>2, <2>2, GoodRows
<1>4. Follows(db, d)
  BY <1>1, <1>2 DEF Follows, SameButRows
<1>5. ASSUME NEW q \in Importers \ {p}, pc[q] \in Owning PROVE d.rows[job[q].row].status \in Taken
  <2>1. job[q].row \in Rows
    BY <1>5 DEF IInv, JobInv, JobOf, Owning, Holding, Weighing
  <2>2. pc[p] \in Owning => job[q].row # r
    BY <1>5 DEF IInv, ApartInv, Apart
  <2> QED
    BY <1>1, <1>2, <1>5, <2>1, <2>2
<1> QED
  BY <1>2, <1>3, <1>4, <1>5 DEF c, d

LEMMA StartKeeps == ASSUME IInv, NEW p \in Importers, Start(p) PROVE IInv'
<1>1. /\ pc[p] = "idle" /\ pc' = [pc EXCEPT ![p] = "scan"]
      /\ due' = [due EXCEPT ![p] = db.past] /\ UNCHANGED <<up, place, job, faults>>
      /\ todo' = [todo EXCEPT ![p] = {n \in Names : Incoming(n) # {}}]
      /\ \/ Write(p, Expire(db)) /\ db.op # "expired"
         \/ NoWrite
  BY DEF Start, Goto
<1>2. db \in Tables /\ db.past \in BOOLEAN
  BY DEF IInv, TypeOK, Tables
<1>3. Frame(p) /\ pc'[p] = "scan"
  BY <1>1, <1>2, SameFiles DEF IInv, TypeOK, Frame, Looks, Steps
<1>4. Own(p) /\ pc'[p] \notin Unwritten
  BY <1>3 DEF Own, JobOf, RowOf, Apart, Holding, Weighing, Owning, Unwritten
<1>5. CASE NoWrite
  BY <1>3, <1>4, <1>5, SilentKeeps
<1>6. CASE Write(p, Expire(db)) /\ db.op # "expired"
  <2>1. Good(Expire(db), place', up)
    BY <1>1, ExpireGood DEF IInv, DataInv
  <2>2. Expire(db).rows = db.rows /\ Expire(db).stored = db.stored
    BY <1>2, ExpireFacts DEF SameButArts
  <2>3. Follows(db, Expire(db))
    BY <1>6, <2>2 DEF Follows
  <2>4. \A q \in Importers \ {p} : pc[q] \in Owning => Expire(db).rows[job[q].row].status \in Taken
    BY <2>2 DEF IInv, RowInv, RowOf
  <2> QED
    BY <1>3, <1>4, <1>6, <2>1, <2>3, <2>4, WriteKeeps
<1> QED
  BY <1>1, <1>5, <1>6

LEMMA DetectKeeps == ASSUME IInv, NEW p \in Importers, Detect(p) PROVE IInv'
<1> DEFINE c == Seen(p)
           row == [name |-> job[p].name, status |-> "waiting_stable", seen |-> job[p].got, calm |-> FALSE]
<1>1. /\ NextFile(p) /\ UNCHANGED <<up, place>> /\ pc[p] = "detect"
      /\ \E r \in Free(c) : Write(p, [c EXCEPT !.rows[r] = row])
  BY DEF Detect
<1>2. PICK r \in Free(c) : Write(p, PutRow(c, r, row))
  BY <1>1 DEF PutRow
<1>3. /\ Good(c, place, up) /\ c \in Tables /\ Follows(db, c)
      /\ \A q \in Importers \ {p} : pc[q] \in Owning => c.rows[job[q].row].status \in Taken
  BY SeenFacts
<1>4. row \in Row /\ row.status = "waiting_stable"
  BY DEF IInv, TypeOK, Row, RowStatuses
<1>5. r \in Rows /\ c.rows[r].status = "absent"
  BY DEF Free
<1> HIDE DEF c, row
<1> DEFINE d == PutRow(c, r, row)
<1>6. /\ d \in Tables /\ SameButRows(c, d) /\ d.rows[r] = row
      /\ \A q \in Rows \ {r} : d.rows[q] = c.rows[q]
  BY <1>3, <1>4, <1>5, PutRowFacts
<1> HIDE DEF d
<1>7. Frame(p) /\ Own(p) /\ pc'[p] \notin Unwritten
  BY <1>1, SameFiles, NextFileFrame
<1>8. Good(d, place', up)
  BY <1>1, <1>3, <1>6, GoodRows
<1>9. Follows(db, d)
  BY <1>3, <1>5, <1>6 DEF Follows, SameButRows
<1>10. ASSUME NEW q \in Importers \ {p}, pc[q] \in Owning PROVE d.rows[job[q].row].status \in Taken
  <2>1. job[q].row \in Rows
    BY <1>10 DEF IInv, JobInv, JobOf, Owning, Holding, Weighing
  <2>2. job[q].row # r
    BY <1>3, <1>5, <1>10 DEF Taken
  <2> QED
    BY <1>3, <1>6, <1>10, <2>1, <2>2
<1>11. Write(p, d)
  BY <1>2 DEF d
<1> QED
  BY <1>7, <1>8, <1>9, <1>10, <1>11, WriteKeeps

LEMMA ObserveKeeps == ASSUME IInv, NEW p \in Importers, Observe(p) PROVE IInv'
<1> DEFINE c == Seen(p)
           r == job[p].row
           row == [[c.rows[r] EXCEPT !.seen = job[p].got] EXCEPT !.calm = FALSE]
<1>1. /\ NextFile(p) /\ UNCHANGED <<up, place>> /\ pc[p] = "observe"
      /\ Write(p, [c EXCEPT !.rows[r].seen = job[p].got, !.rows[r].calm = FALSE])
  BY DEF Observe
<1>2. /\ Good(c, place, up) /\ c \in Tables /\ Follows(db, c)
      /\ \A q \in Importers \ {p} : pc[q] \in Owning => c.rows[job[q].row].status \in Taken
  BY SeenFacts
<1>3. r \in Rows /\ job[p].got \in 0..MaxUploads
  BY <1>1 DEF IInv, TypeOK, JobInv, JobOf
<1> HIDE DEF c
<1>4. c.rows[r] \in Row
  BY <1>2, <1>3 DEF Tables
<1>5. row \in Row /\ row.status = c.rows[r].status
  <2> DEFINE first == [c.rows[r] EXCEPT !.seen = job[p].got]
  <2>1. first \in Row /\ first.status = c.rows[r].status
    BY <1>3, <1>4, RowTypes
  <2> HIDE DEF first
  <2>2. [first EXCEPT !.calm = FALSE] \in Row /\ [first EXCEPT !.calm = FALSE].status = first.status
    BY <2>1, RowTypes
  <2> QED
    BY <2>1, <2>2 DEF first
<1>6. [c EXCEPT !.rows[r].seen = job[p].got, !.rows[r].calm = FALSE] = PutRow(c, r, row)
  BY <1>2, <1>3 DEF PutRow, Tables
<1> HIDE DEF row
<1> DEFINE d == PutRow(c, r, row)
<1>7. /\ d \in Tables /\ SameButRows(c, d) /\ d.rows[r] = row
      /\ \A q \in Rows \ {r} : d.rows[q] = c.rows[q]
  BY <1>2, <1>3, <1>5, PutRowFacts
<1>8. Write(p, d)
  BY <1>1, <1>6
<1> HIDE DEF d
<1>9. Frame(p) /\ Own(p) /\ pc'[p] \notin Unwritten
  BY <1>1, SameFiles, NextFileFrame
<1>10. Good(d, place', up)
  BY <1>1, <1>2, <1>7, GoodRows
<1>11. \A q \in Rows : d.rows[q].status = c.rows[q].status
  BY <1>5, <1>7
<1>12. Follows(db, d)
  BY <1>2, <1>7, <1>11 DEF Follows, SameButRows
<1>13. \A q \in Importers \ {p} : pc[q] \in Owning => d.rows[job[q].row].status \in Taken
  BY <1>2, <1>11 DEF IInv, JobInv, JobOf, Owning, Holding, Weighing
<1> QED
  BY <1>8, <1>9, <1>10, <1>12, <1>13, WriteKeeps

LEMMA RejectFileKeeps == ASSUME IInv, NEW p \in Importers, RejectFile(p) PROVE IInv'
<1>1. /\ pc[p] = "rejectfile" /\ NoWrite /\ Proceed(p, "rejectrow")
      /\ UNCHANGED up
  BY DEF RejectFile
<1>2. Files(p)
  BY <1>1, SameFiles, PutFiles DEF RejectFile, Incoming
<1>3. Frame(p) /\ pc'[p] = "rejectrow" /\ job' = job
  BY <1>1, <1>2, ProceedFrame DEF Steps
<1>4. Own(p) /\ pc'[p] \notin Unwritten
  BY <1>1, <1>3 DEF IInv, JobInv, Own, JobOf, RowOf, Apart, Holding, Weighing, Owning, Unwritten
<1> QED
  BY <1>1, <1>3, <1>4, SilentKeeps

LEMMA RejectRowKeeps == ASSUME IInv, NEW p \in Importers, RejectRow(p) PROVE IInv'
<1>1. /\ NextFile(p) /\ UNCHANGED <<up, place>> /\ pc[p] = "rejectrow"
      /\ Write(p, SetStatus(Seen(p), job[p].row, "rejected"))
  BY DEF RejectRow
<1>2. Files(p)
  BY <1>1, SameFiles
<1>3. Frame(p) /\ Own(p) /\ pc'[p] \notin Unwritten
  BY <1>1, <1>2, NextFileFrame
<1>4. job[p].row \in Rows /\ "rejected" \in RowStatuses /\ "rejected" \in Taken
  BY <1>1 DEF IInv, JobInv, JobOf, RowStatuses, Taken
<1> QED
  BY <1>1, <1>2, <1>3, <1>4, StatusWritten, WriteKeeps

\* The row the scan claims, and the tables with it.
Claimed(d, r) == [SetStatus(d, r, "processing") EXCEPT !.rows[r].calm = FALSE]

LEMMA ClaimedFacts ==
  ASSUME IInv, NEW p \in Importers, pc[p] = "claim", Files(p),
         Seen(p).rows[job[p].row].status = "waiting_stable"
  PROVE  LET d == Claimed(Seen(p), job[p].row) IN
           /\ Good(d, place', up) /\ Follows(db, d) /\ d.rows[job[p].row].status = "processing"
           /\ \A q \in Importers \ {p} : pc[q] \in Owning =>
                job[q].row # job[p].row /\ d.rows[job[q].row].status \in Taken
<1> DEFINE c == Seen(p)
           r == job[p].row
           f == SetStatus(c, r, "processing")
           d == Claimed(c, r)
<1>1. /\ Good(c, place, up) /\ c \in Tables /\ Follows(db, c)
      /\ \A q \in Importers \ {p} : pc[q] \in Owning => c.rows[job[q].row].status \in Taken
  BY SeenFacts
<1>2. r \in Rows /\ "processing" \in RowStatuses /\ "processing" \in Taken
  BY DEF IInv, JobInv, JobOf, RowStatuses, Taken
<1>3. c.rows[r].status \notin Taken /\ db.rows[r].status # "imported"
  BY <1>1, <1>2 DEF Taken, Follows
<1>4. /\ Good(f, place', up) /\ Follows(db, f) /\ f.rows[r].status = "processing"
      /\ \A q \in Importers \ {p} : pc[q] \in Owning => f.rows[job[q].row].status \in Taken
  BY <1>2, <1>3, StatusWritten
<1>5. d = [f EXCEPT !.rows[r].calm = FALSE]
  BY DEF Claimed
<1> HIDE DEF f, c, d
<1>6. f \in Tables /\ f.rows[r] \in Row
  BY <1>2, <1>4 DEF Good, Tables
<1> DEFINE row == [f.rows[r] EXCEPT !.calm = FALSE]
<1>7. row \in Row /\ row.status = "processing"
  BY <1>4, <1>6, RowTypes
<1>8. d = PutRow(f, r, row)
  BY Zenon, <1>5 DEF PutRow
<1> HIDE DEF row
<1>9. /\ d \in Tables /\ SameButRows(f, d) /\ d.rows[r].status = "processing"
      /\ \A q \in Rows \ {r} : d.rows[q] = f.rows[q]
  BY <1>2, <1>6, <1>7, <1>8, PutRowFacts
<1>10. \A q \in Rows : d.rows[q].status = f.rows[q].status
  BY <1>4, <1>9
<1>11. Good(d, place', up)
  BY <1>4, <1>9, GoodRows
<1>12. Follows(db, d)
  BY <1>4, <1>9, <1>10 DEF Follows, SameButRows
<1>13. \A q \in Importers \ {p} :
         pc[q] \in Owning => job[q].row # r /\ d.rows[job[q].row].status \in Taken
  BY <1>1, <1>3, <1>4, <1>10 DEF IInv, JobInv, JobOf, Owning, Holding, Weighing
<1> QED
  BY <1>9, <1>11, <1>12, <1>13 DEF c, d

LEMMA ClaimKeeps == ASSUME IInv, NEW p \in Importers, Claim(p) PROVE IInv'
<1> DEFINE c == Seen(p)
           r == job[p].row
           d == Claimed(c, r)
<1>1. /\ pc[p] = "claim" /\ UNCHANGED <<up, place>>
      /\ \/ c.rows[r].status = "waiting_stable" /\ Commit(d) /\ Proceed(p, "correlate")
         \/ Write(p, c) /\ NextFile(p)
  BY DEF Claim, Claimed
<1>2. /\ Good(c, place, up) /\ Follows(db, c)
      /\ \A q \in Importers \ {p} : pc[q] \in Owning => c.rows[job[q].row].status \in Taken
  BY SeenFacts
<1>3. Files(p)
  BY <1>1, SameFiles
<1>4. CASE Write(p, c) /\ NextFile(p)
  <2>1. Frame(p) /\ Own(p) /\ pc'[p] \notin Unwritten
    BY <1>3, <1>4, NextFileFrame
  <2>2. Good(c, place', up)
    BY <1>1, <1>2
  <2> QED
    BY <1>2, <1>4, <2>1, <2>2, WriteKeeps
<1>5. CASE c.rows[r].status = "waiting_stable" /\ Commit(d) /\ Proceed(p, "correlate")
  <2>1. /\ Good(d, place', up) /\ Follows(db, d) /\ d.rows[r].status = "processing"
        /\ \A q \in Importers \ {p} : pc[q] \in Owning => job[q].row # r /\ d.rows[job[q].row].status \in Taken
    BY <1>1, <1>3, <1>5, ClaimedFacts
  <2>2. Commit(d) /\ db' = d /\ tx' = d
    BY <1>5 DEF Commit
  <2> HIDE DEF d
  <2>3. Frame(p) /\ pc'[p] = "correlate" /\ job' = job
    BY <1>3, <1>5, ProceedFrame DEF Steps
  <2>4. Own(p)
    <3>1. JobOf(p)'
      BY <1>1, <2>3 DEF IInv, JobInv, JobOf, Holding, Weighing
    <3>2. RowOf(p)'
      BY <2>1, <2>2, <2>3 DEF RowOf, Taken
    <3>3. \A q \in Importers \ {p} : Apart(p, q)' /\ Apart(q, p)'
      BY <2>1, <2>3 DEF Apart, Holding, Weighing, Frame
    <3> QED
      BY <3>1, <3>2, <3>3 DEF Own
  <2> QED
    BY <2>1, <2>2, <2>3, <2>4, CommitKeeps
<1> QED
  BY <1>1, <1>4, <1>5

\* A scan that goes on with its row: what has to be shown of it.
LEMMA OwnGoesOn ==
  ASSUME IInv, NEW p \in Importers, Frame(p), pc[p] \in Owning, pc'[p] \notin Holding \ {pc[p]},
         pc'[p] \in Owning => job'[p].row = job[p].row,
         pc'[p] \in Holding => job'[p].got = job[p].got
  PROVE  \A q \in Importers \ {p} : Apart(p, q)' /\ Apart(q, p)'
BY DEF IInv, ApartInv, Apart, Frame

LEMMA CorrelateKeeps == ASSUME IInv, NEW p \in Importers, Correlate(p) PROVE IInv'
<1> DEFINE n == job[p].name
           r == job[p].row
<1>1. pc[p] = "correlate" /\ UNCHANGED <<up, place>> /\ Files(p)
  BY SameFiles DEF Correlate
<1>2. n \in Names /\ r \in Rows /\ Seen(p) = db /\ due[p] \in BOOLEAN /\ pc[p] \in Owning
  BY <1>1, SeenFacts DEF IInv, TypeOK, JobInv, JobOf, Holding, Weighing, Owning, Unwritten
<1>3. db.rows[r].status \in Taken /\ tx.rows[r].status \in Taken
  BY <1>1, <1>2 DEF IInv, RowInv, RowOf
<1>4. CASE "plain" \in Classes(n) /\ NoWrite /\ Proceed(p, "move")
  <2>1. Frame(p) /\ pc'[p] = "move" /\ job' = job
    BY <1>1, <1>4, ProceedFrame DEF Steps
  <2>2. n \in Plain
    BY <1>4 DEF Classes
  <2>3. JobOf(p)' /\ RowOf(p)'
    BY <1>2, <1>3, <1>4, <2>1, <2>2 DEF JobOf, RowOf, Holding, Weighing, NoWrite
  <2>4. Own(p) /\ pc'[p] \notin Unwritten
    BY <1>2, <2>1, <2>3, OwnGoesOn DEF Own, Holding, Weighing, Unwritten
  <2> QED
    BY <1>4, <2>1, <2>4, SilentKeeps
<1>5. CASE Write(p, SetStatus(Seen(p), r, "waiting_stable")) /\ NextFile(p)
  <2>1. Frame(p) /\ Own(p) /\ pc'[p] \notin Unwritten
    BY <1>1, <1>5, NextFileFrame
  <2>2. "waiting_stable" \in RowStatuses /\ db.rows[r].status # "imported"
    BY <1>3 DEF RowStatuses, Taken
  <2> QED
    BY <1>1, <1>2, <1>5, <2>1, <2>2, StatusWritten, WriteKeeps
<1>6. CASE "managed" \in Classes(n) /\ Write(p, Begun(Seen(p), n, due[p])) /\ Proceed(p, "move")
  <2> DEFINE d == Begun(db, n, due[p])
  <2>1. Frame(p) /\ pc'[p] = "move" /\ job' = job
    BY <1>1, <1>6, ProceedFrame DEF Steps
  <2>2. n \in Artifacts
    BY <1>2, <1>6 DEF Classes, Names
  <2>3. db \in Tables /\ Good(db, place, up)
    BY DEF IInv, TypeOK, DataInv
  <2>4. Good(d, place', up)
    BY <1>1, <1>2, <2>2, <2>3, BegunGood
  <2>5. d.rows = db.rows /\ d.stored = db.stored /\ (d.op = "success" => db.op = "success")
    BY <1>2, <2>2, <2>3, BegunFacts DEF SameButArts
  <2>6. Write(p, d)
    BY <1>2, <1>6
  <2> HIDE DEF d
  <2>7. Follows(db, d)
    BY <2>5 DEF Follows
  <2>8. \A q \in Importers \ {p} : pc[q] \in Owning => d.rows[job[q].row].status \in Taken
    BY <2>5 DEF IInv, RowInv, RowOf
  <2>9. JobOf(p)' /\ RowOf(p)'
    BY <1>2, <1>3, <2>1, <2>2, <2>5, <2>6 DEF JobOf, RowOf, Holding, Weighing, Write
  <2>10. Own(p) /\ pc'[p] \notin Unwritten
    BY <1>2, <2>1, <2>9, OwnGoesOn DEF Own, Holding, Weighing, Unwritten
  <2> QED
    BY <2>1, <2>4, <2>6, <2>7, <2>8, <2>10, WriteKeeps
<1>7. CASE NoWrite /\ Proceed(p, "rejectfile")
  <2>1. Frame(p) /\ pc'[p] = "rejectfile" /\ job' = job
    BY <1>1, <1>7, ProceedFrame DEF Steps
  <2>2. Own(p) /\ pc'[p] \notin Unwritten
    BY <1>2, <2>1 DEF Own, JobOf, RowOf, Apart, Holding, Weighing, Owning, Unwritten
  <2> QED
    BY <1>7, <2>1, <2>2, SilentKeeps
<1> QED
  BY <1>4, <1>5, <1>6, <1>7 DEF Correlate

LEMMA MoveKeeps == ASSUME IInv, NEW p \in Importers, Move(p) PROVE IInv'
<1> DEFINE n == job[p].name
           r == job[p].row
<1>1. pc[p] = "move" /\ UNCHANGED <<up, todo, due, faults>>
  BY DEF Move
<1>2. n \in Artifacts \cup Plain /\ n \in Names /\ r \in Rows /\ pc[p] \in Owning
  BY <1>1 DEF IInv, JobInv, JobOf, Holding, Weighing, Owning
<1>3. db.rows[r].status \in Taken /\ tx.rows[r].status \in Taken
  BY <1>1, <1>2 DEF IInv, RowInv, RowOf
<1>4. ASSUME NEW u \in Incoming(n), Put(u, "processing"), job' = [job EXCEPT ![p].got = u],
             Goto(p, "judge"), IF writer = p THEN Commit(tx) ELSE NoWrite
      PROVE  IInv'
  <2>1. u \in Uploads /\ place[u] = "incoming" /\ up[u].name = n
    BY DEF Incoming
  <2>2. Files(p) /\ place'[u] = "processing" /\ up' = up
    BY <1>1, <1>4, <2>1, PutFiles
  <2>3. job[p] \in Looks /\ job \in [Importers -> Looks]
    BY DEF IInv, TypeOK, Looks
  <2>4. job' = [job EXCEPT ![p] = [job[p] EXCEPT !.got = u]]
    BY <1>4, <2>3
  <2>5. /\ [job[p] EXCEPT !.got = u] \in Looks
        /\ [job[p] EXCEPT !.got = u].got = u /\ [job[p] EXCEPT !.got = u].name = n
        /\ [job[p] EXCEPT !.got = u].row = r
    BY <2>1, <2>3 DEF Looks, Uploads
  <2>6. /\ job' \in [Importers -> Looks] /\ \A q \in Importers \ {p} : job'[q] = job[q]
        /\ job'[p].got = u /\ job'[p].name = n /\ job'[p].row = r
    BY <2>3, <2>4, <2>5
  <2>7. Frame(p) /\ pc'[p] = "judge"
    BY <1>1, <1>4, <2>2, <2>6 DEF IInv, TypeOK, Frame, Goto, Steps
  <2>8. JobOf(p)'
    BY <1>2, <2>1, <2>2, <2>6, <2>7 DEF JobOf, Holding, Weighing
  <2>9. \A q \in Importers \ {p} : Apart(p, q)' /\ Apart(q, p)'
    <3>1. ASSUME NEW q \in Importers \ {p}, pc[q] \in Holding PROVE job[q].got # u
      BY <2>1, <3>1 DEF IInv, JobInv, JobOf
    <3>2. ASSUME NEW q \in Importers \ {p}, pc[q] \in Owning PROVE job[q].row # r
      BY <1>2, <3>2 DEF IInv, ApartInv, Apart
    <3> QED
      BY <2>6, <2>7, <3>1, <3>2 DEF Apart, Frame
  <2>10. CASE writer = p
    <3>1. Commit(tx)
      BY <1>4, <2>10
    <3>2. \A v \in Uploads : place[v] = "backups" => place'[v] = "backups" /\ up[v] = up[v]
      BY <2>2 DEF Files
    <3>3. Good(tx, place', up) /\ Follows(db, tx)
      BY <3>2, GoodFiles DEF IInv, DataInv
    <3>4. \A q \in Importers \ {p} : pc[q] \in Owning => tx.rows[job[q].row].status \in Taken
      BY <2>10 DEF IInv, RowInv, RowOf
    <3>5. RowOf(p)'
      BY <1>3, <2>6, <3>1 DEF RowOf, Commit
    <3> QED
      BY <2>7, <2>8, <2>9, <3>1, <3>3, <3>4, <3>5, CommitKeeps DEF Own
  <2>11. CASE writer # p
    <3>1. NoWrite
      BY <1>4, <2>11
    <3>2. RowOf(p)'
      BY <1>3, <2>6, <3>1 DEF RowOf, NoWrite
    <3> QED
      BY <2>7, <2>8, <2>9, <2>11, <3>1, <3>2, SilentKeeps DEF Own
  <2> QED
    BY <2>10, <2>11
<1>5. CASE NoWrite /\ Goto(p, "fail") /\ UNCHANGED <<place, job>>
  <2>1. Proceed(p, "fail") /\ Files(p)
    BY <1>1, <1>5, SameFiles DEF Proceed
  <2>2. Frame(p) /\ pc'[p] = "fail" /\ job' = job
    BY <2>1, ProceedFrame DEF Steps
  <2>3. JobOf(p)' /\ RowOf(p)'
    BY <1>2, <1>3, <1>5, <2>2 DEF JobOf, RowOf, Holding, Weighing, NoWrite
  <2>4. Own(p) /\ pc'[p] \notin Unwritten
    BY <1>2, <2>2, <2>3, OwnGoesOn DEF Own, Holding, Weighing, Unwritten
  <2> QED
    BY <1>5, <2>2, <2>4, SilentKeeps
<1> QED
  BY <1>4, <1>5 DEF Move

\* What a scan has while it holds a file.
LEMMA HeldFacts ==
  ASSUME IInv, NEW p \in Importers, pc[p] \in Weighing
  PROVE  /\ Seen(p) = db /\ Good(db, place, up) /\ db \in Tables
         /\ job[p].got \in Uploads /\ place[job[p].got] = "processing"
         /\ up[job[p].got].name = job[p].name /\ job[p].name \in Artifacts \cup Plain
         /\ up[job[p].got].content \in Contents \cup {NoOne}
         /\ job[p].row \in Rows /\ db.rows[job[p].row].status \in Taken /\ tx.rows[job[p].row].status \in Taken
         /\ due[p] \in BOOLEAN /\ pc[p] \in Owning /\ pc[p] \in Holding
         /\ writer # p /\ JobOf(p)
<1>1. pc[p] \in Owning /\ pc[p] \in Holding /\ pc[p] \in Unwritten /\ pc[p] \notin {"idle", "scan", "detect", "fail"}
  BY DEF Holding, Weighing, Owning, Unwritten
<1>2. writer # p /\ JobOf(p)
  BY <1>1 DEF IInv, WriterInv, JobInv
<1>3. Seen(p) = db /\ Good(db, place, up) /\ db \in Tables
  BY <1>2 DEF Seen, IInv, DataInv, Good
<1>4. db.rows[job[p].row].status \in Taken /\ tx.rows[job[p].row].status \in Taken
  BY <1>1, <1>2 DEF IInv, RowInv, RowOf
<1>5. job[p].got \in Uploads /\ place[job[p].got] = "processing" /\ up[job[p].got].name = job[p].name
  BY <1>1, <1>2 DEF JobOf
<1>6. job[p].name \in Artifacts \cup Plain /\ job[p].row \in Rows
  BY <1>1, <1>2 DEF JobOf
<1>7. up[job[p].got].content \in Contents \cup {NoOne} /\ due[p] \in BOOLEAN
  BY <1>5 DEF IInv, TypeOK
<1> QED
  BY <1>1, <1>2, <1>3, <1>4, <1>5, <1>6, <1>7

LEMMA JudgeKeeps == ASSUME IInv, NEW p \in Importers, Judge(p) PROVE IInv'
<1> DEFINE n == job[p].name
           c == up[job[p].got].content
           l == IF n \in Plain THEN "store"
                ELSE IF Verdicts(n, c) # {"valid"} THEN "invalid"
                ELSE DuplicateKind(Seen(p).arts[n], c)
<1>1. pc[p] = "judge" /\ Proceed(p, l) /\ NoWrite /\ UNCHANGED <<up, place>>
  BY DEF Judge
<1>2. pc[p] \in Weighing
  BY <1>1 DEF Holding, Weighing
<1>3. l \in {"store", "invalid", "repeat", "conflict"}
  BY DEF DuplicateKind
<1>4. Frame(p) /\ pc'[p] = l /\ job' = job
  BY <1>1, <1>3, SameFiles, ProceedFrame DEF Steps
<1>5. n \notin Plain => n \in Artifacts
  BY <1>2, HeldFacts
<1>6. l # "store" => n \notin Plain
  OBVIOUS
<1>7. l = "store" /\ n \in Artifacts => c \notin Bad
  <2> SUFFICES ASSUME l = "store", n \in Artifacts, c \in Bad PROVE FALSE
    OBVIOUS
  <2>1. n \notin Plain
    BY ImporterAssumption
  <2>2. Verdicts(n, c) # {"valid"}
    BY DEF Verdicts, ExportVerdicts, BinaryVerdicts
  <2> QED
    BY <2>1, <2>2
<1>8. l = "invalid" => c \in Bad
  BY DEF Verdicts, ExportVerdicts, BinaryVerdicts, DuplicateKind
<1>9. l = "repeat" => \E v \in db.stored : up[v].name = n /\ up[v].content = c
  <2> SUFFICES ASSUME l = "repeat" PROVE \E v \in db.stored : up[v].name = n /\ up[v].content = c
    OBVIOUS
  <2>1. n \in Artifacts /\ DuplicateKind(db.arts[n], c) = "repeat"
    BY <1>2, <1>5, <1>6, HeldFacts
  <2>2. db.arts[n].sha = c /\ db.arts[n].state \in {"valid", "late"}
    BY <2>1 DEF DuplicateKind
  <2> QED
    BY <1>2, <2>1, <2>2, HeldFacts DEF Good, Backed
<1> HIDE DEF l
<1>10. JobOf(p)'
  <2>1. /\ job[p].row \in Rows /\ n \in Names /\ job[p].got \in Uploads
        /\ place'[job[p].got] = "processing" /\ up'[job[p].got].name = n
        /\ n \in Artifacts \cup Plain
    BY <1>1, <1>2, HeldFacts DEF Names
  <2>2. db' = db
    BY <1>1 DEF NoWrite
  <2> QED
    BY <1>1, <1>3, <1>4, <1>5, <1>6, <1>7, <1>8, <1>9, <2>1, <2>2 DEF JobOf, Holding, Weighing
<1>11. RowOf(p)'
  BY <1>1, <1>2, <1>4, HeldFacts DEF RowOf, NoWrite
<1>12. \A q \in Importers \ {p} : Apart(p, q)' /\ Apart(q, p)'
  <2>1. pc[p] \in Holding /\ pc[p] \in Owning
    BY <1>2, HeldFacts
  <2> QED
    BY <1>4, <2>1 DEF IInv, ApartInv, Apart, Frame
<1> QED
  BY <1>1, <1>2, <1>4, <1>10, <1>11, <1>12, HeldFacts, SilentKeeps DEF Own

LEMMA TurnDownKeeps == ASSUME IInv, NEW p \in Importers, TurnDown(p) PROVE IInv'
<1> DEFINE a == job[p].name
           r == job[p].row
           c == up[job[p].got].content
<1>1. /\ pc[p] \in {"invalid", "conflict"} /\ pc[p] \in Weighing
      /\ Proceed(p, "setaside") /\ UNCHANGED <<up, place>>
  BY DEF TurnDown, Holding, Weighing
<1>2. /\ a \in Artifacts /\ r \in Rows /\ Seen(p) = db /\ db \in Tables /\ c \in Contents \cup {NoOne}
      /\ Good(db, place, up) /\ due[p] \in BOOLEAN /\ pc[p] \in Owning
  BY <1>1, HeldFacts DEF JobOf
<1>3. Files(p)
  BY <1>1, SameFiles
<1>4. Frame(p) /\ pc'[p] = "setaside" /\ job' = job /\ pc'[p] \notin Unwritten
  BY <1>1, <1>3, ProceedFrame DEF Steps, Unwritten, Weighing
<1>5. \E f \in Tables :
        /\ SameButArts(db, f) /\ f.arts[a].state \in {"invalid", "suspicious"}
        /\ \A b \in Artifacts \ {a} : f.arts[b] = db.arts[b]
        /\ Write(p, Reduced(f, due[p]))
  <2>1. db.arts[a] \in Artifact
    BY <1>2 DEF Tables
  <2>2. ASSUME NEW v \in Verdicts(a, c), pc[p] = "invalid",
               Write(p, Reduced(Rejected(db, a, v, c), due[p]))
        PROVE  \E f \in Tables :
                 /\ SameButArts(db, f) /\ f.arts[a].state \in {"invalid", "suspicious"}
                 /\ \A b \in Artifacts \ {a} : f.arts[b] = db.arts[b]
                 /\ Write(p, Reduced(f, due[p]))
    <3> DEFINE x == Judged(db.arts[a], v, c)
    <3>1. v \in {"invalid", "suspicious"}
      <4>1. c \in Bad
        BY <1>1, <2>2, HeldFacts DEF JobOf
      <4> QED
        BY <2>2, <4>1 DEF Verdicts, ExportVerdicts, BinaryVerdicts
    <3>2. x \in Artifact /\ x.state = v
      <4>1. c \in Contents \cup {NoOne}
        BY <1>2
      <4> QED
        BY <2>1, <3>1, <4>1, ArtifactTypes
    <3>3. Rejected(db, a, v, c) = PutArtifact(db, a, x)
      BY <1>2 DEF Rejected, PutArtifact, Judged, Tables
    <3> HIDE DEF x
    <3> QED
      BY <1>2, <2>2, <3>1, <3>2, <3>3, PutArtifactFacts
  <2>3. ASSUME Write(p, Reduced(Conflicting(db, a), due[p]))
        PROVE  \E f \in Tables :
                 /\ SameButArts(db, f) /\ f.arts[a].state \in {"invalid", "suspicious"}
                 /\ \A b \in Artifacts \ {a} : f.arts[b] = db.arts[b]
                 /\ Write(p, Reduced(f, due[p]))
    <3> DEFINE x == [db.arts[a] EXCEPT !.state = "suspicious"]
    <3>1. x \in Artifact /\ x.state = "suspicious"
      BY <2>1, ArtifactTypes
    <3>2. Conflicting(db, a) = PutArtifact(db, a, x)
      BY Zenon DEF Conflicting, SetState, PutArtifact
    <3> HIDE DEF x
    <3> QED
      BY <1>2, <2>3, <3>1, <3>2, PutArtifactFacts
  <2> QED
    BY <1>1, <1>2, <2>2, <2>3 DEF TurnDown
<1>6. PICK f \in Tables :
        /\ SameButArts(db, f) /\ f.arts[a].state \in {"invalid", "suspicious"}
        /\ \A b \in Artifacts \ {a} : f.arts[b] = db.arts[b]
        /\ Write(p, Reduced(f, due[p]))
  BY <1>5
<1> DEFINE e == Reduced(f, due[p])
<1>7. Good(db, place', up)
  <2>1. \A u \in Uploads : place[u] = "backups" => place'[u] = "backups" /\ up[u] = up[u]
    BY <1>3 DEF Files
  <2> QED
    BY <1>2, <2>1, GoodFiles
<1>8. Good(e, place', up) /\ e.op # "success" /\ e.stored = db.stored /\ e.rows = db.rows
  <2>1. /\ SameButArts(db, f) /\ f.arts[a].state \in {"invalid", "suspicious"}
        /\ \A b \in Artifacts \ {a} : f.arts[b] = db.arts[b]
    BY <1>6
  <2>2. a \in Artifacts /\ due[p] \in BOOLEAN
    BY <1>2
  <2> HIDE DEF a
  <2> QED
    BY <1>7, <2>1, <2>2, RejectedGood
<1> HIDE DEF e
<1>9. Follows(db, e)
  BY <1>8 DEF Follows
<1>10. \A q \in Importers \ {p} : pc[q] \in Owning => e.rows[job[q].row].status \in Taken
  BY <1>8 DEF IInv, RowInv, RowOf
<1>11. Write(p, e)
  BY <1>6 DEF e
<1>12. JobOf(p)' /\ RowOf(p)'
  <2>1. db' = db /\ tx' = e
    BY <1>11 DEF Write
  <2>2. /\ db.rows[r].status \in Taken /\ job[p].got \in Uploads /\ place'[job[p].got] = "processing"
        /\ up'[job[p].got].name = a
    BY <1>1, HeldFacts
  <2> QED
    BY <1>2, <1>4, <1>8, <2>1, <2>2 DEF JobOf, RowOf, Holding, Weighing, Owning, Names
<1>13. Own(p)
  <2>1. \A q \in Importers \ {p} : Apart(p, q)' /\ Apart(q, p)'
    BY <1>1, <1>2, <1>4 DEF IInv, ApartInv, Apart, Frame, Holding, Owning
  <2> QED
    BY <1>12, <2>1 DEF Own
<1> QED
  BY <1>4, <1>8, <1>9, <1>10, <1>11, <1>13, WriteKeeps

LEMMA SetAsideKeeps == ASSUME IInv, NEW p \in Importers, SetAside(p) PROVE IInv'
<1>1. /\ pc[p] = "setaside" /\ Put(job[p].got, "rejected") /\ Proceed(p, "rejectrow") /\ NoWrite
      /\ UNCHANGED up /\ pc[p] \in Holding
  BY DEF SetAside, Holding
<1>2. job[p].got \in Uploads /\ place[job[p].got] = "processing" /\ job[p].row \in Rows /\ job[p].name \in Names
  BY <1>1 DEF IInv, JobInv, JobOf
<1>3. Files(p)
  BY <1>1, <1>2, PutFiles
<1>4. Frame(p) /\ pc'[p] = "rejectrow" /\ job' = job
  BY <1>1, <1>3, ProceedFrame DEF Steps
<1>5. Own(p) /\ pc'[p] \notin Unwritten
  BY <1>2, <1>4 DEF Own, JobOf, RowOf, Apart, Holding, Weighing, Owning, Unwritten
<1> QED
  BY <1>1, <1>4, <1>5, SilentKeeps

LEMMA UnlinkKeeps == ASSUME IInv, NEW p \in Importers, Unlink(p) PROVE IInv'
<1>1. /\ pc[p] = "repeat" /\ Put(job[p].got, "gone") /\ Proceed(p, "repeatrow") /\ NoWrite
      /\ UNCHANGED up /\ pc[p] \in Weighing
  BY DEF Unlink, Holding, Weighing
<1>2. Files(p)
  BY <1>1, HeldFacts, PutFiles
<1>3. Frame(p) /\ pc'[p] = "repeatrow" /\ job' = job
  BY <1>1, <1>2, ProceedFrame DEF Steps
<1>4. JobOf(p)' /\ RowOf(p)'
  BY <1>1, <1>3, HeldFacts DEF JobOf, RowOf, Holding, Weighing, NoWrite, Names
<1>5. Own(p) /\ writer # p
  BY <1>1, <1>3, <1>4, HeldFacts, OwnGoesOn DEF Own, Holding, Weighing
<1> QED
  BY <1>1, <1>3, <1>5, SilentKeeps

LEMMA RepeatKeeps == ASSUME IInv, NEW p \in Importers, Repeat(p) PROVE IInv'
<1>1. /\ pc[p] = "repeatrow" /\ NextFile(p) /\ UNCHANGED <<up, place>>
      /\ Write(p, SetStatus(Seen(p), job[p].row, "duplicate")) /\ pc[p] \in Owning
  BY DEF Repeat, Owning
<1>2. Files(p)
  BY <1>1, SameFiles
<1>3. Frame(p) /\ Own(p) /\ pc'[p] \notin Unwritten
  BY <1>1, <1>2, NextFileFrame
<1>4. job[p].row \in Rows /\ "duplicate" \in RowStatuses
  BY <1>1 DEF IInv, JobInv, JobOf, RowStatuses
<1>5. db.rows[job[p].row].status # "imported"
  BY <1>1 DEF IInv, RowInv, RowOf, Taken
<1> QED
  BY <1>1, <1>2, <1>3, <1>4, <1>5, StatusWritten, WriteKeeps

LEMMA FailKeeps == ASSUME IInv, NEW p \in Importers, Fail(p) PROVE IInv'
<1>1. /\ pc[p] = "fail" /\ NextFile(p) /\ UNCHANGED <<up, place>>
      /\ Write(p, SetStatus(Seen(p), job[p].row, "failed")) /\ pc[p] \in Owning
  BY DEF Fail, Owning
<1>2. Files(p)
  BY <1>1, SameFiles
<1>3. Frame(p) /\ Own(p) /\ pc'[p] \notin Unwritten
  BY <1>1, <1>2, NextFileFrame
<1>4. job[p].row \in Rows /\ "failed" \in RowStatuses
  BY <1>1 DEF IInv, JobInv, JobOf, RowStatuses
<1>5. db.rows[job[p].row].status # "imported"
  BY <1>1 DEF IInv, RowInv, RowOf, Taken
<1> QED
  BY <1>1, <1>2, <1>3, <1>4, <1>5, StatusWritten, WriteKeeps

LEMMA StoreKeeps == ASSUME IInv, NEW p \in Importers, Store(p) PROVE IInv'
<1> DEFINE n == job[p].name
           r == job[p].row
           u == job[p].got
           d == Stored(p)
<1>1. /\ pc[p] = "store" /\ pc[p] \in Weighing /\ Write(p, d) /\ Put(u, "backups") /\ NextFile(p)
      /\ UNCHANGED up
  BY DEF Store, Holding, Weighing
<1>2. /\ r \in Rows /\ u \in Uploads /\ Seen(p) = db /\ db \in Tables /\ n \in Artifacts \cup Plain
      /\ Good(db, place, up) /\ due[p] \in BOOLEAN /\ pc[p] \in Owning /\ up[u].name = n
      /\ up[u].content \in Contents \cup {NoOne}
      /\ n \in Artifacts => up[u].content \notin Bad
  BY <1>1, HeldFacts DEF JobOf
<1>3. Files(p) /\ place'[u] = "backups"
  BY <1>1, HeldFacts, PutFiles
<1>4. Frame(p) /\ Own(p) /\ pc'[p] \notin Unwritten
  BY <1>1, <1>3, NextFileFrame
<1>5. Good(db, place', up)
  <2>1. \A v \in Uploads : place[v] = "backups" => place'[v] = "backups" /\ up[v] = up[v]
    BY <1>3 DEF Files
  <2> QED
    BY <1>2, <2>1, GoodFiles
<1>6. /\ Good(d, place', up) /\ d.rows = StoreBackup(db, r, u).rows /\ db.stored \subseteq d.stored
      /\ db.op = "expired" => d.op # "success"
  <2>1. CASE n \in Plain
    <3>1. n \notin Artifacts /\ d = StorePlain(db, r, u)
      BY <1>2, <2>1, ImporterAssumption DEF Stored
    <3> QED
      BY <1>2, <1>3, <1>5, <3>1, StorePlainFacts
  <2>2. CASE n \notin Plain
    <3>1. n \in Artifacts /\ d = StoreArtifact(db, r, n, u, due[p])
      BY <1>2, <2>2 DEF Stored
    <3>2. /\ u \in Uploads /\ r \in Rows /\ due[p] \in BOOLEAN /\ place'[u] = "backups" /\ up[u].name = n
          /\ up[u].content \in Contents \cup {NoOne} /\ up[u].content \notin Bad
      BY <1>2, <1>3, <3>1
    <3> HIDE DEF n, r, u
    <3>3. /\ Good(StoreArtifact(db, r, n, u, due[p]), place', up)
          /\ StoreArtifact(db, r, n, u, due[p]).rows = StoreBackup(db, r, u).rows
          /\ db.op = "expired" => StoreArtifact(db, r, n, u, due[p]).op # "success"
          /\ db.stored \subseteq StoreArtifact(db, r, n, u, due[p]).stored
      BY <1>5, <3>1, <3>2, StoreArtifactFacts
    <3> QED
      BY <3>1, <3>3
  <2> QED
    BY <2>1, <2>2
<1>7. d.rows[r].status = "imported" /\ \A q \in Rows \ {r} : d.rows[q] = db.rows[q]
  BY <1>2, <1>6, StoreBackupFacts
<1> HIDE DEF d
<1>8. Follows(db, d)
  BY <1>6, <1>7 DEF Follows
<1>9. ASSUME NEW q \in Importers \ {p}, pc[q] \in Owning PROVE d.rows[job[q].row].status \in Taken
  <2>1. job[q].row \in Rows /\ job[q].row # r /\ db.rows[job[q].row].status \in Taken
    BY <1>2, <1>9 DEF IInv, JobInv, JobOf, RowInv, RowOf, ApartInv, Apart, Owning, Holding, Weighing
  <2> QED
    BY <1>7, <2>1
<1> QED
  BY <1>1, <1>4, <1>6, <1>8, <1>9, WriteKeeps

LEMMA StoreFailsKeeps == ASSUME IInv, NEW p \in Importers, StoreFails(p) PROVE IInv'
<1> DEFINE n == job[p].name
           r == job[p].row
           u == job[p].got
           d == StoreBackup(db, r, u)
<1>1. /\ pc[p] = "store" /\ pc[p] \in Weighing /\ UNCHANGED <<up, todo, job, due>>
      /\ Goto(p, "fail") /\ faults < MaxFaults /\ faults' = faults + 1
  BY DEF StoreFails, Holding, Weighing
<1>2. /\ r \in Rows /\ u \in Uploads /\ Seen(p) = db /\ db \in Tables
      /\ Good(db, place, up) /\ pc[p] \in Owning /\ up[u].name = n
      /\ n \in Names /\ db.rows[r].status \in Taken
  BY <1>1, HeldFacts DEF Names
<1>3. \/ Write(p, db) /\ UNCHANGED place
      \/ n \in Plain /\ Write(p, d) /\ Put(u, "backups")
  BY <1>2 DEF StoreFails
<1>4. Files(p)
  BY <1>1, <1>3, SameFiles, HeldFacts, PutFiles
<1>5. Frame(p) /\ pc'[p] = "fail" /\ job' = job
  <2>1. faults' \in 0..MaxFaults
    BY <1>1, ImporterAssumption DEF IInv, TypeOK
  <2> QED
    BY <1>1, <1>4, <2>1 DEF IInv, TypeOK, Goto, Frame, Looks, Steps
<1>6. Write(p, db) \/ Write(p, d)
  BY <1>3
<1>7. Own(p) /\ pc'[p] \notin Unwritten
  <2>1. db' = db /\ writer' = p
    BY <1>6 DEF Write
  <2>2. JobOf(p)' /\ RowOf(p)'
    BY <1>2, <1>5, <2>1 DEF JobOf, RowOf, Holding, Weighing
  <2> QED
    BY <1>2, <1>5, <2>2, OwnGoesOn DEF Own, Holding, Weighing, Unwritten
<1>8. Good(db, place', up) /\ Follows(db, db)
  <2>1. \A v \in Uploads : place[v] = "backups" => place'[v] = "backups" /\ up[v] = up[v]
    BY <1>4 DEF Files
  <2> QED
    BY <1>2, <2>1, GoodFiles DEF Follows
<1>9. \A q \in Importers \ {p} : pc[q] \in Owning => db.rows[job[q].row].status \in Taken
  BY DEF IInv, RowInv, RowOf
<1>10. CASE Write(p, db)
  BY <1>5, <1>7, <1>8, <1>9, <1>10, WriteKeeps
<1>11. CASE n \in Plain /\ Write(p, d) /\ Put(u, "backups")
  <2>1. n \notin Artifacts
    BY <1>11, ImporterAssumption
  <2>2. place'[u] = "backups"
    BY <1>1, <1>2, <1>11, HeldFacts, PutFiles
  <2>3. Good(d, place', up)
    BY <1>2, <1>8, <2>1, <2>2, StorePlainFacts
  <2>4. /\ d.op = db.op /\ d.stored = db.stored \cup {u} /\ d.rows[r].status = "imported"
        /\ \A q \in Rows \ {r} : d.rows[q] = db.rows[q]
    BY <1>2, StoreBackupFacts
  <2>5. Write(p, d)
    BY <1>11
  <2> HIDE DEF d
  <2>6. Follows(db, d)
    BY <2>4 DEF Follows
  <2>7. ASSUME NEW q \in Importers \ {p}, pc[q] \in Owning PROVE d.rows[job[q].row].status \in Taken
    <3>1. job[q].row \in Rows /\ job[q].row # r /\ db.rows[job[q].row].status \in Taken
      BY <1>2, <2>7 DEF IInv, JobInv, JobOf, RowInv, RowOf, ApartInv, Apart, Owning, Holding, Weighing
    <3> QED
      BY <2>4, <3>1
  <2> QED
    BY <1>5, <1>7, <2>3, <2>5, <2>6, <2>7, WriteKeeps
<1> QED
  BY <1>3, <1>10, <1>11

\* A scan that is over, whatever it had.
LEMMA OverFrame ==
  ASSUME IInv, NEW p \in Importers, Goto(p, "idle"), Files(p), NEW j \in Looks, job' = [job EXCEPT ![p] = j],
         todo' \in [Importers -> SUBSET Names], due' = [due EXCEPT ![p] = FALSE], faults' \in 0..MaxFaults
  PROVE  Frame(p) /\ Own(p) /\ pc'[p] = "idle"
<1>1. Frame(p) /\ pc'[p] = "idle"
  BY DEF IInv, TypeOK, Goto, Frame, Looks, Steps
<1>2. Own(p)
  BY <1>1 DEF Own, JobOf, RowOf, Apart, Holding, Weighing, Owning
<1> QED
  BY <1>1, <1>2

LEMMA EndKeeps == ASSUME IInv, NEW p \in Importers, End(p) PROVE IInv'
<1>1. /\ pc[p] = "scan" /\ Goto(p, "idle") /\ due' = [due EXCEPT ![p] = FALSE]
      /\ UNCHANGED <<up, place, todo, job, faults>>
      /\ IF writer = p THEN Commit(tx) ELSE NoWrite
  BY DEF End
<1>2. Files(p)
  BY <1>1, SameFiles
<1>3. job[p] \in Looks /\ job' = [job EXCEPT ![p] = job[p]]
  BY <1>1 DEF IInv, TypeOK, Looks
<1>4. Frame(p) /\ Own(p) /\ pc'[p] = "idle"
  BY <1>1, <1>2, <1>3, OverFrame DEF IInv, TypeOK
<1>5. CASE writer = p
  <2>1. Commit(tx) /\ Good(tx, place', up) /\ Follows(db, tx)
    BY <1>1, <1>5 DEF IInv, DataInv
  <2>2. \A q \in Importers \ {p} : pc[q] \in Owning => tx.rows[job[q].row].status \in Taken
    BY <1>5 DEF IInv, RowInv, RowOf
  <2> QED
    BY <1>4, <2>1, <2>2, CommitKeeps
<1>6. CASE writer # p
  BY <1>1, <1>4, <1>6, SilentKeeps
<1> QED
  BY <1>5, <1>6

LEMMA AbortKeeps == ASSUME IInv, NEW p \in Importers, Abort(p) PROVE IInv'
<1>1. /\ Goto(p, "idle") /\ due' = [due EXCEPT ![p] = FALSE]
      /\ todo' = [todo EXCEPT ![p] = {}] /\ job' = [job EXCEPT ![p] = NoJob]
      /\ UNCHANGED <<up, place>>
      /\ IF writer = p THEN Commit(db) ELSE NoWrite
      /\ faults' = faults \/ (faults < MaxFaults /\ faults' = faults + 1)
  BY DEF Abort
<1>2. Files(p)
  BY <1>1, SameFiles
<1>3. NoJob \in Looks /\ todo' \in [Importers -> SUBSET Names] /\ faults' \in 0..MaxFaults
  BY <1>1, ImporterAssumption DEF IInv, TypeOK, NoJob, Looks
<1>4. Frame(p) /\ Own(p) /\ pc'[p] = "idle"
  BY <1>1, <1>2, <1>3, OverFrame
<1>5. CASE writer = p
  <2>1. Commit(db) /\ Good(db, place', up) /\ Follows(db, db)
    BY <1>1, <1>5 DEF IInv, DataInv, Follows
  <2>2. \A q \in Importers \ {p} : pc[q] \in Owning => db.rows[job[q].row].status \in Taken
    BY DEF IInv, RowInv, RowOf
  <2> QED
    BY <1>4, <2>1, <2>2, CommitKeeps
<1>6. CASE writer # p
  BY <1>1, <1>4, <1>6, SilentKeeps
<1> QED
  BY <1>5, <1>6

-----------------------------------------------------------------------------
(* The equipment, the others that write, and time                          *)

LEMMA UploadKeeps == ASSUME IInv, Upload PROVE IInv'
<1>1. PICK u \in Uploads, n \in Names, c \in Contents \cup {NoOne} :
        /\ place[u] = "none"
        /\ up' = [up EXCEPT ![u] = [name |-> n, content |-> c]]
        /\ place' = [v \in Uploads |-> IF v = u THEN "incoming" ELSE IF v \in Incoming(n) THEN "gone" ELSE place[v]]
        /\ NoWrite /\ UNCHANGED <<pc, todo, job, due, faults>>
  BY DEF Upload
<1>2. /\ up' \in [Uploads -> [name : Names \cup {NoOne}, content : Contents \cup {NoOne}]]
      /\ \A v \in Uploads \ {u} : up'[v] = up[v]
  BY <1>1 DEF IInv, TypeOK
<1>3. /\ place' \in Places
      /\ \A v \in Uploads : place[v] \in {"backups", "processing"} => place'[v] = place[v] /\ v # u
  BY <1>1 DEF IInv, TypeOK, Places, Incoming
<1>4. TypeOK'
  BY <1>1, <1>2, <1>3 DEF IInv, TypeOK, Places, NoWrite
<1>5. \A v \in Uploads : place[v] = "backups" => place'[v] = "backups" /\ up'[v] = up[v]
  BY <1>2, <1>3
<1>6. Good(db, place', up') /\ Good(tx, place', up')
  BY <1>5, GoodFiles DEF IInv, DataInv
<1>7. WriterInv' /\ DataInv' /\ RowInv' /\ ApartInv'
  BY <1>1, <1>6 DEF IInv, NoWrite, WriterInv, DataInv, RowInv, RowOf, ApartInv, Apart
<1>8. ASSUME NEW p \in Importers PROVE JobOf(p)'
  <2>1. JobOf(p) /\ pc'[p] = pc[p] /\ job'[p] = job[p] /\ db' = db
    BY <1>1 DEF IInv, JobInv, NoWrite
  <2>2. \A v \in db.stored : up'[v] = up[v]
    BY <1>5 DEF IInv, DataInv, Good, Backed, Tables
  <2>3. pc[p] \in Holding => /\ job[p].got \in Uploads /\ up'[job[p].got] = up[job[p].got]
                            /\ place'[job[p].got] = "processing"
    BY <1>2, <1>3, <2>1 DEF JobOf
  <2> QED
    BY <2>1, <2>2, <2>3 DEF JobOf, Holding, Weighing
<1> QED
  BY <1>4, <1>7, <1>8 DEF IInv, JobInv

\* Another process takes the write lock or gives it back: it changes none of
\* these tables.
LEMMA OthersWriteKeeps == ASSUME IInv, OtherWrites \/ OtherCommits PROVE IInv'
<1>1. /\ UNCHANGED <<up, place, pc, todo, job, due>>
      /\ db' = db /\ tx' = db /\ writer \in {NoOne, Other} /\ writer' \in {NoOne, Other}
      /\ faults' = faults \/ (faults < MaxFaults /\ faults' = faults + 1)
  BY DEF OtherWrites, OtherCommits, Commit
<1>2. faults' \in 0..MaxFaults
  BY <1>1, ImporterAssumption DEF IInv, TypeOK
<1>3. \A p \in Importers : writer # p /\ writer' # p
  BY <1>1, ImporterAssumption
<1>4. TypeOK' /\ WriterInv'
  BY <1>1, <1>2, <1>3 DEF IInv, TypeOK, WriterInv
<1>5. DataInv' /\ JobInv'
  BY <1>1 DEF IInv, DataInv, Follows, JobInv, JobOf
<1>6. RowInv' /\ ApartInv'
  BY <1>1, <1>3 DEF IInv, RowInv, RowOf, ApartInv, Apart
<1> QED
  BY <1>4, <1>5, <1>6 DEF IInv

\* Time changes no status, and nothing the tables say of the files.
LEMMA TimeKeeps ==
  ASSUME IInv, UNCHANGED <<up, place, writer, pc, todo, job, due, faults>>,
         db' \in Tables, tx' \in Tables, Good(db', place, up), Good(tx', place, up),
         db'.op = db.op, tx'.op = tx.op, db'.stored = db.stored, tx'.stored = tx.stored,
         \A r \in Rows : db'.rows[r].status = db.rows[r].status /\ tx'.rows[r].status = tx.rows[r].status
  PROVE  IInv'
<1>1. TypeOK' /\ WriterInv' /\ ApartInv'
  BY DEF IInv, TypeOK, WriterInv, ApartInv, Apart
<1>2. DataInv'
  BY DEF IInv, DataInv, Follows
<1>3. JobInv'
  BY DEF IInv, JobInv, JobOf
<1>4. RowInv'
  <2> SUFFICES ASSUME NEW p \in Importers, pc[p] \in Owning
               PROVE  /\ db'.rows[job[p].row].status \in Taken
                      /\ tx'.rows[job[p].row].status \in Taken \/ (writer = p /\ pc[p] = "fail")
    BY DEF RowInv, RowOf
  <2>1. job[p].row \in Rows
    BY DEF IInv, JobInv, JobOf, Owning, Holding, Weighing
  <2> QED
    BY <2>1 DEF IInv, RowInv, RowOf
<1> QED
  BY <1>1, <1>2, <1>3, <1>4 DEF IInv

LEMMA CalmKeeps == ASSUME IInv, Calm PROVE IInv'
<1>1. /\ db' = Elapsed(db) /\ tx' = Elapsed(tx)
      /\ UNCHANGED <<up, place, writer, pc, todo, job, due, faults>>
  BY DEF Calm
<1>2. db \in Tables /\ tx \in Tables /\ Good(db, place, up) /\ Good(tx, place, up)
  BY DEF IInv, TypeOK, DataInv
<1>3. /\ db' \in Tables /\ SameButRows(db, db') /\ tx' \in Tables /\ SameButRows(tx, tx')
      /\ \A r \in Rows : db'.rows[r].status = db.rows[r].status /\ tx'.rows[r].status = tx.rows[r].status
  BY <1>1, <1>2, ElapsedFacts
<1>4. Good(db', place, up) /\ Good(tx', place, up)
  BY <1>2, <1>3, GoodRows
<1> QED
  BY <1>1, <1>3, <1>4, TimeKeeps DEF SameButRows

LEMMA DeadlineKeeps == ASSUME IInv, DeadlinePasses PROVE IInv'
<1>1. /\ db' = [db EXCEPT !.past = TRUE] /\ tx' = [tx EXCEPT !.past = TRUE]
      /\ UNCHANGED <<up, place, writer, pc, todo, job, due, faults>>
  BY DEF DeadlinePasses
<1>2. db \in Tables /\ tx \in Tables /\ Good(db, place, up) /\ Good(tx, place, up)
  BY DEF IInv, TypeOK, DataInv
<1>3. ASSUME NEW d \in Tables, Good(d, place, up)
      PROVE  LET e == [d EXCEPT !.past = TRUE] IN
               /\ e \in Tables /\ Good(e, place, up)
               /\ e.op = d.op /\ e.stored = d.stored /\ e.rows = d.rows
  <2> DEFINE e == [d EXCEPT !.past = TRUE]
  <2>1. /\ e \in Tables /\ e.op = d.op /\ e.stored = d.stored /\ e.rows = d.rows
        /\ e.arts = d.arts /\ e.sent = d.sent
    BY DEF Tables
  <2> HIDE DEF e
  <2>2. Good(e, place, up)
    BY <1>3, <2>1 DEF Good, Backed, Told
  <2> QED
    BY <2>1, <2>2 DEF e
<1> QED
  BY <1>1, <1>2, <1>3, TimeKeeps

-----------------------------------------------------------------------------
(* Every step, and what it may never do                                    *)

LEMMA StepKeeps == ASSUME IInv, [Next]_vars PROVE IInv'
<1>1. ASSUME NEW p \in Importers, Scan(p) PROVE IInv'
  BY <1>1, StartKeeps, LookKeeps, DetectKeeps, ObserveKeeps, RejectFileKeeps, RejectRowKeeps,
     ClaimKeeps, CorrelateKeeps, MoveKeeps, JudgeKeeps, TurnDownKeeps, SetAsideKeeps, UnlinkKeeps, RepeatKeeps,
     StoreKeeps, FailKeeps, EndKeeps DEF Scan
<1>2. CASE Next
  BY <1>1, <1>2, StoreFailsKeeps, AbortKeeps, UploadKeeps, OthersWriteKeeps, CalmKeeps,
     DeadlineKeeps DEF Next
<1>3. CASE UNCHANGED vars
  BY <1>3 DEF vars, IInv, TypeOK, WriterInv, DataInv, JobInv, JobOf, RowInv, RowOf, ApartInv, Apart
<1> QED
  BY <1>2, <1>3

\* The invariant holds of every reachable state.
THEOREM Inductive == Spec => []IInv
<1>1. Init => IInv
  BY FirstState
<1>2. IInv /\ [Next]_vars => IInv'
  BY StepKeeps
<1> QED
  BY <1>1, <1>2, PTL DEF Spec

\* BackupsHaveFiles: an available backup has its file, whatever died or failed
\* between the move and the commit (store_backup, the savepoint of scan_once).
THEOREM StoredIsThere == Spec => []BackupsHaveFiles
<1>1. IInv => BackupsHaveFiles
  BY DEF IInv, DataInv, Good, Backed, BackupsHaveFiles
<1> QED
  BY <1>1, Inductive, PTL

\* SuccessIsComplete: a successful operation has every file, stored and with the
\* content that was validated (complete_artifact, reduce_operation_state).
THEOREM CompleteSuccess == Spec => []SuccessIsComplete
<1>1. IInv => SuccessIsComplete
  BY DEF IInv, DataInv, Good, Backed, Told, SuccessIsComplete
<1> QED
  BY <1>1, Inductive, PTL

\* BothOrNeither: the files of a pair reach the delivery queues together or not
\* at all (ftp_importer.py, on_operation_success).
THEOREM DeliveredTogether == Spec => []BothOrNeither
<1>1. IInv => BothOrNeither
  BY DEF IInv, DataInv, Good, Told, BothOrNeither
<1> QED
  BY <1>1, Inductive, PTL

\* What is committed follows what was.
LEMMA CommitsFollow == ASSUME IInv, [Next]_vars PROVE Follows(db, db')
<1>1. ASSUME db' = db \/ db' = tx PROVE Follows(db, db')
  BY <1>1 DEF IInv, DataInv, Follows
<1>2. ASSUME NEW p \in Importers, Claim(p) PROVE Follows(db, db')
  <2>1. pc[p] = "claim" /\ Files(p)
    BY <1>2, SameFiles DEF Claim
  <2>2. CASE db' = db
    BY <1>1, <2>2
  <2>3. CASE Seen(p).rows[job[p].row].status = "waiting_stable" /\ db' = Claimed(Seen(p), job[p].row)
    BY <2>1, <2>3, ClaimedFacts
  <2> QED
    BY <1>2, <2>2, <2>3 DEF Claim, Claimed, Commit, Write
<1>3. ASSUME NEW p \in Importers, Start(p) \/ Look(p) \/ Detect(p) \/ Observe(p) \/ RejectFile(p)
                                    \/ RejectRow(p) \/ Correlate(p) \/ Move(p)
      PROVE  db' = db \/ db' = tx
  BY <1>3 DEF Start, Look, Detect, Observe, RejectFile, RejectRow, Correlate, Move, Write, NoWrite, Commit
<1>4. ASSUME NEW p \in Importers, Judge(p) \/ TurnDown(p) \/ SetAside(p) \/ Unlink(p) \/ Repeat(p) \/ Store(p)
                                    \/ Fail(p) \/ End(p) \/ StoreFails(p) \/ Abort(p)
      PROVE  db' = db \/ db' = tx
  BY <1>4 DEF Judge, TurnDown, SetAside, Unlink, Repeat, Store, Fail, End, StoreFails, Abort, Write, NoWrite, Commit
<1>5. CASE Upload \/ OtherWrites \/ OtherCommits
  <2>1. db' = db
    BY <1>5 DEF Upload, OtherWrites, OtherCommits, Commit, NoWrite
  <2> QED
    BY <1>1, <2>1
<1>6. CASE Calm
  <2>1. db \in Tables /\ db' = Elapsed(db)
    BY <1>6 DEF Calm, IInv, TypeOK
  <2> QED
    BY <2>1, ElapsedFacts DEF Follows, SameButRows
<1>7. CASE DeadlinePasses
  BY <1>7 DEF DeadlinePasses, IInv, TypeOK, Tables, Follows
<1>8. CASE UNCHANGED vars
  BY <1>1, <1>8 DEF vars
<1> QED
  BY <1>1, <1>2, <1>3, <1>4, <1>5, <1>6, <1>7, <1>8 DEF Next, Scan

\* ExpiredNeverSucceeds: no step makes an expired operation successful, by
\* whichever clock the scan that is under way still works (MIKROTIK_FTP_PUSH.md:230).
THEOREM NoLateSuccess == Spec => ExpiredNeverSucceeds
<1>1. IInv /\ [Next]_vars => [db.op = "expired" => db'.op # "success"]_vars
  BY CommitsFollow DEF Follows
<1> QED
  BY <1>1, Inductive, PTL DEF Spec, ExpiredNeverSucceeds

\* ImportedStays: a row one importer has committed as imported is never failed,
\* claimed or made to wait by another (scan_once).
THEOREM ImportIsFinal == Spec => ImportedStays
<1>1. IInv /\ [Next]_vars
        => [\A r \in Rows : db.rows[r].status = "imported" => db'.rows[r].status \in {"imported", "rejected"}]_vars
  BY CommitsFollow DEF Follows
<1> QED
  BY <1>1, Inductive, PTL DEF Spec, ImportedStays

\* UnlinkedOnlyIfStored: of the files in processing only those whose content is
\* stored already are unlinked (artifact_duplicate_kind, scan_once).
THEOREM OnlyRepeatsAreUnlinked == Spec => UnlinkedOnlyIfStored
<1> DEFINE Unlinked == \A u \in Uploads : place[u] = "processing" /\ place'[u] = "gone"
              => \E v \in db.stored : up[v].name = up[u].name /\ up[v].content = up[u].content
<1>1. ASSUME IInv, [Next]_vars PROVE Unlinked
  <2> SUFFICES ASSUME NEW u \in Uploads, place[u] = "processing", place'[u] = "gone"
               PROVE  \E v \in db.stored : up[v].name = up[u].name /\ up[v].content = up[u].content
    OBVIOUS
  <2>1. place \in Places
    BY <1>1 DEF IInv, TypeOK, Places
  <2>2. ASSUME NEW p \in Importers, Unlink(p)
        PROVE  \E v \in db.stored : up[v].name = up[u].name /\ up[v].content = up[u].content
    <3>1. pc[p] = "repeat" /\ place' = [place EXCEPT ![job[p].got] = "gone"]
      BY <2>2 DEF Unlink, Put
    <3>2. u = job[p].got
      BY <2>1, <3>1 DEF Places
    <3> QED
      BY <1>1, <3>1, <3>2 DEF IInv, JobInv, JobOf
  <2>3. ASSUME NEW p \in Importers, NEW v, NEW there \in {"processing", "rejected", "backups"}, Put(v, there)
        PROVE  FALSE
    BY <2>1, <2>3 DEF Put, Places
  <2>4. ASSUME NEW p \in Importers, RejectFile(p) \/ Move(p) \/ SetAside(p) \/ Store(p) \/ StoreFails(p)
        PROVE  FALSE
    <3>1. place' = place \/ \E v : \E there \in {"processing", "rejected", "backups"} : Put(v, there)
      BY <2>4 DEF RejectFile, Move, SetAside, Store, StoreFails
    <3> QED
      BY <2>3, <2>4, <3>1
  <2>5. ASSUME NEW p \in Importers, Start(p) \/ Look(p) \/ Detect(p) \/ Observe(p) \/ RejectRow(p)
                                      \/ Claim(p) \/ Correlate(p) \/ Judge(p) \/ TurnDown(p)
        PROVE  FALSE
    BY <2>5 DEF Start, Look, Detect, Observe, RejectRow, Claim, Correlate, Judge, TurnDown
  <2>6. ASSUME NEW p \in Importers, Repeat(p) \/ Fail(p) \/ End(p) \/ Abort(p)
        PROVE  FALSE
    BY <2>6 DEF Repeat, Fail, End, Abort
  <2>7. CASE Upload
    <3>1. PICK w \in Uploads, n \in Names :
            place' = [v \in Uploads |-> IF v = w THEN "incoming" ELSE IF v \in Incoming(n) THEN "gone" ELSE place[v]]
      BY <2>7 DEF Upload
    <3> QED
      BY <3>1 DEF Incoming
  <2>8. CASE OtherWrites \/ OtherCommits \/ Calm \/ DeadlinePasses \/ UNCHANGED vars
    BY <2>8 DEF OtherWrites, OtherCommits, Calm, DeadlinePasses, vars
  <2> QED
    BY <1>1, <2>2, <2>4, <2>5, <2>6, <2>7, <2>8 DEF Next, Scan
<1>2. IInv /\ [Next]_vars => [Unlinked]_vars
  BY <1>1
<1> QED
  BY <1>2, Inductive, PTL DEF Spec, UnlinkedOnlyIfStored

=============================================================================
