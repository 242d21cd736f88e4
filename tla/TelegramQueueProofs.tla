-------------------------- MODULE TelegramQueueProofs --------------------------
(***************************************************************************)
(* Theorems about TelegramQueue and their proofs: types, leases, how many   *)
(* attempts an item has, and that the queue implements Delivery.            *)
(***************************************************************************)
EXTENDS TelegramQueue, FiniteSetTheorems, TLAPS

-----------------------------------------------------------------------------
(* The inductive invariant                                                 *)

\* Without a writer there is one table; the writer neither accepts nor withdraws.
TxInv ==
  /\ writer = NoOne => tx = db
  /\ \A i \in Items :
       /\ db[i].status = "absent" <=> tx[i].status = "absent"
       /\ tx[i].status = "cancelled" => db[i].status = "cancelled"

\* An interrupted send whose lease has expired.
Expired(r) == r.status \in Busy /\ r.ripe

\* A process sends an item that exists, and then it is not the writer; its list has what it has not handled, which
\* the table it reads shows as the committed one does, or as recovered.
ListInv ==
  \A p \in Processes :
    /\ pc[p] \in {"send", "record"} => cur[p] \in Items /\ db[cur[p]].status # "absent"
    /\ pc[p] \notin {"send", "record"} => cur[p] = NoOne
    /\ cur[p] \notin due[p]
    /\ writer = p => cur[p] = NoOne /\ \A i \in due[p] : tx[i] = db[i] \/ Expired(db[i])

\* What is or will be called sent has arrived.
SentInv ==
  /\ \A i \in Items : tx[i].status = "sent" => db[i].status = "sent" \/ i \in arrived
  /\ \A p \in Processes : pc[p] = "record" /\ outcome[p] = "ok" => cur[p] \in arrived

\* A request that waits to be answered is about an item that exists.
AskInv == \A c \in Clients : asks[c] # NoAsk => asks[c].item \in Items /\ db[asks[c].item].status # "absent"

IInv == TypeOK /\ TxInv /\ ListInv /\ SentInv /\ AskInv

Tables == [Items -> Item]

-----------------------------------------------------------------------------
(* Rows                                                                    *)

LEMMA SetRow ==
  ASSUME NEW d \in Tables, NEW i \in Items, NEW s \in Statuses
  PROVE  /\ Set(d, i, s) \in Tables
         /\ Set(d, i, s)[i].status = s /\ ~Set(d, i, s)[i].ripe
         /\ Set(d, i, s)[i].attempt = d[i].attempt
         /\ \A j \in Items : j # i => Set(d, i, s)[j] = d[j]
<1> DEFINE new == [d[i] EXCEPT !.status = s, !.ripe = FALSE]
<1>1. Set(d, i, s) = [d EXCEPT ![i] = new]
  BY DEF Set, Tables
<1>2. \A r \in Item : LET n == [r EXCEPT !.status = s, !.ripe = FALSE]
                     IN  n \in Item /\ n.status = s /\ ~n.ripe /\ n.attempt = r.attempt
  BY DEF Item
<1>3. new \in Item /\ new.status = s /\ ~new.ripe /\ new.attempt = d[i].attempt
  BY <1>2 DEF Tables
<1> HIDE DEF new
<1> QED
  BY <1>1, <1>3 DEF Tables

LEMMA ClaimedRow ==
  ASSUME NEW d \in Tables, NEW i \in Items
  PROVE  /\ Claimed(d, i) \in Tables
         /\ Claimed(d, i)[i].status = "uploading" /\ ~Claimed(d, i)[i].ripe
         /\ Claimed(d, i)[i].attempt = d[i].attempt + 1
         /\ \A j \in Items : j # i => Claimed(d, i)[j] = d[j]
<1> DEFINE e == Set(d, i, "uploading")
           new == [e[i] EXCEPT !.attempt = @ + 1]
<1>1. /\ e \in Tables /\ e[i].status = "uploading" /\ ~e[i].ripe /\ e[i].attempt = d[i].attempt
      /\ \A j \in Items : j # i => e[j] = d[j]
  BY SetRow DEF Statuses, Busy
<1> HIDE DEF e
<1>2. [e EXCEPT ![i].attempt = @ + 1] = [e EXCEPT ![i] = new]
  BY <1>1 DEF Tables
<1>3. \A r \in Item : LET n == [r EXCEPT !.attempt = @ + 1]
                     IN  n \in Item /\ n.status = r.status /\ n.ripe = r.ripe /\ n.attempt = r.attempt + 1
  BY DEF Item
<1>4. new \in Item /\ new.status = "uploading" /\ ~new.ripe /\ new.attempt = d[i].attempt + 1
  BY <1>1, <1>3 DEF Tables
<1>5. Claimed(d, i) = [e EXCEPT ![i].attempt = @ + 1]
  BY DEF Claimed, e
<1> HIDE DEF new
<1> QED
  BY <1>1, <1>2, <1>4, <1>5 DEF Tables

\* Recovery touches busy rows whose lease has expired.
LEMMA RecoverRows ==
  ASSUME NEW d \in Tables
  PROVE  /\ Recover(d) \in Tables
         /\ \A i \in Items : /\ Recover(d)[i].attempt = d[i].attempt
                             /\ \/ Recover(d)[i] = d[i]
                                \/ Expired(d[i]) /\ Recover(d)[i].status = "retry_wait"
<1>1. \A r \in Item : LET n == [r EXCEPT !.status = "retry_wait"]
                     IN  n \in Item /\ n.status = "retry_wait" /\ n.attempt = r.attempt
  BY DEF Item, Statuses, Pending
<1>2. ASSUME NEW i \in Items
      PROVE  /\ Recover(d)[i] \in Item /\ Recover(d)[i].attempt = d[i].attempt
             /\ \/ Recover(d)[i] = d[i]
                \/ Expired(d[i]) /\ Recover(d)[i].status = "retry_wait"
  <2>1. d[i] \in Item
    BY DEF Tables
  <2>2. CASE Expired(d[i])
    <3>1. Recover(d)[i] = [d[i] EXCEPT !.status = "retry_wait"]
      BY <2>2 DEF Recover, Expired
    <3> QED
      BY <1>1, <2>1, <2>2, <3>1
  <2>3. CASE ~Expired(d[i])
    BY <2>1, <2>3 DEF Recover, Expired
  <2> QED
    BY <2>2, <2>3
<1>3. Recover(d) = [i \in Items |-> Recover(d)[i]]
  BY DEF Recover
<1> QED
  BY <1>2, <1>3 DEF Tables

LEMMA FinalStatus ==
  ASSUME NEW o, NEW n
  PROVE  /\ Final(o, n) \in {"sent", "failed", "retry_wait"}
         /\ Final(o, n) = "sent" => o = "ok"
  BY DEF Final

LEMMA FirstState == Init => IInv
<1> SUFFICES ASSUME Init PROVE IInv
  OBVIOUS
<1>1. NoItem \in Item /\ NoItem.status = "absent"
  BY DEF NoItem, Item, Statuses
<1>2. db \in Tables /\ tx = db /\ \A i \in Items : db[i].status = "absent"
  BY <1>1 DEF Init, Tables
<1>3. TypeOK
  BY <1>2, TelegramAssumption DEF TypeOK, Init, NoAsk, Tables
<1>4. TxInv /\ ListInv /\ SentInv /\ AskInv
  BY <1>2 DEF Init, TxInv, ListInv, SentInv, AskInv, NoAsk
<1> QED
  BY <1>3, <1>4 DEF IInv

-----------------------------------------------------------------------------
(* Steps                                                                   *)

LEMMA TypeFacts ==
  ASSUME IInv
  PROVE  /\ db \in Tables /\ tx \in Tables
         /\ pc \in [Processes -> {"idle", "next", "send", "record"}]
         /\ due \in [Processes -> SUBSET Items]
         /\ cur \in [Processes -> Items \cup {NoOne}]
         /\ nth \in [Processes -> Nat]
         /\ outcome \in [Processes -> {"none", "ok", "permanent", "internal"}]
         /\ NoOne \notin Processes /\ NoOne \notin Items
  BY TelegramAssumption DEF IInv, TypeOK, Tables, Items

\* In a step that goes on with its list a process is the writer.
LEMMA Going ==
  ASSUME IInv, NEW p \in Processes, NEW i \in Items, Fetch(p, i)
  PROVE  /\ writer = p /\ i \in due[p] /\ cur[p] = NoOne
         /\ tx[i] = db[i] \/ Expired(db[i])
  BY DEF IInv, ListInv, Fetch, IsFirst

LEMMA StartStep == ASSUME IInv, NEW p \in Processes, Start(p) PROVE IInv'
<1> USE DEF World
<1>1. /\ pc[p] = "idle" /\ writer = NoOne /\ lock' \in Locking \cup {lock}
      /\ tx' = Recover(db) /\ writer' = p /\ db' = db
      /\ due' = [due EXCEPT ![p] = Batch(Recover(db))] /\ pc' = [pc EXCEPT ![p] = "next"]
      /\ UNCHANGED <<cur, nth, outcome, arrived, faults, stored, active, asks, requests>>
  BY DEF Start, Write, Goto
<1>2. /\ tx' \in Tables
      /\ \A i \in Items : \/ tx'[i] = db[i]
                          \/ Expired(db[i]) /\ tx'[i].status = "retry_wait"
  BY <1>1, TypeFacts, RecoverRows
<1>3. Batch(Recover(db)) \in SUBSET Items
  BY DEF Batch, Due
<1>4. TypeOK'
  BY <1>1, <1>2, <1>3 DEF IInv, TypeOK, Tables
<1>5. TxInv'
  BY <1>1, <1>2, TypeFacts DEF IInv, TxInv, Busy, Expired
<1>6. cur[p] = NoOne
  BY <1>1 DEF IInv, ListInv
<1>7. ListInv'
  <2>1. pc'[p] = "next" /\ cur'[p] = NoOne /\ writer' = p
    BY <1>1, <1>6, TypeFacts
  <2>2. due'[p] \in SUBSET Items
    BY <1>1, <1>3, TypeFacts
  <2>3. \A q \in Processes \ {p} : pc'[q] = pc[q] /\ due'[q] = due[q] /\ cur'[q] = cur[q] /\ writer' # q
    BY <1>1, TypeFacts
  <2>4. \A i \in Items : tx'[i] = db'[i] \/ Expired(db'[i])
    BY <1>1, <1>2
  <2> QED
    BY <1>1, <2>1, <2>2, <2>3, <2>4, TypeFacts DEF IInv, ListInv
<1>8. SentInv' /\ AskInv'
  BY <1>1, <1>2, TypeFacts DEF IInv, SentInv, AskInv, Busy, Expired
<1> QED
  BY <1>4, <1>5, <1>7, <1>8 DEF IInv

\* What the writer makes of an item of its list without sending it, committed or not.
LEMMA Handling ==
  ASSUME IInv, NEW p \in Processes, NEW i \in Items, Fetch(p, i),
         tx[i].status \in Pending, NEW d \in Tables,
         d[i].status \in {"skipped", "failed", "retry_wait"},
         \A j \in Items : j # i => d[j] = tx[j],
         tx' = d, writer' = p, db' = db, due' = [due EXCEPT ![p] = @ \ {i}],
         UNCHANGED <<lock, pc, cur, nth, outcome, arrived, faults, stored, active, asks, requests>>
  PROVE  IInv'
<1>1. TypeOK'
  BY TypeFacts DEF IInv, TypeOK, Tables
<1>2. writer = p
  BY Going
<1>3. TxInv'
  BY TypeFacts DEF IInv, TxInv, Pending
<1>4. ListInv'
  BY <1>2, TypeFacts DEF IInv, ListInv
<1>5. SentInv' /\ AskInv'
  BY DEF IInv, SentInv, AskInv
<1> QED
  BY <1>1, <1>3, <1>4, <1>5 DEF IInv

LEMMA PassOverStep == ASSUME IInv, NEW p \in Processes, PassOver(p) PROVE IInv'
<1> USE DEF World
<1>1. PICK i \in Items : Fetch(p, i) /\ Done(p, i)
  BY DEF PassOver
<1>2. /\ due' = [due EXCEPT ![p] = @ \ {i}]
      /\ UNCHANGED <<db, tx, writer, lock, pc, cur, nth, outcome, arrived, faults, stored, active, asks, requests>>
  BY <1>1 DEF PassOver, Done, NoWrite
<1>3. TypeOK' /\ TxInv' /\ SentInv' /\ AskInv'
  BY <1>2, TypeFacts DEF IInv, TypeOK, TxInv, SentInv, AskInv
<1>4. ListInv'
  BY <1>2, TypeFacts DEF IInv, ListInv
<1> QED
  BY <1>3, <1>4 DEF IInv

LEMMA RefuseStep == ASSUME IInv, NEW p \in Processes, Refuse(p) PROVE IInv'
<1>1. PICK i \in Items : /\ Fetch(p, i) /\ tx[i].status \in Pending
                         /\ Write(p, Set(tx, i, "skipped")) /\ Done(p, i)
  BY DEF Refuse
<1>2. /\ Set(tx, i, "skipped") \in Tables /\ Set(tx, i, "skipped")[i].status = "skipped"
      /\ \A j \in Items : j # i => Set(tx, i, "skipped")[j] = tx[j]
  BY TypeFacts, SetRow DEF Statuses, Settled
<1>3. UNCHANGED <<stored, active, asks, requests>>
  BY DEF Refuse, World
<1> QED
  BY <1>1, <1>2, <1>3, Handling DEF Write, Done

LEMMA PrepareStep == ASSUME IInv, NEW p \in Processes, Prepare(p) PROVE IInv'
<1>1. PICK i \in Items :
        LET d == Claimed(tx, i) IN
          /\ Fetch(p, i) /\ tx[i].status \in Pending
          /\ \/ Write(p, Set(d, i, "skipped"))
             \/ \E o \in {"permanent", "internal"} : Write(p, Set(d, i, Final(o, d[i].attempt)))
          /\ Done(p, i)
  BY DEF Prepare
<1>2. PICK s \in {"skipped", "failed", "retry_wait"} : Write(p, Set(Claimed(tx, i), i, s))
  <2>1. \A n : \A o \in {"permanent", "internal"} : Final(o, n) \in {"failed", "retry_wait"}
    BY FinalStatus
  <2> QED
    BY <1>1, <2>1
<1>3. /\ Claimed(tx, i) \in Tables
      /\ \A j \in Items : j # i => Claimed(tx, i)[j] = tx[j]
  BY TypeFacts, ClaimedRow
<1>4. s \in Statuses
  BY DEF Statuses, Settled, Pending
<1> DEFINE d == Set(Claimed(tx, i), i, s)
<1>5. d \in Tables /\ d[i].status = s /\ \A j \in Items : j # i => d[j] = tx[j]
  BY <1>3, <1>4, SetRow
<1>6. UNCHANGED <<stored, active, asks, requests>>
  BY DEF Prepare, World
<1> HIDE DEF d
<1>7. Write(p, d)
  BY <1>2 DEF d
<1> QED
  BY <1>1, <1>5, <1>6, <1>7, Handling DEF Write, Done

LEMMA ClaimStep == ASSUME IInv, NEW p \in Processes, Claim(p) PROVE IInv'
<1> USE DEF World
<1>1. PICK i \in Items :
       /\ Fetch(p, i) /\ tx[i].status \in Pending
       /\ Commit(Claimed(tx, i))
       /\ cur' = [cur EXCEPT ![p] = i]
       /\ nth' = [nth EXCEPT ![p] = tx[i].attempt + 1]
       /\ due' = [due EXCEPT ![p] = @ \ {i}]
  BY DEF Claim
<1>2. /\ Claimed(tx, i) \in Tables /\ Claimed(tx, i)[i].status = "uploading"
      /\ \A j \in Items : j # i => Claimed(tx, i)[j] = tx[j]
  BY TypeFacts, ClaimedRow
<1>3. /\ pc' = [pc EXCEPT ![p] = "send"] /\ db' = Claimed(tx, i) /\ tx' = db' /\ writer' = NoOne
      /\ UNCHANGED <<lock, outcome, arrived, faults, stored, active, asks, requests>>
  BY <1>1 DEF Claim, Commit, Goto
<1>4. tx[i].attempt + 1 \in Nat
  BY TypeFacts DEF Tables, Item
<1>5. TypeOK'
  BY <1>1, <1>2, <1>3, <1>4, TypeFacts DEF IInv, TypeOK, Tables
<1>6. TxInv'
  BY <1>2, <1>3, TypeFacts DEF IInv, TxInv
<1>7. ListInv'
  <2>1. \A j \in Items : db[j].status # "absent" => db'[j].status # "absent"
    BY <1>2, <1>3 DEF IInv, TxInv
  <2> QED
    BY <1>1, <1>2, <1>3, <2>1, TypeFacts DEF IInv, ListInv
<1>8. SentInv'
  BY <1>1, <1>2, <1>3, TypeFacts DEF IInv, SentInv
<1>9. AskInv'
  BY <1>2, <1>3 DEF IInv, TxInv, AskInv
<1> QED
  BY <1>5, <1>6, <1>7, <1>8, <1>9 DEF IInv

LEMMA SendStep == ASSUME IInv, NEW p \in Processes, Send(p) PROVE IInv'
<1> USE DEF World
<1>1. PICK o \in {"ok", "permanent", "internal"}, got \in BOOLEAN :
        /\ o = "ok" => got
        /\ outcome' = [outcome EXCEPT ![p] = o]
        /\ arrived' = IF got THEN arrived \cup {cur[p]} ELSE arrived
  BY DEF Send
<1>2. /\ pc[p] = "send" /\ pc' = [pc EXCEPT ![p] = "record"]
      /\ UNCHANGED <<db, tx, writer, lock, due, cur, nth, faults, stored, active, asks, requests>>
  BY DEF Send, Goto, NoWrite
<1>3. cur[p] \in Items
  BY <1>2 DEF IInv, ListInv
<1>4. TypeOK'
  <2>1. arrived' \in SUBSET Items
    BY <1>1, <1>3 DEF IInv, TypeOK
  <2> QED
    BY <1>1, <1>2, <2>1 DEF IInv, TypeOK
<1>5. TxInv' /\ AskInv'
  BY <1>2 DEF IInv, TxInv, AskInv
<1>6. ListInv'
  BY <1>2, TypeFacts DEF IInv, ListInv
<1>7. SentInv'
  BY <1>1, <1>2, TypeFacts DEF IInv, SentInv
<1> QED
  BY <1>4, <1>5, <1>6, <1>7 DEF IInv

LEMMA RecordStep == ASSUME IInv, NEW p \in Processes, Record(p) PROVE IInv'
<1> USE DEF World
<1> DEFINE i == cur[p]
           s == Final(outcome[p], nth[p])
<1>1. /\ pc[p] = "record" /\ writer = NoOne
      /\ tx' = Set(db, i, s) /\ writer' = p /\ db' = db
      /\ cur' = [cur EXCEPT ![p] = NoOne] /\ nth' = [nth EXCEPT ![p] = 0]
      /\ outcome' = [outcome EXCEPT ![p] = "none"] /\ pc' = [pc EXCEPT ![p] = "next"]
      /\ UNCHANGED <<lock, due, arrived, faults, stored, active, asks, requests>>
  BY DEF Record, Write, Goto
<1>2. i \in Items /\ db[i].status # "absent" /\ i \notin due[p]
  BY <1>1 DEF IInv, ListInv
<1>3. s \in {"sent", "failed", "retry_wait"} /\ (s = "sent" => outcome[p] = "ok")
  BY FinalStatus
<1>4. s \in Statuses
  BY <1>3 DEF Statuses, Settled, Pending
<1> HIDE DEF i, s
<1>5. tx' \in Tables /\ tx'[i].status = s /\ \A j \in Items : j # i => tx'[j] = db[j]
  BY <1>1, <1>2, <1>4, TypeFacts, SetRow
<1>6. TypeOK'
  BY <1>1, <1>5, TypeFacts DEF IInv, TypeOK, Tables
<1>7. TxInv'
  BY <1>1, <1>2, <1>3, <1>5, TypeFacts DEF IInv, TxInv
<1>8. ListInv'
  <2>1. pc'[p] = "next" /\ cur'[p] = NoOne /\ due'[p] \in SUBSET Items /\ writer' = p
    BY <1>1, TypeFacts
  <2>2. \A q \in Processes \ {p} : pc'[q] = pc[q] /\ due'[q] = due[q] /\ cur'[q] = cur[q] /\ writer' # q
    BY <1>1, TypeFacts
  <2>3. \A j \in due'[p] : tx'[j] = db'[j]
    BY <1>1, <1>2, <1>5, <2>1
  <2> QED
    BY <1>1, <2>1, <2>2, <2>3, TypeFacts DEF IInv, ListInv
<1>9. SentInv'
  <2>1. s = "sent" => i \in arrived
    BY <1>1, <1>3 DEF IInv, SentInv, i
  <2>2. \A j \in Items : tx'[j].status = "sent" => db'[j].status = "sent" \/ j \in arrived'
    BY <1>1, <1>5, <2>1
  <2> QED
    BY <1>1, <2>2, TypeFacts DEF IInv, SentInv
<1>10. AskInv'
  BY <1>1 DEF IInv, AskInv
<1> QED
  BY <1>6, <1>7, <1>8, <1>9, <1>10 DEF IInv

LEMMA FinishStep == ASSUME IInv, NEW p \in Processes, Finish(p) PROVE IInv'
<1> USE DEF World
<1>1. /\ pc[p] = "next" /\ writer = p /\ lock' \in {lock, NoOne} /\ pc' = [pc EXCEPT ![p] = "idle"]
      /\ db' = tx /\ tx' = tx /\ writer' = NoOne
      /\ UNCHANGED <<due, cur, nth, outcome, arrived, faults, stored, active, asks, requests>>
  BY DEF Finish, Commit, Goto
<1>2. TypeOK'
  BY <1>1 DEF IInv, TypeOK
<1>3. TxInv' /\ AskInv'
  BY <1>1, TypeFacts DEF IInv, TxInv, AskInv
<1>4. ListInv'
  BY <1>1, TypeFacts DEF IInv, ListInv, TxInv
<1>5. SentInv'
  BY <1>1, TypeFacts DEF IInv, SentInv
<1> QED
  BY <1>2, <1>3, <1>4, <1>5 DEF IInv

LEMMA AbortStep ==
  ASSUME IInv, NEW p \in Processes, Abort(p), UNCHANGED <<stored, active, asks, requests>>, faults' \in 0..MaxFaults
  PROVE  IInv'
<1>1. /\ lock' \in {lock, NoOne} /\ pc' = [pc EXCEPT ![p] = "idle"]
      /\ due' = [due EXCEPT ![p] = {}] /\ cur' = [cur EXCEPT ![p] = NoOne]
      /\ nth' = [nth EXCEPT ![p] = 0] /\ outcome' = [outcome EXCEPT ![p] = "none"]
      /\ UNCHANGED <<db, arrived>>
      /\ writer' \in {writer, NoOne} /\ tx' \in {tx, db} /\ (writer' # writer => tx' = db) /\ writer' # p
      /\ (writer' = writer => tx' = tx)
  BY TelegramAssumption DEF Abort, Commit, NoWrite, Goto
<1>2. {} \in SUBSET Items
  OBVIOUS
<1>3. TypeOK'
  BY <1>1, <1>2 DEF IInv, TypeOK
<1>4. TxInv' /\ AskInv'
  BY <1>1, TypeFacts DEF IInv, TxInv, AskInv
<1>5. ListInv'
  BY <1>1, TypeFacts DEF IInv, ListInv
<1>6. SentInv'
  BY <1>1, TypeFacts DEF IInv, SentInv
<1> QED
  BY <1>3, <1>4, <1>5, <1>6 DEF IInv

LEMMA FaultBound == ASSUME IInv, Fault PROVE faults' \in 0..MaxFaults
  BY TelegramAssumption DEF IInv, TypeOK, Fault

LEMMA CrashStep == ASSUME IInv, NEW p \in Processes, Crash(p) PROVE IInv'
  BY AbortStep, FaultBound DEF Crash, World

LEMMA LockedOutStep == ASSUME IInv, NEW p \in Processes, LockedOut(p) PROVE IInv'
<1> USE DEF World
<1>1. faults' \in 0..MaxFaults /\ UNCHANGED <<stored, active, asks, requests>>
  BY FaultBound DEF LockedOut
<1>2. CASE Abort(p)
  BY <1>1, <1>2, AbortStep
<1>3. CASE /\ outcome' = [outcome EXCEPT ![p] = "internal"]
           /\ UNCHANGED <<db, tx, writer, lock, pc, due, cur, nth, arrived>>
  <2>1. TypeOK' /\ TxInv' /\ ListInv' /\ AskInv'
    BY <1>1, <1>3 DEF IInv, TypeOK, TxInv, ListInv, AskInv
  <2>2. SentInv'
    BY <1>1, <1>3, TypeFacts DEF IInv, SentInv
  <2> QED
    BY <2>1, <2>2 DEF IInv
<1> QED
  BY <1>2, <1>3 DEF LockedOut, NoWrite

\* A committed change of some rows by a request, when nobody writes.
LEMMA Requested ==
  ASSUME IInv, writer = NoOne, NEW d \in Tables, db' = d, tx' = d, writer' = NoOne,
         \A i \in Items : \/ d[i] = db[i]
                         \/ /\ d[i].status \in {"queued", "skipped", "cancelled"}
                            /\ d[i].status = "cancelled" => db[i].status # "absent",
         asks' = asks \/ \E c \in Clients : asks' = [asks EXCEPT ![c] = NoAsk],
         UNCHANGED <<lock, pc, due, cur, nth, outcome, stored, active, arrived, faults, requests>>
  PROVE  IInv'
<1>1. \A i \in Items : db[i].status # "absent" => d[i].status # "absent"
  OBVIOUS
<1>2. TypeOK'
  BY DEF IInv, TypeOK, Tables, NoAsk
<1>3. TxInv' /\ SentInv'
  BY DEF IInv, TxInv, SentInv
<1>4. ListInv'
  BY <1>1, TypeFacts DEF IInv, ListInv
<1>5. \A c \in Clients : asks'[c] = asks[c] \/ asks'[c] = NoAsk
  BY DEF IInv, TypeOK
<1>6. AskInv'
  BY <1>1, <1>5 DEF IInv, AskInv
<1> QED
  BY <1>2, <1>3, <1>4, <1>6 DEF IInv

LEMMA EnqueueStep == ASSUME IInv, NEW i \in Items, Enqueue(i) PROVE IInv'
<1> USE DEF Processing
<1>1. PICK s \in {"queued", "skipped"} : Commit(Set(db, i, s))
  BY DEF Enqueue
<1>2. /\ Set(db, i, s) \in Tables /\ Set(db, i, s)[i].status = s
      /\ \A j \in Items : j # i => Set(db, i, s)[j] = db[j]
  BY TypeFacts, SetRow DEF Statuses, Pending, Settled
<1>3. writer = NoOne /\ UNCHANGED <<lock, pc, due, cur, nth, outcome, stored, active, arrived, asks, faults, requests>>
  BY DEF Enqueue
<1> DEFINE d == Set(db, i, s)
<1> HIDE DEF d
<1>4. db' = d /\ tx' = d /\ writer' = NoOne
  BY <1>1 DEF Commit, d
<1> QED
  BY <1>2, <1>3, <1>4, Requested DEF d

LEMMA AnswerStep == ASSUME IInv, NEW c \in Clients, Answer(c) PROVE IInv'
<1> USE DEF Processing
<1> DEFINE i == asks[c].item
           s == IF asks[c].op = "retry" THEN "queued" ELSE "cancelled"
           d == Set(db, i, s)
<1>1. /\ asks[c] # NoAsk /\ asks' = [asks EXCEPT ![c] = NoAsk] /\ writer = NoOne /\ db' = d /\ tx' = d /\ writer' = NoOne
      /\ UNCHANGED <<lock, pc, due, cur, nth, outcome, stored, active, arrived, faults, requests>>
  BY DEF Answer, Commit
<1>2. i \in Items /\ db[i].status # "absent"
  BY <1>1 DEF IInv, AskInv
<1>3. s \in {"queued", "cancelled"} /\ s \in Statuses
  BY DEF Statuses, Pending, Settled
<1> HIDE DEF s, i
<1>4. d \in Tables /\ d[i].status = s /\ \A j \in Items : j # i => d[j] = db[j]
  BY <1>2, <1>3, TypeFacts, SetRow
<1> HIDE DEF d
<1> QED
  BY <1>1, <1>2, <1>3, <1>4, Requested

LEMMA AskStep == ASSUME IInv, NEW c \in Clients, NEW i \in Items, Ask(c, i) PROVE IInv'
<1> USE DEF Processing
<1>1. /\ requests' \in 0..MaxRequests
      /\ UNCHANGED <<db, tx, writer, lock, pc, due, cur, nth, outcome, stored, active, arrived, faults>>
  BY TelegramAssumption DEF Ask, NoWrite, IInv, TypeOK
<1>2. PICK o \in {"retry", "cancel"} :
       asks' = [asks EXCEPT ![c] = [op |-> o, item |-> i]] /\ db[i].status # "absent"
  BY DEF Ask, Pending
<1>3. TypeOK' /\ AskInv'
  BY <1>1, <1>2 DEF IInv, TypeOK, AskInv, NoAsk
<1>4. TxInv' /\ ListInv' /\ SentInv'
  BY <1>1 DEF IInv, TxInv, ListInv, SentInv
<1> QED
  BY <1>3, <1>4 DEF IInv

\* Nothing but the world outside the queue changes.
LEMMA Elsewhere ==
  ASSUME IInv, requests' \in 0..MaxRequests, active' \in BOOLEAN, stored' \in SUBSET Backups,
         UNCHANGED <<db, tx, writer, lock, pc, due, cur, nth, outcome, arrived, asks, faults>>
  PROVE  IInv'
  BY DEF IInv, TypeOK, TxInv, ListInv, SentInv, AskInv

LEMMA ToggleStep == ASSUME IInv, ToggleDestination PROVE IInv'
<1>1. requests' \in 0..MaxRequests /\ active' \in BOOLEAN /\ stored' \in SUBSET Backups
  BY TelegramAssumption DEF IInv, TypeOK, ToggleDestination
<1> QED
  BY <1>1, Elsewhere DEF ToggleDestination, NoWrite, Processing

LEMMA MoveBackupStep == ASSUME IInv, NEW b \in Backups, MoveBackup(b) PROVE IInv'
<1>1. requests' \in 0..MaxRequests /\ active' \in BOOLEAN /\ stored' \in SUBSET Backups
  BY TelegramAssumption DEF IInv, TypeOK, MoveBackup
<1> QED
  BY <1>1, Elsewhere DEF MoveBackup, NoWrite, Processing

LEMMA CancelPendingStep == ASSUME IInv, CancelPending PROVE IInv'
<1> USE DEF Processing
<1> DEFINE d == [i \in Items |-> IF db[i].status \in Pending THEN Set(db, i, "cancelled")[i] ELSE db[i]]
<1>1. /\ writer = NoOne /\ db' = d /\ tx' = d /\ writer' = NoOne
      /\ UNCHANGED <<lock, pc, due, cur, nth, outcome, stored, active, arrived, asks, faults, requests>>
  BY DEF CancelPending, Commit
<1>2. ASSUME NEW i \in Items
      PROVE  /\ d[i] \in Item
             /\ d[i] = db[i] \/ (d[i].status = "cancelled" /\ db[i].status # "absent")
  <2>1. Set(db, i, "cancelled") \in Tables /\ Set(db, i, "cancelled")[i].status = "cancelled"
    BY TypeFacts, SetRow DEF Statuses, Settled
  <2>2. Set(db, i, "cancelled")[i] \in Item /\ db[i] \in Item
    BY <2>1, TypeFacts DEF Tables
  <2> QED
    BY <2>1, <2>2 DEF Pending
<1>3. d \in Tables
  BY <1>2 DEF Tables
<1> HIDE DEF d
<1> QED
  BY <1>1, <1>2, <1>3, Requested

LEMMA RipenStep == ASSUME IInv, NEW i \in Items, Ripen(i) PROVE IInv'
<1> USE DEF Processing
<1>1. \A r \in Item : LET n == [r EXCEPT !.ripe = TRUE] IN n \in Item /\ n.status = r.status /\ n.ripe = TRUE
  BY DEF Item
<1> DEFINE new == [db[i] EXCEPT !.ripe = TRUE]
<1>2. new \in Item /\ new.status = db[i].status /\ new.ripe
  BY <1>1, TypeFacts DEF Tables
<1>3. /\ db' = [db EXCEPT ![i] = new]
      /\ tx' = IF tx[i] = db[i] THEN [tx EXCEPT ![i] = new] ELSE tx
      /\ UNCHANGED <<writer, lock, pc, due, cur, nth, outcome, stored, active, arrived, asks, requests>>
  <2>1. tx[i] = db[i] => [tx EXCEPT ![i].ripe = TRUE] = [tx EXCEPT ![i] = new]
    OBVIOUS
  <2> QED
    BY <2>1 DEF Ripen
<1> HIDE DEF new
<1>4. faults' \in 0..MaxFaults
  BY FaultBound DEF Ripen, IInv, TypeOK
<1>5. /\ db' \in Tables /\ tx' \in Tables
      /\ \A j \in Items : db'[j].status = db[j].status /\ tx'[j].status = tx[j].status
      /\ \A j \in Items : tx[j] = db[j] => tx'[j] = db'[j]
      /\ \A j \in Items : Expired(db[j]) => Expired(db'[j])
      /\ tx = db => tx' = db'
  BY <1>2, <1>3, TypeFacts DEF Tables, Expired
<1>6. TypeOK'
  BY <1>3, <1>4, <1>5 DEF IInv, TypeOK, Tables
<1>7. TxInv' /\ SentInv' /\ AskInv'
  BY <1>3, <1>5 DEF IInv, TxInv, SentInv, AskInv
<1>8. ListInv'
  BY <1>3, <1>5, TypeFacts DEF IInv, ListInv
<1> QED
  BY <1>6, <1>7, <1>8 DEF IInv

-----------------------------------------------------------------------------
(* Theorems                                                                *)

LEMMA Inductive == IInv /\ [Next]_vars => IInv'
<1> SUFFICES ASSUME IInv, [Next]_vars PROVE IInv'
  OBVIOUS
<1>1. ASSUME NEW p \in Processes, Start(p) \/ Proceed(p) \/ Crash(p) \/ LockedOut(p) PROVE IInv'
  BY <1>1, StartStep, PassOverStep, RefuseStep, PrepareStep, ClaimStep, SendStep, RecordStep, FinishStep,
     CrashStep, LockedOutStep DEF Proceed
<1>2. ASSUME NEW i \in Items, Enqueue(i) \/ Ripen(i) \/ (\E c \in Clients : Ask(c, i)) PROVE IInv'
  BY <1>2, EnqueueStep, AskStep, RipenStep
<1>3. CASE (\E c \in Clients : Answer(c)) \/ (\E b \in Backups : MoveBackup(b)) \/ ToggleDestination \/ CancelPending
  BY <1>3, AnswerStep, MoveBackupStep, ToggleStep, CancelPendingStep
<1>4. CASE UNCHANGED vars
  BY <1>4 DEF vars, IInv, TypeOK, TxInv, ListInv, SentInv, AskInv
<1> QED
  BY <1>1, <1>2, <1>3, <1>4 DEF Next

\* The invariant holds in every reachable state.
THEOREM Invariant == Spec => []IInv
<1>1. Init => IInv
  BY FirstState
<1>2. IInv /\ [Next]_vars => IInv'
  BY Inductive
<1> QED
  BY <1>1, <1>2, PTL DEF Spec

\* The table, the writer's copy and every process's variables keep their types, and a
\* status is one the table's CHECK accepts.
THEOREM TypeCorrect == Spec => []TypeOK
<1>1. IInv => TypeOK
  BY DEF IInv
<1> QED
  BY <1>1, Invariant, PTL

-----------------------------------------------------------------------------
(* Attempts                                                                *)

Budget == requests + faults

\* Processes that send item i and, if they fail, leave it waiting.
Claimants(i) == {p \in Processes : cur[p] = i /\ nth[p] < MaxAttempts}
Own(i) == Cardinality(Claimants(i))

\* Table d has the item waiting, or on its way in a send that no process answers for.
Waits(d, i) ==
  \/ d[i].status \in Pending
  \/ d[i].status \in Busy /\ (d[i].ripe \/ \A p \in Processes : cur[p] # i)

\* Clients whose retry of item i has passed its check.
Retries(i) == {c \in Clients : asks[c] = [op |-> "retry", item |-> i]}
Asked(i) == Cardinality(Retries(i))

One(b) == IF b THEN 1 ELSE 0

\* How often the item may yet be claimed without another request or fault.
Chances(d, i) == Own(i) + One(Waits(d, i)) + Asked(i)

\* With n requests and faults an item has max_attempts + n attempts; what is left
\* of them bounds its chances.
Paid(a, c, n) == IF a < MaxAttempts THEN c <= n + 1 ELSE a + c <= MaxAttempts + n

\* A process that has recorded its answer and not committed it leaves the committed
\* row busy, and only a fault can make that row count again.
Explained(i) ==
  /\ IsFiniteSet(Claimants(i)) /\ IsFiniteSet(Retries(i))
  /\ db[i].attempt <= MaxAttempts + Budget
  /\ db[i].status = "absent" => db[i].attempt = 0 /\ tx[i].attempt = 0
  /\ Paid(tx[i].attempt, Chances(tx, i), Budget)
  /\ Paid(db[i].attempt, Chances(db, i), Budget + One(writer # NoOne))

AttemptInv == \A i \in Items : Explained(i)

LEMMA Counts ==
  ASSUME IInv, NEW i \in Items, Explained(i)
  PROVE  Own(i) \in Nat /\ Asked(i) \in Nat /\ Budget \in Nat /\ MaxAttempts \in Nat \ {0}
         /\ db[i].attempt \in Nat /\ tx[i].attempt \in Nat
<1>1. Own(i) \in Nat /\ Asked(i) \in Nat
  BY FS_CardinalityType DEF Explained, Own, Asked
<1>2. Budget \in Nat
  BY TelegramAssumption DEF IInv, TypeOK, Budget
<1> QED
  BY <1>1, <1>2, TypeFacts, TelegramAssumption DEF Tables, Item

\* Nobody takes up or lets go of an item.
LEMMA SameSenders ==
  ASSUME UNCHANGED <<cur, nth>>, NEW i \in Items
  PROVE  /\ Claimants(i)' = Claimants(i) /\ Own(i)' = Own(i)
         /\ \A d \in Tables : Waits(d, i)' <=> Waits(d, i)
<1>1. Claimants(i)' = Claimants(i)
  BY DEF Claimants
<1>2. Own(i)' = Own(i)
  BY <1>1 DEF Own
<1> QED
  BY <1>1, <1>2 DEF Waits

\* The tables, the senders and the requests stay as they are.
LEMMA Unmoved ==
  ASSUME IInv, AttemptInv, UNCHANGED <<db, tx, writer, cur, nth, asks>>, Budget' \in Nat, Budget' >= Budget
  PROVE  AttemptInv'
<1> SUFFICES ASSUME NEW i \in Items PROVE Explained(i)'
  BY DEF AttemptInv
<1>1. Explained(i)
  BY DEF AttemptInv
<1>2. Claimants(i)' = Claimants(i) /\ Own(i)' = Own(i)
  BY SameSenders
<1>3. (Waits(tx, i)' <=> Waits(tx, i)) /\ (Waits(db, i)' <=> Waits(db, i)) /\ Retries(i)' = Retries(i) /\ Asked(i)' = Asked(i)
  BY DEF Waits, Retries, Asked
<1> QED
  BY <1>1, <1>2, <1>3, Counts DEF Explained, Chances, Paid, One

\* While nobody asks or answers, as many retries stay asked for.
LEMMA SameAskers ==
  ASSUME IInv, AttemptInv, NEW i \in Items, UNCHANGED asks
  PROVE  IsFiniteSet(Retries(i)') /\ Asked(i)' \in Nat /\ Asked(i)' = Asked(i)
<1>1. Retries(i)' = Retries(i)
  BY DEF Retries
<1>2. IsFiniteSet(Retries(i))
  BY DEF AttemptInv, Explained
<1> QED
  BY <1>1, <1>2, FS_CardinalityType DEF Asked

LEMMA StartPaid == ASSUME IInv, AttemptInv, NEW p \in Processes, Start(p) PROVE AttemptInv'
<1> SUFFICES ASSUME NEW i \in Items PROVE Explained(i)'
  BY DEF AttemptInv
<1>1. /\ writer = NoOne /\ writer' # NoOne /\ tx' = Recover(db) /\ db' = db /\ tx = db
      /\ UNCHANGED <<cur, nth, asks, faults, requests>>
  BY TypeFacts DEF Start, Write, World, IInv, TxInv
<1>2. Explained(i)
  BY DEF AttemptInv
<1>3. Claimants(i)' = Claimants(i) /\ Own(i)' = Own(i)
  BY <1>1, SameSenders
<1>4. tx'[i].attempt = db[i].attempt /\ (Waits(tx, i)' => Waits(db, i))
  <2>1. /\ tx'[i].attempt = db[i].attempt
        /\ tx'[i] = db[i] \/ Expired(db[i])
    BY <1>1, RecoverRows, TypeFacts
  <2> QED
    BY <1>1, <2>1 DEF Waits, Expired
<1>5. (Waits(db, i)' <=> Waits(db, i)) /\ Retries(i)' = Retries(i) /\ Asked(i)' = Asked(i) /\ Budget' = Budget
  BY <1>1 DEF Waits, Retries, Asked, Budget
<1> QED
  BY <1>1, <1>2, <1>3, <1>4, <1>5, Counts DEF Explained, Chances, Paid, One

\* The writer handles an item without sending it: it counts the attempt or not, and only
\* with attempts left does the item wait on.
LEMMA HandlingPaid ==
  ASSUME IInv, AttemptInv, NEW p \in Processes, NEW i \in Items, Fetch(p, i), tx[i].status \in Pending,
         \A j \in Items : j # i => tx'[j] = tx[j],
         tx'[i].attempt \in {tx[i].attempt, tx[i].attempt + 1},
         tx'[i].status \in {"skipped", "failed"} \/ (tx'[i].status = "retry_wait" /\ tx'[i].attempt < MaxAttempts),
         UNCHANGED <<db, writer, cur, nth, asks, faults, requests>>
  PROVE  AttemptInv'
<1> SUFFICES ASSUME NEW j \in Items PROVE Explained(j)'
  BY DEF AttemptInv
<1>1. Explained(j)
  BY DEF AttemptInv
<1>2. Claimants(j)' = Claimants(j) /\ Own(j)' = Own(j)
  BY SameSenders
<1>3. (Waits(db, j)' <=> Waits(db, j)) /\ Retries(j)' = Retries(j) /\ Asked(j)' = Asked(j) /\ Budget' = Budget
  BY DEF Waits, Retries, Asked, Budget
<1>4. \/ tx'[j] = tx[j] /\ (Waits(tx, j)' <=> Waits(tx, j))
      \/ /\ tx'[j].attempt \in {tx[j].attempt, tx[j].attempt + 1} /\ Waits(tx, j)
         /\ ~Waits(tx, j)' \/ tx'[j].attempt < MaxAttempts
         /\ db[j].status # "absent"
  BY DEF Waits, Pending, Busy, IInv, TxInv
<1> QED
  BY <1>1, <1>2, <1>3, <1>4, Counts DEF Explained, Chances, Paid, One

LEMMA RefusePaid == ASSUME IInv, AttemptInv, NEW p \in Processes, Refuse(p) PROVE AttemptInv'
<1>1. PICK i \in Items : /\ Fetch(p, i) /\ tx[i].status \in Pending
                         /\ Write(p, Set(tx, i, "skipped")) /\ Done(p, i)
  BY DEF Refuse
<1>2. UNCHANGED <<db, writer, cur, nth, asks, faults, requests>> /\ tx' = Set(tx, i, "skipped")
  BY <1>1, Going DEF Refuse, World, Write, Done
<1>3. /\ tx'[i].status = "skipped" /\ tx'[i].attempt = tx[i].attempt
      /\ \A j \in Items : j # i => tx'[j] = tx[j]
  BY <1>2, TypeFacts, SetRow DEF Statuses, Settled
<1> QED
  BY <1>1, <1>2, <1>3, HandlingPaid

LEMMA PreparePaid == ASSUME IInv, AttemptInv, NEW p \in Processes, Prepare(p) PROVE AttemptInv'
<1>1. PICK i \in Items :
        LET d == Claimed(tx, i) IN
          /\ Fetch(p, i) /\ tx[i].status \in Pending
          /\ \/ Write(p, Set(d, i, "skipped"))
             \/ \E o \in {"permanent", "internal"} : Write(p, Set(d, i, Final(o, d[i].attempt)))
          /\ Done(p, i)
  BY DEF Prepare
<1>2. /\ Claimed(tx, i) \in Tables /\ Claimed(tx, i)[i].attempt = tx[i].attempt + 1
      /\ \A j \in Items : j # i => Claimed(tx, i)[j] = tx[j]
  BY TypeFacts, ClaimedRow
<1>3. tx[i].attempt + 1 \in Nat
  BY TypeFacts DEF Tables, Item
<1>4. PICK s \in {"skipped", "failed", "retry_wait"} :
        /\ Write(p, Set(Claimed(tx, i), i, s))
        /\ s = "retry_wait" => tx[i].attempt + 1 < MaxAttempts
  <2>1. ASSUME NEW n \in Nat, NEW o \in {"permanent", "internal"}
        PROVE  /\ Final(o, n) \in {"failed", "retry_wait"}
               /\ Final(o, n) = "retry_wait" => n < MaxAttempts
    BY TelegramAssumption DEF Final, Exhausted
  <2> QED
    BY <1>1, <1>2, <1>3, <2>1
<1>5. s \in Statuses
  BY DEF Statuses, Settled, Pending
<1>6. UNCHANGED <<db, writer, cur, nth, asks, faults, requests>> /\ tx' = Set(Claimed(tx, i), i, s)
  BY <1>1, <1>4, Going DEF Prepare, World, Write, Done
<1>7. /\ tx'[i].status = s /\ tx'[i].attempt = tx[i].attempt + 1
      /\ \A j \in Items : j # i => tx'[j] = tx[j]
  BY <1>2, <1>5, <1>6, SetRow
<1> QED
  BY <1>1, <1>4, <1>6, <1>7, HandlingPaid

\* A claim spends the chance that the waiting item is; what it may win back is one
\* within max_attempts.
LEMMA ClaimPaid == ASSUME IInv, AttemptInv, NEW p \in Processes, Claim(p) PROVE AttemptInv'
<1> SUFFICES ASSUME NEW j \in Items PROVE Explained(j)'
  BY DEF AttemptInv
<1>1. PICK i \in Items :
       /\ Fetch(p, i) /\ tx[i].status \in Pending
       /\ db' = Claimed(tx, i) /\ tx' = db' /\ writer' = NoOne
       /\ cur' = [cur EXCEPT ![p] = i]
       /\ nth' = [nth EXCEPT ![p] = tx[i].attempt + 1]
  BY DEF Claim, Commit
<1>2. UNCHANGED <<asks, faults, requests>> /\ cur[p] = NoOne /\ writer # NoOne /\ p \in Processes
  BY <1>1, Going, TypeFacts DEF Claim, World
<1>3. Explained(j)
  BY DEF AttemptInv
<1>4. Retries(j)' = Retries(j) /\ Asked(j)' = Asked(j) /\ Budget' = Budget
  BY <1>2 DEF Retries, Asked, Budget
<1>5. /\ Claimed(tx, i)[i].status = "uploading" /\ ~Claimed(tx, i)[i].ripe
      /\ Claimed(tx, i)[i].attempt = tx[i].attempt + 1
      /\ \A k \in Items : k # i => Claimed(tx, i)[k] = tx[k]
  BY TypeFacts, ClaimedRow
<1>6. \A q \in Processes : q # p => cur'[q] = cur[q] /\ nth'[q] = nth[q]
  BY <1>1, TypeFacts
<1>7. cur'[p] = i /\ nth'[p] = tx[i].attempt + 1
  BY <1>1, TypeFacts
<1>8. CASE j # i
  <2>1. Claimants(j)' = Claimants(j)
    BY <1>2, <1>6, <1>7, <1>8, TypeFacts DEF Claimants
  <2>2. Own(j)' = Own(j)
    BY <2>1 DEF Own
  <2>3. db'[j] = tx[j] /\ tx'[j] = tx[j]
    BY <1>1, <1>5, <1>8
  <2>4. \A q \in Processes : cur'[q] = j <=> cur[q] = j
    BY <1>2, <1>6, <1>7, <1>8, TypeFacts
  <2>5. (Waits(db, j)' <=> Waits(tx, j)) /\ (Waits(tx, j)' <=> Waits(tx, j))
    BY <2>3, <2>4 DEF Waits
  <2>6. tx[j].status = "absent" <=> db[j].status = "absent"
    BY DEF IInv, TxInv
  <2> QED
    BY <1>1, <1>3, <1>4, <2>1, <2>2, <2>3, <2>5, <2>6, Counts DEF Explained, Chances, Paid, One
<1>9. CASE j = i
  <2>1. db'[i] = tx'[i] /\ tx'[i].attempt = tx[i].attempt + 1 /\ db'[i].status = "uploading"
    BY <1>1, <1>5
  <2>2. Waits(tx, i) /\ ~Waits(tx, i)' /\ ~Waits(db, i)'
    BY <1>1, <1>5, <1>7 DEF Waits, Pending, Busy
  <2>3. p \notin Claimants(i)
    BY <1>2, TypeFacts DEF Claimants
  <2>4. CASE tx[i].attempt + 1 < MaxAttempts
    <3>1. Claimants(i)' = Claimants(i) \cup {p}
      BY <1>6, <1>7, <2>4, TypeFacts DEF Claimants
    <3>2. IsFiniteSet(Claimants(i)') /\ Own(i)' = Own(i) + 1
      BY <1>3, <1>9, <2>3, <3>1, FS_AddElement DEF Own, Explained
    <3> QED
      BY <1>1, <1>3, <1>4, <1>9, <2>1, <2>2, <2>4, <3>2, Counts DEF Explained, Chances, Paid, One
  <2>5. CASE ~(tx[i].attempt + 1 < MaxAttempts)
    <3>1. Claimants(i)' = Claimants(i)
      BY <1>6, <1>7, <2>3, <2>5, TypeFacts DEF Claimants
    <3>2. Own(i)' = Own(i)
      BY <3>1 DEF Own
    <3> QED
      BY <1>1, <1>3, <1>4, <1>9, <2>1, <2>2, <2>5, <3>1, <3>2, Counts DEF Explained, Chances, Paid, One
  <2> QED
    BY <2>4, <2>5
<1> QED
  BY <1>8, <1>9

\* A process lets go of its item: the row it was busy with may count from now on, one
\* of its own chances goes.
LEMMA LetGo ==
  ASSUME IInv, NEW p \in Processes, cur' = [cur EXCEPT ![p] = NoOne], nth' = [nth EXCEPT ![p] = 0],
         NEW i \in Items, Explained(i)
  PROVE  /\ IsFiniteSet(Claimants(i)') /\ Own(i)' \in Nat /\ Own(i)' <= Own(i)
         /\ cur[p] # i => Own(i)' = Own(i) /\ \A d \in Tables : Waits(d, i)' <=> Waits(d, i)
         /\ cur[p] = i /\ nth[p] < MaxAttempts => Own(i)' = Own(i) - 1
<1>1. cur'[p] = NoOne /\ \A q \in Processes : q # p => cur'[q] = cur[q] /\ nth'[q] = nth[q]
  BY TypeFacts
<1>2. Claimants(i)' = Claimants(i) \ {p}
  BY <1>1, TypeFacts DEF Claimants
<1>3. IsFiniteSet(Claimants(i))
  BY DEF Explained
<1>4. /\ IsFiniteSet(Claimants(i)')
      /\ Own(i)' = IF p \in Claimants(i) THEN Own(i) - 1 ELSE Own(i)
  BY <1>2, <1>3, FS_RemoveElement DEF Own
<1>5. Own(i)' \in Nat
  BY <1>4, FS_CardinalityType DEF Own
<1>6. cur[p] = i /\ nth[p] < MaxAttempts <=> p \in Claimants(i)
  BY DEF Claimants
<1>7. ASSUME cur[p] # i, NEW d \in Tables PROVE Waits(d, i)' <=> Waits(d, i)
  BY <1>1, <1>7, TypeFacts DEF Waits
<1> QED
  BY <1>4, <1>5, <1>6, <1>7, Counts

\* What a process records makes the item wait only if it was one of the claimants.
LEMMA RecordPaid == ASSUME IInv, AttemptInv, NEW p \in Processes, Record(p) PROVE AttemptInv'
<1> SUFFICES ASSUME NEW j \in Items PROVE Explained(j)'
  BY DEF AttemptInv
<1> DEFINE i == cur[p]
           s == Final(outcome[p], nth[p])
<1>1. /\ writer = NoOne /\ writer' # NoOne /\ tx' = Set(db, i, s) /\ db' = db
      /\ cur' = [cur EXCEPT ![p] = NoOne] /\ nth' = [nth EXCEPT ![p] = 0]
      /\ UNCHANGED <<asks, faults, requests>>
  BY TypeFacts DEF Record, Write, World
<1>2. i \in Items /\ db[i].status # "absent" /\ tx = db
  BY <1>1 DEF Record, IInv, ListInv, TxInv
<1>3. /\ s \in {"sent", "failed", "retry_wait"} /\ s \in Statuses
      /\ s = "retry_wait" => nth[p] < MaxAttempts
  BY TypeFacts, TelegramAssumption DEF Final, Exhausted, Statuses, Settled, Pending
<1>4. Explained(j)
  BY DEF AttemptInv
<1>5. Retries(j)' = Retries(j) /\ Asked(j)' = Asked(j) /\ Budget' = Budget
  BY <1>1 DEF Retries, Asked, Budget
<1>6. /\ IsFiniteSet(Claimants(j)') /\ Own(j)' \in Nat /\ Own(j)' <= Own(j)
      /\ i # j => Own(j)' = Own(j) /\ \A d \in Tables : Waits(d, j)' <=> Waits(d, j)
      /\ i = j /\ nth[p] < MaxAttempts => Own(j)' = Own(j) - 1
  BY <1>1, <1>4, LetGo
<1> HIDE DEF i, s
<1>7. /\ tx'[i].status = s /\ tx'[i].attempt = db[i].attempt
      /\ \A k \in Items : k # i => tx'[k] = db[k]
  BY <1>1, <1>2, <1>3, TypeFacts, SetRow
<1>8. CASE i # j
  <2>1. tx'[j] = db[j] /\ (Waits(tx, j)' <=> Waits(db, j)) /\ (Waits(db, j)' <=> Waits(db, j))
    BY <1>1, <1>6, <1>7, <1>8, TypeFacts DEF Waits
  <2> QED
    BY <1>1, <1>4, <1>5, <1>6, <1>8, <2>1, Counts DEF Explained, Chances, Paid, One
<1>9. CASE i = j
  <2>1. CASE s = "retry_wait"
    BY <1>1, <1>2, <1>3, <1>4, <1>5, <1>6, <1>7, <1>9, <2>1, Counts DEF Explained, Chances, Paid, One
  <2>2. CASE s # "retry_wait"
    <3>1. ~Waits(tx, j)'
      BY <1>3, <1>7, <1>9, <2>2 DEF Waits, Pending, Busy
    <3> QED
      BY <1>1, <1>2, <1>4, <1>5, <1>6, <1>7, <1>9, <3>1, Counts DEF Explained, Chances, Paid, One
  <2> QED
    BY <2>1, <2>2
<1> QED
  BY <1>8, <1>9

LEMMA FinishPaid == ASSUME IInv, AttemptInv, NEW p \in Processes, Finish(p) PROVE AttemptInv'
<1> SUFFICES ASSUME NEW i \in Items PROVE Explained(i)'
  BY DEF AttemptInv
<1>1. db' = tx /\ tx' = tx /\ writer' = NoOne /\ UNCHANGED <<cur, nth, asks, faults, requests>>
  BY DEF Finish, Commit, World
<1>2. Explained(i)
  BY DEF AttemptInv
<1>3. Claimants(i)' = Claimants(i) /\ Own(i)' = Own(i)
  BY <1>1, SameSenders
<1>4. /\ Waits(tx, i)' <=> Waits(tx, i)
      /\ Waits(db, i)' <=> Waits(tx, i)
      /\ Retries(i)' = Retries(i) /\ Asked(i)' = Asked(i)
      /\ Budget' = Budget
  BY <1>1 DEF Waits, Retries, Asked, Budget
<1>5. db[i].status = "absent" <=> tx[i].status = "absent"
  BY DEF IInv, TxInv
<1> QED
  BY <1>1, <1>2, <1>3, <1>4, <1>5, Counts DEF Explained, Chances, Paid, One

\* A run that ends without its commit is a fault, which pays for what it leaves.
LEMMA AbortPaid ==
  ASSUME IInv, AttemptInv, NEW p \in Processes, Abort(p), UNCHANGED <<asks, requests>>, faults' = faults + 1
  PROVE  AttemptInv'
<1> SUFFICES ASSUME NEW i \in Items PROVE Explained(i)'
  BY DEF AttemptInv
<1>1. /\ cur' = [cur EXCEPT ![p] = NoOne] /\ nth' = [nth EXCEPT ![p] = 0] /\ db' = db
      /\ \/ tx' = tx /\ writer' = writer
         \/ tx' = db /\ writer' = NoOne /\ writer = p
  BY DEF Abort, Commit, NoWrite
<1>2. Explained(i)
  BY DEF AttemptInv
<1>3. Retries(i)' = Retries(i) /\ Asked(i)' = Asked(i) /\ Budget' = Budget + 1
  BY TypeFacts DEF Retries, Asked, Budget, IInv, TypeOK
<1>4. /\ IsFiniteSet(Claimants(i)') /\ Own(i)' \in Nat /\ Own(i)' <= Own(i)
      /\ cur[p] # i => Own(i)' = Own(i) /\ \A d \in Tables : Waits(d, i)' <=> Waits(d, i)
  BY <1>1, <1>2, LetGo
<1>5. CASE tx' = tx /\ writer' = writer
  <2>1. CASE cur[p] # i
    <3>1. (Waits(tx, i)' <=> Waits(tx, i)) /\ (Waits(db, i)' <=> Waits(db, i))
      BY <1>1, <1>4, <1>5, <2>1, TypeFacts DEF Waits
    <3> QED
      BY <1>1, <1>2, <1>3, <1>4, <1>5, <3>1, Counts DEF Explained, Chances, Paid, One
  <2>2. CASE cur[p] = i
    BY <1>1, <1>2, <1>3, <1>4, <1>5, <2>2, Counts DEF Explained, Chances, Paid, One
  <2> QED
    BY <2>1, <2>2
<1>6. CASE tx' = db /\ writer' = NoOne /\ writer = p
  <2>1. cur[p] # i /\ writer # NoOne
    BY <1>6, TypeFacts DEF IInv, ListInv
  <2>2. (Waits(tx, i)' <=> Waits(db, i)) /\ (Waits(db, i)' <=> Waits(db, i))
    BY <1>1, <1>4, <1>6, <2>1, TypeFacts DEF Waits
  <2> QED
    BY <1>1, <1>2, <1>3, <1>4, <1>6, <2>1, <2>2, Counts DEF Explained, Chances, Paid, One
<1> QED
  BY <1>1, <1>5, <1>6

LEMMA CrashPaid == ASSUME IInv, AttemptInv, NEW p \in Processes, Crash(p) PROVE AttemptInv'
  BY AbortPaid DEF Crash, World, Fault

LEMMA LockedOutPaid == ASSUME IInv, AttemptInv, NEW p \in Processes, LockedOut(p) PROVE AttemptInv'
<1>1. faults' = faults + 1 /\ UNCHANGED <<asks, requests>>
  BY DEF LockedOut, Fault, World
<1>2. CASE Abort(p)
  BY <1>1, <1>2, AbortPaid
<1>3. CASE UNCHANGED <<db, tx, writer, cur, nth>>
  <2>1. Budget' \in Nat /\ Budget' >= Budget
    BY <1>1, TelegramAssumption DEF IInv, TypeOK, Budget
  <2> QED
    BY <1>1, <1>3, <2>1, Unmoved
<1> QED
  BY <1>2, <1>3 DEF LockedOut, NoWrite

LEMMA Stays ==
  ASSUME IInv
  PROVE  Budget \in Nat /\ faults \in Nat /\ requests \in Nat
  BY TelegramAssumption DEF IInv, TypeOK, Budget

\* A request changes rows, without an attempt, when nobody writes: no item gains a chance,
\* but one of those whose retry was asked for, and that request is answered.
LEMMA RequestPaid ==
  ASSUME IInv, AttemptInv, writer = NoOne, writer' = NoOne, tx' = db',
         \A i \in Items :
           /\ db'[i].attempt = db[i].attempt
           /\ db'[i].status = "absent" => db[i].status = "absent"
           /\ IsFiniteSet(Retries(i)') /\ Asked(i)' \in Nat /\ Asked(i)' <= Asked(i)
           /\ \/ db'[i] = db[i]
              \/ db'[i].status \in {"skipped", "cancelled"}
              \/ Asked(i)' < Asked(i)
              \/ db[i].status = "absent",
         UNCHANGED <<cur, nth, faults, requests>>
  PROVE  AttemptInv'
<1> SUFFICES ASSUME NEW i \in Items PROVE Explained(i)'
  BY DEF AttemptInv
<1>1. Explained(i) /\ tx = db
  BY DEF AttemptInv, IInv, TxInv
<1>2. Claimants(i)' = Claimants(i) /\ Own(i)' = Own(i)
  BY SameSenders
<1>3. Budget' = Budget /\ (Waits(tx, i)' <=> Waits(db, i)')
  BY DEF Budget, Waits
<1>4. CASE db'[i] = db[i]
  <2>1. Waits(db, i)' <=> Waits(db, i)
    BY <1>4 DEF Waits
  <2> QED
    BY <1>1, <1>2, <1>3, <1>4, <2>1, Counts DEF Explained, Chances, Paid, One
<1>5. CASE db'[i].status \in {"skipped", "cancelled"}
  <2>1. ~Waits(db, i)'
    BY <1>5 DEF Waits, Pending, Busy
  <2> QED
    BY <1>1, <1>2, <1>3, <1>5, <2>1, Counts DEF Explained, Chances, Paid, One
<1>6. CASE Asked(i)' < Asked(i)
  BY <1>1, <1>2, <1>3, <1>6, Counts DEF Explained, Chances, Paid, One
<1>7. CASE db[i].status = "absent"
  <2>1. Claimants(i) = {}
    BY <1>7, TypeFacts DEF Claimants, IInv, ListInv
  <2>2. Own(i) = 0
    BY <2>1, FS_EmptySet DEF Own
  <2>3. Retries(i) = {}
    BY <1>7, TypeFacts DEF Retries, IInv, AskInv, NoAsk
  <2>4. Asked(i) = 0
    BY <2>3, FS_EmptySet DEF Asked
  <2> QED
    BY <1>1, <1>2, <1>3, <1>7, <2>2, <2>4, Counts DEF Explained, Chances, Paid, One
<1> QED
  BY <1>4, <1>5, <1>6, <1>7

LEMMA EnqueuePaid == ASSUME IInv, AttemptInv, NEW i \in Items, Enqueue(i) PROVE AttemptInv'
<1>1. PICK s \in {"queued", "skipped"} : Commit(Set(db, i, s))
  BY DEF Enqueue
<1>2. /\ Set(db, i, s)[i].attempt = db[i].attempt /\ Set(db, i, s)[i].status = s
      /\ \A j \in Items : j # i => Set(db, i, s)[j] = db[j]
  BY TypeFacts, SetRow DEF Statuses, Pending, Settled
<1>3. /\ db[i].status = "absent" /\ writer = NoOne
      /\ UNCHANGED <<cur, nth, asks, faults, requests>>
  BY DEF Enqueue, Processing
<1>4. db' = Set(db, i, s) /\ tx' = db' /\ writer' = NoOne
  BY <1>1 DEF Commit
<1>5. \A j \in Items : IsFiniteSet(Retries(j)') /\ Asked(j)' \in Nat /\ Asked(j)' <= Asked(j)
  BY <1>3, SameAskers
<1>6. s # "absent"
  OBVIOUS
<1> QED
  BY <1>2, <1>3, <1>4, <1>5, <1>6, RequestPaid

LEMMA AnswerPaid == ASSUME IInv, AttemptInv, NEW c \in Clients, Answer(c) PROVE AttemptInv'
<1> DEFINE i == asks[c].item
           s == IF asks[c].op = "retry" THEN "queued" ELSE "cancelled"
<1>1. /\ asks[c] # NoAsk /\ asks' = [asks EXCEPT ![c] = NoAsk] /\ writer = NoOne /\ db' = Set(db, i, s) /\ tx' = db' /\ writer' = NoOne
      /\ UNCHANGED <<cur, nth, faults, requests>>
  BY DEF Answer, Commit, Processing
<1>2. i \in Items
  BY <1>1 DEF IInv, AskInv
<1>3. s \in {"queued", "cancelled"} /\ s \in Statuses
  BY DEF Statuses, Pending, Settled
<1>4. s = "queued" => c \in Retries(i)
  BY <1>1 DEF Retries, IInv, TypeOK
<1>5. ASSUME NEW j \in Items
      PROVE  /\ IsFiniteSet(Retries(j)') /\ Asked(j)' \in Nat /\ Asked(j)' <= Asked(j)
             /\ c \in Retries(j) => Asked(j)' < Asked(j)
  <2>1. Retries(j)' = Retries(j) \ {c}
    BY <1>1 DEF Retries, NoAsk, IInv, TypeOK
  <2>2. IsFiniteSet(Retries(j))
    BY DEF AttemptInv, Explained
  <2>3. /\ IsFiniteSet(Retries(j)')
        /\ Asked(j)' = IF c \in Retries(j) THEN Asked(j) - 1 ELSE Asked(j)
    BY <2>1, <2>2, FS_RemoveElement DEF Asked
  <2>4. Asked(j) \in Nat /\ Asked(j)' \in Nat
    BY <2>2, <2>3, FS_CardinalityType DEF Asked
  <2> QED
    BY <2>3, <2>4
<1> HIDE DEF s, i
<1>6. /\ Set(db, i, s)[i].attempt = db[i].attempt /\ Set(db, i, s)[i].status = s
      /\ \A j \in Items : j # i => Set(db, i, s)[j] = db[j]
  BY <1>2, <1>3, TypeFacts, SetRow
<1> QED
  BY <1>1, <1>2, <1>3, <1>4, <1>5, <1>6, RequestPaid

LEMMA CancelPendingPaid == ASSUME IInv, AttemptInv, CancelPending PROVE AttemptInv'
<1> DEFINE d == [i \in Items |-> IF db[i].status \in Pending THEN Set(db, i, "cancelled")[i] ELSE db[i]]
<1>1. /\ writer = NoOne /\ db' = d /\ tx' = d /\ writer' = NoOne
      /\ UNCHANGED <<cur, nth, asks, faults, requests>>
  BY DEF CancelPending, Commit, Processing
<1>2. ASSUME NEW i \in Items
      PROVE  /\ d[i].attempt = db[i].attempt
             /\ d[i] = db[i] \/ d[i].status = "cancelled"
  BY TypeFacts, SetRow DEF Statuses, Settled
<1>3. \A i \in Items : IsFiniteSet(Retries(i)') /\ Asked(i)' \in Nat /\ Asked(i)' <= Asked(i)
  BY <1>1, SameAskers
<1> HIDE DEF d
<1> QED
  BY <1>1, <1>2, <1>3, RequestPaid

\* A retry asked for is one chance and one request more.
LEMMA AskPaid == ASSUME IInv, AttemptInv, NEW c \in Clients, NEW i \in Items, Ask(c, i) PROVE AttemptInv'
<1> SUFFICES ASSUME NEW j \in Items PROVE Explained(j)'
  BY DEF AttemptInv
<1>1. requests' = requests + 1 /\ UNCHANGED <<db, tx, writer, cur, nth, faults>>
  BY DEF Ask, NoWrite, Processing
<1>2. Explained(j)
  BY DEF AttemptInv
<1>3. Claimants(j)' = Claimants(j) /\ Own(j)' = Own(j)
  BY <1>1, SameSenders
<1>4. (Waits(tx, j)' <=> Waits(tx, j)) /\ (Waits(db, j)' <=> Waits(db, j)) /\ Budget' = Budget + 1
  BY <1>1, Stays DEF Waits, Budget
<1>5. IsFiniteSet(Retries(j)') /\ Asked(j)' \in Nat /\ Asked(j)' <= Asked(j) + 1
  <2>1. \A q \in Clients : q # c => asks'[q] = asks[q]
    BY DEF Ask, IInv, TypeOK
  <2>2. asks[c] = NoAsk
    BY DEF Ask
  <2>3. c \notin Retries(j)
    BY <2>2 DEF Retries, NoAsk
  <2>4. Retries(j)' = Retries(j) \/ Retries(j)' = Retries(j) \cup {c}
    BY <2>1, <2>3 DEF Retries
  <2>5. IsFiniteSet(Retries(j))
    BY <1>2 DEF Explained
  <2>6. /\ IsFiniteSet(Retries(j) \cup {c})
        /\ Cardinality(Retries(j) \cup {c}) = Cardinality(Retries(j)) + 1
    BY <2>3, <2>5, FS_AddElement
  <2>7. /\ IsFiniteSet(Retries(j)')
        /\ Asked(j)' = Asked(j) \/ Asked(j)' = Asked(j) + 1
    BY <2>4, <2>5, <2>6 DEF Asked
  <2>8. Asked(j) \in Nat
    BY <2>5, FS_CardinalityType DEF Asked
  <2> QED
    BY <2>7, <2>8
<1> QED
  BY <1>1, <1>2, <1>3, <1>4, <1>5, Counts DEF Explained, Chances, Paid, One

LEMMA ElsewherePaid ==
  ASSUME IInv, AttemptInv, ToggleDestination \/ (\E b \in Backups : MoveBackup(b))
  PROVE  AttemptInv'
<1>1. requests' = requests + 1 /\ UNCHANGED <<db, tx, writer, cur, nth, asks, faults>>
  BY DEF ToggleDestination, MoveBackup, NoWrite, Processing
<1>2. Budget' \in Nat /\ Budget' >= Budget
  BY <1>1, Stays DEF Budget
<1> QED
  BY <1>1, <1>2, Unmoved

\* A lease expires while its send is under way only by a fault.
LEMMA RipenPaid == ASSUME IInv, AttemptInv, NEW i \in Items, Ripen(i) PROVE AttemptInv'
<1> SUFFICES ASSUME NEW j \in Items PROVE Explained(j)'
  BY DEF AttemptInv
<1>1. \A r \in Item : LET n == [r EXCEPT !.ripe = TRUE]
                     IN  n.status = r.status /\ n.attempt = r.attempt
  BY DEF Item
<1> DEFINE new == [db[i] EXCEPT !.ripe = TRUE]
<1>2. new.status = db[i].status /\ new.attempt = db[i].attempt
  BY <1>1, TypeFacts DEF Tables
<1>3. /\ db' = [db EXCEPT ![i] = new]
      /\ tx' = IF tx[i] = db[i] THEN [tx EXCEPT ![i] = new] ELSE tx
      /\ UNCHANGED <<writer, cur, nth, asks, requests>>
  <2>1. tx[i] = db[i] => [tx EXCEPT ![i].ripe = TRUE] = [tx EXCEPT ![i] = new]
    OBVIOUS
  <2> QED
    BY <2>1 DEF Ripen, Processing
<1>4. \/ db[i].status = "retry_wait" /\ faults' = faults
      \/ db[i].status \in Busy /\ (\A p \in Processes : cur[p] # i) /\ faults' = faults
      \/ faults' = faults + 1
  BY DEF Ripen, Fault
<1> HIDE DEF new
<1>5. Explained(j)
  BY DEF AttemptInv
<1>6. Claimants(j)' = Claimants(j) /\ Own(j)' = Own(j) /\ Retries(j)' = Retries(j) /\ Asked(j)' = Asked(j)
  BY <1>3, SameSenders DEF Retries, Asked
<1>7. CASE j # i \/ faults' = faults
  <2>1. db'[j].status = db[j].status /\ tx'[j].status = tx[j].status
        /\ db'[j].attempt = db[j].attempt /\ tx'[j].attempt = tx[j].attempt
    BY <1>2, <1>3, TypeFacts DEF Tables
  <2>2. (Waits(db, j)' <=> Waits(db, j)) /\ (Waits(tx, j)' <=> Waits(tx, j))
    <3>1. CASE j # i
      BY <1>3, <3>1, TypeFacts DEF Waits, Tables
    <3>2. CASE j = i
      BY <1>2, <1>3, <1>4, <1>7, <2>1, <3>2, Stays, TypeFacts DEF Waits, Tables, Pending, Busy
    <3> QED
      BY <3>1, <3>2
  <2>3. Budget' \in Nat /\ Budget' >= Budget
    BY <1>3, <1>4, Stays DEF Budget
  <2> QED
    BY <1>3, <1>5, <1>6, <2>1, <2>2, <2>3, Counts DEF Explained, Chances, Paid, One
<1>8. CASE faults' = faults + 1
  <2>1. db'[j].status = db[j].status /\ tx'[j].status = tx[j].status
        /\ db'[j].attempt = db[j].attempt /\ tx'[j].attempt = tx[j].attempt
    BY <1>2, <1>3, TypeFacts DEF Tables
  <2>2. Budget' = Budget + 1
    BY <1>3, <1>8, Stays DEF Budget
  <2> QED
    BY <1>3, <1>5, <1>6, <2>1, <2>2, Counts DEF Explained, Chances, Paid, One
<1> QED
  BY <1>4, <1>7, <1>8

LEMMA AttemptStep == IInv /\ AttemptInv /\ [Next]_vars => AttemptInv'
<1> SUFFICES ASSUME IInv, AttemptInv, [Next]_vars PROVE AttemptInv'
  OBVIOUS
<1>1. ASSUME NEW p \in Processes, Start(p) \/ Proceed(p) \/ Crash(p) \/ LockedOut(p) PROVE AttemptInv'
  <2>1. CASE PassOver(p) \/ Send(p)
    <3>1. UNCHANGED <<db, tx, writer, cur, nth, asks, faults, requests>>
      BY <2>1 DEF PassOver, Send, Done, NoWrite, World
    <3> QED
      BY <3>1, Stays, Unmoved DEF Budget
  <2> QED
    BY <1>1, <2>1, StartPaid, RefusePaid, PreparePaid, ClaimPaid, RecordPaid, FinishPaid, CrashPaid, LockedOutPaid
       DEF Proceed
<1>2. ASSUME NEW i \in Items, Enqueue(i) \/ Ripen(i) \/ (\E c \in Clients : Ask(c, i)) PROVE AttemptInv'
  BY <1>2, EnqueuePaid, AskPaid, RipenPaid
<1>3. CASE (\E c \in Clients : Answer(c)) \/ (\E b \in Backups : MoveBackup(b)) \/ ToggleDestination \/ CancelPending
  BY <1>3, AnswerPaid, ElsewherePaid, CancelPendingPaid
<1>4. CASE UNCHANGED vars
  BY <1>4, Stays, Unmoved DEF vars, Budget
<1> QED
  BY <1>1, <1>2, <1>3, <1>4 DEF Next

LEMMA NoAttemptYet == Init => AttemptInv
<1> SUFFICES ASSUME Init, NEW i \in Items PROVE Explained(i)
  BY DEF AttemptInv
<1>1. Claimants(i) = {}
  BY FirstState, TypeFacts DEF Init, Claimants
<1>2. IsFiniteSet(Claimants(i)) /\ Own(i) = 0
  BY <1>1, FS_EmptySet DEF Own
<1>3. db[i] = NoItem /\ tx[i] = NoItem /\ ~Waits(db, i) /\ ~Waits(tx, i) /\ Retries(i) = {}
  BY DEF Init, NoItem, Waits, Pending, Busy, Retries, NoAsk
<1>4. IsFiniteSet(Retries(i)) /\ Asked(i) = 0
  BY <1>3, FS_EmptySet DEF Asked
<1> QED
  BY <1>2, <1>3, <1>4, FirstState, Stays, TelegramAssumption DEF Explained, Chances, Paid, One, NoItem

\* An item has at most max_attempts attempts, and one more for every request, every run
\* that died and every send that outlived its lease: a failure after the last of them
\* does not wait to be tried again, whoever records it and whatever the row has become.
THEOREM AttemptsAreExplained == Spec => []AttemptsExplained
<1>1. Init => AttemptInv
  BY NoAttemptYet
<1>2. IInv /\ AttemptInv /\ [Next]_vars => AttemptInv'
  BY AttemptStep
<1>3. IInv /\ AttemptInv => AttemptsExplained
  <2> SUFFICES ASSUME IInv, AttemptInv, NEW i \in Items
               PROVE  TypeOK /\ db[i].attempt <= MaxAttempts + requests + faults
    BY DEF AttemptsExplained, IInv
  <2> QED
    BY Stays, TelegramAssumption DEF IInv, AttemptInv, Explained, Budget
<1> QED
  BY <1>1, <1>2, <1>3, Invariant, PTL DEF Spec

-----------------------------------------------------------------------------
(* Leases                                                                  *)

\* Who takes an item up has it in its list, so the committed row was pending or expired.
LEMMA LeaseStep == IInv /\ [Next]_vars => LeaseKept
<1> SUFFICES ASSUME IInv, [Next]_vars, NEW q \in Processes, NEW i \in Items,
                    db[i].status \in Busy, ~db[i].ripe, cur[q] # i, cur'[q] = i
             PROVE  FALSE
  BY DEF LeaseKept
<1> USE TypeFacts
<1>1. CASE \E p \in Processes : Claim(p)
  <2>1. PICK p \in Processes : Claim(p)
    BY <1>1
  <2>2. PICK j \in Items : Fetch(p, j) /\ tx[j].status \in Pending /\ cur' = [cur EXCEPT ![p] = j]
    BY <2>1 DEF Claim
  <2>3. p = q /\ j = i
    BY <2>2
  <2>4. tx[i] = db[i]
    BY <2>2, <2>3, Going DEF Expired
  <2> QED
    BY <2>2, <2>3, <2>4 DEF Busy, Pending
<1>2. ASSUME NEW p \in Processes, UNCHANGED cur \/ cur' = [cur EXCEPT ![p] = NoOne]
      PROVE  FALSE
  BY <1>2
<1>3. ASSUME NEW p \in Processes,
             Start(p) \/ PassOver(p) \/ Refuse(p) \/ Prepare(p) \/ Send(p) \/ Record(p) \/ Finish(p)
             \/ Crash(p) \/ LockedOut(p)
      PROVE  FALSE
  BY <1>2, <1>3 DEF Start, PassOver, Refuse, Prepare, Send, Record, Finish, Crash, LockedOut, Abort, Done
<1>4. CASE UNCHANGED cur
  BY <1>4
<1> QED
  BY <1>1, <1>3, <1>4
     DEF Next, Proceed, vars, Processing, Enqueue, Ask, MoveBackup, Ripen, Answer, ToggleDestination, CancelPending

\* An item that is on its way is not taken up by a second process before its lease
\* expires, whichever processes take the file lock.
THEOREM Leases == Spec => LeaseRespected
  BY LeaseStep, Invariant, PTL DEF Spec, LeaseRespected

-----------------------------------------------------------------------------
(* Refinement                                                              *)

S(i) == StateOf(db[i].status)

\* What a step may do to item i, in the words of Delivery.
Moved(i) ==
  /\ \/ S(i)' = S(i)
     \/ S(i) = "none" /\ S(i)' \in {"open", "refused"}
     \/ S(i) # "none" /\ S(i)' = "withdrawn"
     \/ S(i) \in {"refused", "sent", "withdrawn"} /\ S(i)' = "open"
     \/ /\ i \in Held /\ S(i) # "none"
        /\ S(i)' \in {"open", "refused"} \/ (S(i)' = "sent" /\ i \in arrived)
  /\ S(i) # "none" => S(i)' # "none"

TakenUp == \A i \in Held' \ Held : S(i) = "open"

Arrives ==
  arrived' = arrived \/ \E i \in Held : S(i) # "none" /\ arrived' = arrived \cup {i}

LEMMA StateNone == ASSUME NEW s PROVE StateOf(s) = "none" <=> s = "absent"
  BY DEF StateOf

\* A step of that kind is one of Delivery's.
LEMMA Mapped ==
  ASSUME IInv, \A i \in Items : Moved(i), TakenUp, Arrives
  PROVE  D!Next
<1>1. ASSUME NEW i \in Items PROVE D!Move(i)
  BY <1>1, StateNone DEF D!Move, D!Accepted, D!Refused, D!Withdrawn, D!Reopened, D!Decided, Moved, S
<1>2. D!Taken
  BY DEF D!Taken, TakenUp, S, Held
<1>3. D!Arrival
  BY StateNone DEF D!Arrival, Arrives, S, Held
<1> QED
  BY <1>1, <1>2, <1>3 DEF D!Next

Mappable == (\A i \in Items : Moved(i)) /\ TakenUp /\ Arrives

\* What every status stands for.
LEMMA Standing ==
  /\ \A s \in Pending \cup Busy : StateOf(s) = "open"
  /\ \A s \in {"failed", "skipped"} : StateOf(s) = "refused"
  /\ StateOf("sent") = "sent" /\ StateOf("cancelled") = "withdrawn" /\ StateOf("absent") = "none"
  BY DEF StateOf, Pending, Busy

\* Every status but these is open.
LEMMA OpenStatus ==
  ASSUME NEW s \in Statuses, s \notin {"absent", "sent", "failed", "skipped", "cancelled"}
  PROVE  StateOf(s) = "open"
  BY DEF Statuses, Settled, Pending, Busy, StateOf

\* Nothing is committed and nothing arrives: what is newly held was open.
LEMMA Uncommitted ==
  ASSUME \A i \in Items : db'[i].status = db[i].status, arrived' = arrived,
         \A i \in Held' : i \in Held \/ S(i) = "open"
  PROVE  Mappable
  BY DEF Mappable, Moved, TakenUp, Arrives, S

LEMMA StartMaps == ASSUME IInv, NEW p \in Processes, Start(p) PROVE Mappable
<1>1. tx' = Recover(db) /\ db' = db /\ UNCHANGED <<cur, arrived>>
  BY DEF Start, Write, World
<1>2. \A i \in Items : StateOf(tx'[i].status) = StateOf(db[i].status)
  <2> SUFFICES ASSUME NEW i \in Items PROVE StateOf(tx'[i].status) = StateOf(db[i].status)
    OBVIOUS
  <2>1. tx'[i] = db[i] \/ (Expired(db[i]) /\ tx'[i].status = "retry_wait")
    BY <1>1, TypeFacts, RecoverRows
  <2> QED
    BY <2>1, Standing DEF Expired, Pending
<1> QED
  BY <1>1, <1>2, Uncommitted DEF Held

LEMMA HandlingMaps ==
  ASSUME IInv, NEW i \in Items, tx[i].status \in Pending,
         \A j \in Items : j # i => tx'[j] = tx[j], UNCHANGED <<db, cur, arrived>>
  PROVE  Mappable
<1>1. StateOf(tx[i].status) = "open"
  BY Standing
<1> QED
  BY <1>1, Uncommitted DEF Held, S

LEMMA RefuseMaps == ASSUME IInv, NEW p \in Processes, Refuse(p) PROVE Mappable
<1>1. PICK i \in Items : /\ tx[i].status \in Pending /\ Write(p, Set(tx, i, "skipped")) /\ Done(p, i)
  BY DEF Refuse
<1>2. \A j \in Items : j # i => Set(tx, i, "skipped")[j] = tx[j]
  BY TypeFacts, SetRow DEF Statuses, Settled
<1> QED
  BY <1>1, <1>2, HandlingMaps DEF Write, Done

LEMMA PrepareMaps == ASSUME IInv, NEW p \in Processes, Prepare(p) PROVE Mappable
<1>1. PICK i \in Items, s \in Statuses :
        tx[i].status \in Pending /\ Write(p, Set(Claimed(tx, i), i, s)) /\ Done(p, i)
  BY FinalStatus DEF Prepare, Statuses, Settled, Pending
<1>2. /\ Claimed(tx, i) \in Tables
      /\ \A j \in Items : j # i => Claimed(tx, i)[j] = tx[j]
  BY TypeFacts, ClaimedRow
<1>3. \A j \in Items : j # i => Set(Claimed(tx, i), i, s)[j] = tx[j]
  BY <1>2, SetRow
<1> QED
  BY <1>1, <1>3, HandlingMaps DEF Write, Done

\* A commit of what the writer made of the table.
LEMMA CommitMoves ==
  ASSUME IInv, NEW i \in Items, StateOf(db'[i].status) = StateOf(tx[i].status), arrived' = arrived
  PROVE  Moved(i)
<1>1. CASE StateOf(tx[i].status) = StateOf(db[i].status)
  BY <1>1 DEF Moved, S
<1>2. CASE StateOf(tx[i].status) # StateOf(db[i].status)
  <2>1. i \in Held
    BY <1>2 DEF Held
  <2>2. S(i) # "none" /\ StateOf(tx[i].status) # "none"
    BY <1>2, StateNone DEF IInv, TxInv, S
  <2>3. tx[i].status \in Statuses
    BY TypeFacts DEF Tables, Item
  <2>4. \/ StateOf(tx[i].status) \in {"open", "refused"}
        \/ StateOf(tx[i].status) = "sent" /\ i \in arrived
    <3>1. CASE tx[i].status = "sent"
      BY <1>2, <3>1, Standing DEF IInv, SentInv
    <3>2. CASE tx[i].status = "cancelled"
      BY <1>2, <3>2 DEF IInv, TxInv
    <3>3. CASE tx[i].status \notin {"sent", "cancelled"}
      BY <2>2, <2>3, <3>3, OpenStatus, Standing
    <3> QED
      BY <3>1, <3>2, <3>3
  <2> QED
    BY <2>1, <2>2, <2>4 DEF Moved, S
<1> QED
  BY <1>1, <1>2

LEMMA ClaimMaps == ASSUME IInv, NEW p \in Processes, Claim(p) PROVE Mappable
<1>1. PICK i \in Items :
       /\ tx[i].status \in Pending /\ Commit(Claimed(tx, i))
       /\ cur' = [cur EXCEPT ![p] = i] /\ UNCHANGED arrived
  BY DEF Claim
<1>2. /\ Claimed(tx, i) \in Tables /\ Claimed(tx, i)[i].status = "uploading"
      /\ \A j \in Items : j # i => Claimed(tx, i)[j] = tx[j]
  BY TypeFacts, ClaimedRow
<1>3. \A j \in Items : StateOf(db'[j].status) = StateOf(tx[j].status)
  BY <1>1, <1>2, Standing DEF Commit, Busy
<1>4. \A j \in Items : Moved(j)
  BY <1>1, <1>3, CommitMoves
<1>5. TakenUp
  <2>1. \A j \in Held' : j = i \/ j \in Held
    BY <1>1, TypeFacts DEF Held, Commit
  <2>2. i \notin Held => S(i) = "open"
    BY <1>1, Standing DEF Held, S
  <2> QED
    BY <2>1, <2>2 DEF TakenUp
<1> QED
  BY <1>1, <1>4, <1>5 DEF Mappable, Arrives

LEMMA SendMaps == ASSUME IInv, NEW p \in Processes, Send(p) PROVE Mappable
<1>1. pc[p] = "send" /\ UNCHANGED <<db, tx, cur>> /\ arrived' \in {arrived, arrived \cup {cur[p]}}
  BY DEF Send, NoWrite, World
<1>2. cur[p] \in Items /\ cur[p] \in Held /\ S(cur[p]) # "none"
  BY <1>1, StateNone DEF IInv, ListInv, Held, S
<1>3. Arrives
  BY <1>1, <1>2 DEF Arrives
<1> QED
  BY <1>1, <1>3 DEF Mappable, Moved, TakenUp, S, Held

LEMMA RecordMaps == ASSUME IInv, NEW p \in Processes, Record(p) PROVE Mappable
<1> DEFINE s == Final(outcome[p], nth[p])
<1>1. /\ pc[p] = "record" /\ writer = NoOne
      /\ tx' = Set(db, cur[p], s) /\ db' = db /\ cur' = [cur EXCEPT ![p] = NoOne] /\ UNCHANGED arrived
  BY DEF Record, Write, World
<1>2. cur[p] \in Items
  BY <1>1 DEF IInv, ListInv
<1>3. s \in Statuses
  BY FinalStatus DEF Statuses, Settled, Pending
<1> HIDE DEF s
<1>4. \A j \in Items : j # cur[p] => tx'[j] = db[j]
  BY <1>1, <1>2, <1>3, TypeFacts, SetRow
<1>5. \A j \in Held' : j \in Held
  BY <1>1, <1>4, TypeFacts DEF Held
<1> QED
  BY <1>1, <1>5, Uncommitted

LEMMA FinishMaps == ASSUME IInv, NEW p \in Processes, Finish(p) PROVE Mappable
<1>1. db' = tx /\ tx' = tx /\ UNCHANGED <<cur, arrived>>
  BY DEF Finish, Commit, World
<1>2. \A i \in Items : Moved(i)
  BY <1>1, CommitMoves
<1>3. TakenUp
  BY <1>1 DEF TakenUp, Held
<1> QED
  BY <1>1, <1>2, <1>3 DEF Mappable, Arrives

LEMMA AbortMaps == ASSUME IInv, NEW p \in Processes, Abort(p) PROVE Mappable
<1>1. UNCHANGED <<db, arrived>> /\ cur' = [cur EXCEPT ![p] = NoOne] /\ tx' \in {tx, db}
  BY DEF Abort, Commit, NoWrite
<1>2. \A j \in Held' : j \in Held
  BY <1>1, TypeFacts DEF Held
<1> QED
  BY <1>1, <1>2, Uncommitted

\* Of a request's change, when nobody writes, each row decides for itself.
LEMMA RequestMaps ==
  ASSUME IInv, writer = NoOne, db' = tx', UNCHANGED <<cur, arrived>>, \A i \in Items : Moved(i)
  PROVE  Mappable
<1>1. Held' = Held
  BY DEF Held, IInv, TxInv
<1> QED
  BY <1>1 DEF Mappable, TakenUp, Arrives

LEMMA EnqueueMaps == ASSUME IInv, NEW i \in Items, Enqueue(i) PROVE Mappable
<1>1. PICK s \in {"queued", "skipped"} : db' = Set(db, i, s) /\ tx' = db'
  BY DEF Enqueue, Commit
<1>2. Set(db, i, s)[i].status = s /\ \A j \in Items : j # i => Set(db, i, s)[j] = db[j]
  BY TypeFacts, SetRow DEF Statuses, Pending, Settled
<1>3. db[i].status = "absent" /\ writer = NoOne /\ UNCHANGED <<cur, arrived>>
  BY DEF Enqueue, Processing
<1>4. \A j \in Items : Moved(j)
  BY <1>1, <1>2, <1>3, Standing DEF Moved, S, Pending
<1> QED
  BY <1>1, <1>3, <1>4, RequestMaps

LEMMA AnswerMaps == ASSUME IInv, NEW c \in Clients, Answer(c) PROVE Mappable
<1>1. asks[c] # NoAsk /\ writer = NoOne /\ tx' = db' /\ UNCHANGED <<cur, arrived>>
  BY DEF Answer, Commit, Processing
<1>2. PICK i \in Items : i = asks[c].item /\ db[i].status # "absent"
  BY <1>1 DEF IInv, AskInv
<1>3. PICK s \in {"queued", "cancelled"} : db' = Set(db, i, s)
  BY <1>2 DEF Answer, Commit
<1>4. db'[i].status = s /\ \A j \in Items : j # i => db'[j] = db[j]
  BY <1>3, TypeFacts, SetRow DEF Statuses, Pending, Settled
<1>5. S(i) # "none" /\ S(i)' \in {"open", "withdrawn"}
  BY <1>2, <1>3, <1>4, Standing, StateNone DEF S, Pending
<1>6. S(i) \in {"open", "refused", "sent", "withdrawn"}
  <2>1. db[i].status \in Statuses
    BY <1>2, TypeFacts DEF Tables, Item
  <2> QED
    BY <1>2, <2>1, OpenStatus, Standing DEF S
<1>7. \A j \in Items : Moved(j)
  BY <1>4, <1>5, <1>6 DEF Moved, S
<1> QED
  BY <1>1, <1>7, RequestMaps

LEMMA CancelPendingMaps == ASSUME IInv, CancelPending PROVE Mappable
<1>1. /\ writer = NoOne /\ tx' = db' /\ UNCHANGED <<cur, arrived>>
      /\ db' = [i \in Items |-> IF db[i].status \in Pending THEN Set(db, i, "cancelled")[i] ELSE db[i]]
  BY DEF CancelPending, Commit, Processing
<1>2. ASSUME NEW i \in Items PROVE Moved(i)
  <2>1. Set(db, i, "cancelled")[i].status = "cancelled"
    BY TypeFacts, SetRow DEF Statuses, Settled
  <2>2. CASE db[i].status \in Pending
    BY <1>1, <2>1, <2>2, Standing DEF Moved, S
  <2>3. CASE db[i].status \notin Pending
    BY <1>1, <2>3 DEF Moved, S
  <2> QED
    BY <2>2, <2>3
<1> QED
  BY <1>1, <1>2, RequestMaps

\* Time passes, or something else changes: statuses stay.
LEMMA SameMaps ==
  ASSUME \A i \in Items : db'[i].status = db[i].status /\ tx'[i].status = tx[i].status,
         UNCHANGED <<cur, arrived>>
  PROVE  Mappable
  BY Uncommitted DEF Held

LEMMA RipenMaps == ASSUME IInv, NEW i \in Items, Ripen(i) PROVE Mappable
<1>1. \A r \in Item : [r EXCEPT !.ripe = TRUE].status = r.status
  BY DEF Item
<1> DEFINE new == [db[i] EXCEPT !.ripe = TRUE]
<1>2. new.status = db[i].status
  BY <1>1, TypeFacts DEF Tables
<1>3. /\ db' = [db EXCEPT ![i] = new]
      /\ tx' = IF tx[i] = db[i] THEN [tx EXCEPT ![i] = new] ELSE tx
      /\ UNCHANGED <<cur, arrived>>
  <2>1. tx[i] = db[i] => [tx EXCEPT ![i].ripe = TRUE] = [tx EXCEPT ![i] = new]
    OBVIOUS
  <2> QED
    BY <2>1 DEF Ripen, Processing
<1> HIDE DEF new
<1> QED
  BY <1>2, <1>3, TypeFacts, SameMaps DEF Tables

LEMMA FirstMaps == Init => D!Init
<1> SUFFICES ASSUME Init PROVE D!Init
  OBVIOUS
<1>1. \A i \in Items : db[i].status = "absent" /\ tx[i] = db[i]
  BY DEF Init, NoItem
<1>2. [i \in Items |-> StateOf(db[i].status)] = [i \in Items |-> "none"]
  BY <1>1, Standing
<1>3. [i \in Items |-> IF db[i].status = "absent" THEN NoOne ELSE i] = [i \in Items |-> NoOne]
  BY <1>1
<1>4. Held = {}
  BY <1>1, TelegramAssumption DEF Init, Held, Items
<1>5. arrived = {}
  BY DEF Init
<1> QED
  BY <1>2, <1>3, <1>4, <1>5 DEF D!Init

LEMMA StepMaps == IInv /\ [Next]_vars => D!Next
<1> SUFFICES ASSUME IInv, [Next]_vars PROVE Mappable
  BY Mapped DEF Mappable
<1>1. ASSUME NEW p \in Processes, Start(p) \/ Proceed(p) PROVE Mappable
  <2>1. CASE PassOver(p)
    BY <2>1, SameMaps DEF PassOver, Done, NoWrite
  <2> QED
    BY <1>1, <2>1, StartMaps, RefuseMaps, PrepareMaps, ClaimMaps, SendMaps, RecordMaps, FinishMaps DEF Proceed
<1>2. ASSUME NEW p \in Processes, Crash(p) \/ LockedOut(p) PROVE Mappable
  <2>1. CASE Abort(p)
    BY <2>1, AbortMaps
  <2>2. CASE UNCHANGED <<db, tx, cur, arrived>>
    BY <2>2, SameMaps
  <2> QED
    BY <1>2, <2>1, <2>2 DEF Crash, LockedOut, NoWrite
<1>3. ASSUME NEW i \in Items, Enqueue(i) \/ Ripen(i) \/ (\E c \in Clients : Ask(c, i)) PROVE Mappable
  <2>1. CASE \E c \in Clients : Ask(c, i)
    BY <2>1, SameMaps DEF Ask, NoWrite, Processing
  <2> QED
    BY <1>3, <2>1, EnqueueMaps, RipenMaps
<1>4. CASE \E c \in Clients : Answer(c)
  BY <1>4, AnswerMaps
<1>5. CASE CancelPending
  BY <1>5, CancelPendingMaps
<1>6. CASE (\E b \in Backups : MoveBackup(b)) \/ ToggleDestination \/ UNCHANGED vars
  BY <1>6, SameMaps DEF MoveBackup, ToggleDestination, NoWrite, Processing, vars
<1> QED
  BY <1>1, <1>2, <1>3, <1>4, <1>5, <1>6 DEF Next

\* The queue implements Delivery: what is called sent has arrived, only the holder of an
\* item says how an attempt ended, only an open item is taken up, and what was accepted
\* stays known.
THEOREM Implements == Spec => Delivers
<1>1. Init => D!Init
  BY FirstMaps
<1>2. IInv /\ [Next]_vars => D!Next
  BY StepMaps
<1> QED
  BY <1>1, <1>2, Invariant, PTL DEF Spec, Delivers, D!Spec
=============================================================================
