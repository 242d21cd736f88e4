---------------------------- MODULE TelegramQueue ----------------------------
(***************************************************************************)
(* The queue of copies to one Telegram destination                         *)
(* (backup_manager/telegram_backup.py, telegram_worker.py,                 *)
(* telegram_destinations.py).  The timer's worker, under its file lock, and *)
(* `cli telegram-backup-run-once`, without it, call run_once; the web      *)
(* application and the command line, processes of their own, queue, retry  *)
(* and cancel.                                                             *)
(*                                                                         *)
(* The first statement of run_once is an UPDATE: from there on the process *)
(* is the writing connection, except while a document travels.  db is what *)
(* is committed, tx the writer's copy.                                     *)
(***************************************************************************)
EXTENDS Naturals, FiniteSets

CONSTANTS
  Processes,      \* processes that may be inside run_once
  Locking,        \* those that take the file lock and are killed after ten minutes
  MaxItems,       \* copies that may be queued, each of a backup to a topic
  Backups,
  BackupOf,       \* the backup each of them is a copy of
  MaxAttempts,    \* telegram_backup_items.max_attempts
  Limit,          \* items of one run
  MaxFaults,      \* bound: runs that die, waits of 15 s for the write lock, transfers
                  \* of more than eleven minutes
  Clients,        \* processes that retry and cancel: the web application, the command line
  MaxRequests,    \* bound: retries and cancellations asked for, backups trashed or
                  \* restored, changes of the destination
  NoOne

ASSUME TelegramAssumption ==
  /\ Locking \subseteq Processes
  /\ MaxItems \in Nat /\ BackupOf \in [1..MaxItems -> Backups]
  /\ MaxAttempts \in Nat \ {0} /\ Limit \in Nat \ {0}
  /\ MaxFaults \in Nat /\ MaxRequests \in Nat
  /\ NoOne \notin Processes /\ NoOne \notin 1..MaxItems

VARIABLES
  db, tx, writer,   \* committed items, the writer's copy, the writer
  lock,             \* who holds the file lock
  pc, due,          \* where each process is, the items of its list still to handle
  cur, nth, outcome,  \* the item it sends, which attempt that is, what became of it
  stored,           \* backups that are available, their file in place
  active,           \* the destination is active
  arrived,          \* copies the chat has received
  asks,             \* each client's request that has made its checks
  faults, requests

vars == <<db, tx, writer, lock, pc, due, cur, nth, outcome, stored, active, arrived, asks,
          faults, requests>>

\* idempotency_key: a backup has one item for each topic, for ever.  The order is
\* that of queued_at, which a retry keeps.
Items == 1..MaxItems

Pending == {"queued", "retry_wait"}
Busy == {"uploading"}     \* validating and preparing are never committed
Settled == {"sent", "failed", "skipped", "cancelled"}
Statuses == {"absent"} \cup Pending \cup Busy \cup Settled

\* ripe: next_attempt_at has come, or updated_at is eleven minutes old.
Item == [status : Statuses, attempt : Nat, ripe : BOOLEAN]
NoItem == [status |-> "absent", attempt |-> 0, ripe |-> FALSE]
NoAsk == [op |-> "none", item |-> NoOne]

-----------------------------------------------------------------------------
(* Queries and updates of the table                                        *)

Set(d, i, s) == [d EXCEPT ![i].status = s, ![i].ripe = FALSE]

\* Mutants: every busy item is taken for interrupted; an interrupted send is
\* taken for done; interrupted sends are left alone.
RecoverAll(d) ==
  [i \in Items |-> IF d[i].status \in Busy THEN [d[i] EXCEPT !.status = "retry_wait", !.ripe = TRUE] ELSE d[i]]
RecoverAsSent(d) == [i \in Items |-> IF d[i].status \in Busy /\ d[i].ripe THEN Set(d, i, "sent")[i] ELSE d[i]]
RecoverNone(d) == d

\* The first UPDATE of run_once: interrupted sends wait again, their time come.
Recover(d) == [i \in Items |-> IF d[i].status \in Busy /\ d[i].ripe
                               THEN [d[i] EXCEPT !.status = "retry_wait"] ELSE d[i]]

Due(d) == {i \in Items : d[i].status = "queued" \/ (d[i].status = "retry_wait" /\ d[i].ripe)}

\* ORDER BY queued_at, id LIMIT
Batch(d) == {i \in Due(d) : Cardinality({j \in Due(d) : j < i}) < Limit}

Eligible(i) == active /\ BackupOf[i] \in stored

Claimed(d, i) == [Set(d, i, "uploading") EXCEPT ![i].attempt = @ + 1]

\* Mutant: one attempt more than max_attempts.
ExhaustedLate(n) == n > MaxAttempts

Exhausted(n) == n >= MaxAttempts

\* The status after an attempt: a permanent answer of Telegram, or another failure
\* ("internal"), which is tried again: a transient answer, any other exception.
Final(o, n) ==
  IF o = "ok" THEN "sent"
  ELSE IF o = "permanent" \/ Exhausted(n) THEN "failed" ELSE "retry_wait"

-----------------------------------------------------------------------------
Init ==
  /\ db = [i \in Items |-> NoItem]
  /\ tx = db
  /\ writer = NoOne
  /\ lock = NoOne
  /\ pc = [p \in Processes |-> "idle"]
  /\ due = [p \in Processes |-> {}]
  /\ cur = [p \in Processes |-> NoOne]
  /\ nth = [p \in Processes |-> 0]
  /\ outcome = [p \in Processes |-> "none"]
  /\ stored = Backups
  /\ active = TRUE
  /\ arrived = {}
  /\ asks = [c \in Clients |-> NoAsk]
  /\ faults = 0 /\ requests = 0

Commit(d) == db' = d /\ tx' = d /\ writer' = NoOne
Write(p, d) == tx' = d /\ writer' = p /\ db' = db
NoWrite == UNCHANGED <<db, tx, writer>>
Goto(p, l) == pc' = [pc EXCEPT ![p] = l]
IsFirst(i, is) == i \in is /\ \A j \in is : i <= j
World == <<stored, active, asks, requests>>
Processing == <<lock, pc, due, cur, nth, outcome>>

-----------------------------------------------------------------------------
(* run_once and process_item                                               *)

\* Recovery, then the list of due items, in one transaction.
Start(p) ==
  /\ pc[p] = "idle"
  /\ p \in Locking => lock = NoOne
  /\ writer = NoOne
  /\ lock' = IF p \in Locking THEN p ELSE lock
  /\ Write(p, Recover(db))
  /\ due' = [due EXCEPT ![p] = Batch(Recover(db))]
  /\ Goto(p, "next")
  /\ UNCHANGED <<cur, nth, outcome, arrived, faults>>
  /\ UNCHANGED World

\* The next item of the list, as its row is now; here the process is the writer.
Fetch(p, i) == pc[p] = "next" /\ writer = p /\ IsFirst(i, due[p])
Done(p, i) == due' = [due EXCEPT ![p] = @ \ {i}] /\ UNCHANGED <<lock, pc, cur, nth, outcome, arrived, faults>>

PassOver(p) ==
  /\ \E i \in Items : Fetch(p, i) /\ tx[i].status \notin Pending /\ Done(p, i)
  /\ NoWrite
  /\ UNCHANGED World

Refuse(p) ==
  /\ \E i \in Items :
       Fetch(p, i) /\ tx[i].status \in Pending /\ ~Eligible(i) /\ Write(p, Set(tx, i, "skipped")) /\ Done(p, i)
  /\ UNCHANGED World

\* The attempt ends before anything is sent: the prepared file is too large, no
\* bot is configured, or preparing it raises.
Prepare(p) ==
  /\ \E i \in Items :
       LET d == Claimed(tx, i) IN
         /\ Fetch(p, i) /\ tx[i].status \in Pending /\ Eligible(i)
         /\ \/ Write(p, Set(d, i, "skipped"))
            \/ \E o \in {"permanent", "internal"} : Write(p, Set(d, i, Final(o, d[i].attempt)))
         /\ Done(p, i)
  /\ UNCHANGED World

\* The lease is committed before the transfer.
Claim(p) ==
  /\ \E i \in Items :
       /\ Fetch(p, i) /\ tx[i].status \in Pending /\ Eligible(i)
       /\ Commit(Claimed(tx, i))
       /\ cur' = [cur EXCEPT ![p] = i]
       /\ nth' = [nth EXCEPT ![p] = tx[i].attempt + 1]
       /\ due' = [due EXCEPT ![p] = @ \ {i}]
  /\ Goto(p, "send")
  /\ UNCHANGED <<lock, outcome, arrived, faults>>
  /\ UNCHANGED World

\* A lost answer is a failure too, after the document has arrived; so is an answer
\* that cannot be read, and that one is permanent.
Send(p) ==
  /\ pc[p] = "send"
  /\ \E o \in {"ok", "permanent", "internal"}, got \in BOOLEAN :
       /\ o = "ok" => got
       /\ outcome' = [outcome EXCEPT ![p] = o]
       /\ arrived' = IF got THEN arrived \cup {cur[p]} ELSE arrived
  /\ Goto(p, "record")
  /\ NoWrite
  /\ UNCHANGED <<lock, due, cur, nth, faults>>
  /\ UNCHANGED World

\* The row is updated by its id alone, whatever it has become.
Record(p) ==
  /\ pc[p] = "record"
  /\ writer = NoOne
  /\ Write(p, Set(db, cur[p], Final(outcome[p], nth[p])))
  /\ cur' = [cur EXCEPT ![p] = NoOne]
  /\ nth' = [nth EXCEPT ![p] = 0]
  /\ outcome' = [outcome EXCEPT ![p] = "none"]
  /\ Goto(p, "next")
  /\ UNCHANGED <<lock, due, arrived, faults>>
  /\ UNCHANGED World

\* The time of the run is stored, the connection commits.
Finish(p) ==
  /\ pc[p] = "next" /\ writer = p /\ due[p] = {}
  /\ Commit(tx)
  /\ lock' = IF lock = p THEN NoOne ELSE lock
  /\ Goto(p, "idle")
  /\ UNCHANGED <<due, cur, nth, outcome, arrived, faults>>
  /\ UNCHANGED World

\* The run ends without its commit.
Abort(p) ==
  /\ IF writer = p THEN Commit(db) ELSE NoWrite
  /\ lock' = IF lock = p THEN NoOne ELSE lock
  /\ Goto(p, "idle")
  /\ due' = [due EXCEPT ![p] = {}]
  /\ cur' = [cur EXCEPT ![p] = NoOne]
  /\ nth' = [nth EXCEPT ![p] = 0]
  /\ outcome' = [outcome EXCEPT ![p] = "none"]
  /\ UNCHANGED arrived

Fault == faults < MaxFaults /\ faults' = faults + 1

Crash(p) == pc[p] # "idle" /\ Fault /\ Abort(p) /\ UNCHANGED World

\* A foreign transaction outlasts the 15 s that Record waits.  A success is then
\* recorded as an internal failure; after a failure the exception ends the run.
LockedOut(p) ==
  /\ pc[p] = "record"
  /\ Fault
  /\ \/ /\ outcome[p] = "ok"
        /\ outcome' = [outcome EXCEPT ![p] = "internal"]
        /\ NoWrite
        /\ UNCHANGED <<lock, pc, due, cur, nth, arrived>>
     \/ outcome[p] # "ok" /\ Abort(p)
  /\ UNCHANGED World

-----------------------------------------------------------------------------
(* Requests, the rest of the system, time                                  *)

\* Another item of the backup that was not cancelled, to whichever topic.
Duplicate(d, i) ==
  \E j \in Items : j # i /\ BackupOf[j] = BackupOf[i] /\ d[j].status \notin {"absent", "cancelled"}

\* enqueue_backup: the size may already be beyond the limits.
Enqueue(i) ==
  /\ writer = NoOne
  /\ db[i].status = "absent" /\ Eligible(i) /\ ~Duplicate(db, i)
  /\ \E s \in {"queued", "skipped"} : Commit(Set(db, i, s))
  /\ UNCHANGED Processing
  /\ UNCHANGED <<stored, active, arrived, asks, faults, requests>>

\* The check of retry_item and of cancel_item.
Ask(c, i) ==
  /\ asks[c] = NoAsk /\ requests < MaxRequests /\ requests' = requests + 1
  /\ \E op \in {"retry", "cancel"} :
       /\ db[i].status \in (IF op = "retry" THEN {"failed", "skipped"} ELSE Pending)
       /\ asks' = [asks EXCEPT ![c] = [op |-> op, item |-> i]]
  /\ NoWrite
  /\ UNCHANGED Processing
  /\ UNCHANGED <<stored, active, arrived, faults>>

\* Their UPDATE, by id.
Answer(c) ==
  /\ asks[c] # NoAsk
  /\ writer = NoOne
  /\ Commit(Set(db, asks[c].item, IF asks[c].op = "retry" THEN "queued" ELSE "cancelled"))
  /\ asks' = [asks EXCEPT ![c] = NoAsk]
  /\ UNCHANGED Processing
  /\ UNCHANGED <<stored, active, arrived, faults, requests>>

\* disable_destination, or the settings page that saves the destination again.
ToggleDestination ==
  /\ requests < MaxRequests /\ requests' = requests + 1
  /\ writer = NoOne
  /\ active' = ~active
  /\ NoWrite
  /\ UNCHANGED Processing
  /\ UNCHANGED <<stored, arrived, asks, faults>>

\* cancel_pending: one UPDATE of what still waits.
CancelPending ==
  /\ ~active /\ writer = NoOne
  /\ \E i \in Items : db[i].status \in Pending
  /\ Commit([i \in Items |-> IF db[i].status \in Pending THEN Set(db, i, "cancelled")[i] ELSE db[i]])
  /\ UNCHANGED Processing
  /\ UNCHANGED <<stored, active, arrived, asks, faults, requests>>

\* The lifecycle takes a backup away, or gives it back.
MoveBackup(b) ==
  /\ requests < MaxRequests /\ requests' = requests + 1
  /\ stored' = IF b \in stored THEN stored \ {b} ELSE stored \cup {b}
  /\ NoWrite
  /\ UNCHANGED Processing
  /\ UNCHANGED <<active, arrived, asks, faults>>

\* next_attempt_at comes; a lease becomes eleven minutes old.  A process of the
\* timer is killed after ten, so only a transfer of the command line may still be
\* under way then.
Ripen(i) ==
  /\ \/ db[i].status = "retry_wait" /\ UNCHANGED faults
     \/ db[i].status \in Busy /\ (\A p \in Processes : cur[p] # i) /\ UNCHANGED faults
     \/ db[i].status \in Busy /\ (\A p \in Locking : cur[p] # i) /\ Fault
  /\ ~db[i].ripe
  /\ db' = [db EXCEPT ![i].ripe = TRUE]
  /\ tx' = IF tx[i] = db[i] THEN [tx EXCEPT ![i].ripe = TRUE] ELSE tx
  /\ UNCHANGED writer
  /\ UNCHANGED Processing
  /\ UNCHANGED <<stored, active, arrived, asks, requests>>

Proceed(p) ==
  \/ PassOver(p) \/ Refuse(p) \/ Prepare(p) \/ Claim(p) \/ Send(p) \/ Record(p) \/ Finish(p)

Next ==
  \/ \E p \in Processes : Start(p) \/ Proceed(p) \/ Crash(p) \/ LockedOut(p)
  \/ \E i \in Items : Enqueue(i) \/ Ripen(i)
  \/ \E c \in Clients : Answer(c) \/ \E i \in Items : Ask(c, i)
  \/ \E b \in Backups : MoveBackup(b)
  \/ ToggleDestination
  \/ CancelPending

Spec == Init /\ [][Next]_vars

\* The timer starts runs for ever; a run goes on, a transfer has a timeout, and
\* who waits for the write lock gets it in the end; time passes.
LiveSpec ==
  /\ Spec
  /\ \A p \in Locking : SF_vars(Start(p))
  /\ \A p \in Processes : SF_vars(Proceed(p))
  /\ WF_vars(\E i \in Items : Ripen(i))

-----------------------------------------------------------------------------
(* Properties                                                              *)

\* Every variable keeps its type; a row's status is one its CHECK accepts.
TypeOK ==
  /\ db \in [Items -> Item] /\ tx \in [Items -> Item]
  /\ writer \in Processes \cup {NoOne} /\ lock \in Locking \cup {NoOne}
  /\ pc \in [Processes -> {"idle", "next", "send", "record"}]
  /\ due \in [Processes -> SUBSET Items]
  /\ cur \in [Processes -> Items \cup {NoOne}]
  /\ nth \in [Processes -> Nat]
  /\ outcome \in [Processes -> {"none", "ok", "permanent", "internal"}]
  /\ stored \in SUBSET Backups /\ active \in BOOLEAN /\ arrived \in SUBSET Items
  /\ asks \in [Clients -> [op : {"none", "retry", "cancel"}, item : Items \cup {NoOne}]]
  /\ faults \in 0..MaxFaults /\ requests \in 0..MaxRequests

\* An item that is on its way is not taken up by a second process unless its lease
\* has expired, with or without the file lock (run_once, process_item).
LeaseKept ==
  \A p, q \in Processes, i \in Items :
    /\ p # q /\ pc[p] = "send" /\ cur[p] = i
    /\ db[i].status \in Busy /\ ~db[i].ripe
    => cur[q] = i \/ cur'[q] # i

LeaseRespected == [][LeaseKept]_vars

\* Only a request or an interrupted or misjudged send takes an item beyond
\* max_attempts (retry_item keeps the count, and recovery does not look at it);
\* and every variable keeps its type.
AttemptsExplained ==
  /\ TypeOK
  /\ \A i \in Items : db[i].attempt <= MaxAttempts + requests + faults

\* Again and again everything queued has been sent, refused or cancelled, whatever
\* dies: the queue once held 80 items because one error ended every run
\* (docs/TELEGRAM_BACKUP.md, "Correção de permissões").
QueueDrains ==
  []<>(\A i \in Items : db[i].status \in Settled \cup {"absent"})

StateOf(s) ==
  CASE s = "absent" -> "none" [] s = "sent" -> "sent" [] s \in {"failed", "skipped"} -> "refused"
    [] s = "cancelled" -> "withdrawn" [] OTHER -> "open"

Held == {i \in Items : StateOf(db[i].status) # StateOf(tx[i].status) \/ \E p \in Processes : cur[p] = i}

D == INSTANCE Delivery WITH
       Things <- Items, Nothing <- NoOne,
       state <- [i \in Items |-> StateOf(db[i].status)],
       thing <- [i \in Items |-> IF db[i].status = "absent" THEN NoOne ELSE i],
       held <- Held

\* The queue keeps the promises of Delivery: what is called sent has arrived, only
\* the holder of an item says how an attempt ended.
Delivers == D!Spec
=============================================================================
