------------------------------ MODULE CloudSync ------------------------------
(***************************************************************************)
(* The queue of external copies (backup_manager/cloud_sync.py): items that *)
(* name a backup are uploaded to one rclone destination by processes that  *)
(* call run_once (the timer's worker under its file lock, and `cli         *)
(* cloud-run-once` without it) while clients enqueue, retry and cancel them: *)
(* the web application, which serves one request at a time, and the         *)
(* processes of `cli cloud-enqueue`, `cloud-retry` and `cloud-cancel`.      *)
(*                                                                         *)
(* db is what is committed, tx the writing connection's copy.  An item is  *)
(* claimed and committed, uploaded without any transaction, and its result *)
(* is committed together with the next claim or with the end of the run.   *)
(* Times are kept as what is left of them (ticks).                         *)
(***************************************************************************)
EXTENDS Integers, FiniteSets

CONSTANTS
  Processes,      \* processes that may be inside run_once
  Locking,        \* those that take WorkerLock first
  Clients,        \* the web application and the command line
  Backups,
  MaxItems,       \* bound: rows of cloud_sync_items
  MaxAttempts,    \* cloud_targets.max_attempts
  RetryBase,      \* cloud_targets.retry_base_seconds, in ticks
  MaxCrashes,     \* bound: runs that die or raise
  MaxRequests,    \* bound: requests of all clients
  MaxEdits,       \* bound: changes of a backup or of the destination
  NoOne

ASSUME CloudAssumption ==
  /\ Locking \subseteq Processes
  /\ MaxItems \in Nat /\ MaxAttempts \in Nat \ {0} /\ RetryBase \in Nat \ {0}
  /\ MaxCrashes \in Nat /\ MaxRequests \in Nat /\ MaxEdits \in Nat
  /\ NoOne \notin Processes /\ NoOne \notin Backups /\ NoOne \notin 1..MaxItems

VARIABLES
  db, tx, writer,   \* committed items, the writer's copy, the writer
  lock,             \* who holds WorkerLock
  pc, due,          \* where each process is, the item ids it has still to handle
  cur, attempt,     \* the item it is handling and the attempt this is
  outcome,          \* what rclone returned to it
  stored,           \* backups that are available, their file in place
  dest,             \* what holds of the destination
  remote,           \* backups the destination has
  asks,             \* each client's request that has made its checks
  crashes, requests, edits

vars == <<db, tx, writer, lock, pc, due, cur, attempt, outcome, stored, dest,
          remote, asks, crashes, requests, edits>>

Items == 1..MaxItems      \* in the order of queued_at

Pending == {"queued", "retry_wait"}
Settled == {"synced", "failed", "skipped", "cancelled"}
Statuses == Pending \cup Settled \cup {"absent", "uploading"}

\* retry_base_seconds * 2^(attempt - 1)
Backoff(n) == RetryBase * 2 ^ (n - 1)

\* wait: ticks until next_attempt_at.
Item == [status : Statuses, backup : Backups \cup {NoOne}, attempt : Nat, wait : Nat]
NoItem == [status |-> "absent", backup |-> NoOne, attempt |-> 0, wait |-> 0]

\* A command of rclone ends well, is refused or takes too long, or cannot be run.
Outcomes == {"ok", "transient", "permanent"}

Ask(op, i) == [op |-> op, item |-> i]
Idle == Ask("none", NoOne)

\* on: the destination is active; ready: its connection is configured or verified;
\* policy: a policy for it is enabled; asked: Google was asked to authorize it.
Conditions == {"on", "ready", "policy", "asked"}

-----------------------------------------------------------------------------
(* Queries and updates of the table                                        *)

Live(d, b) == {i \in Items : d[i].backup = b /\ d[i].status \notin {"absent", "cancelled"}}

\* idx_cloud_items_active_unique
Unique(d) == \A b \in Backups : Cardinality(Live(d, b)) <= 1

Eligible(b) == {"on", "ready", "policy"} \subseteq dest /\ b \in stored

\* Mutant: waiting items are never fetched again.
DueQueued(d) == {i \in Items : d[i].status = "queued"}

Due(d) == {i \in Items : \/ d[i].status = "queued"
                         \/ d[i].status = "retry_wait" /\ d[i].wait = 0}

Exhausted(n) == n >= MaxAttempts

\* Mutant: a transient failure counts as done.
FinalLenient(o, n) == IF o = "permanent" THEN "failed" ELSE "synced"

\* The status that follows from what rclone returned.
Final(o, n) ==
  CASE o = "ok" -> "synced"
    [] o = "permanent" \/ (o = "transient" /\ Exhausted(n)) -> "failed"
    [] OTHER -> "retry_wait"

\* The updates name the row by id alone.
Claimed(d, i, n) == [d EXCEPT ![i].status = "uploading", ![i].attempt = n]
Recorded(d, i, s, w) ==
  [d EXCEPT ![i].status = s, ![i].wait = IF s = "retry_wait" THEN w ELSE 0]
Skipped(d, i) == [d EXCEPT ![i].status = "skipped"]
Requeued(d, i) == [d EXCEPT ![i].status = "queued", ![i].attempt = 0, ![i].wait = 0]
Cancelled(d, i) == [d EXCEPT ![i].status = "cancelled", ![i].wait = 0]

NextItem(d) == {i \in Items : d[i].status = "absent" /\ \A j \in 1..(i - 1) : d[j].status # "absent"}

\* Mutant: a cancelled item may be retried.
RetryableAny == {"failed", "retry_wait", "skipped", "cancelled"}

Retryable == {"failed", "retry_wait", "skipped"}

Less(n) == IF n = 0 THEN 0 ELSE n - 1
Aged(d) == [i \in Items |-> [d[i] EXCEPT !.wait = Less(@)]]

-----------------------------------------------------------------------------
Init ==
  /\ db = [i \in Items |-> NoItem]
  /\ tx = db
  /\ writer = NoOne
  /\ lock = NoOne
  /\ pc = [p \in Processes |-> "idle"]
  /\ due = [p \in Processes |-> {}]
  /\ cur = [p \in Processes |-> NoOne]
  /\ attempt = [p \in Processes |-> 0]
  /\ outcome = [p \in Processes |-> "none"]
  /\ stored = Backups
  /\ dest = {"on", "ready", "policy"}
  /\ remote = {}
  /\ asks = [c \in Clients |-> Idle]
  /\ crashes = 0 /\ requests = 0 /\ edits = 0

Commit(d) == db' = d /\ tx' = d /\ writer' = NoOne
Write(p, d) == tx' = d /\ writer' = p /\ db' = db
NoWrite == UNCHANGED <<db, tx, writer>>
MayWrite(p) == writer \in {NoOne, p}
Seen(p) == IF writer = p THEN tx ELSE db
Goto(p, l) == pc' = [pc EXCEPT ![p] = l]
IsFirst(i, is) == i \in is /\ \A j \in is : i <= j
World == <<stored, dest, remote, asks, crashes, requests, edits>>

\* The item is done with; the loop of run_once goes on.
Continue(p) ==
  /\ due' = [due EXCEPT ![p] = @ \ {cur[p]}]
  /\ cur' = [cur EXCEPT ![p] = NoOne]
  /\ attempt' = [attempt EXCEPT ![p] = 0]
  /\ outcome' = [outcome EXCEPT ![p] = "none"]
  /\ Goto(p, "next")

\* The process ends without its commit: the connection rolls back, the lock's
\* file is closed.
Abort(p) ==
  /\ IF writer = p THEN tx' = db /\ writer' = NoOne /\ db' = db ELSE NoWrite
  /\ lock' = IF lock = p THEN NoOne ELSE lock
  /\ Goto(p, "idle")
  /\ due' = [due EXCEPT ![p] = {}]
  /\ cur' = [cur EXCEPT ![p] = NoOne]
  /\ attempt' = [attempt EXCEPT ![p] = 0]
  /\ outcome' = [outcome EXCEPT ![p] = "none"]

-----------------------------------------------------------------------------
(* run_once and process_item                                               *)

Start(p) ==
  /\ pc[p] = "idle"
  /\ p \in Locking => lock = NoOne
  /\ lock' = IF p \in Locking THEN p ELSE lock
  /\ due' = [due EXCEPT ![p] = Due(db)]
  /\ Goto(p, "next")
  /\ NoWrite
  /\ UNCHANGED <<cur, attempt, outcome>>
  /\ UNCHANGED World

\* The first item of the list, as its row is now.
Fetch(p, i) == pc[p] = "next" /\ IsFirst(i, due[p])

\* No longer pending, or outside the destination's window.
PassOver(p) ==
  /\ \E i \in Items : Fetch(p, i) /\ due' = [due EXCEPT ![p] = @ \ {i}]
  /\ NoWrite
  /\ UNCHANGED <<lock, pc, cur, attempt, outcome>>
  /\ UNCHANGED World

\* Pending, inside the window: eligible or not, nothing is written yet.
Examine(p) ==
  /\ \E i \in Items :
       LET row == Seen(p)[i] IN
         /\ Fetch(p, i)
         /\ row.status \in Pending
         /\ cur' = [cur EXCEPT ![p] = i]
         /\ attempt' = [attempt EXCEPT ![p] = row.attempt + 1]
         /\ Goto(p, IF Eligible(row.backup) THEN "claim" ELSE "refuse")
  /\ NoWrite
  /\ UNCHANGED <<lock, due, outcome>>
  /\ UNCHANGED World

\* An update that the unique index refuses raises, and the run ends.
Refuse(p) ==
  /\ pc[p] = "refuse"
  /\ MayWrite(p)
  /\ LET d == Skipped(Seen(p), cur[p]) IN
       \/ Unique(d) /\ Write(p, d) /\ Continue(p) /\ UNCHANGED lock
       \/ ~Unique(d) /\ Abort(p)
  /\ UNCHANGED World

Claim(p) ==
  /\ pc[p] = "claim"
  /\ MayWrite(p)
  /\ LET d == Claimed(Seen(p), cur[p], attempt[p]) IN
       \/ Unique(d) /\ Commit(d) /\ Goto(p, "upload") /\ UNCHANGED <<lock, due, cur, attempt, outcome>>
       \/ ~Unique(d) /\ Abort(p)
  /\ UNCHANGED World

\* rclone copies the file; a failure may come after the copy was made.
Upload(p) ==
  /\ pc[p] = "upload"
  /\ LET b == db[cur[p]].backup IN
       \E o \in Outcomes, copied \in BOOLEAN :
         /\ o = "ok" => copied
         /\ copied => b \in stored
         /\ outcome' = [outcome EXCEPT ![p] = o]
         /\ remote' = IF copied THEN remote \cup {b} ELSE remote
  /\ Goto(p, "record")
  /\ NoWrite
  /\ UNCHANGED <<lock, due, cur, attempt, stored, dest, asks, crashes, requests, edits>>

\* The next attempt's time counts from the start of the run, so any part of the
\* backoff may have passed already.
Record(p) ==
  /\ pc[p] = "record"
  /\ MayWrite(p)
  /\ \E w \in 0..Backoff(attempt[p]) :
       LET d == Recorded(Seen(p), cur[p], Final(outcome[p], attempt[p]), w) IN
         \/ Unique(d) /\ Write(p, d) /\ Continue(p) /\ UNCHANGED lock
         \/ ~Unique(d) /\ Abort(p)
  /\ UNCHANGED World

\* The time of the run is stored, the connection commits, the lock is released.
Finish(p) ==
  /\ pc[p] = "next"
  /\ due[p] = {}
  /\ MayWrite(p)
  /\ Commit(Seen(p))
  /\ lock' = IF lock = p THEN NoOne ELSE lock
  /\ Goto(p, "idle")
  /\ UNCHANGED <<due, cur, attempt, outcome>>
  /\ UNCHANGED World

\* Killed (TimeoutStartSec=1h covers all uploads of a run), or "database is
\* locked" after 15 s.
Crash(p) ==
  /\ pc[p] # "idle"
  /\ crashes < MaxCrashes
  /\ crashes' = crashes + 1
  /\ Abort(p)
  /\ UNCHANGED <<stored, dest, remote, asks, requests, edits>>

-----------------------------------------------------------------------------
(* The clients and the rest of the system                                  *)

Processing == <<lock, pc, due, cur, attempt, outcome>>
Request(c) == asks[c] = Idle /\ requests < MaxRequests /\ requests' = requests + 1
Keep(c, a) == asks' = [asks EXCEPT ![c] = a]

\* enqueue_backup: a duplicate that appears after the check is dropped by the
\* unique index, so check and INSERT are one step.
Enqueue(c, b) ==
  /\ Request(c)
  /\ writer = NoOne
  /\ Eligible(b)
  /\ Live(db, b) = {}
  /\ \E i \in NextItem(db) : Commit([db EXCEPT ![i] = [NoItem EXCEPT !.status = "queued", !.backup = b]])
  /\ UNCHANGED Processing
  /\ UNCHANGED <<stored, dest, remote, asks, crashes, edits>>

AskRetry(c, i) ==
  /\ Request(c)
  /\ db[i].status \in Retryable
  /\ Eligible(db[i].backup)
  /\ Keep(c, Ask("retry", i))
  /\ NoWrite
  /\ UNCHANGED Processing
  /\ UNCHANGED <<stored, dest, remote, crashes, edits>>

AskCancel(c, i) ==
  /\ Request(c)
  /\ db[i].status \notin {"absent", "synced", "cancelled"}
  /\ Keep(c, Ask("cancel", i))
  /\ NoWrite
  /\ UNCHANGED Processing
  /\ UNCHANGED <<stored, dest, remote, crashes, edits>>

\* The UPDATE of retry_item or cancel_item, whatever the row has become; the
\* unique index refuses to bring an item back beside another of its backup.
Answer(c) ==
  /\ asks[c] # Idle
  /\ writer = NoOne
  /\ LET i == asks[c].item
         d == IF asks[c].op = "retry" THEN Requeued(db, i) ELSE Cancelled(db, i) IN
       \/ Unique(d) /\ Commit(d)
       \/ ~Unique(d) /\ NoWrite
  /\ Keep(c, Idle)
  /\ UNCHANGED Processing
  /\ UNCHANGED <<stored, dest, remote, crashes, requests, edits>>

\* The lifecycle takes a backup away, or gives it back.
MoveBackup(b) ==
  /\ edits < MaxEdits
  /\ edits' = edits + 1
  /\ stored' = IF b \in stored THEN stored \ {b} ELSE stored \cup {b}
  /\ NoWrite
  /\ UNCHANGED Processing
  /\ UNCHANGED <<dest, remote, asks, crashes, requests>>

\* One request of the web application that writes about the destination.
Rewrite(d) ==
  /\ writer = NoOne
  /\ dest' = d
  /\ NoWrite
  /\ UNCHANGED Processing
  /\ UNCHANGED <<stored, remote, asks, crashes, requests>>

Destination(d) == Rewrite(d) /\ edits < MaxEdits /\ edits' = edits + 1

\* handle_cloud_target_action: toggle or delete, and a test of the connection.
SwitchTarget == Destination(IF "on" \in dest THEN dest \ {"on"} ELSE dest \cup {"on"})
TestTarget == \E d \in {dest \cup {"ready"}, dest \ {"ready"}} : Destination(d)

CreatePolicy == Destination(dest \cup {"policy"})

\* google_rclone_oauth.begin: another request replaces what was asked before.
Asked(d) == d \cup {"asked"}

\* handle_google_rclone_connect: the connection is out of use until Google
\* answers, also the one of a destination that works.
Connect == Destination(Asked(dest \ {"ready"}))

\* An authorization is consumed before its code is exchanged: what fails after
\* that is not tried again.
Consumed == dest \ {"asked"}

\* enable_automatic_backup, after the connection was verified.
Enabled(d) == d \cup {"on", "ready", "policy"}

\* handle_google_rclone_callback
Callback ==
  /\ "asked" \in dest
  /\ Rewrite(Consumed) \/ Rewrite(Enabled(Consumed))
  /\ UNCHANGED edits

\* import_configuration: destinations and policies are listed as they were and
\* come in disabled, connections as configured.
ImportConfiguration == Destination((dest \ {"on", "policy"}) \cup {"ready"})

Tick ==
  /\ db' = Aged(db) /\ tx' = Aged(tx) /\ UNCHANGED writer
  /\ UNCHANGED Processing
  /\ UNCHANGED World

RunOnce(p) ==
  \/ Start(p) \/ PassOver(p) \/ Examine(p) \/ Refuse(p)
  \/ Claim(p) \/ Upload(p) \/ Record(p) \/ Finish(p)

ManageTarget ==
  \/ SwitchTarget \/ TestTarget \/ CreatePolicy \/ Connect \/ Callback \/ ImportConfiguration

Next ==
  \/ \E p \in Processes : RunOnce(p) \/ Crash(p)
  \/ \E c \in Clients :
       \/ \E b \in Backups : Enqueue(c, b)
       \/ \E i \in Items : AskRetry(c, i) \/ AskCancel(c, i)
       \/ Answer(c)
  \/ \E b \in Backups : MoveBackup(b)
  \/ ManageTarget
  \/ Tick

Spec == Init /\ [][Next]_vars

\* The timer starts runs for ever, rclone returns (it has a timeout), and a
\* destination's window is open again and again when a run looks.
LiveSpec ==
  /\ Spec
  /\ \A p \in Processes : WF_vars(RunOnce(p)) /\ SF_vars(Examine(p))
  /\ WF_vars(Tick)

-----------------------------------------------------------------------------
(* Properties                                                              *)

\* Every variable keeps its type; a row's status is one its CHECK accepts.
TypeOK ==
  /\ db \in [Items -> Item] /\ tx \in [Items -> Item]
  /\ writer \in Processes \cup {NoOne} /\ lock \in Locking \cup {NoOne}
  /\ pc \in [Processes -> {"idle", "next", "refuse", "claim", "upload", "record"}]
  /\ due \in [Processes -> SUBSET Items]
  /\ cur \in [Processes -> Items \cup {NoOne}]
  /\ attempt \in [Processes -> Nat]
  /\ outcome \in [Processes -> Outcomes \cup {"none"}]
  /\ stored \in SUBSET Backups /\ dest \in SUBSET Conditions /\ remote \in SUBSET Backups
  /\ asks \in [Clients -> [op : {"none", "retry", "cancel"}, item : Items \cup {NoOne}]]
  /\ crashes \in 0..MaxCrashes /\ requests \in 0..MaxRequests /\ edits \in 0..MaxEdits

\* What the queue reports as synced is at the destination, whatever crashed, was
\* cancelled, trashed or retried meanwhile.
SyncedIsUploaded ==
  \A i \in Items : db[i].status = "synced" => db[i].backup \in remote

\* No row counts more attempts than its destination allows, although the web
\* application resets the count while an attempt runs.  (Two processes can
\* exceed it: the file lock matters.)
AttemptsBounded == \A i \in Items : db[i].attempt <= MaxAttempts

\* p writes what it decides about the item it has in hand.
Decides(p) == pc[p] \in {"claim", "refuse", "record"} /\ pc'[p] # pc[p]

\* Nobody begins anything with a cancelled item: no process takes it up, no
\* client's retry passes its check.  It comes back to life only by a process
\* that had taken it up, or a retry that had passed, before it was cancelled:
\* both write by id whatever the row has become, and nothing tells whoever
\* cancelled.
CancelHolds ==
  [][\A i \in Items : tx[i].status = "cancelled" =>
       /\ \A p \in Processes : cur'[p] = i => cur[p] = i
       /\ \A c \in Clients : asks'[c] = Ask("retry", i) => asks[c] = asks'[c]
       /\ tx'[i].status # "cancelled" =>
            \/ \E p \in Processes : cur[p] = i /\ Decides(p)
            \/ \E c \in Clients : asks[c] = Ask("retry", i) /\ asks'[c] = Idle]_vars

\* An interrupted upload, which nothing takes up again.
Abandoned(i) ==
  /\ db[i].status = "uploading" /\ tx[i].status = "uploading"
  /\ \A p \in Processes : cur[p] # i

\* A queued item is settled, however often it has to be tried, unless its
\* upload was interrupted.
QueuedEventuallySettles ==
  \A i \in Items : db[i].status = "queued" ~> (db[i].status \in Settled \/ Abandoned(i))

StateOf(s) ==
  CASE s = "absent" -> "none" [] s = "synced" -> "sent" [] s \in {"failed", "skipped"} -> "refused"
    [] s = "cancelled" -> "withdrawn" [] OTHER -> "open"

\* Items some process has in hand, or has decided about and not committed.
Held == {i \in Items : StateOf(db[i].status) # StateOf(tx[i].status) \/ \E p \in Processes : cur[p] = i}

D == INSTANCE Delivery WITH
       Things <- Backups, Nothing <- NoOne,
       state <- [i \in Items |-> StateOf(db[i].status)],
       thing <- [i \in Items |-> db[i].backup],
       held <- Held,
       arrived <- remote

\* The queue keeps the promises of Delivery: what is called synced has arrived,
\* only the holder of an item says how an attempt ended, only an open item is
\* taken up.
Delivers == D!Spec
=============================================================================
