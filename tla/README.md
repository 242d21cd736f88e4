# Verification of Backup Manager Local

TLA+ models, TLC runs and TLAPS proofs about Backup Manager Local: the server of
this repository that fetches configuration backups from network equipment (SSH,
FTP push, OLT drivers), stores them, retains or trashes them, and copies them to
external destinations. Everything here is translated from the source; the tests
and docs were read beside it.

Files: `X.tla` is a component, `MCX.tla` instantiates it for TLC, `*.cfg` are the
runs, `XProofs.tla` holds theorems and their proofs
(`OperatorProofs` those of `Updater` and `Accounts`, `InstallationProofs` those of
`Schema`, `FtpAccounts` and `ServerSetup`), `PROJECT.json` lists
components, runs, mutants of the code that the properties must catch, the map
from definitions to source lines, hazards and theorems. To check a run:
`tlc -config Jobs....cfg MCJobs`; to check proofs: `tlapm JobsProofs.tla`.

## 1. The system

One SQLite file, one directory of files, and several processes that share them:
the web application (a single-threaded `wsgiref` server, `app.py:5260`: one
request at a time), and oneshot systemd services started by timers: the job
worker, the FTP importer, retention, cloud synchronisation, Telegram delivery,
the database guard, updates. Most of their cycles can also be started from
`cli.py` while the timer's own is running. There are no threads and no queues in
memory: all coordination is through rows, a few file locks and SQLite's single
writer. That is where the hard behaviours are:

* **the write lock** – a Python `sqlite3` connection becomes the writer at its
  first INSERT/UPDATE/DELETE and stays it until commit; readers see the last
  commit; another writer waits 15 s and then raises;
* **stale reads** – lists of ids are read at the start of a cycle and worked on
  for minutes or an hour; most updates name a row by id alone;
* **files are not transactional** – a move or an unlink is at once final, the
  row that describes it changes at commit, or never;
* **long external calls** in the middle (device session, rclone, Telegram, a
  privileged helper);
* **processes die** (`TimeoutStartSec`, kill, power) between any two steps.

| component | state | operations | correct when |
|---|---|---|---|
| Job engine `jobs.py`, `worker.py` | `backup_jobs`, `backup_job_runs`, `backup_worker_locks` | `run_once` (timeouts, schedule, queue, claim, execute, finish), `queue_run`, job, equipment and credential edits | one worker per device; a run executes once, ends, keeps its result; success means a stored backup |
| OLT operations `olt_operations.py` | `backup_operations` | create, complete a file, fail, expire | an accepted command is not a success; a late file never revives a run |
| SSH backup `ssh.py`, drivers | files, `backups` | connect, collect, validate, store | the row never names a file that is not there |
| Lifecycle `lifecycle.py`, trash handlers in `app.py` | `backups`, `ftp_received_files`, the directories | `execute` (retention, rejected files, purge), `restore`, `purge_backup`, `empty_trash`, move to trash | no available backup is lost; only trash is unlinked; the policy's newest stay |
| External copies `cloud_sync.py` | `cloud_sync_items`, targets, policies, the remote | `enqueue_backup`, `run_once`/`process_item`, `retry_item`, `cancel_item`, connecting | synced means uploaded; cancellation holds; queued items settle |
| FTP importer `ftp_importer.py` | `ftp_received_files`, the incoming directory | `scan_once`: register, wait for stability, claim, validate, store, reject | every upload is handled once, none is lost |
| MikroTik pairs `artifacts.py`, `mikrotik_ftp_uploads.py` | operations, artifacts, uploads | correlate two files, complete, conflict, expire | both or neither in any order; no late success |
| Telegram delivery `telegram_backup.py` | `telegram_backup_items` | `run_once` with recovery of interrupted sends, retry, cancel | leases respected; the queue drains; extra sends only after interruptions |
| Notifications `notifications.py`, `telegram_summaries.py` | alerts, notification queue | evaluate, deduplicate, dispatch, retry | an event is told once; the last word about a condition is its state |
| Migrations and guard `db.py`, `database-guard.py`, `deploy-update.sh` | schema versions, the file itself, its copies | `migrate` with backup, copy, replace | versions are a beginning of the manifest; the data is kept and served |
| Updater `updater.py`, `update_repository.py`, `update-helper.py` | `update_operations`, the installed files, backups | check, download, stage, apply, roll back | one installer; every installed version can be taken back |
| FTP accounts `ftp_accounts.py`, the helper | `ftp_accounts`, the server's user database | create, reset, rotate, disable, delete | the server accepts exactly the live rows |
| Server setup `enable-ftp.sh`, `install.sh`, `configure-https.sh` | configuration files, units, nginx | copy, replace, test, put back | a refused or undone script leaves the machine as it was |
| RouterOS over SSH `mikrotik_ftp_push*.py` | the router's script, scheduler and globals | install, repair, remove, run, test | an undisturbed session leaves what it says; only a new run confirms |
| Accounts `app.py`, `settings_center.py`, `admin_password_reset.py` | `users`, `sessions`, whether setup is done | log in and out, change a password, set up, create and update users, import them, reset a password from the command line | a reset does all of what it says or nothing; an installation keeps an administrator |
| Storage, observability, reports, dashboard, pages | | | |

How they interact: the job engine creates operations that the importer completes,
fails or expires; the importer and the SSH backup create rows of `backups`, which
the lifecycle trashes and purges while the two delivery queues still hold them;
notifications read the audit log that all others write, inside the worker's
transaction; the guard, the migrations and the updater replace the file under
everybody. `PROJECT.json` lists every component with what is modelled, and the
hazards at the lines where they bite.

## 2. How the code is abstracted

* **The single writer.** `db` is what is committed, `tx` the writing
  connection's copy, `writer` who it is. A write changes `tx` and takes the lock,
  a commit makes `tx` the new `db`, a crash throws it away. A process sees `tx`
  if it is the writer and `db` otherwise. An operation that finds the lock taken
  waits (its action is disabled) or gives up after 15 s (an action of its own,
  or a crash, as the code has it).
* **Atomic steps** are the stretches between two points at which another process
  can see or change something: a commit, a first write, a file operation, a
  read whose result is used later, an external call, a command of an SSH session.
* **Times** are kept as what is left of them (ticks to a timeout, a lock's end,
  the next attempt, the end of trash retention), so that behaviours are infinite
  with finitely many states.
* **Data**: names, paths, hashes and messages are gone except where a branch
  depends on them (a NULL path, a hash that no longer matches, whether a file is
  where its row says, which of several contents it has).
* **One web request at a time.** A request's check and its update are separate
  steps where another process can come between; two requests never overlap, but the
  commands of `cli.py` are processes of their own: each of them is a client beside
  the web application where both ask the same of a queue (`CloudSync`,
  `TelegramQueue`).

Composition: `ServerSetup` EXTENDS `FtpAccounts` and runs the scripts next to the
web application's requests; `CloudSync` and `TelegramQueue` both implement
`Delivery`. Elsewhere a component sees its neighbours as environment actions that
do whatever the neighbour may do: `Jobs` has the importer's effect on runs
(`OltCompleted`, `OltLate`, `OltExpired`), the queues the lifecycle's effect on
backups (`MoveBackup`), `FtpImporter` any other transaction (`OtherWrites`).

## 3. The modules

**Jobs.** `run_once` is `Wake` (mark_timeouts reads), `Sweep` (first write:
timeouts, expired locks), `EnqueueDue` once per due job, `SelectQueued`, then per
run `Claim`/`SkipLocked`, `OpenDevice` or `RunLocally`, and `DeviceSaved`,
`DeviceWaiting`, `DeviceFailed`, `TriggerFailed`; `EndCycle` is the commit of the
connection's context. `runs`, `jobs`, `locks` and `off` are the rows that decide
anything; `disk` counts files stored, `execs` how often a run was handed to its
method. `WebCheck`/`WebInsert` are the two halves of `queue_run` in a request; the
other requests create, edit, run and switch jobs, equipment and credentials, and
`ImportConfiguration` is the settings import. A run copies its job's equipment and
method when it is queued (`TaskOf`); an edit may change the job's method, an import
both, and the run keeps what it was queued with. A tick is a minute; `late` records
that one passed between a claim and the worker's next write, which SQLite's 15 s
bounds.

**Lifecycle.** `execute` is `Select` (candidates, before any write), `Begin` (the
run's row: the runner becomes the writer), `MoveOne` per candidate,
`TrashRejected`, `PurgeOne` per expired backup, `PurgeRejected`, `EndRun`;
`AbortRun` is the exception for a row without a path. The web handlers are an
`Ask...` with their checks, `WebMove` or `PurgeUnlink` on the file, then the
update by id; `WebLocked` is the 15 s limit between the two. `place` says in which
directory each file is, `rotten` which decayed. `SaveStart`/`SaveEnd` are a backup
being stored meanwhile. `Surplus` is what the policy gives up; `misled` is a history:
runs for which a request has trashed a backup since they made their choice. A tick is a
day.

**CloudSync.** `run_once` is `Start` (the list of due ids), then per item
`PassOver`, or `Examine` (status and window read, eligibility and hash computed),
`Refuse` or `Claim` (committed), `Upload` (no transaction), `Record` (written, not
committed), and `Finish` (commit, lock released). A statement the unique index
refuses raises and ends the run (`Abort`). `AskRetry`, `AskCancel` are the checks
of a client's request, `Answer` its update by id: `asks` has one for each of the
clients, the web application and the command line, so a cancellation may come between
the two halves of a retry. `remote` is what the destination
holds; rclone's `copyto --immutable` never replaces or removes a file there.
`ManageTarget` is the destination's life: policies, its test, the Google
authorization and its callback, the settings import.

**Delivery** is the abstract specification of both queues: nothing travels that no
item asked for, what is called sent has arrived, only who holds an item says how
an attempt ended, only an open item is taken up, what was accepted stays known.

**TelegramQueue.** `run_once` writes first (recovery of interrupted sends), so the
process is the writer except while a document travels: `Start`, `Proceed` (pass
over, claim, send, record, finish), `Crash`, `LockedOut`. `ripe` is an expired
lease or wait. An item is a backup for one topic of the destination
(`idempotency_key`); no second one is queued for a backup while one that is not
cancelled exists (`Duplicate`). An answer that cannot be parsed is permanent although
the document arrived. A request of a client, the web application or the command line, is `Ask` (its check) and
`Answer` (its update by id).

**FtpImporter.** `scan_once` is `Start` (the clock, `expire_due_operations`, the
listing), then per name `Look`, which goes on to one of `Detect` (new row),
`Observe` (size or mtime changed), `RejectFile`/`RejectRow` (not allowed) or
`Claim` (committed at once); a claimed file goes through `Correlate`, `Move`,
`Judge` and ends in `TurnDown` (the artifact), `SetAside` (the file) and `RejectRow`, `Unlink`/`Repeat`, `Store`, `StoreFails` or `Fail`;
`End` is the commit of the connection's context, `Abort` a scan that is killed or
waited 15 s. `up` is what each upload is, `place` the directory it is in.
`db.rows` are the rows of `ftp_received_files`; `op` and `arts` the one operation
of a RouterOS account and its artifacts; `sent` counts deliveries handed to the
queues. `due` is the clock a scan fixed at its start, `past` the real one.

**Schema.** A deployment (stop everything, copy, migrate, start), an installation
or command line (which stop nothing) and the guard (hourly copy, replacement of a
corrupt file) over `live`, the file at DB_PATH; `conn` says whether a process has
that file open or one moved aside. Each migration is a transaction of its own;
`Rebuilding` ones check foreign keys only after COMMIT, and one that loses a reference
(`LosesReference`) is recorded and fails. `sound` is what `integrity_check` says, which is
all that the copy before a migration is asked, `tied` what `foreign_key_check` says. A
guard whose copy is invalid once it is in place puts back the file it had moved aside
(`evidence`) and leaves the services stopped until its next run (`RestoreInvalid`).

**Updater.** Rows of `update_operations`, the files installed (possibly mixed),
packages, staging and backups; the helper's validate, stage, apply, migrate,
restore and roll back as steps that can be killed; `moved` are the processes whose
open database was replaced by a restored one.

**Notifications.** The worker's cycle (scan of the audit log from its cursor,
conditions' begin, cooldown and recovery, queueing), then dispatch (`Claim`, `Send`,
`Record`) and summaries, which the command line may send as well. `word` is the
last message the chat got about a condition; every alert is taken to be critical
from its beginning. A message's key has the place it goes to (`Key`, `place`): after
`Redirect`, another destination or topic, the same event would be queued again, were it
not for the cursor. What a cycle makes of the tables before it sends is one operator,
`Prepared`; its lists follow the order of ids (`Ascending`). The names that `RouterPush`
has too begin with `Notify`, since one proof module has both.

**FtpAccounts, ServerSetup.** A request commits its row, calls the helper, commits
the verdict; the helper reads the committed row itself. The scripts are a sequence
of copies (`kept`), replacements and tests over `files`, with `Cut` at any step.
The user database is among what is copied and put back. `configure-https.sh` writes
`sites-available/backup-manager-local`, `install.sh` `backup-manager-local.conf`: two
sites, `https` and `site`, each with its own link (`linked`), and nginx loads all that are
linked or none; `served` is what it last loaded. The helper may fail before it changes
anything (`HelperFails`) or between the file of `pure-pw` and the server's database
(`HelperHalfway`). Three histories say which
logins are in doubt: `clouded` (a helper failed, or two rows share a username),
`reverted` (a copy was put back over what was done since) and `touched` (dealt with
since the copy). Both modules' names begin with their component where `Schema` has
the same one (`FtpInit`, `SetupSpec`), since one proof module has all three.

**RouterPush.** One SSH session per request, a command at a time, next to the
router's own scheduler, script and imports that outlive a lost session; the page
that follows a requested run, the test of the upload, the importer that takes the
files. `Complete` ends a test as validated, or as failed when its file cannot be taken:
the transaction has set the row to 'validating' by id before
(`mikrotik_ftp_uploads.py:166`), so the `status!='expired'` of `complete_upload` and
`fail_upload` never finds an expired one.

**Accounts.** A request is `BeginRequest` or `BeginLogin` (the transaction of `current_user`,
`handle_login`'s read: who asks and what their row says, `MayAsk`), then one of
`Login`, `ChangePassword`, `Setup`, `CreateUser`, `UpdateUser`, `Import`, or `GiveUp`;
`Logout` reads and deletes in one. `reset_admin_password` is `Inspect` (a connection
of its own, closed again), `Select`, `BackUp`, `Commit` (`BEGIN IMMEDIATE`, the update
guarded by the old hash) and `Check` or `Restore`; `Cancel` is every error before the
commit, `Dies` a process that is killed. `data` has users, whose sessions are open, setup
and one count for the tables the tool compares (`Work` changes it); `copy` is the tool's
copy, `since` what was committed after it. `overtaken` is a history: a request of an
administrator wrote after a restore had, in its middle, taken back what it had
checked. A hash is a number nothing remembers: it is salted, so the same password
makes another one. Whether the seeded user's password is the one that was installed is
`first`, which every change of that user's password may leave TRUE. Roles are
administrators and others.

## 4. The runs

| run | instance | shows |
|---|---|---|
| `jobs_safety` | 2 workers, an SSH and an OLT job of one device, 2 runs, 1 crash | `EquipmentExclusion`, `SuccessIsBacked` |
| `jobs_life` | 1 worker, an OLT job, 2 runs, a crash, an edit | `ExecutedAtMostOnce`, `ResultsAreFinal`, `RunningEventuallyEnds`, `QueuedEventuallyStarts` |
| `lifecycle` | timer and command line, 2 backups, a rejected file, a request, a crash, a decayed file | `NoBackupLost`, `UnlinkedOnlyFromTrash`, `RetentionRespectsPolicy`, `ExpiredEventuallyLeaves` |
| `cloud` | the timer's worker, web and command line as clients, 2 backups, 2 items, 3 requests, a crash, an edit | `SyncedIsUploaded`, `CancelHolds`, `QueuedEventuallySettles`, `Delivers` |
| `importer` | 1 importer, a pair, a plain and a loose name, 3 contents, 2 uploads, 3 rows, 1 fault | `BackupsHaveFiles`, `SuccessIsComplete`, `BothOrNeither`, `UnlinkedOnlyIfStored`, `TakenOrStranded` |
| `telegram` | timer and command line, 2 items, 1 fault, 1 request | `AttemptsExplained`, `LeaseRespected`, `QueueDrains`, `Delivers` |
| `schema` | a deployment, an installation, the guard with 2 copies, 2 migrations, the last a rebuild, 1 fault | `PrefixApplied`, `DataKept`, `ServesItsData`, `Recovers` |
| `updater` | unit and shell, 2 packages, 2 versions, a download, 1 kill | `OneInstaller`, `Reversible` |
| `notifications` | 3 events about 2 backups, 2 places, a condition, tests, summaries (each kind alone), 1 fault | `EventsToldOnce`, `LastWord`, `AlertsReach` |
| `router_push` | 2 requests, 2 runs, 2 tests, 1 fault | `ConfirmedIsNew`, `UndisturbedHolds`, `TestsEnd` |
| `accounts` | 2 users, 1 row of work, 1 commit beside the tool | `ResetIsWhole`, `Administered` |
| `server_setup` | 3 accounts and no script, or 1 and 1, or 0 and 2; 2 usernames, 2 faults | `ServersAgree`, `RollbackRestores`, `SiteReturns` |

Four more configurations are not among the runs of `PROJECT.json`. Three check what a
document or a page promises and the code does not keep, and end with a counterexample
(section 7): `LifecycleNewest.cfg` (`MCLifecycle`, one runner and a request: `NewestStay`),
`ServerSetupHttps.cfg` (`MCServerSetup`: `RefusalRestores`), `AccountsFirstPassword.cfg`
(`MCAccounts`: `FirstPasswordEnds`). `TelegramTopics.cfg` (`MCTelegramQueue`) passes: one
backup for two topics, two clients and three requests, with the safety properties of
`telegram`.

Every property is stated, with the code it is about, above its definition; one
type invariant per module is part of one of its invariants or proved. The
exceptions a property names are the code's own behaviour: an upload that was
interrupted is never taken up again (`Abandoned`; `observability.py` only reports
it), a name whose claim outlived its scan stays `processing` (`Stranded`,
`docs/MIKROTIK_FTP_PUSH.md:234`), a row without a path makes every later run raise
(`Poisoned`), a guard killed between moving the database aside and putting a copy
back leaves no database (`Torn`), a helper killed mid-apply is never undone
(`faults = 0` in `Reversible`), a retention run whose choice a trash request has
overtaken trashes more than the policy (`misled` in `RetentionRespectsPolicy`, and
`NewestStay` shows it), a cancelled item comes back by a process that had taken it up or
a retry that had passed its check (`CancelHolds`), a refused site without a predecessor of
its own name stays linked (`SiteReturns`, and `RefusalRestores` shows it).

**Bounds.** Two workers, runners, scans or helpers show every race the code has,
because each conflict is between two statements of two connections; a third would
only queue behind the writer. Two runs, items or uploads suffice for "a second one
while the first is active", for a pair, a repetition, a conflict and an overwrite.
One fault can fall at any step; `server_setup` has two, because a rollback can
itself be cut. Three requests are the longest interesting chain in `cloud`
(enqueue, cancel during the upload, enqueue again); callbacks of an authorization
are not counted by `MaxEdits`. `MaxAttempts` 2 has a retry and an exhaustion;
`telegram` has 1, so that every retry is one a request or a fault explains. In `schema`
the one fault is a corruption, a killed guard or a rebuild that loses a reference.
Two places, two clients and two topics suffice for a change of place between two events,
a retry beside a cancellation, and a second item of one backup.
Timeouts are one or two ticks: what matters is which of two deadlines is first;
`ConfiguredTTL` is shorter than `RunTimeout` in `jobs_life`. In `jobs_safety` jobs
exist at first or are created, credentials are there or not, and edits are left to
`jobs_life`. In `accounts` one commit between the copy and the last check is enough for
a restore that takes something back, since the check may also fail for a reason of its
own (`PRAGMA integrity_check`, an unreadable file). The run does not go on from states
where `overtaken` holds (`NotOvertaken`): `Administered` says nothing of what follows,
and `ResetIsWhole`, which does, is proved for all states (section 5); its VIEW leaves out
`first`, which no step and neither property reads.
Where a theorem states the same property (section 5), the bounds do not matter.

**Fairness.** `WF` of a process's own steps: timers start cycles for ever, device
sessions, rclone, Telegram transfers and SQLite waits have timeouts, so a step that
stays possible is taken. `WF(Tick)`: time passes. `WF(Serve)`, `WF(SaveEnd)` in
Lifecycle: a request or a save, once begun, ends. `SF(Examine)` in CloudSync: the
synchronisation window is open again and again when a run looks (a window is at
least a minute of every day, runs are every minute). `SF(Start)`, `SF(Proceed)` in
TelegramQueue and `SF(Tick)` in Notifications: others hold the write lock again and
again, but not for ever, and cycles leave minutes between them. In FtpImporter
`WF(OtherCommits)` and `WF(Calm)`: foreign transactions end, an untouched file
becomes stable. `WF(Recover)` in Schema: the guard's timer. `WF(TimePasses)`,
`WF(Expire)` in RouterPush: the importer scans, and every scan expires old tests.
Nothing is assumed of users, crashes, edits, uploads or devices' answers.

`CHECK_DEADLOCK FALSE` stands where the bounds let the system stop: all requests
made and all items settled (`telegram`), all versions applied (`schema`), all
requests and runs used up (`router_push`, `server_setup`).

## 5. What is proved

TLAPS checks the following for every value of the constants the module's named
assumption allows (bounds are natural numbers, `NoOne` is no process, row or
item; the rest are facts the code fixes, such as `RunTimeout > 0`). TLC checked
each inductive invariant on a run first. `IInv` is the inductive invariant of most
modules; below is why the property alone would not do. Of the 40 properties of the
runs, 31 are theorems; the other nine are liveness.

**JobsProofs** – `TypeCorrect`, `Exclusion`, `Evidence` for any number of workers;
`Once` and `Finality` for one worker (`Alone`), the latter with
`OpTimeout < RunTimeout`.
Exclusion speaks of what two workers are doing, while what keeps them apart are
rows: an executing worker owns both locks of its run's job in the committed table
(`ClaimInv`), and until its next write those locks outlive the tick that may pass
(this uses that `run_once` takes a lock for longer than the run's timeout).
`Evidence`: both copies of the table count no more backups than files (`BackedInv`).
`Once`: a queued run has not been executed and a claim is committed before the
device is reached (`OnceInv`). `Finality` needs three deadlines in order
(`FinalInv`): a run seen by a sweep has nothing left or is already timed out, an
operation that waits ends before its run, and a run just claimed has all of its
time left, less the one tick. Two workers break both: the second claims from a list
it read before the first finished.

**LifecycleProofs** – `NothingLost`, `OnlyTrashIsUnlinked`, `PolicyRespected`.
An open transaction only deletes what is trashed, and only a run trashes, within
the policy (`PartInv`); unless it is misled, what a run chose stays beyond the policy,
counted over the newer backups that are available, and, if it is
trashed meanwhile, freshly so (`TodoInv`): saves and restores only add available
backups, a purge takes none, another run leaves the newest it has to leave; a file that a request is putting back
belongs to no row a purge has on its list (`WebInv`), because days do not pass
while something is under way and the purge list is of rows trashed before. Newer
backups are counted with cardinalities of finite sets.

**CloudSyncProofs** – `TypeCorrect`, `Uploaded`, `Cancellation`, `Attempts`,
`Implements`. A row keeps its backup in both copies of the table, and what a
process copied is the backup of the row it is about to record, whatever a request
did to that row meanwhile. `Cancellation` says of every step what it may do with a
cancelled row: a process takes up only what the committed table shows as pending, and a
client's retry passes its check only on a failed or skipped row; what is left are those who
have been under way since before the cancellation. `Attempts` (`AttemptsBounded`, checked only here) holds
if every process takes the file lock. `Implements` is the refinement of `Delivery`:
each action maps to a set of moves of items or a stutter (`Mappable`, built from
`Held`, `Moved`, `TakenUp`, `Arrives`).

**TelegramQueueProofs** – `TypeCorrect`, `Leases`, `Implements`,
`AttemptsAreExplained`. What is or will be
called sent has arrived (`SentInv`); the list a process works on shows the rows as
they are committed, or as the recovery it has not committed yet (`ListInv`). `AttemptInv` is why an item is
tried no more often than `MaxAttempts`, the requests and the faults explain,
although all items share one count of requests and one of faults. Each item has, in each copy of the
table, chances: one if its row waits to be taken up or its send is one nobody answers for, one
for each process whose failure would leave it waiting, one if a request is about to
retry it. Below `MaxAttempts` an item has at most one chance more than there were
requests and faults; from there on its attempts and chances together are within
`MaxAttempts` and their number. A step that gives an item a chance takes another one or
is paid for by a request or a fault; the committed copy has one fault to spare while
someone writes, because a crash would take the answer back.

**InstallationProofs**, of `Schema` – `RecordsABeginning`, `DataIsKept`,
`ItsDataIsServed`, `CopiesFirst`. Who migrates holds the migration lock and has the rest of the
manifest before it (`LockInv`, `OrderInv`); every copy the guard keeps opens and is
sound (`CopyInv`) and has the data (`DataInv`), unless it was killed mid-way; a
copy of no later version stands behind whoever applies (`BackInv`).

Of `ServerSetup` and the accounts – `RefusedIsUndone` (`RollbackRestores` and `SiteReturns`), `ServerFollowsRows`, for any
number of accounts, usernames, devices and failures. At each step of a script, `kept` has
the old content of everything that may differ from the beginning (`EnableInv`,
`SiteInv`), and a script that ends has put it back (`EndInv`; together `ScriptInv`). For
the logins, what a request between its two commits leaves behind must fit both ways it
can end: the row it read, the row it wrote and the login that the helper has or has not
changed (`FlightInv`, `SettleInv`), while no other live row has its username unless that
name is in doubt; a username that no request touches has the login of its live row, or
none (`AgreeInv`). A copy of the user database agrees with it on every login not dealt
with since (`KeptInv`), and `install.sh` has one wherever it may go back to one
(`HasPure`). Each step is shown to be `Fine`: what it does not deal with stays as it is
(`Rest`), and a username whose request ends is in order (`Released`).

**OperatorProofs**, of `Updater` – `OneAtATime`, `AlwaysReversible`. The lock is the transaction a
helper keeps open (`LockInv`); a row that names a backup has a complete one, and so
has every row in every backup (`CoverInv`); without a kill, what is in place is
good except in the stretch in which files and database do not belong together, and
in that stretch it is what the end to come needs (`GoodInv`).

Of `Accounts` – `ResetsAreWhole`, `AlwaysAdministered`, for any number of users, commits
beside the tool and rows. The selected user is in the tool's copy from the moment
it is made, and the new hash is none that the row, the copy or the tool remembers
(`RunInv`, `NewHashIsNew`), so nothing the services commit brings either back; without a
commit of theirs the database is the copy, or the copy with the reset in it (`ToolInv`). An installation keeps an administrator
(`Administered` is about hashes, not the passwords they stand for)
because who asked as one is one still when the request writes: only another request or
a restore could have changed it, requests do not overlap, and a restore without a commit
since the copy puts back the row that was read; a copy has an administrator as long as
the database has (`AdminInv`).

**FtpImporterProofs** – `StoredIsThere`, `CompleteSuccess`, `DeliveredTogether`,
`NoLateSuccess`, `ImportIsFinal`, `OnlyRepeatsAreUnlinked`, for any number of scans
at once, names in a pair, uploads and faults. A file in processing and the row
claimed for it belong to one scan (`JobInv`, `RowInv`, `ApartInv`); the committed
tables and the writer's copy each tell the truth about the files, so it does not
matter which survives (`DataInv`); what a scan decides about an artifact is written
over tables it has committed itself just before. That the last row of a name is
well defined rests on a lemma proved here: a nonempty set of row numbers has a
greatest element.

**ExchangeProofs**, of `RouterPush` – `TypeCorrect`, `NoOlderRunConfirms`,
`AloneItHolds`, for any
number of requests, runs, tests and faults. The session that reads the last run's
name has seen a run begin, and the router has forgotten every name or keeps the
last one (`BaseInv`, `PageInv`). A session that found no import at work knows the
router: only its own commands change the script and the scheduler, and what it has
read is still true when it decides (`QuietInv`).

Of `Notifications` – `NotifyInvariant`, `ToldOnce`, `LastWordStands`, for any audit log,
queue, conditions, limits and losses. Both properties speak of what the chat has seen,
the tables of what is queued. A key is queued once and a row without a reason to be
repeated that waits has not been heard, unless it is the one on its way (`KeyInv`; the
key's reason comes with the lost answer or with the death that leaves its row in
processing). The summary has no row that is claimed: without a reason to repeat it, who
sends it has held the lock since it read the run, and whoever reads the run later finds
it sent (`RunInv`). In each copy of the tables, the one message under way about a
condition, or the last one heard if there is none, says what its state says (`WordInv`);
that the dispatcher sends only what is committed ties the copies together (`HoldInv`).
That a list in ascending order has each number of its set once is proved from
cardinalities: members have different ranks, and there are as many of the one as of the
other.

## 6. What is only model-checked

All liveness: `RunningEventuallyEnds`, `QueuedEventuallyStarts`,
`ExpiredEventuallyLeaves`, `QueuedEventuallySettles`, `TakenOrStranded`,
`QueueDrains`, `Recovers`, `AlertsReach`, `TestsEnd`. Fairness needs ENABLED, which
is out of the prover's reach. Every safety property of the runs is proved.

`ExpiredNeverSucceeds` and `ImportedStays` are the reverse: they need two importers to
be violated, the `importer` run has one, and `NoLateSuccess` and `ImportIsFinal` prove
them for any number. `BackupBeforeMigration`, about the order of steps within one process,
is left to `CopiesFirst`.

## 7. Seen while modelling

Where the code, its docs and its comments part, or where a legal sequence ends
somewhere surprising. The models contain these behaviours; `NewestStay`,
`RefusalRestores` and `FirstPasswordEnds` state three of them as they are promised.

*Jobs, equipment, settings.* `queue_run` checks and inserts in two steps, so the
scheduler can queue a second run of a device between them although
`equipment_run_service.py:45` promises a refusal. `jobs.py:308` persists the claim so
that the database stays writable during the session; the audit row that follows
(`ssh.py:882`) takes the lock again. Archived equipment set active again keeps its
jobs disabled. An imported schedule has no `next_run_at` (`settings_center.py:471`): an
enabled one never runs until it is edited, while one turned off and on by imports
may be due at once; an import also reactivates deleted jobs and archived equipment,
and lists failed connections as configured (`settings_center.py:520`). Creating an
inactive credential deactivates the active one (`ssh.py:303`, `app.py:1888`).

*Accounts.* The page of the first access says that the provisional password will be
invalid after the change (`app.py:1034`); `handle_change_password` compares the new one
with its confirmation and the policy, not with the current one, and the installed
password (`db.py:40`) satisfies the policy, so it may stay (`FirstPasswordEnds`).
`docs/ADMIN_PASSWORD_RESET.md` asks for stopped services and says not to
restore automatically over a database in use, but nothing verifies the first and the
tool does the second (`admin_password_reset.py:318-320`) when its last check fails; that
check compares counts read before the copy, so a service that stores one backup
meanwhile is enough, and what was committed since the copy is gone. A database whose
migrations were all applied in one second is taken for a wrong one
(`admin_password_reset.py:144`). An imported file can leave no active administrator
(`settings_center.py:457`), and the tool then has none to select. A request that a
restore overtakes is carried out for an administrator who may not be one in the restored
database. An earlier `Administered` excepted only that write itself; it held on the
`accounts` run, and its proof failed. With two commits beside the tool TLC has the case:
the first password is changed and the setup request begun, a restore brings the first
password back, the request marks the installation as set up, and the next reset, undone
in its turn, leaves it so with the hash it was installed with; hence `overtaken`.

*Lifecycle.* `docs/BACKUP_LIFECYCLE.md:30-31` keeps the most recent backups; candidates are
read before the run's transaction (`lifecycle.py:171`), and when a newer backup is moved to
the trash in between, the run trashes the older one too, which has become one of the newest
(`NewestStay`). A restore (web) that waited for a purge's transaction makes a deleted row
available again (`lifecycle.py:328`; `docs/BACKUP_LIFECYCLE.md:7-11` has no way out of
deleted). The 'failed' status of a retention run is rolled back with it.

*Delivery queues.* A `cli cloud-retry` that has passed its check queues the item again
although the web application has cancelled it since: both update by id
(`cloud_sync.py:287-300`, `cli.py:585-594`). `cli cloud-run-once` does not take the exclusive lock
`docs/CLOUD_SYNC.md:7` promises. Asking Google to authorize an existing working
destination puts its connection to 'failed' (`app.py:4734`), so its items are skipped
until the callback; an authorization whose exchange fails stays consumed.

*Importer.* After a conflict the original content, sent again, is stored and delivered a
second time (`mikrotik_ftp_uploads.py:192,219` against
`docs/MIKROTIK_FTP_PUSH.md:216`). A conflicting upload after the deadline turns an
operation from expired to failed. `_reject` names its row by id alone, so an importer
that finds the quota used up by another one's import of the same file marks the
imported row rejected (`ImportedStays` allows that one change).

*Notifications.* `docs/NOTIFICATIONS.md` lets critical alerts through during
maintenance; enqueue suppresses everything, a lasting condition writes a suppressed
row every minute, and a recovery is suppressed too. A retried alert can arrive after
its recovery. Pending rows stay while the channel is disabled and are sent when it is
enabled. `process_summary_runs` claims nothing, so the worker and
`cli telegram-summary-run` can both send a summary the deduplication key was to keep
single; summaries are sent with the write lock held. A stale service snapshot
counts as a recovery.

*Migrations and guard.* A guard killed between `os.replace` and the copy leaves the
database missing; a missing file makes its next run raise with the services stopped,
an empty one created meanwhile counts as valid and rotates the good copies out. The
guard takes no migration lock; a deployment's quiesce may kill it in the middle of a
recovery; an installation in its window serves a fresh database until the copy is put
back. Rebuilding migrations check foreign keys after their COMMIT.

*Updater.* A package with a pending migration always fails with "database is locked"
(the helper's own transaction) and is restored. The 'rolled_back' of a rollback goes to
the file that was replaced: the row is 'ready' again without a backup, and its next
application fails with STAGING_EXISTS. Files added by a failed update stay. Failure
handlers overwrite any status with 'failed'. A second helper that validated against
the old version can downgrade. A crash during a download leaves 'downloading', which
`queue_download` returns for ever; `cancel_download` is never routed. `_version` compares
pre-releases as strings (rc.10 < rc.9) where `update_repository` compares numbers. A
downloaded update is 'ready' under another uuid than its package
(`update_repository.py:359`, `update-helper.py:20-23`, `docs/UPDATE_REPOSITORY.md:15`), so
it can never be applied. A failed check's status and error are rolled back by its own
exception (`update_repository.py:296-299`).

*FTP accounts.* Usernames are unique among live rows only, the server's database is keyed by
username: disabling or deleting an old row acts on its namesake's login. Creating an
isolated account calls the helper inside an uncommitted transaction, whose row the
helper cannot see: always reverted. A lost answer to a creation deletes the row and
leaves the login ("Conta excluída. Novos envios estão bloqueados", `app.py:3769`). A
failed reset keeps the new secret with the server's old password while the page
(`app.py:3846`) says the old one stopped working. Deleting an account leaves its
integration active; resetting its password does not reach the integration's secret.
`sync_account` calls an account synced because the username exists. A removal that fails
between `userdel` and `mkdb` (`ftp-admin-helper.py:88-89`) leaves the login in force; when
it is tried again the user is not found, nothing is rebuilt and the account is reported
disabled, while the server accepts the login until some other request rebuilds. Archiving equipment
moves files, fails, and commits what it moved.

*Server scripts.* `enable-ftp.sh` takes an item not yet copied for one that was absent: a
failure while the copies are made removes `/etc/pure-ftpd` with its accounts, the
sudoers file, the helper and the units; a rollback puts back the user database of the
beginning, so accounts changed meanwhile are lost or outdated. `install.sh` leaves
Pure-FTPd stopped when `visudo` refuses, keeps `ftp_enabled=1` when the server does not
start, lays the old configuration over the new, and leaves a dangling link when
`nginx -t` refuses a first site. `configure-https.sh` without a previous site of
its own name, as after every ordinary `install.sh`, leaves the refused one linked and says
the previous version was restored (`configure-https.sh:72-84`, `docs/SETTINGS.md:39`); nginx
goes on until it is restarted, and then does not start (`RefusalRestores`).

*RouterOS.* Rotating the credential leaves the fingerprint unchanged, so installing over
SSH answers that nothing is to change and the device keeps the old password
(`docs/MIKROTIK_FTP_PUSH.md:42`). A removal that fails midway leaves the page saying
installed. The name of the last run is read by a second command. A test's failure
handler overwrites 'validated' and 'expired', and so does the importer, whose
unguarded update at `mikrotik_ftp_uploads.py:166` defeats the guards that follow; every test has the same file name. A
session lost while the script runs may leave its busy global set, which refuses every
run until a reboot. All pages wait while an SSH session is held.

## 8. What is not modelled

* Terminal dialogues, drivers and file validators: an outcome is a choice. HTML,
  formatting, statistics, reports and the dashboard: nothing to interleave.
* Around accounts: the count of failed logins, the audit log, `temp-password` and the
  reset tool without its confirmation, which only read; cryptography; sessions' tokens
  and their eight hours (any session may be gone when a request begins).
* In the modelled parts: `LIMIT`s of a cycle (but for those of Telegram and
  notifications), audit rows other than for their taking the write lock, several
  destinations or policies per backup (rows of different destinations share only
  the worker's cycle), simulated destinations (no remote copy exists for them, so
  `SyncedIsUploaded` is about rclone destinations), jobs of method `manual`, which
  run like `dry_run`; the importer's pair flow with `backup_artifacts_v2_enabled=0`,
  installation test files, and content the equipment goes on writing after a file was
  stable; the update repository's index, signatures; packages, permissions and the
  firewall in the scripts; the script text of the RouterOS page.

## 9. Plan

Done: the modules above, and the inductive proofs about them. Left, in this order: the
policies of Telegram and retention; the account settings and `ftp_diagnostics`.
