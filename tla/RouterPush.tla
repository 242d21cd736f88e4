----------------------------- MODULE RouterPush -----------------------------
(***************************************************************************)
(* A MikroTik router that pushes its backups by FTP, and the web requests  *)
(* that look after it over SSH: install, repair and remove the managed     *)
(* script and scheduler, run a backup now, test the upload.                *)
(*                                                                         *)
(* Each request is one SSH session, a command at a time; the web server    *)
(* serves one request at a time. The router goes on by itself: its        *)
(* scheduler runs the script, and an import or a run whose session was     *)
(* lost may go on.  The importer takes the files that arrive.              *)
(***************************************************************************)
EXTENDS Naturals, Sequences, SequencesExt

CONSTANTS
    Format,         \* file types the integration asks for
    MaxRuns,        \* bound: runs of the script
    MaxTests,       \* bound: upload tests
    MaxRequests,    \* bound: requests
    MaxFaults       \* bound: lost sessions, failed runs, refused files, reboots, restarts

ASSUME PushAssumption ==
    /\ Format # {} /\ Format \subseteq {"backup", "rsc"}
    /\ MaxRuns \in Nat /\ MaxTests \in Nat /\ MaxRequests \in Nat /\ MaxFaults \in Nat

VARIABLES
    device,     \* the router: scripts, schedulers, the run under way, globals
    imports,    \* installations the router is carrying out: the next command
    active,     \* whether the integration is active
    req,        \* the request under way
    served,     \* requests so far
    told,       \* whether the last request answered that all is well
    page,       \* the page that follows a requested run
    begun,      \* runs begun
    arriving,   \* files of runs in the receiving directory
    uploads,    \* rows of mikrotik_ftp_uploads
    tests,      \* rows of mikrotik_ftp_tests
    probe,      \* test file in the receiving directory: tests created before it
    matched,    \* test the importer has matched to the file it took
    faults      \* faults so far

router == <<device, imports>>
web == <<active, req, served, told, page>>
server == <<arriving, uploads, probe, matched>>
vars == <<router, web, server, begun, tests, faults>>

Idle == [op |-> "none"]
NoPage == [state |-> "none"]
NoRun == [id |-> 0, asked |-> FALSE, left |-> {}]

\* A script carries a fingerprint of the configuration it was made from: it
\* is current, or of an earlier configuration or release.  Schedulers are
\* counted: one that is not as expected is a divergence like any other.
Scripts == {"current", "outdated"}

Init ==
    /\ \E s \in {<<>>, <<"outdated">>, <<"current">>}, n \in 0..1 :
         device = [scripts |-> s, scheds |-> n, run |-> NoRun, busy |-> FALSE, base |-> 0]
    /\ imports = {} /\ active = TRUE
    /\ req = Idle /\ served = 0 /\ told = FALSE /\ page = NoPage
    /\ begun = 0 /\ arriving = {} /\ uploads = {}
    /\ tests = <<>> /\ probe = 0 /\ matched = 0 /\ faults = 0

At(step) == req.op # "none" /\ req.step = step
Goes(step) == req' = [req EXCEPT !.step = step, !.read = <<>>]

\* The request answers and is over.
Answers(ok) == req' = Idle /\ told' = ok

(***************************************************************************)
(* The preflight: two counts, then what the script and the scheduler hold.   *)
(***************************************************************************)
Reading(n) ==
    CASE n = 1 -> {Len(device.scripts)}
      [] n = 2 -> {device.scheds}
      [] n = 3 -> IF req.read[1] = {0} THEN {} ELSE ToSet(device.scripts)

Preflight ==
    /\ (At("preflight") \/ At("verify")) /\ Len(req.read) < 3
    /\ req' = [req EXCEPT !.read = Append(@, Reading(Len(@) + 1))]
    /\ UNCHANGED <<router, active, served, told, page, server, begun, tests, faults>>

State(read) ==
    IF read[1] = {0} /\ read[2] = {0} THEN "not_installed"
    ELSE IF ~ (read[1] \cup read[2] \subseteq {0, 1}) THEN "duplicated"
    ELSE IF {0} \in {read[1], read[2]} THEN "partial"
    ELSE IF "current" \in read[3] THEN "installed_valid" ELSE "divergent"

Found == State(req.read)

Request(op, step) ==
    [op |-> op, step |-> step, read |-> <<>>, clear |-> imports = {},
     test |-> 0, baseline |-> {}, begun |-> 0]

Begins ==
    /\ req = Idle /\ active /\ served < MaxRequests /\ served' = served + 1
    /\ \/ \E op \in {"install", "repair"} : req' = Request(op, "preflight")
       \/ req' = [Request("execute", "preflight") EXCEPT !.baseline = uploads, !.begun = begun]
       \/ req' = Request("remove", "unschedule")
    /\ told' = FALSE
    /\ UNCHANGED <<router, active, page, server, begun, tests, faults>>

\* A test is recorded before the session, if none is under way.
Open == {"waiting", "late"}
ActiveTests == {t \in DOMAIN tests : tests[t] \in Open}

StartTest ==
    /\ req = Idle /\ active /\ served < MaxRequests /\ served' = served + 1 /\ ActiveTests = {} /\ Len(tests) < MaxTests
    /\ tests' = Append(tests, "waiting")
    /\ req' = [Request("test", "preflight") EXCEPT !.test = Len(tests) + 1]
    /\ told' = FALSE
    /\ UNCHANGED <<router, active, page, server, begun, faults>>

\* A failed test is noted whatever the row says by now.
TestFails == IF req.op = "test" THEN [tests EXCEPT ![req.test] = "failed"] ELSE tests

\* What the request does with the preflight's readings.
Decide ==
    /\ (At("preflight") \/ At("verify")) /\ Len(req.read) = 3
    /\ CASE req.step = "verify" ->
              Answers(Found = "installed_valid")
         [] req.step = "preflight" /\ req.op \in {"install", "repair"} ->
              IF Found = "installed_valid" THEN Answers(TRUE)
              ELSE IF Found # "not_installed" /\ req.op = "install" THEN Answers(FALSE)
              ELSE Goes("transfer") /\ UNCHANGED told
         [] req.step = "preflight" /\ req.op \in {"execute", "test"} ->
              IF Found # "installed_valid" THEN Answers(FALSE)
              ELSE Goes(IF req.op = "test" THEN "probe" ELSE "run") /\ UNCHANGED told
    /\ tests' = IF req.step = "preflight" /\ Found # "installed_valid" THEN TestFails ELSE tests
    /\ UNCHANGED <<router, active, served, page, server, begun, faults>>

(***************************************************************************)
(* Installing: a file is put on the router and imported.  The router       *)
(* carries out its four commands one by one.                               *)
(***************************************************************************)
Import ==
    /\ At("transfer")
    /\ imports' = imports \cup {[step |-> 1, asked |-> TRUE]}
    /\ Goes("import")
    /\ UNCHANGED <<device, active, served, told, page, server, begun, tests, faults>>

\* Bug for a mutant run: what was there is not removed first.
CommandKeeping(n) ==
    CASE n \in {1, 3} -> device
      [] n = 2 -> [device EXCEPT !.scripts = Append(@, "current")]
      [] n = 4 -> [device EXCEPT !.scheds = @ + 1]

Command(n) ==
    CASE n = 1 -> [device EXCEPT !.scripts = <<>>]
      [] n = 2 -> [device EXCEPT !.scripts = Append(@, "current")]
      [] n = 3 -> [device EXCEPT !.scheds = 0]
      [] n = 4 -> [device EXCEPT !.scheds = @ + 1]

ImportStep(i) ==
    LET rest == imports \ {i} IN
    /\ i \in imports
    /\ device' = Command(i.step)
    /\ imports' = IF i.step = 4 THEN rest ELSE rest \cup {[i EXCEPT !.step = @ + 1]}
    /\ IF i.step = 4 /\ i.asked THEN Goes("verify") ELSE UNCHANGED req
    /\ UNCHANGED <<active, served, told, page, server, begun, tests, faults>>

\* A name that is taken may be refused, which ends the import.
ImportRefused(i) ==
    /\ i \in imports
    /\ \/ i.step = 2 /\ device.scripts # <<>>
       \/ i.step = 4 /\ device.scheds # 0
    /\ imports' = imports \ {i}
    /\ IF i.asked THEN Answers(FALSE) ELSE UNCHANGED <<req, told>>
    /\ UNCHANGED <<device, active, served, page, server, begun, tests, faults>>

(***************************************************************************)
(* Removing: the scheduler, the script, then both counts; the integration  *)
(* is deactivated afterwards, unless the helper fails.                     *)
(***************************************************************************)
Unschedule ==
    /\ At("unschedule") /\ Goes("unscript")
    /\ device' = [device EXCEPT !.scheds = 0]
    /\ UNCHANGED <<imports, active, served, told, page, server, begun, tests, faults>>

Unscript ==
    /\ At("unscript") /\ Goes("count")
    /\ device' = [device EXCEPT !.scripts = <<>>]
    /\ UNCHANGED <<imports, active, served, told, page, server, begun, tests, faults>>

CountRemoved ==
    /\ At("count") /\ Len(req.read) < 2
    /\ req' = [req EXCEPT !.read = Append(@, {IF @ = <<>> THEN device.scheds ELSE Len(device.scripts)})]
    /\ UNCHANGED <<router, active, served, told, page, server, begun, tests, faults>>

Removed ==
    /\ At("count") /\ Len(req.read) = 2
    /\ IF req.read = <<{0}, {0}>>
       THEN Answers(TRUE) /\ active' \in BOOLEAN
       ELSE Answers(FALSE) /\ UNCHANGED active
    /\ UNCHANGED <<router, served, page, server, begun, tests, faults>>

(***************************************************************************)
(* The script on the router.  A global keeps a second run out; another     *)
(* holds the name the last run gave its files.                             *)
(***************************************************************************)
Runs(asked) ==
    /\ ~device.busy /\ begun < MaxRuns
    /\ begun' = begun + 1
    /\ device' = [device EXCEPT !.busy = TRUE, !.base = begun + 1,
                                !.run = [id |-> begun + 1, asked |-> asked, left |-> Format]]

Scheduled ==
    /\ device.scripts # <<>> /\ device.scheds # 0
    /\ Runs(FALSE)
    /\ UNCHANGED <<imports, web, server, tests, faults>>

Execute ==
    /\ At("run")
    /\ IF device.busy
       THEN Answers(FALSE) /\ UNCHANGED <<device, begun>>
       ELSE Runs(TRUE) /\ Goes("wait") /\ UNCHANGED told
    /\ UNCHANGED <<imports, active, served, page, server, tests, faults>>

NextFile(left) == IF "backup" \in left THEN "backup" ELSE "rsc"

File(whole) == [run |-> device.run.id, type |-> NextFile(device.run.left), whole |-> whole]

Upload ==
    /\ device.run.left # {}
    /\ arriving' = arriving \cup {File(TRUE)}
    /\ device' = [device EXCEPT !.run.left = @ \ {NextFile(@)}]
    /\ UNCHANGED <<imports, web, uploads, probe, matched, begun, tests, faults>>

Stopped(busy) == [device EXCEPT !.run = NoRun, !.busy = busy]

RunEnds ==
    /\ device.run.id # 0 /\ device.run.left = {}
    /\ device' = Stopped(FALSE)
    /\ IF device.run.asked THEN Goes("base") ELSE UNCHANGED req
    /\ UNCHANGED <<imports, active, served, told, page, server, begun, tests, faults>>

\* The files cannot be made, or an upload fails, perhaps halfway.
RunFails ==
    /\ device.run.id # 0 /\ faults < MaxFaults
    /\ faults' = faults + 1
    /\ \/ UNCHANGED arriving
       \/ device.run.left # {} /\ arriving' = arriving \cup {File(FALSE)}
    /\ device' = Stopped(FALSE)
    /\ IF device.run.asked THEN Answers(FALSE) ELSE UNCHANGED <<req, told>>
    /\ UNCHANGED <<imports, active, served, page, uploads, probe, matched, begun, tests>>

\* A second command reads the name of the last run: a scheduled one may have
\* begun since.
ReadBase ==
    /\ At("base")
    /\ IF device.base = 0
       THEN Answers(FALSE) /\ UNCHANGED page
       ELSE /\ Answers(TRUE)
            /\ page' = [state |-> "waiting", base |-> device.base,
                        baseline |-> req.baseline, begun |-> req.begun]
    /\ UNCHANGED <<router, active, served, server, begun, tests, faults>>

(***************************************************************************)
(* The page of a requested run asks which of its files were received.      *)
(***************************************************************************)
\* Bug for a mutant run: any file received since the request counts.
OfRunSince(u) == u \notin page.baseline

OfRun(u) == u \notin page.baseline /\ u.run = page.base

Received(success) == {u.type : u \in {u \in uploads : OfRun(u) /\ u.success = success}}

Poll ==
    /\ req = Idle /\ page.state = "waiting"
    /\ page' = CASE ~active -> [state |-> "failed"]
                 [] active /\ Format \subseteq Received(TRUE) -> [state |-> "validated", begun |-> page.begun]
                 [] OTHER -> IF Received(FALSE) # {} THEN [state |-> "failed"] ELSE page
    /\ UNCHANGED <<router, active, req, served, told, server, begun, tests, faults>>

Store(f, success) ==
    /\ uploads' = uploads \cup {[run |-> f.run, type |-> f.type, success |-> success]}
    /\ arriving' = arriving \ {f}

\* A whole file may still be refused, as invalid or as content stored before.
Take(f) ==
    /\ f \in arriving
    /\ \/ f.whole /\ Store(f, TRUE) /\ UNCHANGED faults
       \/ ~f.whole /\ Store(f, FALSE) /\ UNCHANGED faults
       \/ f.whole /\ Store(f, FALSE) /\ faults < MaxFaults /\ faults' = faults + 1
    /\ UNCHANGED <<router, web, probe, matched, begun, tests>>

(***************************************************************************)
(* The upload test.  Its file always has the same name.                    *)
(***************************************************************************)
Probe ==
    /\ At("probe")
    /\ probe' = Len(tests)
    /\ Answers(TRUE)
    /\ UNCHANGED <<router, active, served, page, arriving, uploads, matched, begun, tests, faults>>

Expired(t) == [tests EXCEPT ![t] = "expired"]

\* The importer finds the file.  With no test to match, or a file older than
\* the test, it is left where it is; after the deadline it is thrown away.
Match ==
    /\ probe # 0 /\ matched = 0
    /\ IF ActiveTests = {}
       THEN /\ tests # <<>> /\ Last(tests) = "expired"
            /\ probe' = 0 /\ UNCHANGED <<matched, tests>>
       ELSE LET t == CHOOSE t \in ActiveTests : \A o \in ActiveTests : o <= t IN
            IF tests[t] = "late"
            THEN probe' = 0 /\ tests' = Expired(t) /\ UNCHANGED matched
            ELSE probe >= t /\ probe' = 0 /\ matched' = t /\ UNCHANGED tests
    /\ UNCHANGED <<router, web, arriving, uploads, begun, faults>>

\* One transaction, whatever became of the test since it was matched: it begins
\* by setting the row to 'validating' by its id, so that complete_upload and
\* fail_upload, which spare an expired test, never meet one.  A file that cannot
\* be moved or read fails the test, and may stay where it is.
Complete ==
    /\ matched # 0 /\ matched' = 0
    /\ \/ tests' = [tests EXCEPT ![matched] = "validated"] /\ UNCHANGED <<probe, faults>>
       \/ /\ faults < MaxFaults /\ faults' = faults + 1
          /\ tests' = [tests EXCEPT ![matched] = "failed"]
          /\ UNCHANGED probe \/ (probe = 0 /\ probe' = matched)
    /\ UNCHANGED <<router, web, arriving, uploads, begun>>

ImporterDies ==
    /\ matched # 0 /\ faults < MaxFaults
    /\ matched' = 0 /\ faults' = faults + 1
    /\ UNCHANGED <<router, web, arriving, uploads, probe, begun, tests>>

TimePasses(t) ==
    /\ t \in DOMAIN tests /\ tests[t] = "waiting"
    /\ tests' = [tests EXCEPT ![t] = "late"]
    /\ UNCHANGED <<router, web, server, begun, faults>>

\* Bug for a mutant run: only the page of the test looks at its deadline.
LateWhileServed(t) == t \in DOMAIN tests /\ tests[t] = "late" /\ req.op = "test"

Late(t) == t \in DOMAIN tests /\ tests[t] = "late"

\* Every scan of the importer, and every look at the test's page.
Expire(t) ==
    /\ Late(t)
    /\ tests' = Expired(t)
    /\ UNCHANGED <<router, web, server, begun, faults>>

(***************************************************************************)
(* Faults.                                                                 *)
(***************************************************************************)
\* What the router was doing for the session goes on or stops where it is,
\* the run without letting the next one in.
Abandoned ==
    /\ \/ imports' = {[i EXCEPT !.asked = FALSE] : i \in imports}
       \/ imports' = {i \in imports : ~i.asked}
    /\ IF device.run.asked
       THEN device' \in {[device EXCEPT !.run.asked = FALSE], Stopped(TRUE)}
       ELSE UNCHANGED device

\* A command is refused or the session is lost: the request fails.
SessionLost ==
    /\ req # Idle /\ faults < MaxFaults
    /\ Abandoned /\ Answers(FALSE) /\ tests' = TestFails
    /\ \/ UNCHANGED probe
       \/ At("probe") /\ probe' = Len(tests)
    /\ faults' = faults + 1
    /\ UNCHANGED <<active, served, page, arriving, uploads, matched, begun>>

\* The web process dies: nobody is told.
Restart ==
    /\ req # Idle /\ faults < MaxFaults
    /\ Abandoned /\ Answers(FALSE)
    /\ faults' = faults + 1
    /\ UNCHANGED <<active, served, page, server, begun, tests>>

Reboot ==
    /\ faults < MaxFaults
    /\ device' = [Stopped(FALSE) EXCEPT !.base = 0]
    /\ imports' = {}
    /\ IF req # Idle THEN Answers(FALSE) /\ tests' = TestFails ELSE UNCHANGED <<req, told, tests>>
    /\ faults' = faults + 1
    /\ UNCHANGED <<active, served, page, server, begun>>

Session ==
    \/ Begins \/ StartTest \/ Preflight \/ Decide \/ Import
    \/ Unschedule \/ Unscript \/ CountRemoved \/ Removed
    \/ Execute \/ ReadBase \/ Poll \/ Probe

Router ==
    \/ \E i \in imports : ImportStep(i) \/ ImportRefused(i)
    \/ Scheduled \/ Upload \/ RunEnds \/ RunFails

Next ==
    \/ Session \/ Router
    \/ (\E f \in arriving : Take(f)) \/ Match \/ Complete \/ ImporterDies
    \/ (\E t \in DOMAIN tests : TimePasses(t) \/ Expire(t))
    \/ SessionLost \/ Restart \/ Reboot

\* Time passes, and the importer scans: a timer starts it again and again.
Fairness == \A t \in 1..MaxTests : WF_vars(TimePasses(t)) /\ WF_vars(Expire(t))

Spec == Init /\ [][Next]_vars /\ Fairness

(***************************************************************************)
(* Properties.                                                             *)
(***************************************************************************)
TypeOK ==
    /\ device \in [scripts : Seq(Scripts), scheds : Nat, busy : BOOLEAN, base : 0..MaxRuns,
                   run : [id : 0..MaxRuns, asked : BOOLEAN, left : SUBSET Format]]
    /\ imports \subseteq [step : 1..4, asked : BOOLEAN]
    /\ active \in BOOLEAN /\ told \in BOOLEAN /\ served \in 0..MaxRequests
    /\ begun \in 0..MaxRuns /\ probe \in 0..MaxTests /\ matched \in 0..MaxTests
    /\ Len(tests) <= MaxTests /\ faults \in 0..MaxFaults
    /\ uploads \subseteq [run : 1..MaxRuns, type : Format, success : BOOLEAN]

Sound == device'.scripts = <<"current">> /\ device'.scheds = 1

\* install_routeros_script, remove_routeros_backup_manager: a session nothing
\* disturbs leaves the router as it says, whatever state earlier sessions,
\* lost halfway, have left it in; and a repair or a removal then never fails.
UndisturbedHolds ==
    [][req # Idle /\ req' = Idle /\ req.clear /\ faults' = faults =>
         /\ req.op \in {"install", "repair"} /\ told' => Sound
         /\ req.op = "remove" /\ told' => device'.scripts = <<>> /\ device'.scheds = 0
         /\ req.op \in {"repair", "remove"} => told']_vars

\* handle_mikrotik_ftp_execute_status: the page says a requested backup was
\* received and validated only if some run begun after the request, and no
\* older one whose files come late, had all its files stored.
ConfirmedIsNew ==
    page.state = "validated" =>
        \E n \in page.begun + 1 .. begun : \A t \in Format :
            [run |-> n, type |-> t, success |-> TRUE] \in uploads

\* A test ends, validated or not, even when its request died, its file never
\* came or the importer died with it: nobody has to look at it.
TestsEnd ==
    \A t \in 1..MaxTests :
        (t \in DOMAIN tests /\ tests[t] \in Open)
          ~> (t \in DOMAIN tests /\ tests[t] \notin Open)

=============================================================================
