---------------------------- MODULE ExchangeProofs ----------------------------
(***************************************************************************)
(* What the system says to routers and to its operators.                   *)
(*                                                                         *)
(* RouterPush, for any number of runs of a router's script, tests,         *)
(* requests and faults. The page of a requested run confirms no older one: *)
(* the session that reads the name of the last run has seen a run begin    *)
(* and end, and the router has forgotten every name or keeps the last. And *)
(* a session that nothing disturbs knows the router: it found no import at *)
(* work, so that only its own commands change the script and the           *)
(* scheduler, and what it has read of them is still true when it decides.  *)
(*                                                                         *)
(* Notifications, for any log, queue, conditions, limits and losses. A key *)
(* is queued once, so that it is told twice only if its row is sent twice: *)
(* a row that waits has not been heard, or there is a reason to repeat it; *)
(* the summary has no row of its own, and is told once as long as who      *)
(* sends it holds the lock since it read the run. For a condition, the     *)
(* message under way, or the last one heard if there is none, says what    *)
(* its state says, in both copies of the tables.                           *)
(***************************************************************************)
EXTENDS RouterPush, Notifications, SequenceTheorems, FiniteSetTheorems, TLAPS

-----------------------------------------------------------------------------
(* The invariant                                                           *)

Runs0 == 0..MaxRuns
Device == [scripts : Seq(Scripts), scheds : Nat, busy : BOOLEAN, base : Runs0,
           run : [id : Runs0, asked : BOOLEAN, left : SUBSET Format]]

Readings == SUBSET (Nat \cup Scripts)
Uploaded == [run : 1..MaxRuns, type : Format, success : BOOLEAN]
Requests == [op : {"install", "repair", "execute", "remove", "test"},
             step : {"preflight", "verify", "transfer", "import", "unschedule", "unscript", "count",
                     "run", "wait", "base", "probe"},
             read : Seq(Readings), clear : BOOLEAN, test : 0..MaxTests,
             baseline : SUBSET Uploaded, begun : Runs0]

\* The steps of each request.
StepsOf(op) ==
  CASE op \in {"install", "repair"} -> {"preflight", "transfer", "import", "verify"}
    [] op = "execute" -> {"preflight", "run", "wait", "base"}
    [] op = "remove" -> {"unschedule", "unscript", "count"}
    [] op = "test" -> {"preflight", "probe"}

Tests == Seq({"waiting", "late", "failed", "expired", "validated"})

\* The types, with those of the request and of the page.
Types ==
  /\ device \in Device
  /\ imports \subseteq [step : 1..4, asked : BOOLEAN]
  /\ active \in BOOLEAN /\ told \in BOOLEAN /\ served \in 0..MaxRequests
  /\ begun \in Runs0 /\ probe \in 0..MaxTests /\ matched \in 0..MaxTests
  /\ tests \in Tests /\ Len(tests) <= MaxTests /\ faults \in 0..MaxFaults
  /\ uploads \subseteq Uploaded
  /\ arriving \subseteq [run : 1..MaxRuns, type : Format, whole : BOOLEAN]

RequestInv ==
  /\ req # Idle => req \in Requests /\ req.step \in StepsOf(req.op) /\ req.begun <= begun
  /\ device.run.asked => At("wait")
  /\ \A i \in imports : i.asked => At("import") /\ \A j \in imports : j.asked => i = j

\* The router keeps the name of the last run, or none; the session that waits
\* for a run has seen it begin.
BaseInv ==
  /\ device.base \in {0, begun} /\ device.run.id <= begun
  /\ device.run.left # {} => device.run.id # 0
  /\ At("wait") \/ At("base") => req.begun < begun

PageInv ==
  \/ page.state \in {"none", "failed"}
  \/ /\ page.state = "waiting" /\ page.base \in Runs0
     /\ page.begun \in Runs0 /\ page.begun < page.base /\ page.base <= begun
  \/ /\ page.state = "validated" /\ page.begun \in Runs0
     /\ \E n \in page.begun + 1 .. begun : \A t \in Format : [run |-> n, type |-> t, success |-> TRUE] \in uploads

TestInv == \A s, t \in ActiveTests : s = t

\* What a session that nothing disturbs knows of the router.
Looked(d, n) ==
  IF n = 1 THEN {Len(d.scripts)} ELSE IF n = 2 THEN {d.scheds}
  ELSE IF Len(d.scripts) = 0 THEN {} ELSE ToSet(d.scripts)
AfterCommands(d, n) ==
  /\ n = 2 => d.scripts = <<>>
  /\ n \in {3, 4} => d.scripts = <<"current">>
  /\ n = 4 => d.scheds = 0
Knows ==
  /\ req.step = "import" => \E n \in 1..4 : imports = {[step |-> n, asked |-> TRUE]} /\ AfterCommands(device, n)
  /\ req.step # "import" => imports = {}
  /\ req.step \in {"preflight", "verify"} =>
       Len(req.read) <= 3 /\ \A n \in 1..Len(req.read) : req.read[n] = Looked(device, n)
  /\ req.step = "verify" => device.scripts = <<"current">> /\ device.scheds = 1
  /\ req.step \in {"unscript", "count"} => device.scheds = 0
  /\ req.step = "count" =>
       device.scripts = <<>> /\ Len(req.read) <= 2 /\ \A n \in 1..Len(req.read) : req.read[n] = {0}
QuietInv == req # Idle /\ req.clear => Knows

IInv == Types /\ RequestInv /\ BaseInv /\ PageInv /\ TestInv /\ QuietInv

-----------------------------------------------------------------------------
(* Records and sequences                                                   *)

LEMMA RequestTypes ==
  /\ \A r \in Requests : r # Idle /\ r.op # "none" /\ r.read \in Seq(Readings) /\ r.begun \in Runs0
  /\ Idle.op = "none"
<1>1. \A r \in Requests : r.op \in {"install", "repair", "execute", "remove", "test"}
  BY DEF Requests
<1>2. \A r \in Requests : r.read \in Seq(Readings) /\ r.begun \in Runs0
  BY DEF Requests
<1> QED
  BY <1>1, <1>2 DEF Idle

\* Under the invariant a request is under way exactly when it is typed.
LEMMA AtFacts ==
  ASSUME RequestInv, NEW l, At(l)
  PROVE  req \in Requests /\ req # Idle /\ req.step = l
BY RequestTypes DEF RequestInv, At

LEMMA GoesFacts ==
  ASSUME NEW l \in {"preflight", "verify", "transfer", "import", "unschedule", "unscript", "count",
                    "run", "wait", "base", "probe"},
         req \in Requests, Goes(l)
  PROVE  /\ req' \in Requests /\ req'.step = l /\ req'.read = <<>> /\ req' # Idle
         /\ req'.op = req.op /\ req'.clear = req.clear /\ req'.test = req.test
         /\ req'.baseline = req.baseline /\ req'.begun = req.begun
<1>1. <<>> \in Seq(Readings)
  OBVIOUS
<1>2. /\ req' \in Requests /\ req'.step = l /\ req'.read = <<>>
      /\ req'.op = req.op /\ req'.clear = req.clear /\ req'.test = req.test
      /\ req'.baseline = req.baseline /\ req'.begun = req.begun
  BY <1>1 DEF Goes, Requests
<1> QED
  BY <1>2, RequestTypes

\* One more reading.
Read(r, x) == [r EXCEPT !.read = Append(@, x)]

LEMMA ReadFacts ==
  ASSUME NEW r \in Requests, NEW x \in Readings
  PROVE  /\ Read(r, x) \in Requests /\ Read(r, x).step = r.step
         /\ Read(r, x).op = r.op /\ Read(r, x).clear = r.clear /\ Read(r, x).test = r.test
         /\ Read(r, x).baseline = r.baseline /\ Read(r, x).begun = r.begun
         /\ Len(Read(r, x).read) = Len(r.read) + 1
         /\ \A n \in 1..Len(r.read) : Read(r, x).read[n] = r.read[n]
         /\ Read(r, x).read[Len(r.read) + 1] = x
<1>1. r.read \in Seq(Readings)
  BY DEF Requests
<1> DEFINE s == Append(r.read, x)
<1>2. /\ s \in Seq(Readings) /\ Len(s) = Len(r.read) + 1
      /\ \A n \in 1..Len(r.read) : s[n] = r.read[n]
      /\ s[Len(r.read) + 1] = x
  BY <1>1, AppendProperties
<1>3. Read(r, x) = [r EXCEPT !.read = s]
  BY DEF Read
<1> HIDE DEF s
<1>4. /\ Read(r, x) \in Requests /\ Read(r, x).step = r.step
      /\ Read(r, x).op = r.op /\ Read(r, x).clear = r.clear /\ Read(r, x).test = r.test
      /\ Read(r, x).baseline = r.baseline /\ Read(r, x).begun = r.begun
      /\ Read(r, x).read = s
  BY <1>2, <1>3 DEF Requests
<1> QED
  BY <1>2, <1>4

LEMMA RequestFacts ==
  ASSUME NEW op \in {"install", "repair", "execute", "remove", "test"},
         NEW l \in {"preflight", "unschedule"}
  PROVE  LET r == Request(op, l) IN
           /\ r \in Requests /\ r.op = op /\ r.step = l /\ r.read = <<>> /\ (r.clear <=> imports = {})
           /\ r.begun = 0
<1>1. <<>> \in Seq(Readings) /\ 0 \in 0..MaxTests /\ 0 \in Runs0
  BY PushAssumption DEF Runs0
<1>2. (imports = {}) \in BOOLEAN
  OBVIOUS
<1> QED
  BY <1>1, <1>2 DEF Request, Requests

LEMMA DeviceFacts ==
  ASSUME NEW d \in Device
  PROVE  /\ d.scripts \in Seq(Scripts) /\ d.scheds \in Nat /\ d.base \in Runs0
         /\ d.run.id \in Runs0 /\ d.run.asked \in BOOLEAN /\ d.run.left \in SUBSET Format
BY DEF Device

\* The commands that change the script and the scheduler leave the run alone.
WithScripts(d, s) == [d EXCEPT !.scripts = s]
WithScheds(d, n) == [d EXCEPT !.scheds = n]

LEMMA CommandFacts ==
  ASSUME NEW d \in Device, NEW s \in Seq(Scripts), NEW n \in Nat
  PROVE  /\ WithScripts(d, s) \in Device /\ WithScripts(d, s).scripts = s
         /\ WithScripts(d, s).scheds = d.scheds /\ WithScripts(d, s).run = d.run
         /\ WithScripts(d, s).base = d.base
         /\ WithScheds(d, n) \in Device /\ WithScheds(d, n).scheds = n
         /\ WithScheds(d, n).scripts = d.scripts /\ WithScheds(d, n).run = d.run
         /\ WithScheds(d, n).base = d.base
BY DEF Device, WithScripts, WithScheds

\* The run ends or begins: the script and the scheduler stay.
SameScripts(d, e) == e.scripts = d.scripts /\ e.scheds = d.scheds

LEMMA StoppedFacts ==
  ASSUME device \in Device, NEW b \in BOOLEAN
  PROVE  /\ Stopped(b) \in Device /\ SameScripts(device, Stopped(b)) /\ Stopped(b).base = device.base
         /\ Stopped(b).run = NoRun
         /\ [Stopped(b) EXCEPT !.base = 0] \in Device /\ SameScripts(device, [Stopped(b) EXCEPT !.base = 0])
         /\ [Stopped(b) EXCEPT !.base = 0].base = 0 /\ [Stopped(b) EXCEPT !.base = 0].run = NoRun
<1> DEFINE Kinds == [id : Runs0, asked : BOOLEAN, left : SUBSET Format]
<1>1. NoRun \in Kinds /\ 0 \in Runs0
  BY PushAssumption DEF NoRun, Runs0
<1>2. Device = [scripts : Seq(Scripts), scheds : Nat, busy : BOOLEAN, base : Runs0, run : Kinds]
  BY DEF Device
<1> HIDE DEF Kinds
<1>3. /\ Stopped(b) \in Device /\ SameScripts(device, Stopped(b)) /\ Stopped(b).base = device.base
      /\ Stopped(b).run = NoRun
  BY <1>1, <1>2 DEF Stopped, SameScripts
<1> QED
  BY <1>1, <1>2, <1>3 DEF SameScripts

-----------------------------------------------------------------------------
(* Steps that leave parts alone                                            *)

LEMMA PageKeeps ==
  ASSUME Types, PageInv, UNCHANGED page, begun' \in Runs0, begun <= begun', uploads \subseteq uploads'
  PROVE  PageInv'
<1>1. begun \in Nat /\ begun' \in Nat
  BY PushAssumption DEF Types, Runs0
<1>2. CASE page.state \in {"none", "failed"}
  BY <1>2 DEF PageInv
<1>3. CASE /\ page.state = "waiting" /\ page.base \in Runs0
           /\ page.begun \in Runs0 /\ page.begun < page.base /\ page.base <= begun
  BY <1>1, <1>3 DEF PageInv, Runs0
<1>4. CASE /\ page.state = "validated" /\ page.begun \in Runs0
           /\ \E n \in page.begun + 1 .. begun :
                \A t \in Format : [run |-> n, type |-> t, success |-> TRUE] \in uploads
  <2>1. PICK n \in page.begun + 1 .. begun :
          \A t \in Format : [run |-> n, type |-> t, success |-> TRUE] \in uploads
    BY <1>4
  <2>2. n \in page.begun + 1 .. begun'
    BY <1>1, <1>4, <2>1 DEF Runs0
  <2> QED
    BY <1>4, <2>1, <2>2 DEF PageInv
<1> QED
  BY <1>2, <1>3, <1>4 DEF PageInv

\* A request that is over.
LEMMA OverKeeps ==
  ASSUME req' = Idle, ~device'.run.asked, \A i \in imports' : ~i.asked,
         device'.base \in {0, begun'}, device'.run.id <= begun',
         device'.run.left # {} => device'.run.id # 0
  PROVE  RequestInv' /\ BaseInv' /\ QuietInv'
BY RequestTypes DEF RequestInv, BaseInv, QuietInv, At

\* No import and no run is a session's while the session is elsewhere.
LEMMA NotAsked ==
  ASSUME IInv, ~At("wait")
  PROVE  ~device.run.asked
BY DEF IInv, RequestInv

LEMMA NoneAsked ==
  ASSUME IInv, ~At("import")
  PROVE  \A i \in imports : ~i.asked
BY DEF IInv, RequestInv

-----------------------------------------------------------------------------
(* The initial states                                                      *)

LEMMA FirstState == Init => IInv
<1> SUFFICES ASSUME Init PROVE IInv
  OBVIOUS
<1>1. 0 \in Runs0 /\ 0 \in 0..MaxTests /\ 0 \in 0..MaxRequests /\ 0 \in 0..MaxFaults
  BY PushAssumption DEF Runs0
<1>2. device \in Device /\ device.run = NoRun /\ device.base = 0
  <2> DEFINE Kinds == [id : Runs0, asked : BOOLEAN, left : SUBSET Format]
  <2>1. NoRun \in Kinds
    BY <1>1 DEF NoRun
  <2>2. Device = [scripts : Seq(Scripts), scheds : Nat, busy : BOOLEAN, base : Runs0, run : Kinds]
    BY DEF Device
  <2>3. <<>> \in Seq(Scripts) /\ <<"outdated">> \in Seq(Scripts) /\ <<"current">> \in Seq(Scripts)
    BY DEF Scripts
  <2>4. PICK s \in {<<>>, <<"outdated">>, <<"current">>}, n \in 0..1 :
          device = [scripts |-> s, scheds |-> n, run |-> NoRun, busy |-> FALSE, base |-> 0]
    BY DEF Init
  <2>5. s \in Seq(Scripts)
    BY <2>3, Zenon
  <2>6. n \in Nat
    OBVIOUS
  <2> HIDE DEF Kinds
  <2> QED
    BY <1>1, <2>1, <2>2, <2>4, <2>5, <2>6
<1>3. tests \in Tests /\ Len(tests) = 0
  BY DEF Init, Tests
<1>4. Types
  <2>1. /\ imports = {} /\ active = TRUE /\ told = FALSE /\ served = 0 /\ begun = 0 /\ probe = 0
        /\ matched = 0 /\ faults = 0 /\ uploads = {} /\ arriving = {}
    BY DEF Init
  <2>2. 0 <= MaxTests
    BY PushAssumption
  <2> QED
    BY <1>1, <1>2, <1>3, <2>1, <2>2 DEF Types
<1>5. RequestInv /\ BaseInv /\ QuietInv
  BY <1>2, RequestTypes DEF Init, RequestInv, BaseInv, QuietInv, NoRun, At
<1>6. PageInv /\ TestInv
  BY DEF Init, PageInv, NoPage, TestInv, ActiveTests
<1> QED
  BY <1>4, <1>5, <1>6 DEF IInv

-----------------------------------------------------------------------------
(* The requests                                                            *)

\* A new request has read nothing and knows whether an import is at work.
LEMMA BegunKeeps ==
  ASSUME IInv, req = Idle, UNCHANGED <<router, begun>>,
         NEW op \in {"install", "repair", "execute", "remove", "test"}, NEW l \in StepsOf(op),
         l \in {"preflight", "unschedule"},
         req' \in Requests, req'.op = op, req'.step = l, req'.read = <<>>, req'.clear <=> imports = {},
         req'.begun <= begun, l = "preflight" <=> op # "remove"
  PROVE  RequestInv' /\ BaseInv' /\ QuietInv'
<1>1. device' = device /\ imports' = imports /\ begun' = begun
  BY DEF router
<1>2. ~device.run.asked /\ \A i \in imports : ~i.asked
  BY RequestTypes DEF IInv, RequestInv, At
<1>3. RequestInv'
  BY <1>1, <1>2 DEF RequestInv
<1>4. BaseInv'
  BY <1>1 DEF IInv, BaseInv, At
<1>5. QuietInv'
  BY <1>1 DEF QuietInv, Knows
<1> QED
  BY <1>3, <1>4, <1>5

LEMMA BeginsKeeps == ASSUME IInv, Begins PROVE IInv'
<1>1. /\ req = Idle /\ served < MaxRequests /\ served' = served + 1 /\ told' = FALSE
      /\ UNCHANGED <<router, active, page, server, begun, tests, faults>>
      /\ \/ \E op \in {"install", "repair"} : req' = Request(op, "preflight")
         \/ req' = [Request("execute", "preflight") EXCEPT !.baseline = uploads, !.begun = begun]
         \/ req' = Request("remove", "unschedule")
  BY DEF Begins
<1>2. served' \in 0..MaxRequests
  BY <1>1, PushAssumption DEF IInv, Types
<1>3. Types' /\ TestInv'
  BY <1>1, <1>2 DEF IInv, Types, TestInv, ActiveTests, router, server
<1>4. PageInv'
  BY <1>1, PageKeeps DEF IInv, Types, server, Runs0
<1>5. \E op \in {"install", "repair", "execute", "remove"} : \E l \in StepsOf(op) :
        /\ l \in {"preflight", "unschedule"} /\ (l = "preflight" <=> op # "remove")
        /\ req' \in Requests /\ req'.op = op /\ req'.step = l /\ req'.read = <<>>
        /\ (req'.clear <=> imports = {}) /\ req'.begun <= begun
  <2>1. begun \in Runs0 /\ begun \in Nat /\ uploads \in SUBSET Uploaded
    BY DEF IInv, Types, Runs0
  <2>2. CASE \E op \in {"install", "repair"} : req' = Request(op, "preflight")
    <3>1. PICK op \in {"install", "repair"} : req' = Request(op, "preflight")
      BY <2>2
    <3>2. "preflight" \in StepsOf(op)
      BY DEF StepsOf
    <3> QED
      BY <2>1, <3>1, <3>2, RequestFacts
  <2>3. CASE req' = [Request("execute", "preflight") EXCEPT !.baseline = uploads, !.begun = begun]
    <3> DEFINE r == Request("execute", "preflight")
    <3>1. r \in Requests /\ r.op = "execute" /\ r.step = "preflight" /\ r.read = <<>> /\ (r.clear <=> imports = {})
      BY RequestFacts
    <3>2. req' = [r EXCEPT !.baseline = uploads, !.begun = begun]
      BY <2>3
    <3> HIDE DEF r
    <3>3. /\ req' \in Requests /\ req'.op = "execute" /\ req'.step = "preflight" /\ req'.read = <<>>
          /\ (req'.clear <=> imports = {}) /\ req'.begun = begun
      BY <2>1, <3>1, <3>2 DEF Requests
    <3>4. "preflight" \in StepsOf("execute")
      BY DEF StepsOf
    <3> QED
      BY <2>1, <3>3, <3>4
  <2>4. CASE req' = Request("remove", "unschedule")
    <3>1. "unschedule" \in StepsOf("remove")
      BY DEF StepsOf
    <3> QED
      BY <2>1, <2>4, <3>1, RequestFacts
  <2> QED
    BY <1>1, <2>2, <2>3, <2>4
<1>6. RequestInv' /\ BaseInv' /\ QuietInv'
  BY <1>1, <1>5, BegunKeeps
<1> QED
  BY <1>3, <1>4, <1>6 DEF IInv

\* A test is settled, or grows late.
LEMMA TestSet ==
  ASSUME Types, TestInv, NEW t, NEW s \in {"late", "failed", "expired", "validated"},
         s = "late" => t \in ActiveTests, tests' = [tests EXCEPT ![t] = s]
  PROVE  tests' \in Tests /\ Len(tests') = Len(tests) /\ TestInv'
<1> DEFINE S == {"waiting", "late", "failed", "expired", "validated"}
           n == Len(tests)
<1>1. tests \in [1..n -> S] /\ n \in Nat
  BY DEF Types, Tests
<1>2. tests' \in [1..n -> S]
  BY <1>1
<1>3. tests' \in Seq(S) /\ Len(tests') = n
  BY <1>1, <1>2, IsASeq, LenProperties
<1>4. \A o \in 1..n : tests'[o] \in Open => tests[o] \in Open
  BY <1>1 DEF ActiveTests, Open
<1>5. TestInv'
  BY <1>1, <1>2, <1>4 DEF TestInv, ActiveTests
<1> QED
  BY <1>3, <1>5 DEF Tests

LEMMA StartTestKeeps == ASSUME IInv, StartTest PROVE IInv'
<1>1. /\ req = Idle /\ served < MaxRequests /\ served' = served + 1 /\ told' = FALSE
      /\ ActiveTests = {} /\ Len(tests) < MaxTests /\ tests' = Append(tests, "waiting")
      /\ req' = [Request("test", "preflight") EXCEPT !.test = Len(tests) + 1]
      /\ UNCHANGED <<router, active, page, server, begun, faults>>
  BY DEF StartTest
<1>2. /\ tests \in Tests /\ Len(tests) \in Nat /\ begun \in Nat
      /\ Len(tests) + 1 \in 0..MaxTests /\ served' \in 0..MaxRequests
  BY <1>1, PushAssumption DEF IInv, Types, Tests, Runs0
<1>3. /\ tests' \in Tests /\ Len(tests') = Len(tests) + 1
      /\ \A t \in 1..Len(tests) : tests'[t] = tests[t]
  <2> DEFINE S == {"waiting", "late", "failed", "expired", "validated"}
  <2>1. tests \in Seq(S) /\ "waiting" \in S
    BY <1>2 DEF Tests
  <2> HIDE DEF S
  <2>2. /\ Append(tests, "waiting") \in Seq(S) /\ Len(Append(tests, "waiting")) = Len(tests) + 1
        /\ \A t \in 1..Len(tests) : Append(tests, "waiting")[t] = tests[t]
    BY <2>1, AppendProperties
  <2> QED
    BY <1>1, <2>2 DEF S, Tests
<1>4. Types'
  <2>1. /\ device' = device /\ imports' = imports /\ active' = active /\ begun' = begun /\ probe' = probe
        /\ matched' = matched /\ faults' = faults /\ uploads' = uploads /\ arriving' = arriving
        /\ told' \in BOOLEAN
    BY <1>1 DEF router, server
  <2>2. Len(tests') <= MaxTests
    BY <1>2, <1>3
  <2> QED
    BY <1>2, <1>3, <2>1, <2>2 DEF IInv, Types
<1>5. TestInv'
  <2>1. \A t \in ActiveTests' : t = Len(tests) + 1
    <3>1. \A t \in 1..Len(tests) : tests'[t] \notin Open
      BY <1>1, <1>2, <1>3 DEF ActiveTests, Tests
    <3>2. DOMAIN tests' = 1..Len(tests) + 1
      BY <1>2, <1>3 DEF Tests
    <3> QED
      BY <1>2, <3>1, <3>2 DEF ActiveTests
  <2> QED
    BY <2>1 DEF TestInv
<1>6. PageInv'
  BY <1>1, PageKeeps DEF IInv, Types, server, Runs0
<1>7. /\ req' \in Requests /\ req'.op = "test" /\ req'.step = "preflight" /\ req'.read = <<>>
      /\ (req'.clear <=> imports = {}) /\ req'.begun <= begun
  <2> DEFINE r == Request("test", "preflight")
  <2>1. r \in Requests /\ r.op = "test" /\ r.step = "preflight" /\ r.read = <<>> /\ (r.clear <=> imports = {}) /\ r.begun = 0
    BY RequestFacts
  <2>2. req' = [r EXCEPT !.test = Len(tests) + 1]
    BY <1>1
  <2> HIDE DEF r
  <2> QED
    BY <1>2, <2>1, <2>2 DEF Requests
<1>8. "preflight" \in StepsOf("test")
  BY DEF StepsOf
<1>9. RequestInv' /\ BaseInv' /\ QuietInv'
  BY <1>1, <1>7, <1>8, BegunKeeps
<1> QED
  BY <1>4, <1>5, <1>6, <1>9 DEF IInv

LEMMA ReadingFacts ==
  ASSUME device \in Device, NEW n \in 1..3
  PROVE  /\ Reading(n) \in Readings
         /\ (n = 3 => req.read[1] = {Len(device.scripts)}) => Reading(n) = Looked(device, n)
<1>1. device.scripts \in Seq(Scripts) /\ device.scheds \in Nat /\ Len(device.scripts) \in Nat
  BY DeviceFacts
<1>2. ToSet(device.scripts) \subseteq Scripts
  BY <1>1 DEF ToSet
<1>3. (n = 3 => req.read[1] = {Len(device.scripts)}) => Reading(n) = Looked(device, n)
  BY <1>1 DEF Reading, Looked
<1>4. Reading(n) \in Readings
  BY <1>1, <1>2 DEF Reading, Readings
<1> QED
  BY <1>3, <1>4

LEMMA PreflightKeeps == ASSUME IInv, Preflight PROVE IInv'
<1> DEFINE n == Len(req.read) + 1
<1>1. /\ (At("preflight") \/ At("verify")) /\ Len(req.read) < 3
      /\ req' = Read(req, Reading(n))
      /\ UNCHANGED <<router, active, served, told, page, server, begun, tests, faults>>
  BY DEF Preflight, Read
<1>2. req \in Requests /\ req # Idle /\ req.step \in {"preflight", "verify"}
  BY <1>1, AtFacts DEF IInv
<1>3. req.read \in Seq(Readings) /\ Len(req.read) \in Nat /\ n \in 1..3
  BY <1>1, <1>2, RequestTypes
<1>4. device \in Device /\ Reading(n) \in Readings
  BY <1>3, ReadingFacts DEF IInv, Types
<1>5. /\ req' \in Requests /\ req'.step = req.step /\ req'.op = req.op /\ req'.clear = req.clear
      /\ req'.begun = req.begun /\ Len(req'.read) = n
      /\ \A m \in 1..Len(req.read) : req'.read[m] = req.read[m]
      /\ req'.read[n] = Reading(n)
  BY <1>1, <1>2, <1>4, ReadFacts
<1>6. Types' /\ TestInv'
  BY <1>1 DEF IInv, Types, TestInv, ActiveTests, router, server
<1>7. PageInv'
  BY <1>1, PageKeeps DEF IInv, Types, server, Runs0
<1>8. RequestInv' /\ BaseInv'
  BY <1>1, <1>2, <1>5, RequestTypes DEF IInv, RequestInv, BaseInv, At, router
<1>9. QuietInv'
  <2> SUFFICES ASSUME req.clear PROVE Knows'
    BY <1>2, <1>5 DEF QuietInv
  <2>1. Knows
    BY <1>2 DEF IInv, QuietInv
  <2>2. n = 3 => req.read[1] = Looked(device, 1)
    BY <1>2, <1>3, <2>1 DEF Knows
  <2>3. Reading(n) = Looked(device, n)
    BY <1>3, <1>4, <2>2, ReadingFacts DEF Looked
  <2>4. \A m \in 1..n : req'.read[m] = Looked(device, m)
    <3>1. \A m \in 1..n : m = n \/ m \in 1..Len(req.read)
      BY <1>3
    <3>2. \A m \in 1..Len(req.read) : req.read[m] = Looked(device, m)
      BY <1>2, <2>1 DEF Knows
    <3> QED
      BY <1>5, <2>3, <3>1, <3>2
  <2>5. device' = device /\ imports' = imports
    BY <1>1 DEF router
  <2> QED
    BY <1>2, <1>3, <1>5, <2>1, <2>4, <2>5 DEF Knows, AfterCommands
<1> QED
  BY <1>6, <1>7, <1>8, <1>9 DEF IInv

\* What the preflight finds, if what it has read is still so.
LEMMA FoundFacts ==
  ASSUME Types, \A n \in 1..3 : req.read[n] = Looked(device, n)
  PROVE  Found = "installed_valid" <=> device.scripts = <<"current">> /\ device.scheds = 1
<1> DEFINE s == device.scripts
           k == device.scheds
<1>1. s \in Seq(Scripts) /\ k \in Nat /\ Len(s) \in Nat
  BY DeviceFacts DEF Types
<1>2. /\ req.read[1] = {Len(s)} /\ req.read[2] = {k}
      /\ Len(s) = 1 => req.read[3] = ToSet(s)
  BY DEF Looked
<1>3. Found = "installed_valid" <=> (Len(s) = 1 /\ k = 1 /\ "current" \in req.read[3])
  <2>1. {Len(s)} = {0} <=> Len(s) = 0
    BY <1>1
  <2>2. {k} = {0} <=> k = 0
    BY <1>1
  <2>3. {Len(s)} \cup {k} \subseteq {0, 1} <=> (Len(s) \in {0, 1} /\ k \in {0, 1})
    BY <1>1
  <2>4. {0} \in {{Len(s)}, {k}} <=> (Len(s) = 0 \/ k = 0)
    BY <1>1, <2>1, <2>2
  <2> DEFINE a == req.read[1]
             b == req.read[2]
  <2>5. Found = "installed_valid" <=>
          /\ ~ (a = {0} /\ b = {0}) /\ a \cup b \subseteq {0, 1} /\ {0} \notin {a, b}
          /\ "current" \in req.read[3]
    BY DEF Found, State
  <2>6. /\ a = {0} <=> Len(s) = 0
        /\ b = {0} <=> k = 0
        /\ a \cup b \subseteq {0, 1} <=> (Len(s) \in {0, 1} /\ k \in {0, 1})
        /\ {0} \in {a, b} <=> (Len(s) = 0 \/ k = 0)
    BY <1>2, <2>1, <2>2, <2>3, <2>4
  <2> HIDE DEF a, b, s, k
  <2> QED
    BY <1>1, <2>5, <2>6
<1>4. Len(s) = 1 => (("current" \in ToSet(s)) <=> s = <<"current">>)
  <2> SUFFICES ASSUME Len(s) = 1 PROVE ("current" \in ToSet(s)) <=> s = <<"current">>
    OBVIOUS
  <2>1. DOMAIN s = {1} /\ s \in [1..1 -> Scripts]
    <3>1. DOMAIN s = 1..Len(s) /\ s \in [1..Len(s) -> Scripts]
      BY <1>1, LenProperties
    <3>2. 1..1 = {1}
      OBVIOUS
    <3> QED
      BY <3>1, <3>2
  <2>2. ToSet(s) = {s[1]}
    BY <2>1 DEF ToSet
  <2>3. s[1] = "current" => s = <<"current">>
    BY <1>1, <2>1
  <2>4. s = <<"current">> => s[1] = "current"
    OBVIOUS
  <2> QED
    BY <2>2, <2>3, <2>4
<1>5. s = <<"current">> => Len(s) = 1
  OBVIOUS
<1> QED
  BY <1>2, <1>3, <1>4, <1>5

\* A request goes on to a step at which nothing of the router is its own.
LEMMA GoesOnKeeps ==
  ASSUME IInv, UNCHANGED <<device, begun>>, req \in Requests, NEW l, l \in StepsOf(req.op),
         l \notin {"wait", "import", "base"}, ~At("wait"), \A i \in imports' : ~i.asked,
         Goes(l), req.clear => imports' = {},
         l = "verify" /\ req.clear => device.scripts = <<"current">> /\ device.scheds = 1,
         l \in {"unscript", "count"} /\ req.clear => device.scheds = 0,
         l = "count" /\ req.clear => device.scripts = <<>>
  PROVE  RequestInv' /\ BaseInv' /\ QuietInv'
<1>1. l \in {"preflight", "verify", "transfer", "unschedule", "unscript", "count", "run", "probe"}
  BY RequestTypes DEF StepsOf, Requests
<1>2. /\ req' \in Requests /\ req'.step = l /\ req'.read = <<>> /\ req' # Idle
      /\ req'.op = req.op /\ req'.clear = req.clear /\ req'.begun = req.begun
  BY <1>1, GoesFacts
<1>3. RequestInv'
  BY <1>2, NotAsked, RequestTypes DEF IInv, RequestInv
<1>4. BaseInv'
  BY <1>2 DEF IInv, BaseInv, At
<1>5. QuietInv'
  BY <1>2 DEF QuietInv, Knows
<1> QED
  BY <1>3, <1>4, <1>5

LEMMA DecideKeeps == ASSUME IInv, Decide PROVE IInv'
<1>1. /\ (At("preflight") \/ At("verify")) /\ Len(req.read) = 3
      /\ UNCHANGED <<router, active, served, page, server, begun, faults>>
      /\ tests' = tests \/ tests' = TestFails
  BY DEF Decide
<1>2. req \in Requests /\ req.step \in {"preflight", "verify"} /\ req.step \in StepsOf(req.op)
  BY <1>1, AtFacts DEF IInv, RequestInv
<1>3. ~At("wait") /\ ~At("import") /\ device' = device /\ imports' = imports
  BY <1>1, <1>2 DEF At, router
<1>4. ~device.run.asked /\ \A i \in imports : ~i.asked
  BY <1>3, NotAsked, NoneAsked
<1>5. req.op \in {"install", "repair", "execute", "test"}
  BY <1>2, RequestTypes DEF StepsOf, Requests
<1>6. \/ Answers(TRUE) \/ Answers(FALSE)
      \/ UNCHANGED told /\ \E l \in {"transfer", "probe", "run"} : l \in StepsOf(req.op) /\ Goes(l)
  <2>1. CASE req.step = "verify"
    <3>1. Answers(Found = "installed_valid")
      BY <2>1 DEF Decide
    <3>2. (Found = "installed_valid") \in {TRUE, FALSE}
      OBVIOUS
    <3> QED
      BY <3>1, <3>2 DEF Answers
  <2>2. CASE req.step = "preflight" /\ req.op \in {"install", "repair"}
    <3>1. Answers(TRUE) \/ Answers(FALSE) \/ (Goes("transfer") /\ UNCHANGED told)
      BY <2>2 DEF Decide
    <3>2. "transfer" \in StepsOf(req.op)
      BY <2>2 DEF StepsOf
    <3> QED
      BY <3>1, <3>2
  <2>3. CASE req.step = "preflight" /\ req.op \in {"execute", "test"}
    <3>1. Answers(FALSE) \/ (Goes(IF req.op = "test" THEN "probe" ELSE "run") /\ UNCHANGED told)
      BY <2>3 DEF Decide
    <3>2. "probe" \in StepsOf("test") /\ "run" \in StepsOf("execute")
      BY DEF StepsOf
    <3> QED
      BY <2>3, <3>1, <3>2
  <2> QED
    BY <1>2, <1>5, <2>1, <2>2, <2>3
<1>7. told' \in BOOLEAN
  BY <1>6 DEF Answers, IInv, Types
<1>8. tests' \in Tests /\ Len(tests') = Len(tests) /\ TestInv'
  <2>1. CASE tests' = tests
    BY <2>1 DEF IInv, Types, TestInv, ActiveTests
  <2>2. CASE tests' = [tests EXCEPT ![req.test] = "failed"]
    BY <2>2, TestSet DEF IInv
  <2> QED
    BY <1>1, <2>1, <2>2 DEF TestFails
<1>9. Types'
  BY <1>1, <1>7, <1>8 DEF IInv, Types, router, server
<1>10. PageInv'
  BY <1>1, PageKeeps DEF IInv, Types, server, Runs0
<1>11. RequestInv' /\ BaseInv' /\ QuietInv'
  <2>1. CASE Answers(TRUE) \/ Answers(FALSE)
    <3>1. req' = Idle
      BY <2>1 DEF Answers
    <3> QED
      BY <1>1, <1>3, <1>4, <3>1, OverKeeps DEF IInv, BaseInv
  <2>2. ASSUME NEW l \in {"transfer", "probe", "run"}, l \in StepsOf(req.op), Goes(l)
        PROVE  RequestInv' /\ BaseInv' /\ QuietInv'
    <3>1. req.clear => imports' = {}
      BY <1>2, <1>3, RequestTypes DEF IInv, QuietInv, Knows
    <3> QED
      BY <1>1, <1>2, <1>3, <1>4, <2>2, <3>1, GoesOnKeeps
  <2> QED
    BY <1>6, <2>1, <2>2
<1> QED
  BY <1>8, <1>9, <1>10, <1>11 DEF IInv

-----------------------------------------------------------------------------
(* Installing                                                              *)

LEMMA ImportKeeps == ASSUME IInv, Import PROVE IInv'
<1> DEFINE i == [step |-> 1, asked |-> TRUE]
<1>1. /\ At("transfer") /\ imports' = imports \cup {i} /\ Goes("import")
      /\ UNCHANGED <<device, active, served, told, page, server, begun, tests, faults>>
  BY DEF Import
<1>2. req \in Requests /\ req.step = "transfer" /\ req.step \in StepsOf(req.op)
  BY <1>1, AtFacts DEF IInv, RequestInv
<1>3. /\ req' \in Requests /\ req'.step = "import" /\ req' # Idle
      /\ req'.op = req.op /\ req'.clear = req.clear /\ req'.begun = req.begun
  BY <1>1, <1>2, GoesFacts
<1>4. "import" \in StepsOf(req.op)
  BY <1>2, RequestTypes DEF StepsOf, Requests
<1>5. Types' /\ TestInv'
  <2>1. i \in [step : 1..4, asked : BOOLEAN]
    OBVIOUS
  <2> HIDE DEF i
  <2>2. imports' \subseteq [step : 1..4, asked : BOOLEAN]
    BY <1>1, <2>1 DEF IInv, Types
  <2> QED
    BY <1>1, <2>2 DEF IInv, Types, TestInv, ActiveTests, server
<1>6. PageInv'
  BY <1>1, PageKeeps DEF IInv, Types, server, Runs0
<1>7. At("import")' /\ ~At("wait") /\ ~At("wait")' /\ ~At("base")'
  BY <1>2, <1>3, RequestTypes DEF At
<1>8. RequestInv' /\ BaseInv'
  <2>1. device' = device /\ begun' = begun /\ ~device.run.asked
    BY <1>1, <1>7, NotAsked
  <2>2. \A j \in imports' : j.asked => j = i
    BY <1>1, <1>2, NoneAsked, RequestTypes DEF At
  <2>3. RequestInv'
    BY <1>2, <1>3, <1>4, <1>7, <2>1, <2>2, RequestTypes DEF IInv, RequestInv
  <2> QED
    BY <1>7, <2>1, <2>3 DEF IInv, BaseInv
<1>9. QuietInv'
  <2> SUFFICES ASSUME req.clear PROVE Knows'
    BY <1>3 DEF QuietInv
  <2>1. imports = {}
    BY <1>2, RequestTypes DEF IInv, QuietInv, Knows
  <2>2. imports' = {i} /\ AfterCommands(device, 1)
    BY <1>1, <2>1 DEF AfterCommands
  <2>3. device' = device
    BY <1>1
  <2> QED
    BY <1>3, <2>2, <2>3 DEF Knows
<1> QED
  BY <1>5, <1>6, <1>8, <1>9 DEF IInv

LEMMA CommandKeeps ==
  ASSUME device \in Device, NEW n \in 1..4
  PROVE  /\ Command(n) \in Device /\ Command(n).run = device.run /\ Command(n).base = device.base
         /\ AfterCommands(device, n) /\ n < 4 => AfterCommands(Command(n), n + 1)
         /\ AfterCommands(device, n) /\ n = 4 => Command(n).scripts = <<"current">> /\ Command(n).scheds = 1
<1> DEFINE s == Append(device.scripts, "current")
           k == device.scheds + 1
<1>1. device.scripts \in Seq(Scripts) /\ device.scheds \in Nat
  BY DeviceFacts
<1>2. /\ <<>> \in Seq(Scripts) /\ s \in Seq(Scripts) /\ 0 \in Nat /\ k \in Nat
      /\ device.scripts = <<>> => s = <<"current">>
      /\ device.scheds = 0 => k = 1
  <2>1. "current" \in Scripts
    BY DEF Scripts
  <2>2. s \in Seq(Scripts)
    BY <1>1, <2>1, AppendProperties
  <2>3. device.scripts = <<>> => s = <<"current">>
    OBVIOUS
  <2> QED
    BY <1>1, <2>2, <2>3
<1>3. /\ n = 1 => Command(n) = WithScripts(device, <<>>)
      /\ n = 2 => Command(n) = WithScripts(device, s)
      /\ n = 3 => Command(n) = WithScheds(device, 0)
      /\ n = 4 => Command(n) = WithScheds(device, k)
  BY DEF Command, WithScripts, WithScheds
<1> HIDE DEF s, k
<1>4. CASE n = 1
  <2>1. /\ WithScripts(device, <<>>) \in Device /\ WithScripts(device, <<>>).scripts = <<>>
        /\ WithScripts(device, <<>>).run = device.run /\ WithScripts(device, <<>>).base = device.base
    BY <1>2, CommandFacts
  <2>2. Command(n) = WithScripts(device, <<>>) /\ n + 1 = 2
    BY <1>3, <1>4
  <2> QED
    BY <1>4, <2>1, <2>2 DEF AfterCommands
<1>5. CASE n = 2
  BY <1>2, <1>3, <1>5, CommandFacts DEF AfterCommands
<1>6. CASE n = 3
  BY <1>2, <1>3, <1>6, CommandFacts DEF AfterCommands
<1>7. CASE n = 4
  BY <1>2, <1>3, <1>7, CommandFacts DEF AfterCommands
<1> QED
  BY <1>4, <1>5, <1>6, <1>7

LEMMA ImportStepKeeps == ASSUME IInv, NEW i, ImportStep(i) PROVE IInv'
<1> DEFINE rest == imports \ {i}
           next == [i EXCEPT !.step = @ + 1]
<1>1. /\ i \in imports /\ device' = Command(i.step)
      /\ imports' = IF i.step = 4 THEN rest ELSE rest \cup {next}
      /\ IF i.step = 4 /\ i.asked THEN Goes("verify") ELSE UNCHANGED req
      /\ UNCHANGED <<active, served, told, page, server, begun, tests, faults>>
  BY DEF ImportStep
<1>2. i.step \in 1..4 /\ i.asked \in BOOLEAN /\ i = [step |-> i.step, asked |-> i.asked]
  BY <1>1 DEF IInv, Types
<1>3. i.step # 4 => /\ next \in [step : 1..4, asked : BOOLEAN] /\ next.asked = i.asked
                    /\ next = [step |-> i.step + 1, asked |-> i.asked]
  BY <1>1, <1>2 DEF IInv, Types
<1> HIDE DEF next
<1>4. /\ device' \in Device /\ device'.run = device.run /\ device'.base = device.base
      /\ AfterCommands(device, i.step) /\ i.step < 4 => AfterCommands(device', i.step + 1)
      /\ AfterCommands(device, i.step) /\ i.step = 4 => device'.scripts = <<"current">> /\ device'.scheds = 1
  BY <1>1, <1>2, CommandKeeps DEF IInv, Types
<1>5. Types' /\ TestInv'
  <2>1. imports' \subseteq [step : 1..4, asked : BOOLEAN]
    BY <1>1, <1>3 DEF IInv, Types
  <2> QED
    BY <1>1, <1>4, <2>1 DEF IInv, Types, TestInv, ActiveTests, server
<1>6. PageInv'
  BY <1>1, PageKeeps DEF IInv, Types, server, Runs0
<1>7. CASE i.step = 4 /\ i.asked
  <2>1. At("import") /\ Goes("verify") /\ imports' = rest
    BY <1>1, <1>7 DEF IInv, RequestInv
  <2>2. req \in Requests /\ req.step = "import" /\ req.step \in StepsOf(req.op) /\ req # Idle
    BY <2>1, AtFacts DEF IInv, RequestInv
  <2>3. /\ req' \in Requests /\ req'.step = "verify" /\ req'.read = <<>> /\ req' # Idle
        /\ req'.op = req.op /\ req'.clear = req.clear /\ req'.begun = req.begun
    BY <2>1, <2>2, GoesFacts
  <2>4. "verify" \in StepsOf(req.op)
    BY <2>2, RequestTypes DEF StepsOf, Requests
  <2>5. ~device'.run.asked /\ begun' = begun
    BY <1>1, <1>4, <2>2, NotAsked DEF At
  <2>6. RequestInv'
    BY <2>1, <2>2, <2>3, <2>4, <2>5, <1>1, <1>7 DEF IInv, RequestInv
  <2>7. BaseInv'
    BY <1>4, <2>3, <2>5 DEF IInv, BaseInv, At
  <2>8. QuietInv'
    <3> SUFFICES ASSUME req.clear PROVE Knows'
      BY <2>3 DEF QuietInv
    <3>1. PICK n \in 1..4 : imports = {[step |-> n, asked |-> TRUE]} /\ AfterCommands(device, n)
      BY <2>2 DEF IInv, QuietInv, Knows
    <3>2. i = [step |-> n, asked |-> TRUE]
      BY <1>1, <3>1
    <3>3. n = 4 /\ imports' = {}
      BY <1>7, <2>1, <3>1, <3>2
    <3>4. device'.scripts = <<"current">> /\ device'.scheds = 1
      BY <1>4, <1>7, <3>1, <3>3
    <3> QED
      BY <2>3, <3>3, <3>4 DEF Knows
  <2> QED
    BY <1>5, <1>6, <2>6, <2>7, <2>8 DEF IInv
<1>8. CASE ~(i.step = 4 /\ i.asked)
  <2>1. req' = req /\ begun' = begun
    BY <1>1, <1>8
  <2>2. \A j \in imports' : j.asked => i.asked \/ j \in imports
    BY <1>1, <1>3
  <2>3. \A j, k \in imports' : j.asked /\ k.asked => j = k /\ At("import")
    <3> SUFFICES ASSUME NEW j \in imports', NEW k \in imports', j.asked, k.asked PROVE j = k /\ At("import")
      OBVIOUS
    <3>1. At("import")
      BY <1>1, <2>2 DEF IInv, RequestInv
    <3>2. CASE i.asked
      <4>1. \A l \in rest : ~l.asked
        BY <1>1, <3>2 DEF IInv, RequestInv
      <4> QED
        BY <1>1, <3>1, <4>1
    <3>3. CASE ~i.asked
      <4>1. \A l \in imports' : l.asked => l \in imports
        BY <1>1, <1>3, <3>3
      <4> QED
        BY <3>1, <4>1 DEF IInv, RequestInv
    <3> QED
      BY <1>2, <3>2, <3>3
  <2>4. RequestInv'
    BY <1>4, <2>1, <2>3 DEF IInv, RequestInv, At
  <2>5. BaseInv'
    BY <1>4, <2>1 DEF IInv, BaseInv, At
  <2>6. QuietInv'
    <3> SUFFICES ASSUME req # Idle, req.clear PROVE Knows'
      BY <2>1 DEF QuietInv
    <3>1. Knows /\ req.step = "import"
      BY <1>1 DEF IInv, QuietInv, Knows
    <3>2. PICK n \in 1..4 : imports = {[step |-> n, asked |-> TRUE]} /\ AfterCommands(device, n)
      BY <3>1 DEF Knows
    <3>3. i = [step |-> n, asked |-> TRUE]
      BY <1>1, <3>2
    <3>4. n # 4 /\ i.step = n /\ i.asked = TRUE
      BY <1>8, <3>3
    <3>5. imports' = {[step |-> n + 1, asked |-> TRUE]} /\ n + 1 \in 1..4
      <4>1. rest = {} /\ i.step # 4 /\ n + 1 \in 1..4
        BY <3>2, <3>3, <3>4
      <4>2. imports' = {next}
        BY <1>1, <4>1
      <4>3. next = [step |-> n + 1, asked |-> TRUE]
        BY <1>3, <3>4, <4>1
      <4> QED
        BY <4>1, <4>2, <4>3
    <3>6. AfterCommands(device', n + 1)
      BY <1>4, <3>2, <3>4
    <3> QED
      BY <2>1, <3>1, <3>5, <3>6 DEF Knows
  <2> QED
    BY <1>5, <1>6, <2>4, <2>5, <2>6 DEF IInv
<1> QED
  BY <1>7, <1>8

LEMMA ImportRefusedKeeps == ASSUME IInv, NEW i, ImportRefused(i) PROVE IInv'
<1>1. /\ i \in imports /\ imports' = imports \ {i}
      /\ (i.step = 2 /\ device.scripts # <<>>) \/ (i.step = 4 /\ device.scheds # 0)
      /\ IF i.asked THEN Answers(FALSE) ELSE UNCHANGED <<req, told>>
      /\ UNCHANGED <<device, active, served, page, server, begun, tests, faults>>
  BY DEF ImportRefused
<1>2. i.asked \in BOOLEAN /\ i = [step |-> i.step, asked |-> i.asked]
  BY <1>1 DEF IInv, Types
<1>3. Types' /\ TestInv'
  BY <1>1 DEF IInv, Types, TestInv, ActiveTests, Answers, server
<1>4. PageInv'
  BY <1>1, PageKeeps DEF IInv, Types, server, Runs0
<1>5. CASE i.asked
  <2>1. At("import") /\ req' = Idle /\ \A j \in imports' : ~j.asked
    BY <1>1, <1>5 DEF IInv, RequestInv, Answers
  <2>2. ~At("wait")
    BY <2>1 DEF At
  <2>3. ~device.run.asked
    BY <2>2, NotAsked
  <2> QED
    BY <1>1, <1>3, <1>4, <2>1, <2>3, OverKeeps DEF IInv, BaseInv
<1>6. CASE ~i.asked
  <2>1. req' = req
    BY <1>1, <1>6
  <2>2. RequestInv' /\ BaseInv'
    BY <1>1, <2>1 DEF IInv, RequestInv, BaseInv, At
  <2>3. QuietInv'
    <3> SUFFICES ASSUME req # Idle, req.clear PROVE FALSE
      BY <2>1 DEF QuietInv
    <3>1. Knows /\ imports # {}
      BY <1>1 DEF IInv, QuietInv
    <3>2. PICK n \in 1..4 : imports = {[step |-> n, asked |-> TRUE]}
      BY <3>1 DEF Knows
    <3> QED
      BY <1>1, <1>6, <3>2
  <2> QED
    BY <1>3, <1>4, <2>2, <2>3 DEF IInv
<1> QED
  BY <1>2, <1>5, <1>6

-----------------------------------------------------------------------------
(* Removing                                                                *)

LEMMA UnscheduleKeeps == ASSUME IInv, Unschedule PROVE IInv'
<1>1. /\ At("unschedule") /\ Goes("unscript") /\ device' = WithScheds(device, 0)
      /\ UNCHANGED <<imports, active, served, told, page, server, begun, tests, faults>>
  BY DEF Unschedule, WithScheds
<1>2. req \in Requests /\ req.step = "unschedule" /\ req.step \in StepsOf(req.op) /\ req # Idle
  BY <1>1, AtFacts DEF IInv, RequestInv
<1>3. /\ device' \in Device /\ device'.scheds = 0
      /\ device'.run = device.run /\ device'.base = device.base
  <2>1. device \in Device /\ <<>> \in Seq(Scripts)
    BY DEF IInv, Types
  <2> QED
    BY <1>1, <2>1, CommandFacts
<1>4. /\ req' \in Requests /\ req'.step = "unscript" /\ req' # Idle
      /\ req'.op = req.op /\ req'.clear = req.clear /\ req'.begun = req.begun
  BY <1>1, <1>2, GoesFacts
<1>5. "unscript" \in StepsOf(req.op)
  BY <1>2, RequestTypes DEF StepsOf, Requests
<1>6. Types' /\ TestInv'
  BY <1>1, <1>3 DEF IInv, Types, TestInv, ActiveTests, server
<1>7. PageInv'
  BY <1>1, PageKeeps DEF IInv, Types, server, Runs0
<1>8. ~device.run.asked /\ \A i \in imports : ~i.asked
  BY <1>2, NotAsked, NoneAsked DEF At
<1>9. RequestInv' /\ BaseInv'
  <2>1. ~At("wait")' /\ ~At("base")'
    BY <1>4, RequestTypes DEF At
  <2>2. RequestInv'
    BY <1>1, <1>2, <1>3, <1>4, <1>5, <1>8 DEF IInv, RequestInv
  <2>3. BaseInv'
    BY <1>1, <1>3, <2>1 DEF IInv, BaseInv
  <2> QED
    BY <2>2, <2>3
<1>10. QuietInv'
  BY <1>1, <1>2, <1>3, <1>4 DEF IInv, QuietInv, Knows
<1> QED
  BY <1>6, <1>7, <1>9, <1>10 DEF IInv

LEMMA UnscriptKeeps == ASSUME IInv, Unscript PROVE IInv'
<1>1. /\ At("unscript") /\ Goes("count") /\ device' = WithScripts(device, <<>>)
      /\ UNCHANGED <<imports, active, served, told, page, server, begun, tests, faults>>
  BY DEF Unscript, WithScripts
<1>2. req \in Requests /\ req.step = "unscript" /\ req.step \in StepsOf(req.op) /\ req # Idle
  BY <1>1, AtFacts DEF IInv, RequestInv
<1>3. /\ device' \in Device /\ device'.scripts = <<>> /\ device'.scheds = device.scheds
      /\ device'.run = device.run /\ device'.base = device.base
  <2>1. device \in Device /\ <<>> \in Seq(Scripts)
    BY DEF IInv, Types
  <2> QED
    BY <1>1, <2>1, CommandFacts
<1>4. /\ req' \in Requests /\ req'.step = "count" /\ req' # Idle /\ req'.read = <<>>
      /\ req'.op = req.op /\ req'.clear = req.clear /\ req'.begun = req.begun
  BY <1>1, <1>2, GoesFacts
<1>5. "count" \in StepsOf(req.op)
  BY <1>2, RequestTypes DEF StepsOf, Requests
<1>6. Types' /\ TestInv'
  BY <1>1, <1>3 DEF IInv, Types, TestInv, ActiveTests, server
<1>7. PageInv'
  BY <1>1, PageKeeps DEF IInv, Types, server, Runs0
<1>8. ~device.run.asked /\ \A i \in imports : ~i.asked
  BY <1>2, NotAsked, NoneAsked DEF At
<1>9. RequestInv' /\ BaseInv'
  <2>1. ~At("wait")' /\ ~At("base")'
    BY <1>4, RequestTypes DEF At
  <2>2. RequestInv'
    BY <1>1, <1>2, <1>3, <1>4, <1>5, <1>8 DEF IInv, RequestInv
  <2>3. BaseInv'
    BY <1>1, <1>3, <2>1 DEF IInv, BaseInv
  <2> QED
    BY <2>2, <2>3
<1>10. QuietInv'
  BY <1>1, <1>2, <1>3, <1>4 DEF IInv, QuietInv, Knows
<1> QED
  BY <1>6, <1>7, <1>9, <1>10 DEF IInv

LEMMA CountRemovedKeeps == ASSUME IInv, CountRemoved PROVE IInv'
<1> DEFINE x == {IF req.read = <<>> THEN device.scheds ELSE Len(device.scripts)}
           n == Len(req.read) + 1
<1>1. /\ At("count") /\ Len(req.read) < 2 /\ req' = Read(req, x)
      /\ UNCHANGED <<router, active, served, told, page, server, begun, tests, faults>>
  BY DEF CountRemoved, Read
<1>2. req \in Requests /\ req # Idle /\ req.step = "count" /\ req.step \in StepsOf(req.op)
  BY <1>1, AtFacts DEF IInv, RequestInv
<1>3. req.read \in Seq(Readings) /\ Len(req.read) \in Nat /\ n \in 1..2
  BY <1>1, <1>2, RequestTypes
<1>4. x \in Readings
  <2>1. device.scheds \in Nat /\ Len(device.scripts) \in Nat
    BY DeviceFacts DEF IInv, Types
  <2> QED
    BY <2>1 DEF Readings
<1>5. (req.clear => Knows) /\ (Knows => x = {0})
  BY <1>2 DEF IInv, QuietInv, Knows
<1> HIDE DEF x
<1>6. /\ req' \in Requests /\ req'.step = req.step /\ req'.op = req.op /\ req'.clear = req.clear
      /\ req'.begun = req.begun /\ Len(req'.read) = n
      /\ \A m \in 1..Len(req.read) : req'.read[m] = req.read[m]
      /\ req'.read[n] = x
  BY <1>1, <1>2, <1>4, ReadFacts
<1>7. Types' /\ TestInv'
  BY <1>1 DEF IInv, Types, TestInv, ActiveTests, router, server
<1>8. PageInv'
  BY <1>1, PageKeeps DEF IInv, Types, server, Runs0
<1>9. RequestInv' /\ BaseInv'
  BY <1>1, <1>2, <1>6, RequestTypes DEF IInv, RequestInv, BaseInv, At, router
<1>10. QuietInv'
  <2> SUFFICES ASSUME req.clear PROVE Knows'
    BY <1>2, <1>6 DEF QuietInv
  <2>1. \A m \in 1..n : req'.read[m] = {0}
    <3>1. \A m \in 1..n : m = n \/ m \in 1..Len(req.read)
      BY <1>3
    <3>2. \A m \in 1..Len(req.read) : req.read[m] = {0}
      BY <1>2, <1>5 DEF Knows
    <3> QED
      BY <1>5, <1>6, <3>1, <3>2
  <2>2. device' = device /\ imports' = imports
    BY <1>1 DEF router
  <2> QED
    BY <1>2, <1>3, <1>5, <1>6, <2>1, <2>2 DEF Knows
<1> QED
  BY <1>7, <1>8, <1>9, <1>10 DEF IInv

LEMMA RemovedKeeps == ASSUME IInv, Removed PROVE IInv'
<1>1. /\ At("count") /\ req' = Idle /\ told' \in BOOLEAN /\ active' \in BOOLEAN
      /\ UNCHANGED <<router, served, page, server, begun, tests, faults>>
  BY DEF IInv, Types, Removed, Answers
<1>2. Types' /\ TestInv'
  BY <1>1 DEF IInv, Types, TestInv, ActiveTests, router, server
<1>3. PageInv'
  BY <1>1, PageKeeps DEF IInv, Types, server, Runs0
<1>4. ~device.run.asked /\ \A i \in imports : ~i.asked
  <2>1. ~At("wait") /\ ~At("import")
    BY <1>1 DEF At
  <2> QED
    BY <2>1, NotAsked, NoneAsked
<1>5. RequestInv' /\ BaseInv' /\ QuietInv'
  BY <1>1, <1>4, OverKeeps DEF IInv, BaseInv, router
<1> QED
  BY <1>2, <1>3, <1>5 DEF IInv

-----------------------------------------------------------------------------
(* The script on the router                                                *)

\* A run begins.
LEMMA RunsFacts ==
  ASSUME IInv, NEW a \in BOOLEAN, Runs(a)
  PROVE  /\ device' \in Device /\ SameScripts(device, device') /\ device'.base = begun'
         /\ device'.run.asked = a /\ device'.run.id = begun' /\ begun' = begun + 1 /\ begun' \in Runs0
         /\ begun \in Nat
<1> DEFINE Kinds == [id : Runs0, asked : BOOLEAN, left : SUBSET Format]
           k == [id |-> begun + 1, asked |-> a, left |-> Format]
<1>1. begun \in Nat /\ begun' = begun + 1 /\ begun' \in Runs0
  BY PushAssumption DEF IInv, Types, Runs, Runs0
<1>2. k \in Kinds /\ k.asked = a /\ k.id = begun + 1
  BY <1>1
<1>3. device' = [device EXCEPT !.busy = TRUE, !.base = begun + 1, !.run = k]
  BY DEF Runs
<1>4. Device = [scripts : Seq(Scripts), scheds : Nat, busy : BOOLEAN, base : Runs0, run : Kinds]
  BY DEF Device
<1>5. device \in Device
  BY DEF IInv, Types
<1> HIDE DEF k, Kinds
<1>6. /\ device' \in Device /\ SameScripts(device, device') /\ device'.base = begun + 1 /\ device'.run = k
  BY <1>1, <1>2, <1>3, <1>4, <1>5 DEF SameScripts
<1> QED
  BY <1>1, <1>2, <1>6

\* Steps that leave the script and the scheduler leave what a session knows.
LEMMA KnowsKeeps ==
  ASSUME SameScripts(device, device'), UNCHANGED <<req, imports>>, Knows
  PROVE  Knows'
<1>1. device'.scripts = device.scripts /\ device'.scheds = device.scheds /\ req' = req /\ imports' = imports
  BY DEF SameScripts
<1>2. \A n \in 1..4 : AfterCommands(device', n) <=> AfterCommands(device, n)
  BY <1>1 DEF AfterCommands
<1>3. \A n : Looked(device', n) = Looked(device, n)
  BY <1>1 DEF Looked
<1>4. req'.step = "import" => \E n \in 1..4 : imports' = {[step |-> n, asked |-> TRUE]} /\ AfterCommands(device', n)
  BY <1>1, <1>2 DEF Knows
<1>5. req'.step \in {"preflight", "verify"} =>
        Len(req'.read) <= 3 /\ \A n \in 1..Len(req'.read) : req'.read[n] = Looked(device', n)
  BY <1>1, <1>3 DEF Knows
<1>6. /\ req'.step # "import" => imports' = {}
      /\ req'.step = "verify" => device'.scripts = <<"current">> /\ device'.scheds = 1
      /\ req'.step \in {"unscript", "count"} => device'.scheds = 0
      /\ req'.step = "count" =>
           device'.scripts = <<>> /\ Len(req'.read) <= 2 /\ \A n \in 1..Len(req'.read) : req'.read[n] = {0}
  BY <1>1 DEF Knows
<1> QED
  BY <1>4, <1>5, <1>6 DEF Knows

LEMMA ScheduledKeeps == ASSUME IInv, Scheduled PROVE IInv'
<1>1. Runs(FALSE) /\ UNCHANGED <<imports, web, server, tests, faults>>
  BY DEF Scheduled
<1>2. /\ device' \in Device /\ SameScripts(device, device') /\ device'.base = begun'
      /\ device'.run.asked = FALSE /\ device'.run.id = begun' /\ begun' = begun + 1 /\ begun' \in Runs0
      /\ begun \in Nat
  BY <1>1, RunsFacts
<1>3. Types' /\ TestInv'
  BY <1>1, <1>2 DEF IInv, Types, TestInv, ActiveTests, web, server
<1>4. PageInv'
  BY <1>1, <1>2, PageKeeps DEF IInv, Types, web, server
<1>5. req' = req /\ imports' = imports
  BY <1>1 DEF web
<1>6. RequestInv' /\ BaseInv'
  <2>1. req # Idle => req.begun \in Nat
    BY RequestTypes DEF IInv, RequestInv, Runs0
  <2>2. At("wait") \/ At("base") => req # Idle
    BY RequestTypes DEF At
  <2>3. begun' # 0
    BY <1>2
  <2> QED
    BY <1>2, <1>5, <2>1, <2>2, <2>3 DEF IInv, RequestInv, BaseInv, At
<1>7. QuietInv'
  BY <1>2, <1>5, KnowsKeeps DEF IInv, QuietInv
<1> QED
  BY <1>3, <1>4, <1>6, <1>7 DEF IInv

LEMMA ExecuteKeeps == ASSUME IInv, Execute PROVE IInv'
<1>1. /\ At("run") /\ UNCHANGED <<imports, active, served, page, server, tests, faults>>
      /\ \/ Answers(FALSE) /\ UNCHANGED <<device, begun>>
         \/ Runs(TRUE) /\ Goes("wait") /\ UNCHANGED told
  BY DEF Execute
<1>2. req \in Requests /\ req # Idle /\ req.step = "run" /\ req.step \in StepsOf(req.op) /\ req.begun <= begun
  BY <1>1, AtFacts DEF IInv, RequestInv
<1>3. ~device.run.asked /\ \A i \in imports : ~i.asked
  BY <1>2, NotAsked, NoneAsked DEF At
<1>4. CASE Answers(FALSE) /\ UNCHANGED <<device, begun>>
  <2>1. req' = Idle /\ told' = FALSE
    BY <1>4 DEF Answers
  <2>2. Types' /\ TestInv'
    BY <1>1, <1>4, <2>1 DEF IInv, Types, TestInv, ActiveTests, server
  <2>3. PageInv'
    BY <1>1, <1>4, PageKeeps DEF IInv, Types, server, Runs0
  <2>4. RequestInv' /\ BaseInv' /\ QuietInv'
    BY <1>1, <1>3, <1>4, <2>1, OverKeeps DEF IInv, BaseInv
  <2> QED
    BY <2>2, <2>3, <2>4 DEF IInv
<1>5. CASE Runs(TRUE) /\ Goes("wait") /\ UNCHANGED told
  <2>1. /\ device' \in Device /\ SameScripts(device, device') /\ device'.base = begun'
        /\ device'.run.asked = TRUE /\ device'.run.id = begun' /\ begun' = begun + 1 /\ begun' \in Runs0
        /\ begun \in Nat
    BY <1>5, RunsFacts
  <2>2. /\ req' \in Requests /\ req'.step = "wait" /\ req' # Idle /\ req'.read = <<>>
        /\ req'.op = req.op /\ req'.clear = req.clear /\ req'.begun = req.begun
    BY <1>2, <1>5, GoesFacts
  <2>3. "wait" \in StepsOf(req.op)
    BY <1>2, RequestTypes DEF StepsOf, Requests
  <2>4. Types' /\ TestInv'
    BY <1>1, <1>5, <2>1 DEF IInv, Types, TestInv, ActiveTests, server
  <2>5. PageInv'
    BY <1>1, <2>1, PageKeeps DEF IInv, Types, server
  <2>6. req.begun \in Nat /\ req.begun < begun' /\ begun' # 0
    BY <1>2, <2>1, RequestTypes DEF Runs0
  <2>7. RequestInv' /\ BaseInv'
    <3>1. At("wait")'
      BY <2>2, RequestTypes DEF At
    <3> QED
      BY <1>1, <1>3, <2>1, <2>2, <2>3, <2>6, <3>1 DEF RequestInv, BaseInv
  <2>8. QuietInv'
    BY <1>1, <1>2, <2>1, <2>2 DEF IInv, QuietInv, Knows
  <2> QED
    BY <2>4, <2>5, <2>7, <2>8 DEF IInv
<1> QED
  BY <1>1, <1>4, <1>5

\* The router goes on with a run, which the session does not see.
LEMMA GoesOnAlone ==
  ASSUME IInv, UNCHANGED <<req, imports, begun>>, SameScripts(device, device'), device'.base \in {0, device.base},
         device'.run.asked => device.run.asked, device'.run.id <= begun,
         device'.run.left # {} => device'.run.id # 0
  PROVE  RequestInv' /\ BaseInv' /\ QuietInv'
<1>1. RequestInv'
  BY DEF IInv, RequestInv, At
<1>2. BaseInv'
  BY DEF IInv, BaseInv, At
<1>3. QuietInv'
  BY KnowsKeeps DEF IInv, QuietInv
<1> QED
  BY <1>1, <1>2, <1>3

\* The file a run sends is of that run and of a type asked for.
LEMMA FileFacts ==
  ASSUME IInv, device.run.left # {}, NEW w \in BOOLEAN
  PROVE  File(w) \in [run : 1..MaxRuns, type : Format, whole : BOOLEAN]
<1>1. /\ device.run.id \in 1..MaxRuns /\ device.run.left \subseteq Format
  <2>1. device.run.id \in 0..MaxRuns /\ device.run.left \subseteq Format /\ device.run.id # 0
    BY DeviceFacts DEF IInv, Types, BaseInv, Runs0
  <2> QED
    BY <2>1, PushAssumption
<1>2. NextFile(device.run.left) \in Format
  BY <1>1, PushAssumption DEF NextFile
<1> QED
  BY <1>1, <1>2 DEF File

LEMMA UploadKeeps == ASSUME IInv, Upload PROVE IInv'
<1> DEFINE Kinds == [id : Runs0, asked : BOOLEAN, left : SUBSET Format]
           k == [device.run EXCEPT !.left = @ \ {NextFile(@)}]
<1>1. /\ device.run.left # {} /\ arriving' = arriving \cup {File(TRUE)}
      /\ device' = [device EXCEPT !.run = k]
      /\ UNCHANGED <<imports, web, uploads, probe, matched, begun, tests, faults>>
  BY DEF Upload
<1>2. Device = [scripts : Seq(Scripts), scheds : Nat, busy : BOOLEAN, base : Runs0, run : Kinds]
  BY DEF Device
<1>3. device \in Device /\ device.run \in Kinds
  BY <1>2 DEF IInv, Types
<1>4. k \in Kinds /\ k.id = device.run.id /\ k.asked = device.run.asked /\ k.left \subseteq device.run.left
  BY <1>3
<1> HIDE DEF k, Kinds
<1>5. device' \in Device /\ SameScripts(device, device') /\ device'.base = device.base /\ device'.run = k
  BY <1>1, <1>2, <1>3, <1>4 DEF SameScripts
<1>6. Types' /\ TestInv'
  <2>1. arriving' \subseteq [run : 1..MaxRuns, type : Format, whole : BOOLEAN]
    <3>1. arriving \subseteq [run : 1..MaxRuns, type : Format, whole : BOOLEAN]
      BY DEF IInv, Types
    <3>2. File(TRUE) \in [run : 1..MaxRuns, type : Format, whole : BOOLEAN]
      BY <1>1, FileFacts
    <3> QED
      BY <1>1, <3>1, <3>2
  <2> QED
    BY <1>1, <1>5, <2>1 DEF IInv, Types, TestInv, ActiveTests, web
<1>7. PageInv'
  BY <1>1, PageKeeps DEF IInv, Types, web, Runs0
<1>8. RequestInv' /\ BaseInv' /\ QuietInv'
  <2>1. device.run.id <= begun /\ device.run.id # 0
    BY <1>1 DEF IInv, BaseInv
  <2>2. UNCHANGED <<req, imports, begun>>
    BY <1>1 DEF web
  <2> QED
    BY <1>4, <1>5, <2>1, <2>2, GoesOnAlone
<1> QED
  BY <1>6, <1>7, <1>8 DEF IInv

LEMMA RunEndsKeeps == ASSUME IInv, RunEnds PROVE IInv'
<1>1. /\ device' = Stopped(FALSE)
      /\ IF device.run.asked THEN Goes("base") ELSE UNCHANGED req
      /\ UNCHANGED <<imports, active, served, told, page, server, begun, tests, faults>>
  BY DEF RunEnds
<1>2. /\ device' \in Device /\ SameScripts(device, device') /\ device'.base = device.base
      /\ device'.run.asked = FALSE /\ device'.run.id = 0 /\ device'.run.left = {} /\ begun \in Nat
  <2>1. device \in Device /\ begun \in Nat
    BY DEF IInv, Types, Runs0
  <2>2. /\ Stopped(FALSE) \in Device /\ SameScripts(device, Stopped(FALSE)) /\ Stopped(FALSE).base = device.base
        /\ Stopped(FALSE).run = NoRun
    BY <2>1, StoppedFacts
  <2>3. NoRun.asked = FALSE /\ NoRun.id = 0 /\ NoRun.left = {}
    BY DEF NoRun
  <2>4. device' = Stopped(FALSE)
    BY <1>1
  <2> QED
    BY <2>1, <2>2, <2>3, <2>4, Zenon
<1>3. Types' /\ TestInv'
  BY <1>1, <1>2 DEF IInv, Types, TestInv, ActiveTests, server
<1>4. PageInv'
  BY <1>1, PageKeeps DEF IInv, Types, server, Runs0
<1>5. CASE device.run.asked
  <2>1. At("wait") /\ Goes("base")
    BY <1>1, <1>5 DEF IInv, RequestInv
  <2>2. req \in Requests /\ req # Idle /\ req.step = "wait" /\ req.step \in StepsOf(req.op) /\ req.begun <= begun
    BY <2>1, AtFacts DEF IInv, RequestInv
  <2>3. /\ req' \in Requests /\ req'.step = "base" /\ req' # Idle
        /\ req'.op = req.op /\ req'.clear = req.clear /\ req'.begun = req.begun
    BY <2>1, <2>2, GoesFacts
  <2>4. "base" \in StepsOf(req.op)
    BY <2>2, RequestTypes DEF StepsOf, Requests
  <2>5. \A i \in imports : ~i.asked
    BY <2>2, NoneAsked DEF At
  <2>6. RequestInv'
    BY <1>1, <1>2, <2>2, <2>3, <2>4, <2>5 DEF RequestInv
  <2>7. BaseInv'
    <3>1. device'.base \in {0, begun} /\ req'.begun < begun /\ begun' = begun
      BY <1>1, <1>2, <2>1, <2>3 DEF IInv, BaseInv
    <3> QED
      BY <1>2, <3>1 DEF BaseInv
  <2>8. QuietInv'
    BY <1>1, <2>2, <2>3 DEF IInv, QuietInv, Knows
  <2> QED
    BY <1>3, <1>4, <2>6, <2>7, <2>8 DEF IInv
<1>6. CASE ~device.run.asked
  <2>1. UNCHANGED <<req, imports, begun>>
    BY <1>1, <1>6
  <2>2. RequestInv' /\ BaseInv' /\ QuietInv'
    BY <1>2, <2>1, GoesOnAlone
  <2> QED
    BY <1>3, <1>4, <2>2 DEF IInv
<1> QED
  BY <1>5, <1>6

LEMMA RunFailsKeeps == ASSUME IInv, RunFails PROVE IInv'
<1>1. /\ device' = Stopped(FALSE) /\ faults < MaxFaults /\ faults' = faults + 1
      /\ UNCHANGED arriving \/ (device.run.left # {} /\ arriving' = arriving \cup {File(FALSE)})
      /\ IF device.run.asked THEN Answers(FALSE) ELSE UNCHANGED <<req, told>>
      /\ UNCHANGED <<imports, active, served, page, uploads, probe, matched, begun, tests>>
  BY DEF RunFails
<1>2. /\ device' \in Device /\ SameScripts(device, device') /\ device'.base = device.base
      /\ device'.run.asked = FALSE /\ device'.run.id = 0 /\ device'.run.left = {} /\ begun \in Nat
  <2>1. device \in Device /\ begun \in Nat
    BY DEF IInv, Types, Runs0
  <2>2. /\ Stopped(FALSE) \in Device /\ SameScripts(device, Stopped(FALSE)) /\ Stopped(FALSE).base = device.base
        /\ Stopped(FALSE).run = NoRun
    BY <2>1, StoppedFacts
  <2>3. NoRun.asked = FALSE /\ NoRun.id = 0 /\ NoRun.left = {}
    BY DEF NoRun
  <2>4. device' = Stopped(FALSE)
    BY <1>1
  <2> QED
    BY <2>1, <2>2, <2>3, <2>4, Zenon
<1>3. Types' /\ TestInv'
  <2>1. arriving' \subseteq [run : 1..MaxRuns, type : Format, whole : BOOLEAN]
    <3>1. arriving \subseteq [run : 1..MaxRuns, type : Format, whole : BOOLEAN]
      BY DEF IInv, Types
    <3>2. device.run.left # {} => File(FALSE) \in [run : 1..MaxRuns, type : Format, whole : BOOLEAN]
      BY FileFacts
    <3> QED
      BY <1>1, <3>1, <3>2
  <2>2. faults' \in 0..MaxFaults /\ told' \in BOOLEAN
    <3>1. faults' \in 0..MaxFaults
      BY <1>1, PushAssumption DEF IInv, Types
    <3>2. told' \in BOOLEAN
      BY <1>1 DEF IInv, Types, Answers
    <3> QED
      BY <3>1, <3>2
  <2> QED
    BY <1>1, <1>2, <2>1, <2>2 DEF IInv, Types, TestInv, ActiveTests
<1>4. PageInv'
  BY <1>1, PageKeeps DEF IInv, Types, Runs0
<1>5. CASE device.run.asked
  <2>1. At("wait") /\ req' = Idle
    BY <1>1, <1>5 DEF IInv, RequestInv, Answers
  <2>2. \A i \in imports : ~i.asked
    BY <2>1, NoneAsked DEF At
  <2>3. RequestInv' /\ BaseInv' /\ QuietInv'
    <3>1. device'.base \in {0, begun'} /\ imports' = imports /\ begun' = begun
      BY <1>1, <1>2 DEF IInv, BaseInv
    <3> QED
      BY <1>2, <2>1, <2>2, <3>1, OverKeeps
  <2> QED
    BY <1>3, <1>4, <2>3 DEF IInv
<1>6. CASE ~device.run.asked
  <2>1. UNCHANGED <<req, imports, begun>>
    BY <1>1, <1>6
  <2>2. RequestInv' /\ BaseInv' /\ QuietInv'
    BY <1>2, <2>1, GoesOnAlone
  <2> QED
    BY <1>3, <1>4, <2>2 DEF IInv
<1> QED
  BY <1>5, <1>6

\* The session has seen its run begin: a name that is still there is of that
\* run or of a later one.
LEMMA ReadBaseKeeps == ASSUME IInv, ReadBase PROVE IInv'
<1>1. /\ At("base") /\ req' = Idle /\ told' \in BOOLEAN
      /\ \/ UNCHANGED page
         \/ /\ device.base # 0
            /\ page' = [state |-> "waiting", base |-> device.base, baseline |-> req.baseline, begun |-> req.begun]
      /\ UNCHANGED <<router, active, served, server, begun, tests, faults>>
  BY DEF ReadBase, Answers
<1>2. req \in Requests /\ req.step = "base"
  BY <1>1, AtFacts DEF IInv
<1>3. ~device.run.asked /\ \A i \in imports : ~i.asked
  BY <1>2, NotAsked, NoneAsked DEF At
<1>4. Types' /\ TestInv'
  BY <1>1 DEF IInv, Types, TestInv, ActiveTests, router, server
<1>5. PageInv'
  <2>1. CASE UNCHANGED page
    BY <1>1, <2>1, PageKeeps DEF IInv, Types, server, Runs0
  <2>2. CASE /\ device.base # 0
             /\ page' = [state |-> "waiting", base |-> device.base, baseline |-> req.baseline, begun |-> req.begun]
    <3>1. device.base = begun /\ begun \in Runs0 /\ begun \in Nat /\ req.begun < begun
      BY <1>1, <2>2 DEF IInv, BaseInv, Types, Runs0
    <3>2. page'.state = "waiting" /\ page'.base = begun /\ page'.begun = req.begun /\ begun' = begun
      BY <1>1, <2>2, <3>1
    <3>3. req.begun \in Runs0
      BY <1>2, RequestTypes
    <3> QED
      BY <3>1, <3>2, <3>3 DEF PageInv
  <2> QED
    BY <1>1, <2>1, <2>2
<1>6. RequestInv' /\ BaseInv' /\ QuietInv'
  BY <1>1, <1>3, OverKeeps DEF IInv, BaseInv, router
<1> QED
  BY <1>4, <1>5, <1>6 DEF IInv

-----------------------------------------------------------------------------
(* The page, the importer and time                                         *)

\* What is not the session's nor the router's leaves both as they are.
LEMMA OutsideKeeps ==
  ASSUME IInv, UNCHANGED <<router, req, begun>>
  PROVE  RequestInv' /\ BaseInv' /\ QuietInv'
<1>1. device' = device /\ UNCHANGED <<req, imports, begun>>
  BY DEF router
<1>2. device.run.id <= begun /\ (device.run.left # {} => device.run.id # 0)
  BY DEF IInv, BaseInv
<1> QED
  BY <1>1, <1>2, GoesOnAlone DEF SameScripts

LEMMA PollKeeps == ASSUME IInv, Poll PROVE IInv'
<1>1. /\ page.state = "waiting"
      /\ page' = CASE ~active -> [state |-> "failed"]
                   [] active /\ Format \subseteq Received(TRUE) -> [state |-> "validated", begun |-> page.begun]
                   [] OTHER -> IF Received(FALSE) # {} THEN [state |-> "failed"] ELSE page
      /\ UNCHANGED <<router, active, req, served, told, server, begun, tests, faults>>
  BY DEF Poll
<1>2. Types' /\ TestInv'
  BY <1>1 DEF IInv, Types, TestInv, ActiveTests, router, server
<1>3. RequestInv' /\ BaseInv' /\ QuietInv'
  BY <1>1, OutsideKeeps
<1>4. PageInv'
  <2>1. /\ page.base \in Runs0 /\ page.begun \in Runs0 /\ page.begun < page.base /\ page.base <= begun
        /\ begun \in Nat
    BY <1>1 DEF IInv, PageInv, Types, Runs0
  <2>2. \/ page' = [state |-> "failed"]
        \/ Format \subseteq Received(TRUE) /\ page' = [state |-> "validated", begun |-> page.begun]
        \/ page' = page
    BY <1>1 DEF IInv, Types
  <2>3. CASE page' = [state |-> "failed"]
    BY <2>3 DEF PageInv
  <2>4. CASE page' = page
    <3>1. Types /\ PageInv /\ begun \in Runs0
      BY DEF IInv, Types
    <3>2. begun' = begun /\ uploads' = uploads
      BY <1>1 DEF server
    <3>3. begun' \in Runs0 /\ begun <= begun' /\ uploads \subseteq uploads'
      BY <2>1, <3>1, <3>2
    <3> QED
      BY <2>4, <3>1, <3>3, PageKeeps
  <2>5. CASE Format \subseteq Received(TRUE) /\ page' = [state |-> "validated", begun |-> page.begun]
    <3>1. \A t \in Format : [run |-> page.base, type |-> t, success |-> TRUE] \in uploads
      <4> SUFFICES ASSUME NEW t \in Format PROVE [run |-> page.base, type |-> t, success |-> TRUE] \in uploads
        OBVIOUS
      <4>1. PICK u \in uploads : OfRun(u) /\ u.success = TRUE /\ t = u.type
        BY <2>5 DEF Received
      <4>2. u \in Uploaded /\ u.run = page.base
        BY <4>1 DEF IInv, Types, OfRun
      <4>3. u = [run |-> page.base, type |-> t, success |-> TRUE]
        BY <4>1, <4>2 DEF Uploaded
      <4> QED
        BY <4>1, <4>3
    <3>2. page.base \in page.begun + 1 .. begun
      BY <2>1 DEF Runs0
    <3>3. page'.state = "validated" /\ page'.begun = page.begun
      BY <2>5
    <3>4. begun' = begun /\ uploads' = uploads
      BY <1>1 DEF server
    <3> QED
      BY <2>1, <3>1, <3>2, <3>3, <3>4 DEF PageInv
  <2> QED
    BY <2>2, <2>3, <2>4, <2>5
<1> QED
  BY <1>2, <1>3, <1>4 DEF IInv

LEMMA TakeKeeps == ASSUME IInv, NEW f, Take(f) PROVE IInv'
<1>1. /\ f \in arriving
      /\ \E success \in BOOLEAN : Store(f, success)
      /\ faults' = faults \/ (faults < MaxFaults /\ faults' = faults + 1)
      /\ UNCHANGED <<router, web, probe, matched, begun, tests>>
  BY DEF Take
<1>2. PICK success \in BOOLEAN : Store(f, success)
  BY <1>1
<1> DEFINE u == [run |-> f.run, type |-> f.type, success |-> success]
<1>3. u \in Uploaded
  BY <1>1 DEF IInv, Types, Uploaded
<1>4. uploads' = uploads \cup {u} /\ arriving' = arriving \ {f}
  BY <1>2 DEF Store
<1> HIDE DEF u
<1>5. faults' \in 0..MaxFaults
  BY <1>1, PushAssumption DEF IInv, Types
<1>6. uploads' \subseteq Uploaded
  BY <1>3, <1>4 DEF IInv, Types
<1>7. Types' /\ TestInv'
  BY <1>1, <1>4, <1>5, <1>6 DEF IInv, Types, TestInv, ActiveTests, router, web
<1>8. PageInv'
  BY <1>1, <1>4, PageKeeps DEF IInv, Types, web, Runs0
<1>9. RequestInv' /\ BaseInv' /\ QuietInv'
  BY <1>1, OutsideKeeps DEF web
<1> QED
  BY <1>7, <1>8, <1>9 DEF IInv

LEMMA ProbeKeeps == ASSUME IInv, Probe PROVE IInv'
<1>1. /\ At("probe") /\ probe' = Len(tests) /\ req' = Idle /\ told' = TRUE
      /\ UNCHANGED <<router, active, served, page, arriving, uploads, matched, begun, tests, faults>>
  BY DEF Probe, Answers
<1>2. probe' \in 0..MaxTests
  BY <1>1, PushAssumption DEF IInv, Types, Tests
<1>3. Types' /\ TestInv'
  BY <1>1, <1>2 DEF IInv, Types, TestInv, ActiveTests, router
<1>4. PageInv'
  BY <1>1, PageKeeps DEF IInv, Types, Runs0
<1>5. ~device.run.asked /\ \A i \in imports : ~i.asked
  <2>1. ~At("wait") /\ ~At("import")
    BY <1>1 DEF At
  <2> QED
    BY <2>1, NotAsked, NoneAsked
<1>6. RequestInv' /\ BaseInv' /\ QuietInv'
  BY <1>1, <1>5, OverKeeps DEF IInv, BaseInv, router
<1> QED
  BY <1>3, <1>4, <1>6 DEF IInv

\* What happens to a test, to its file and to what the importer makes of it.
LEMMA TestStep ==
  ASSUME IInv, UNCHANGED <<router, web, arriving, uploads, begun>>,
         probe' \in 0..MaxTests, matched' \in 0..MaxTests, faults' \in 0..MaxFaults,
         tests' \in Tests, Len(tests') = Len(tests), TestInv'
  PROVE  IInv'
<1>1. Types'
  BY DEF IInv, Types, router, web
<1>2. PageInv'
  BY PageKeeps DEF IInv, Types, web, Runs0
<1>3. RequestInv' /\ BaseInv' /\ QuietInv'
  BY OutsideKeeps DEF web
<1> QED
  BY <1>1, <1>2, <1>3 DEF IInv

LEMMA TestFacts ==
  ASSUME IInv
  PROVE  /\ tests \in Tests /\ Len(tests) \in Nat /\ ActiveTests \subseteq 0..MaxTests
         /\ probe \in 0..MaxTests /\ matched \in 0..MaxTests /\ faults \in 0..MaxFaults /\ 0 \in 0..MaxTests
<1>1. /\ tests \in Tests /\ Len(tests) <= MaxTests
      /\ probe \in 0..MaxTests /\ matched \in 0..MaxTests /\ faults \in 0..MaxFaults
  BY DEF IInv, Types
<1>2. DOMAIN tests = 1..Len(tests) /\ Len(tests) \in Nat
  BY <1>1 DEF Tests
<1>3. ActiveTests \subseteq 0..MaxTests
  BY <1>1, <1>2, PushAssumption DEF ActiveTests
<1> QED
  BY <1>1, <1>2, <1>3, PushAssumption

LEMMA MatchKeeps == ASSUME IInv, Match PROVE IInv'
<1>1. UNCHANGED <<router, web, arriving, uploads, begun, faults>>
  BY DEF Match
<1>2. CASE probe' = 0 /\ UNCHANGED <<matched, tests>>
  <2>1. TestInv'
    BY <1>2 DEF IInv, TestInv, ActiveTests
  <2> QED
    BY <1>1, <1>2, <2>1, TestFacts, TestStep
<1>3. CASE ActiveTests # {}
  <2> DEFINE t == CHOOSE t \in ActiveTests : \A o \in ActiveTests : o <= t
  <2>1. t \in ActiveTests
    <3>1. PICK s \in ActiveTests : TRUE
      BY <1>3
    <3>2. s \in Nat
      BY TestFacts, PushAssumption
    <3>3. \A o \in ActiveTests : o <= s
      BY <3>1, <3>2 DEF IInv, TestInv
    <3> QED
      BY <3>1, <3>3
  <2>2. \/ probe' = 0 /\ tests' = Expired(t) /\ UNCHANGED matched
        \/ probe' = 0 /\ matched' = t /\ UNCHANGED tests
    BY <1>3 DEF Match
  <2> HIDE DEF t
  <2>3. CASE probe' = 0 /\ tests' = Expired(t) /\ UNCHANGED matched
    <3>1. tests' \in Tests /\ Len(tests') = Len(tests) /\ TestInv'
      BY <2>3, TestSet DEF IInv, Expired
    <3> QED
      BY <1>1, <2>3, <3>1, TestFacts, TestStep
  <2>4. CASE probe' = 0 /\ matched' = t /\ UNCHANGED tests
    <3>1. TestInv'
      BY <2>4 DEF IInv, TestInv, ActiveTests
    <3>2. t \in 0..MaxTests
      BY <2>1, TestFacts
    <3> QED
      BY <1>1, <2>4, <3>1, <3>2, TestFacts, TestStep
  <2> QED
    BY <2>2, <2>3, <2>4
<1> QED
  BY <1>2, <1>3 DEF Match

LEMMA CompleteKeeps == ASSUME IInv, Complete PROVE IInv'
<1>1. PICK v \in {"validated", "failed"} : tests' = [tests EXCEPT ![matched] = v]
  BY DEF Complete
<1>2. matched # 0 /\ matched' = 0 /\ UNCHANGED <<router, web, arriving, uploads, begun>>
  BY DEF Complete
<1>3. tests' \in Tests /\ Len(tests') = Len(tests) /\ TestInv'
  BY <1>1, TestSet DEF IInv
<1>4. probe' \in 0..MaxTests /\ faults' \in 0..MaxFaults
  BY TestFacts, PushAssumption DEF Complete
<1> QED
  BY <1>2, <1>3, <1>4, TestFacts, TestStep

LEMMA ImporterDiesKeeps == ASSUME IInv, ImporterDies PROVE IInv'
<1>1. /\ matched' = 0 /\ faults < MaxFaults /\ faults' = faults + 1
      /\ UNCHANGED <<router, web, arriving, uploads, probe, begun, tests>>
  BY DEF ImporterDies
<1>2. TestInv'
  BY <1>1 DEF IInv, TestInv, ActiveTests
<1>3. faults' \in 0..MaxFaults
  BY <1>1, PushAssumption DEF IInv, Types
<1> QED
  BY <1>1, <1>2, <1>3, TestFacts, TestStep

LEMMA TimePassesKeeps == ASSUME IInv, NEW t, TimePasses(t) PROVE IInv'
<1>1. /\ t \in ActiveTests /\ tests' = [tests EXCEPT ![t] = "late"]
      /\ UNCHANGED <<router, web, server, begun, faults>>
  BY DEF TimePasses, ActiveTests, Open
<1>2. tests' \in Tests /\ Len(tests') = Len(tests) /\ TestInv'
  BY <1>1, TestSet DEF IInv
<1> QED
  BY <1>1, <1>2, TestFacts, TestStep DEF server

LEMMA ExpireKeeps == ASSUME IInv, NEW t, Expire(t) PROVE IInv'
<1>1. tests' = [tests EXCEPT ![t] = "expired"] /\ UNCHANGED <<router, web, server, begun, faults>>
  BY DEF Expire, Expired
<1>2. tests' \in Tests /\ Len(tests') = Len(tests) /\ TestInv'
  BY <1>1, TestSet DEF IInv
<1> QED
  BY <1>1, <1>2, TestFacts, TestStep DEF server

-----------------------------------------------------------------------------
(* Faults                                                                  *)

\* The router goes on alone, or stops where it was.
LEMMA AbandonedFacts ==
  ASSUME IInv, Abandoned
  PROVE  /\ device' \in Device /\ ~device'.run.asked /\ \A i \in imports' : ~i.asked
         /\ imports' \subseteq [step : 1..4, asked : BOOLEAN]
         /\ device'.base = device.base /\ device'.run.id <= begun
         /\ device'.run.left # {} => device'.run.id # 0
<1>1. imports' \subseteq [step : 1..4, asked : BOOLEAN] /\ \A i \in imports' : ~i.asked
  <2>1. imports \subseteq [step : 1..4, asked : BOOLEAN]
    BY DEF IInv, Types
  <2>2. CASE imports' = {[i EXCEPT !.asked = FALSE] : i \in imports}
    <3>1. \A i \in imports : LET j == [i EXCEPT !.asked = FALSE] IN
            j \in [step : 1..4, asked : BOOLEAN] /\ ~j.asked
      BY <2>1
    <3> QED
      BY <2>2, <3>1
  <2>3. CASE imports' = {i \in imports : ~i.asked}
    BY <2>1, <2>3
  <2> QED
    BY <2>2, <2>3 DEF Abandoned
<1>2. /\ device \in Device /\ device.run.id <= begun /\ begun \in Nat
      /\ device.run.left # {} => device.run.id # 0
  BY DEF IInv, Types, BaseInv, Runs0
<1>3. CASE ~device.run.asked
  <2>1. device' = device
    BY <1>3 DEF Abandoned
  <2> QED
    BY <1>1, <1>2, <1>3, <2>1
<1>4. CASE device' = Stopped(TRUE)
  <2>1. Stopped(TRUE) \in Device /\ Stopped(TRUE).base = device.base /\ Stopped(TRUE).run = NoRun
    BY <1>2, StoppedFacts
  <2>2. NoRun.asked = FALSE /\ NoRun.id = 0 /\ NoRun.left = {}
    BY DEF NoRun
  <2>3. /\ device' \in Device /\ device'.base = device.base
        /\ device'.run.asked = FALSE /\ device'.run.id = 0 /\ device'.run.left = {}
    BY <1>4, <2>1, <2>2, Zenon
  <2> QED
    BY <1>1, <1>2, <2>3
<1>5. CASE device' = [device EXCEPT !.run.asked = FALSE]
  <2> DEFINE Kinds == [id : Runs0, asked : BOOLEAN, left : SUBSET Format]
             k == [device.run EXCEPT !.asked = FALSE]
  <2>1. Device = [scripts : Seq(Scripts), scheds : Nat, busy : BOOLEAN, base : Runs0, run : Kinds]
    BY DEF Device
  <2>2. device.run \in Kinds
    BY <1>2, <2>1
  <2>3. k \in Kinds /\ k.asked = FALSE /\ k.id = device.run.id /\ k.left = device.run.left
    BY <2>2
  <2>4. device' = [device EXCEPT !.run = k]
    BY <1>5
  <2> HIDE DEF k, Kinds
  <2>5. device' \in Device /\ device'.run = k /\ device'.base = device.base
    BY <1>2, <2>1, <2>3, <2>4
  <2> QED
    BY <1>1, <1>2, <2>3, <2>5
<1> QED
  BY <1>3, <1>4, <1>5 DEF Abandoned

LEMMA FailedTest ==
  ASSUME IInv, tests' = tests \/ tests' = TestFails
  PROVE  tests' \in Tests /\ Len(tests') = Len(tests) /\ TestInv'
<1>1. CASE tests' = tests
  BY <1>1 DEF IInv, Types, TestInv, ActiveTests
<1>2. CASE tests' = [tests EXCEPT ![req.test] = "failed"]
  BY <1>2, TestSet DEF IInv
<1> QED
  BY <1>1, <1>2 DEF TestFails

\* The session is lost or the web process dies.
LEMMA LostKeeps ==
  ASSUME IInv, SessionLost \/ Restart
  PROVE  IInv'
<1>1. /\ Abandoned /\ req' = Idle /\ told' = FALSE /\ faults < MaxFaults /\ faults' = faults + 1
      /\ tests' = tests \/ tests' = TestFails
      /\ probe' = probe \/ probe' = Len(tests)
      /\ UNCHANGED <<active, served, page, arriving, uploads, matched, begun>>
  BY DEF SessionLost, Restart, Answers, server
<1>2. /\ device' \in Device /\ ~device'.run.asked /\ \A i \in imports' : ~i.asked
      /\ imports' \subseteq [step : 1..4, asked : BOOLEAN]
      /\ device'.base = device.base /\ device'.run.id <= begun
      /\ device'.run.left # {} => device'.run.id # 0
  BY <1>1, AbandonedFacts
<1>3. tests' \in Tests /\ Len(tests') = Len(tests) /\ TestInv'
  BY <1>1, FailedTest
<1>4. probe' \in 0..MaxTests /\ faults' \in 0..MaxFaults
  BY <1>1, PushAssumption DEF IInv, Types, Tests
<1>5. Types'
  BY <1>1, <1>2, <1>3, <1>4 DEF IInv, Types
<1>6. PageInv'
  BY <1>1, PageKeeps DEF IInv, Types, Runs0
<1>7. RequestInv' /\ BaseInv' /\ QuietInv'
  <2>1. device'.base \in {0, begun'} /\ begun' = begun
    BY <1>1, <1>2 DEF IInv, BaseInv
  <2> QED
    BY <1>1, <1>2, <2>1, OverKeeps
<1> QED
  BY <1>3, <1>5, <1>6, <1>7 DEF IInv

LEMMA RebootKeeps == ASSUME IInv, Reboot PROVE IInv'
<1>1. /\ faults < MaxFaults /\ faults' = faults + 1 /\ imports' = {}
      /\ device' = [Stopped(FALSE) EXCEPT !.base = 0]
      /\ tests' = tests \/ tests' = TestFails
      /\ told' \in BOOLEAN /\ req' = Idle
      /\ UNCHANGED <<active, served, page, server, begun>>
  <2>1. told \in BOOLEAN
    BY DEF IInv, Types
  <2> QED
    BY <2>1 DEF Reboot, Answers
<1>2. /\ device' \in Device /\ device'.run.asked = FALSE /\ device'.run.id = 0 /\ device'.run.left = {}
      /\ device'.base = 0
  <2>1. device \in Device
    BY DEF IInv, Types
  <2> DEFINE d == [Stopped(FALSE) EXCEPT !.base = 0]
  <2>2. d \in Device /\ d.base = 0 /\ d.run = NoRun
    BY <2>1, StoppedFacts
  <2>3. NoRun.asked = FALSE /\ NoRun.id = 0 /\ NoRun.left = {}
    BY DEF NoRun
  <2>4. device' = d
    BY <1>1
  <2> HIDE DEF d
  <2> QED
    BY <2>2, <2>3, <2>4, Zenon
<1>3. tests' \in Tests /\ Len(tests') = Len(tests) /\ TestInv'
  BY <1>1, FailedTest
<1>4. faults' \in 0..MaxFaults /\ begun \in Nat
  BY <1>1, PushAssumption DEF IInv, Types, Runs0
<1>5. Types'
  BY <1>1, <1>2, <1>3, <1>4 DEF IInv, Types, server
<1>6. PageInv'
  BY <1>1, PageKeeps DEF IInv, Types, server, Runs0
<1>7. RequestInv' /\ BaseInv' /\ QuietInv'
  <2>1. /\ ~device'.run.asked /\ \A i \in imports' : ~i.asked
        /\ device'.base \in {0, begun'} /\ device'.run.id <= begun'
        /\ device'.run.left # {} => device'.run.id # 0
    <3>1. begun' \in Nat /\ 0 <= begun'
      BY <1>1, <1>4
    <3>2. \A i \in imports' : ~i.asked
      BY <1>1
    <3> QED
      BY <1>2, <3>1, <3>2, Zenon
  <2> QED
    BY <1>1, <2>1, OverKeeps
<1> QED
  BY <1>3, <1>5, <1>6, <1>7 DEF IInv

-----------------------------------------------------------------------------
(* Every step                                                              *)

LEMMA NextKeeps == ASSUME IInv, Next PROVE IInv'
<1>1. CASE Session
  BY <1>1, BeginsKeeps, StartTestKeeps, PreflightKeeps, DecideKeeps, ImportKeeps, UnscheduleKeeps,
     UnscriptKeeps, CountRemovedKeeps, RemovedKeeps, ExecuteKeeps, ReadBaseKeeps, PollKeeps, ProbeKeeps
     DEF Session
<1>2. CASE Router
  BY <1>2, ImportStepKeeps, ImportRefusedKeeps, ScheduledKeeps, UploadKeeps, RunEndsKeeps, RunFailsKeeps
     DEF Router
<1>3. CASE (\E f \in arriving : Take(f)) \/ Match \/ Complete \/ ImporterDies
  BY <1>3, TakeKeeps, MatchKeeps, CompleteKeeps, ImporterDiesKeeps
<1>4. CASE \E t \in DOMAIN tests : TimePasses(t) \/ Expire(t)
  BY <1>4, TimePassesKeeps, ExpireKeeps
<1>5. CASE SessionLost \/ Restart \/ Reboot
  BY <1>5, LostKeeps, RebootKeeps
<1> QED
  BY <1>1, <1>2, <1>3, <1>4, <1>5 DEF Next

LEMMA StutterKeeps == ASSUME IInv, UNCHANGED vars PROVE IInv'
<1>1. UNCHANGED <<router, web, arriving, uploads, begun, probe, matched, faults, tests>>
  BY DEF vars, server
<1>2. TestInv'
  BY <1>1 DEF IInv, TestInv, ActiveTests
<1> QED
  BY <1>1, <1>2, TestFacts, TestStep

\* The invariant holds of every reachable state.
THEOREM Inductive == Spec => []IInv
<1>1. IInv /\ [Next]_vars => IInv'
  BY NextKeeps, StutterKeeps
<1> QED
  BY <1>1, FirstState, PTL DEF Spec

\* The state of the router, of the requests and of the server is of its type.
THEOREM TypeCorrect == Spec => []TypeOK
<1>1. IInv => TypeOK
  BY DEF IInv, Types, TypeOK, Device, Uploaded, Runs0
<1> QED
  BY <1>1, Inductive, PTL

\* The page of a requested run says received and validated only if a run begun
\* after the request had all its files stored (mikrotik_ftp_web.py).
THEOREM NoOlderRunConfirms == Spec => []ConfirmedIsNew
<1>1. IInv => ConfirmedIsNew
  BY DEF IInv, PageInv, ConfirmedIsNew
<1> QED
  BY <1>1, Inductive, PTL

-----------------------------------------------------------------------------
(* Sessions that nothing disturbs                                          *)

Promise ==
  /\ req.op \in {"install", "repair"} /\ told' => Sound
  /\ req.op = "remove" /\ told' => device'.scripts = <<>> /\ device'.scheds = 0
  /\ req.op \in {"repair", "remove"} => told'

\* A session that decides on what it has read, which is still so.
LEMMA DecideHolds ==
  ASSUME IInv, Decide, req' = Idle, req.clear
  PROVE  Promise
<1>1. (At("preflight") \/ At("verify")) /\ Len(req.read) = 3 /\ UNCHANGED router
  BY DEF Decide
<1>2. req \in Requests /\ req # Idle /\ req.step \in {"preflight", "verify"} /\ req.step \in StepsOf(req.op)
  BY <1>1, AtFacts DEF IInv, RequestInv
<1>3. Knows
  BY <1>2 DEF IInv, QuietInv
<1>4. \A n \in 1..3 : req.read[n] = Looked(device, n)
  BY <1>1, <1>2, <1>3 DEF Knows
<1>5. Found = "installed_valid" <=> device.scripts = <<"current">> /\ device.scheds = 1
  BY <1>4, FoundFacts DEF IInv
<1>6. device' = device
  BY <1>1 DEF router
<1>7. \A l \in {"transfer", "probe", "run"} : ~Goes(l)
  BY <1>2, GoesFacts
<1>8. CASE req.step = "verify"
  <2>1. Found = "installed_valid"
    BY <1>3, <1>5, <1>8 DEF Knows
  <2>2. told' = TRUE
    BY <1>8, <2>1 DEF Decide, Answers
  <2>3. req.op # "remove"
    BY <1>2, <1>8 DEF StepsOf
  <2> QED
    BY <1>5, <1>6, <2>1, <2>2, <2>3 DEF Promise, Sound
<1>9. CASE req.step = "preflight" /\ req.op \in {"install", "repair"}
  <2>1. \/ Found = "installed_valid" /\ told' = TRUE
        \/ req.op = "install" /\ told' = FALSE
    BY <1>7, <1>9 DEF Decide, Answers
  <2> QED
    BY <1>5, <1>6, <1>9, <2>1 DEF Promise, Sound
<1>10. CASE req.step = "preflight" /\ req.op \notin {"install", "repair"}
  <2>1. req.op # "remove"
    BY <1>2, <1>10 DEF StepsOf
  <2> QED
    BY <1>10, <2>1 DEF Promise
<1> QED
  BY <1>2, <1>8, <1>9, <1>10

\* The counts of a removal.
LEMMA RemovedHolds ==
  ASSUME IInv, Removed, req.clear
  PROVE  Promise
<1>1. At("count") /\ Len(req.read) = 2 /\ UNCHANGED router
  BY DEF Removed
<1>2. req \in Requests /\ req # Idle /\ req.step = "count" /\ req.step \in StepsOf(req.op)
  BY <1>1, AtFacts DEF IInv, RequestInv
<1>3. Knows /\ req.read \in Seq(Readings)
  BY <1>2, RequestTypes DEF IInv, QuietInv
<1>4. /\ device.scheds = 0 /\ device.scripts = <<>>
      /\ \A n \in 1..2 : req.read[n] = {0}
  BY <1>1, <1>2, <1>3 DEF Knows
<1>5. req.read = <<{0}, {0}>>
  BY <1>1, <1>3, <1>4
<1>6. told' = TRUE
  BY <1>5 DEF Removed, Answers
<1>7. req.op = "remove"
  BY <1>2, RequestTypes DEF StepsOf, Requests
<1>8. device' = device
  BY <1>1 DEF router
<1> QED
  BY <1>4, <1>6, <1>7, <1>8 DEF Promise

\* A session that was alone with the router finds every name free.
LEMMA NothingRefused ==
  ASSUME IInv, NEW i, ImportRefused(i), req # Idle, req.clear
  PROVE  FALSE
<1>1. /\ i \in imports
      /\ (i.step = 2 /\ device.scripts # <<>>) \/ (i.step = 4 /\ device.scheds # 0)
  BY DEF ImportRefused
<1>2. Knows
  BY DEF IInv, QuietInv
<1>3. req.step = "import"
  BY <1>1, <1>2 DEF Knows
<1>4. PICK n \in 1..4 : imports = {[step |-> n, asked |-> TRUE]} /\ AfterCommands(device, n)
  BY <1>2, <1>3 DEF Knows
<1>5. i.step = n
  BY <1>1, <1>4
<1>6. n = 2 => device.scripts = <<>>
  BY <1>4 DEF AfterCommands
<1>7. n = 4 => device.scheds = 0
  BY <1>4 DEF AfterCommands
<1> QED
  BY <1>1, <1>5, <1>6, <1>7

LEMMA NextHolds ==
  ASSUME IInv, Next, req # Idle, req' = Idle, req.clear, faults' = faults
  PROVE  Promise
<1>1. /\ \A l \in {"preflight", "verify", "transfer", "import", "unschedule", "unscript", "count",
                   "run", "wait", "base", "probe"} : ~Goes(l)
      /\ req' # req /\ ~UNCHANGED web
  BY GoesFacts DEF IInv, RequestInv, web
<1>2. faults' # faults + 1
  BY DEF IInv, Types
<1>3. CASE Begins \/ StartTest \/ Poll
  BY <1>3 DEF Begins, StartTest, Poll
<1>4. CASE Preflight
  <2> DEFINE n == Len(req.read) + 1
  <2>1. req' = Read(req, Reading(n)) /\ (At("preflight") \/ At("verify")) /\ Len(req.read) < 3
    BY <1>4 DEF Preflight, Read
  <2>2. req \in Requests
    BY <2>1, AtFacts DEF IInv
  <2>3. n \in 1..3
    BY <2>1, <2>2, RequestTypes
  <2>4. req' \in Requests
    BY <2>1, <2>2, <2>3, ReadFacts, ReadingFacts DEF IInv, Types
  <2> QED
    BY <2>4, RequestTypes
<1>5. CASE CountRemoved
  <2> DEFINE x == {IF req.read = <<>> THEN device.scheds ELSE Len(device.scripts)}
  <2>1. req' = Read(req, x) /\ At("count")
    BY <1>5 DEF CountRemoved, Read
  <2>2. req \in Requests
    BY <2>1, AtFacts DEF IInv
  <2>3. x \in Readings
    <3>1. device.scheds \in Nat /\ Len(device.scripts) \in Nat
      BY DeviceFacts DEF IInv, Types
    <3> QED
      BY <3>1 DEF Readings
  <2> HIDE DEF x
  <2>4. req' \in Requests
    BY <2>1, <2>2, <2>3, ReadFacts
  <2> QED
    BY <2>4, RequestTypes
<1>6. CASE Decide
  BY <1>6, DecideHolds
<1>7. CASE Import \/ Unschedule \/ Unscript
  BY <1>1, <1>7 DEF Import, Unschedule, Unscript
<1>8. CASE Removed
  BY <1>8, RemovedHolds
<1>9. CASE Execute \/ ReadBase \/ Probe
  <2>1. At("run") \/ At("base") \/ At("probe")
    BY <1>9 DEF Execute, ReadBase, Probe
  <2>2. req \in Requests /\ req.step \in {"run", "base", "probe"} /\ req.step \in StepsOf(req.op)
    BY <2>1, AtFacts DEF IInv, RequestInv
  <2>3. req.op \notin {"install", "repair", "remove"}
    BY <2>2 DEF StepsOf
  <2> QED
    BY <2>3 DEF Promise
<1>10. CASE \E i \in imports : ImportStep(i)
  BY <1>1, <1>10 DEF ImportStep
<1>11. CASE \E i \in imports : ImportRefused(i)
  BY <1>11, NothingRefused
<1>12. CASE Scheduled \/ Upload \/ RunEnds
  BY <1>1, <1>12 DEF Scheduled, Upload, RunEnds
<1>13. CASE RunFails \/ ImporterDies \/ SessionLost \/ Restart \/ Reboot
  BY <1>2, <1>13 DEF RunFails, ImporterDies, SessionLost, Restart, Reboot
<1>14. CASE (\E f \in arriving : Take(f)) \/ Match \/ Complete
  BY <1>1, <1>14 DEF Take, Match, Complete
<1>15. CASE \E t \in DOMAIN tests : TimePasses(t) \/ Expire(t)
  BY <1>1, <1>15 DEF TimePasses, Expire
<1> QED
  BY <1>3, <1>4, <1>5, <1>6, <1>7, <1>8, <1>9, <1>10, <1>11, <1>12, <1>13, <1>14, <1>15
     DEF Next, Session, Router

\* A session that found no import at work and that nothing disturbs leaves the
\* router as its answer says, and a repair or a removal then never fails
\* (install_routeros_script, remove_routeros_backup_manager).
THEOREM AloneItHolds == Spec => UndisturbedHolds
<1> DEFINE Step == req # Idle /\ req' = Idle /\ req.clear /\ faults' = faults =>
         /\ req.op \in {"install", "repair"} /\ told' => Sound
         /\ req.op = "remove" /\ told' => device'.scripts = <<>> /\ device'.scheds = 0
         /\ req.op \in {"repair", "remove"} => told'
<1>1. IInv /\ [Next]_vars => [Step]_vars
  BY NextHolds DEF Promise
<1>2. [][Step]_vars => UndisturbedHolds
  BY DEF UndisturbedHolds
<1> HIDE DEF Step
<1> QED
  BY <1>1, <1>2, Inductive, PTL DEF Spec

-----------------------------------------------------------------------------
(* Notifications: lists in order                                           *)

Under(S, n) == {m \in S : m < n}
Rank(S, n) == Cardinality(Under(S, n))

LEMMA RankFacts ==
  ASSUME NEW n \in Nat, NEW S \in SUBSET (1..n)
  PROVE  /\ IsFiniteSet(S) /\ Cardinality(S) \in Nat
         /\ \A a \in S : Rank(S, a) \in Nat /\ Rank(S, a) < Cardinality(S)
         /\ \A a, b \in S : Rank(S, a) = Rank(S, b) => a = b
<1>1. IsFiniteSet(S) /\ Cardinality(S) \in Nat
  <2>1. IsFiniteSet(1..n)
    BY FS_Interval
  <2> QED
    BY <2>1, FS_Subset, FS_CardinalityType
<1>2. \A a \in S : IsFiniteSet(Under(S, a)) /\ Rank(S, a) \in Nat
  <2> SUFFICES ASSUME NEW a \in S PROVE IsFiniteSet(Under(S, a)) /\ Rank(S, a) \in Nat
    OBVIOUS
  <2>1. Under(S, a) \in SUBSET S
    BY DEF Under
  <2> QED
    BY <1>1, <2>1, FS_Subset, FS_CardinalityType DEF Rank
<1>3. \A a \in S : Rank(S, a) < Cardinality(S)
  <2> SUFFICES ASSUME NEW a \in S PROVE Rank(S, a) < Cardinality(S)
    OBVIOUS
  <2>1. a \in Nat
    OBVIOUS
  <2>2. Under(S, a) \in SUBSET S /\ Under(S, a) # S
    BY <2>1 DEF Under
  <2>3. Rank(S, a) <= Cardinality(S) /\ Rank(S, a) # Cardinality(S)
    BY <1>1, <2>2, FS_Subset DEF Rank
  <2> QED
    BY <1>1, <1>2, <2>3
<1>4. \A a, b \in S : a < b => Rank(S, a) < Rank(S, b)
  <2> SUFFICES ASSUME NEW a \in S, NEW b \in S, a < b PROVE Rank(S, a) < Rank(S, b)
    OBVIOUS
  <2>1. S \subseteq Nat
    OBVIOUS
  <2>2. a \in Under(S, b) /\ a \notin Under(S, a)
    BY <2>1 DEF Under
  <2>3. \A x \in S : x < a => x < b
    <3> SUFFICES ASSUME NEW x \in S, x < a PROVE x < b
      OBVIOUS
    <3>1. x \in Nat /\ a \in Nat /\ b \in Nat
      BY <2>1
    <3> QED
      BY <3>1
  <2>4. Under(S, a) \in SUBSET Under(S, b)
    BY <2>3 DEF Under
  <2>5. Rank(S, a) <= Rank(S, b) /\ Rank(S, a) # Rank(S, b)
    BY <1>2, <2>2, <2>4, FS_Subset DEF Rank
  <2> QED
    BY <1>2, <2>5
<1>5. \A a, b \in S : Rank(S, a) = Rank(S, b) => a = b
  <2> SUFFICES ASSUME NEW a \in S, NEW b \in S, a # b PROVE Rank(S, a) # Rank(S, b)
    OBVIOUS
  <2>1. a < b \/ b < a
    OBVIOUS
  <2>2. Rank(S, a) < Rank(S, b) \/ Rank(S, b) < Rank(S, a)
    BY <1>4, <2>1
  <2> QED
    BY <1>2, <2>2
<1> QED
  BY <1>1, <1>2, <1>3, <1>5

\* Every rank below the size of the set is somebody's: as many members as ranks.
LEMMA RanksTaken ==
  ASSUME NEW n \in Nat, NEW S \in SUBSET (1..n), NEW i \in 1..Cardinality(S)
  PROVE  \E a \in S : Rank(S, a) = i - 1
<1> DEFINE k == Cardinality(S)
           rank == [a \in S |-> Rank(S, a) + 1]
<1>1. IsFiniteSet(S) /\ k \in Nat
  BY RankFacts
<1>2. rank \in [S -> 1..k]
  <2> SUFFICES ASSUME NEW a \in S PROVE Rank(S, a) + 1 \in 1..k
    OBVIOUS
  <2>1. Rank(S, a) \in Nat /\ Rank(S, a) < k
    BY RankFacts
  <2> QED
    BY <1>1, <2>1
<1>3. \A a, b \in S : rank[a] = rank[b] => a = b
  <2> SUFFICES ASSUME NEW a \in S, NEW b \in S, Rank(S, a) + 1 = Rank(S, b) + 1 PROVE a = b
    OBVIOUS
  <2>1. Rank(S, a) \in Nat /\ Rank(S, b) \in Nat
    BY RankFacts
  <2>2. Rank(S, a) = Rank(S, b)
    BY <2>1
  <2> QED
    BY <2>2, RankFacts
<1>4. \A a \in S : rank[a] = Rank(S, a) + 1
  OBVIOUS
<1> HIDE DEF rank
<1>5. rank \in Injection(S, 1..k)
  BY <1>2, <1>3 DEF Injection, IsInjective
<1>6. IsFiniteSet(1..k) /\ Cardinality(1..k) = k
  BY <1>1, FS_Interval
<1>7. rank \in Surjection(S, 1..k)
  BY <1>1, <1>5, <1>6, FS_Injection
<1>8. PICK a \in S : rank[a] = i
  BY <1>7 DEF Surjection
<1>9. Rank(S, a) \in Nat
  BY RankFacts
<1> QED
  BY <1>4, <1>8, <1>9

LEMMA AscendingFacts ==
  ASSUME NEW n \in Nat, NEW S \in SUBSET (1..n)
  PROVE  /\ Cardinality(S) \in Nat
         /\ Ascending(S) \in [1..Cardinality(S) -> S]
         /\ \A s \in S : \E i \in 1..Cardinality(S) : Ascending(S)[i] = s
         /\ \A i, j \in 1..Cardinality(S) : Ascending(S)[i] = Ascending(S)[j] => i = j
<1> DEFINE k == Cardinality(S)
<1>1. k \in Nat
  BY RankFacts
<1>2. \A i \in 1..k : Ascending(S)[i] \in S /\ Rank(S, Ascending(S)[i]) = i - 1
  BY RanksTaken DEF Ascending, Rank, Under
<1> HIDE DEF k
<1>3. Ascending(S) \in [1..k -> S]
  BY <1>2 DEF Ascending, k
<1>4. \A s \in S : \E i \in 1..k : Ascending(S)[i] = s
  <2> SUFFICES ASSUME NEW s \in S PROVE \E i \in 1..k : Ascending(S)[i] = s
    OBVIOUS
  <2>1. Rank(S, s) \in Nat /\ Rank(S, s) < k
    BY RankFacts DEF k
  <2>2. PICK i \in 1..k : i - 1 = Rank(S, s)
    <3>1. Rank(S, s) + 1 \in 1..k /\ (Rank(S, s) + 1) - 1 = Rank(S, s)
      BY <1>1, <2>1
    <3> QED
      BY <3>1
  <2>3. Ascending(S)[i] \in S /\ Rank(S, Ascending(S)[i]) = Rank(S, s)
    BY <1>2, <2>2
  <2>4. Ascending(S)[i] = s
    BY <2>3, RankFacts
  <2> QED
    BY <2>2, <2>4
<1>5. \A i, j \in 1..k : Ascending(S)[i] = Ascending(S)[j] => i = j
  <2> SUFFICES ASSUME NEW i \in 1..k, NEW j \in 1..k, Ascending(S)[i] = Ascending(S)[j] PROVE i = j
    OBVIOUS
  <2>1. i - 1 = j - 1
    BY <1>2
  <2> QED
    BY <1>1, <2>1
<1> QED
  BY <1>1, <1>3, <1>4, <1>5 DEF k

-----------------------------------------------------------------------------
(* Notifications: what a cycle makes of the tables                         *)

TablesType == [cursor : Nat, seen : SUBSET Keys, queue : Seq(Row),
               states : [Conditions -> ConditionState], summary : Run]

\* All but the queue.
SameBut(t, u) ==
  u.cursor = t.cursor /\ u.seen = t.seen /\ u.states = t.states /\ u.summary = t.summary

LEMMA QueueFacts ==
  ASSUME NEW t \in TablesType
  PROVE  /\ t.queue \in Seq(Row) /\ Len(t.queue) \in Nat /\ DOMAIN t.queue = 1..Len(t.queue)
         /\ \A i \in DOMAIN t.queue : t.queue[i] \in Row
         /\ t.cursor \in Nat /\ t.seen \subseteq Keys /\ t.summary \in Run
         /\ t.states \in [Conditions -> ConditionState]
  BY DEF TablesType

LEMMA AsSequence ==
  ASSUME NEW n \in Nat, NEW f \in [1..n -> Row]
  PROVE  f \in Seq(Row) /\ Len(f) = n /\ DOMAIN f = 1..n
<1>1. f \in Seq(Row)
  BY SeqDef
<1> QED
  BY <1>1

LEMMA NewQueue ==
  ASSUME NEW t \in TablesType, NEW q \in Seq(Row)
  PROVE  /\ [t EXCEPT !.queue = q] \in TablesType /\ [t EXCEPT !.queue = q].queue = q
         /\ SameBut(t, [t EXCEPT !.queue = q])
  BY DEF TablesType, SameBut

LEMMA CompactedFacts ==
  ASSUME NEW t \in TablesType, NEW f, f = Ascending(Kept(t.queue)), NEW u, u = Compacted(t)
  PROVE  /\ u \in TablesType /\ SameBut(t, u)
         /\ f \in [DOMAIN u.queue -> Kept(t.queue)]
         /\ \A i \in DOMAIN u.queue : u.queue[i] = t.queue[f[i]]
         /\ \A j \in Kept(t.queue) : \E i \in DOMAIN u.queue : f[i] = j
         /\ \A i, j \in DOMAIN u.queue : f[i] = f[j] => i = j
<1> DEFINE k == Cardinality(Kept(t.queue))
           q == [i \in DOMAIN f |-> t.queue[f[i]]]
<1>1. Kept(t.queue) \in SUBSET (1..Len(t.queue)) /\ Len(t.queue) \in Nat
  BY QueueFacts DEF Kept
<1>2. /\ k \in Nat /\ f \in [1..k -> Kept(t.queue)]
      /\ \A s \in Kept(t.queue) : \E i \in 1..k : f[i] = s
      /\ \A i, j \in 1..k : f[i] = f[j] => i = j
  BY <1>1, AscendingFacts
<1> HIDE DEF k
<1>3. q \in [1..k -> Row]
  BY <1>1, <1>2, QueueFacts
<1>4. \A i \in 1..k : q[i] = t.queue[f[i]]
  BY <1>2
<1>5. u = [t EXCEPT !.queue = q]
  BY DEF Compacted
<1> HIDE DEF q
<1>6. q \in Seq(Row) /\ DOMAIN q = 1..k
  BY <1>2, <1>3, AsSequence
<1>7. u \in TablesType /\ SameBut(t, u) /\ u.queue = q
  BY <1>5, <1>6, NewQueue
<1> QED
  BY <1>2, <1>4, <1>6, <1>7

LEMMA EnqueueFacts ==
  ASSUME NEW t \in TablesType, NEW ms \in Seq(Row), NEW u, u = Enqueue(t, ms)
  PROVE  /\ u \in TablesType /\ SameBut(t, u)
         /\ \A i \in DOMAIN t.queue : i \in DOMAIN u.queue /\ u.queue[i] = t.queue[i]
         /\ \A i \in DOMAIN u.queue \ DOMAIN t.queue :
              /\ chan = "open" /\ i - Len(t.queue) \in DOMAIN ms
              /\ u.queue[i] = ms[i - Len(t.queue)]
         /\ chan = "open" => \A j \in DOMAIN ms :
              /\ j + Len(t.queue) \in DOMAIN u.queue
              /\ u.queue[j + Len(t.queue)] = ms[j]
<1>1. /\ t.queue \in Seq(Row) /\ Len(t.queue) \in Nat /\ DOMAIN t.queue = 1..Len(t.queue)
      /\ Len(ms) \in Nat /\ DOMAIN ms = 1..Len(ms)
  BY QueueFacts
<1>2. CASE chan # "open"
  <2>1. u = t
    BY <1>2 DEF Enqueue
  <2> QED
    BY <1>2, <2>1 DEF SameBut
<1>3. CASE chan = "open"
  <2> DEFINE q == t.queue \o ms
  <2>1. /\ q \in Seq(Row) /\ Len(q) = Len(t.queue) + Len(ms) /\ DOMAIN q = 1..Len(q)
        /\ \A i \in 1..Len(q) : q[i] = IF i <= Len(t.queue) THEN t.queue[i] ELSE ms[i - Len(t.queue)]
    BY <1>1
  <2>2. u = [t EXCEPT !.queue = q]
    BY <1>3 DEF Enqueue
  <2> HIDE DEF q
  <2>3. u \in TablesType /\ SameBut(t, u) /\ u.queue = q
    BY <2>1, <2>2, NewQueue
  <2>4. \A i \in DOMAIN t.queue : i \in DOMAIN q /\ q[i] = t.queue[i]
    BY <1>1, <2>1
  <2>5. \A i \in DOMAIN q \ DOMAIN t.queue :
          i - Len(t.queue) \in DOMAIN ms /\ q[i] = ms[i - Len(t.queue)]
    <3> SUFFICES ASSUME NEW i \in DOMAIN q \ DOMAIN t.queue
                 PROVE  i - Len(t.queue) \in DOMAIN ms /\ q[i] = ms[i - Len(t.queue)]
      OBVIOUS
    <3>1. i \in Nat /\ i > Len(t.queue) /\ i <= Len(t.queue) + Len(ms)
      BY <1>1, <2>1
    <3> QED
      BY <1>1, <2>1, <3>1
  <2>6. \A j \in DOMAIN ms : j + Len(t.queue) \in DOMAIN q /\ q[j + Len(t.queue)] = ms[j]
    <3> SUFFICES ASSUME NEW j \in DOMAIN ms
                 PROVE  j + Len(t.queue) \in DOMAIN q /\ q[j + Len(t.queue)] = ms[j]
      OBVIOUS
    <3>1. j \in Nat /\ j >= 1 /\ j <= Len(ms) /\ (j + Len(t.queue)) - Len(t.queue) = j
      BY <1>1
    <3>2. j + Len(t.queue) \in 1..Len(q) /\ ~(j + Len(t.queue) <= Len(t.queue))
      BY <1>1, <2>1, <3>1
    <3> QED
      BY <2>1, <3>1, <3>2
  <2> QED
    BY <1>3, <2>3, <2>4, <2>5, <2>6
<1> QED
  BY <1>2, <1>3

\* The events of a scan, as messages.
EventMessages(t) ==
  LET es == Ascending(Fresh(t, Scan(t))) IN [i \in DOMAIN es |-> Message(Key(es[i]), "event")]

LEMMA FreshFacts ==
  ASSUME place \in Places, NEW t \in TablesType, NEW es, es = Ascending(Fresh(t, Scan(t)))
  PROVE  /\ EventMessages(t) \in Seq(Row) /\ DOMAIN EventMessages(t) = DOMAIN es
         /\ \A i \in DOMAIN es :
              /\ Key(es[i]) \in Keys /\ Key(es[i]) \notin t.seen /\ es[i] \in Scan(t)
              /\ EventMessages(t)[i] = Message(Key(es[i]), "event")
         /\ \A i, j \in DOMAIN es : Key(es[i]) = Key(es[j]) => i = j
<1> DEFINE S == Fresh(t, Scan(t))
           k == Cardinality(S)
<1>1. MaxEvents \in Nat /\ S \in SUBSET (1..MaxEvents) /\ S \subseteq Scan(t)
  BY NotificationsAssumption DEF Fresh, Scan, Events
<1>2. /\ k \in Nat /\ es \in [1..k -> S] /\ DOMAIN es = 1..k
      /\ \A i, j \in 1..k : es[i] = es[j] => i = j
  BY <1>1, AscendingFacts
<1> HIDE DEF k
<1>3. \A e \in S : Key(e) \in Keys /\ Key(e) \notin t.seen
  <2>1. \A e \in Events : Key(e) \in Keys
    BY NotificationsAssumption DEF Key
  <2> QED
    BY <2>1 DEF Fresh, Scan
<1>4. \A e, f \in S : Key(e) = Key(f) => e = f
  <2> SUFFICES ASSUME NEW e \in S, NEW f \in S, Key(e) = Key(f) PROVE e = f
    OBVIOUS
  <2>1. ~(e < f) /\ ~(f < e)
    BY DEF Fresh
  <2>2. e \in Nat /\ f \in Nat
    BY <1>1
  <2> QED
    BY <2>1, <2>2
<1>5. \A e \in S : Message(Key(e), "event") \in Row
  BY <1>3 DEF Message, Row
<1>6. EventMessages(t) \in [1..k -> Row]
  BY <1>2, <1>5 DEF EventMessages
<1>7. \A i \in 1..k : EventMessages(t)[i] = Message(Key(es[i]), "event")
  BY <1>2 DEF EventMessages
<1>8. EventMessages(t) \in Seq(Row) /\ DOMAIN EventMessages(t) = 1..k
  BY <1>2, <1>6, AsSequence
<1> QED
  BY <1>1, <1>2, <1>3, <1>4, <1>7, <1>8

LEMMA ScanFacts ==
  ASSUME NEW t \in TablesType, log \in 0..MaxEvents, t.cursor <= log
  PROVE  /\ CursorAfter(t) \in Nat /\ t.cursor <= CursorAfter(t) /\ CursorAfter(t) <= log
         /\ \A e \in 1..CursorAfter(t) : e <= t.cursor \/ e \in Scan(t)
         /\ Scan(t) \subseteq 1..MaxEvents
<1>1. t.cursor \in Nat /\ MaxEvents \in Nat /\ log \in Nat /\ ScanLimit \in Nat
  BY QueueFacts, NotificationsAssumption
<1>2. \A e : e \in Scan(t) <=> e \in 1..MaxEvents /\ e > t.cursor /\ e <= log /\ e <= t.cursor + ScanLimit
  BY DEF Scan, Events
<1>3. CASE Scan(t) = {}
  <2>1. CursorAfter(t) = t.cursor
    BY <1>3 DEF CursorAfter
  <2> QED
    BY <1>1, <1>2, <2>1
<1>4. CASE Scan(t) # {}
  <2> DEFINE m == IF log <= t.cursor + ScanLimit THEN log ELSE t.cursor + ScanLimit
  <2>1. PICK e0 \in Scan(t) : TRUE
    BY <1>4
  <2>2. m \in Scan(t) /\ \A f \in Scan(t) : f <= m
    BY <1>1, <1>2, <2>1
  <2> HIDE DEF m
  <2>3. CursorAfter(t) \in Scan(t) /\ \A f \in Scan(t) : f <= CursorAfter(t)
    BY <1>4, <2>2 DEF CursorAfter
  <2> DEFINE a == CursorAfter(t)
  <2> HIDE DEF a
  <2>4. a \in 1..MaxEvents /\ a > t.cursor /\ a <= log /\ a <= t.cursor + ScanLimit
    BY <1>2, <2>3 DEF a
  <2>5. \A e \in 1..a : e <= t.cursor \/ e \in Scan(t)
    BY <1>1, <1>2, <2>4
  <2>6. a \in Nat /\ t.cursor <= a /\ a <= log
    BY <1>1, <2>4
  <2> QED
    BY <1>2, <2>5, <2>6 DEF a
<1> QED
  BY <1>3, <1>4

LEMMA ScannedFacts ==
  ASSUME place \in Places, NEW t \in TablesType, log \in 0..MaxEvents, t.cursor <= log, NEW u, u = Scanned(t)
  PROVE  /\ u \in TablesType /\ u.states = t.states /\ u.summary = t.summary
         /\ u.queue = Enqueue(t, EventMessages(t)).queue
         /\ u.cursor = CursorAfter(t) /\ u.seen = t.seen \cup {Key(e) : e \in Scan(t)}
<1> DEFINE v == Enqueue(t, EventMessages(t))
<1>1. v \in TablesType /\ SameBut(t, v)
  BY FreshFacts, EnqueueFacts
<1>2. u = [v EXCEPT !.cursor = CursorAfter(t), !.seen = @ \cup {Key(e) : e \in Scan(t)}]
  BY DEF Scanned, EventMessages
<1>3. CursorAfter(t) \in Nat /\ {Key(e) : e \in Scan(t)} \subseteq Keys
  <2>1. \A e \in Events : Key(e) \in Keys
    BY NotificationsAssumption DEF Key
  <2> QED
    BY <2>1, ScanFacts DEF Scan
<1> HIDE DEF v
<1>4. u.cursor = CursorAfter(t) /\ u.seen = v.seen \cup {Key(e) : e \in Scan(t)}
      /\ u.queue = v.queue /\ u.states = v.states /\ u.summary = v.summary
  BY <1>1, <1>2 DEF TablesType
<1>5. v.seen \cup {Key(e) : e \in Scan(t)} \in SUBSET Keys
  BY <1>1, <1>3, QueueFacts
<1> DEFINE ks == {Key(e) : e \in Scan(t)}
           ca == CursorAfter(t)
<1> HIDE DEF ks, ca
<1>6. u \in TablesType
  BY <1>1, <1>2, <1>3, <1>5 DEF TablesType, ca, ks
<1> QED
  BY <1>1, <1>4, <1>6 DEF SameBut, v

\* The conditions told of, as messages.
AlertMessages(t) ==
  LET chosen == Ascending(Told(t)) IN [i \in DOMAIN chosen |-> About(Watched[chosen[i]])]

Sending(t, c) == ShouldSend(t.states[c], c \in truth)

LEMMA ToldFacts ==
  ASSUME NEW t \in TablesType
  PROVE  /\ AlertMessages(t) \in Seq(Row)
         /\ \A i \in DOMAIN AlertMessages(t) :
              \E c \in Conditions : Sending(t, c) /\ AlertMessages(t)[i] = About(c)
         /\ \A c \in Conditions : Sending(t, c) =>
              \E i \in DOMAIN AlertMessages(t) : AlertMessages(t)[i] = About(c)
<1> DEFINE S == Told(t)
           k == Cardinality(S)
           chosen == Ascending(S)
<1>1. Watched \in Seq(Conditions) /\ Len(Watched) \in Nat /\ DOMAIN Watched = 1..Len(Watched)
  BY NotificationsAssumption
<1>2. S \in SUBSET (1..Len(Watched))
  BY <1>1 DEF Told
<1>3. /\ k \in Nat /\ chosen \in [1..k -> S] /\ DOMAIN chosen = 1..k
      /\ \A s \in S : \E i \in 1..k : chosen[i] = s
  BY <1>1, <1>2, AscendingFacts
<1> HIDE DEF k, chosen
<1>4. \A s \in S : Watched[s] \in Conditions /\ Sending(t, Watched[s])
  BY DEF Told, Sending, Conditions
<1>5. \A c \in Conditions : About(c) \in Row
  BY DEF About, Message, Row
<1>6. AlertMessages(t) = [i \in DOMAIN chosen |-> About(Watched[chosen[i]])]
  BY DEF AlertMessages, chosen
<1>7. AlertMessages(t) \in [1..k -> Row]
  BY <1>3, <1>4, <1>5, <1>6
<1>8. AlertMessages(t) \in Seq(Row) /\ DOMAIN AlertMessages(t) = 1..k
  BY <1>3, <1>7, AsSequence
<1>9. \A i \in 1..k : chosen[i] \in S /\ AlertMessages(t)[i] = About(Watched[chosen[i]])
  BY <1>3, <1>6
<1>10. \A c \in Conditions : Sending(t, c) => \E i \in 1..k : AlertMessages(t)[i] = About(c)
  <2> SUFFICES ASSUME NEW c \in Conditions, Sending(t, c)
               PROVE  \E i \in 1..k : AlertMessages(t)[i] = About(c)
    OBVIOUS
  <2>1. PICK s \in DOMAIN Watched : Watched[s] = c
    BY DEF Conditions
  <2>2. s \in S
    BY <2>1 DEF Told, Sending
  <2>3. PICK i \in 1..k : chosen[i] = s
    BY <1>3, <2>2
  <2> QED
    BY <1>9, <2>1, <2>3
<1> QED
  BY <1>4, <1>8, <1>9, <1>10

LEMMA EvaluatedFacts ==
  ASSUME NEW t \in TablesType, chan \in {"open", "maintenance", "disabled"}, NEW u, u = Evaluated(t)
  PROVE  /\ u \in TablesType /\ u.cursor = t.cursor /\ u.seen = t.seen /\ u.summary = t.summary
         /\ u.queue = Enqueue(t, AlertMessages(t)).queue
         /\ \A c \in Conditions :
              u.states[c] = [active |-> c \in truth,
                             sent |-> IF chan = "open" /\ Sending(t, c) THEN "recent" ELSE t.states[c].sent]
<1> DEFINE v == Enqueue(t, AlertMessages(t))
           st == [c \in Conditions |->
                    [active |-> Noted(v.states[c], c \in truth),
                     sent |-> IF chan = "open" /\ ShouldSend(v.states[c], c \in truth) THEN "recent"
                              ELSE v.states[c].sent]]
<1>1. v \in TablesType /\ SameBut(t, v)
  BY ToldFacts, EnqueueFacts
<1>2. u = [v EXCEPT !.states = st]
  BY DEF Evaluated, AlertMessages
<1> HIDE DEF v
<1>3. v.states = t.states /\ t.states \in [Conditions -> ConditionState]
  BY <1>1, QueueFacts DEF SameBut
<1>4. st \in [Conditions -> ConditionState]
  <2> SUFFICES ASSUME NEW c \in Conditions PROVE st[c] \in ConditionState
    OBVIOUS
  <2>1. v.states[c].sent \in {"never", "recent", "past"}
    BY <1>3 DEF ConditionState
  <2>2. Noted(v.states[c], c \in truth) \in BOOLEAN
    BY DEF Noted
  <2> QED
    BY <2>1, <2>2 DEF ConditionState
<1>5. \A c \in Conditions :
        st[c] = [active |-> c \in truth,
                 sent |-> IF chan = "open" /\ Sending(t, c) THEN "recent" ELSE t.states[c].sent]
  BY <1>3 DEF Noted, Sending
<1> HIDE DEF st
<1>6. u \in TablesType /\ u.states = st /\ u.cursor = v.cursor /\ u.seen = v.seen
      /\ u.summary = v.summary /\ u.queue = v.queue
  BY <1>1, <1>2, <1>4 DEF TablesType
<1> QED
  BY <1>1, <1>5, <1>6 DEF SameBut, v

LEMMA WithRunFacts ==
  ASSUME NEW t \in TablesType, NEW u, u = WithRun(t)
  PROVE  /\ u \in TablesType /\ u.cursor = t.cursor /\ u.seen = t.seen /\ u.queue = t.queue
         /\ u.states = t.states
         /\ t.summary.status = "sent" => u.summary.status = "sent"
  BY DEF TablesType, WithRun, Run

\* A row that is taken up again.
Again(r) == IF r.status = "processing" /\ r.ripe THEN [r EXCEPT !.status = "pending"] ELSE r

LEMMA RecoveredFacts ==
  ASSUME NEW t \in TablesType, NEW u, u = Recovered(t)
  PROVE  /\ u \in TablesType /\ SameBut(t, u) /\ DOMAIN u.queue = DOMAIN t.queue
         /\ \A i \in DOMAIN t.queue : u.queue[i] = Again(t.queue[i])
<1> DEFINE q == [i \in DOMAIN t.queue |-> Again(t.queue[i])]
<1>1. DOMAIN t.queue = 1..Len(t.queue) /\ Len(t.queue) \in Nat /\ \A i \in DOMAIN t.queue : t.queue[i] \in Row
  BY QueueFacts
<1>2. \A r \in Row : Again(r) \in Row
  BY DEF Again, Row
<1>3. q \in [1..Len(t.queue) -> Row]
  BY <1>1, <1>2
<1>4. \A i \in DOMAIN t.queue : q[i] = Again(t.queue[i])
  OBVIOUS
<1>5. u = [t EXCEPT !.queue = q]
  BY DEF Recovered, Again
<1> HIDE DEF q
<1>6. q \in Seq(Row) /\ DOMAIN q = 1..Len(t.queue)
  BY <1>1, <1>3, AsSequence
<1>7. u \in TablesType /\ SameBut(t, u) /\ u.queue = q
  BY <1>5, <1>6, NewQueue
<1> QED
  BY <1>1, <1>4, <1>6, <1>7

LEMMA AgainFacts ==
  ASSUME NEW r \in Row
  PROVE  /\ Again(r).about = r.about /\ Again(r).says = r.says
         /\ Unsettled(Again(r)) <=> Unsettled(r)
         /\ r.status # "processing" => Again(r) = r
  BY DEF Again, Row, Unsettled

-----------------------------------------------------------------------------
(* Notifications: what the rows of a table say                             *)

\* A key is queued once, and what is queued has been seen; a row whose key has no
\* reason to be repeated is not on its way, and if it waits no copy of it is out.
Queued(t) ==
  /\ \A i \in DOMAIN t.queue : t.queue[i].about \in Keys => t.queue[i].about \in t.seen
  /\ \A i, j \in DOMAIN t.queue :
       t.queue[i].about \in Keys /\ t.queue[i].about = t.queue[j].about => i = j

Waits(r) == r.about \in Keys \ cause /\ r.status = "pending" => copies[r.about] = 0
AtRest(r) == r.about \in Keys \ cause => r.status # "processing"
Unheard(t) == \A i \in DOMAIN t.queue : Waits(t.queue[i]) /\ AtRest(t.queue[i])

\* What a state says: the last word that is due about its condition.
Stated(s) == IF s.active THEN "alert" ELSE IF s.sent = "never" THEN "none" ELSE "recovery"

UnderWay(t, c) == {i \in Kept(t.queue) : t.queue[i].about = c}

\* One message at most about c is under way, and it, or the last word if there is
\* none, says what the state says.
Agrees(t, c) ==
  /\ \A i, j \in UnderWay(t, c) : i = j
  /\ \A i \in UnderWay(t, c) : t.queue[i].says = Stated(t.states[c])
  /\ UnderWay(t, c) = {} => word[c] = Stated(t.states[c])

LEMMA Disjoint ==
  /\ \A k \in Keys : k \notin Conditions /\ k # Test /\ k # Summary
  /\ \A c \in Conditions : c \notin Keys /\ c # Test /\ c # Summary
  /\ Test # Summary /\ Test \notin Keys /\ Test \notin Conditions /\ Summary \notin Keys
  BY NotificationsAssumption

LEMMA QueuedCompacted ==
  ASSUME NEW t \in TablesType, Queued(t), Unheard(t), NEW u, u = Compacted(t)
  PROVE  Queued(u) /\ Unheard(u)
<1> DEFINE f == Ascending(Kept(t.queue))
<1>1. /\ SameBut(t, u) /\ f \in [DOMAIN u.queue -> Kept(t.queue)]
      /\ \A i \in DOMAIN u.queue : u.queue[i] = t.queue[f[i]]
      /\ \A i, j \in DOMAIN u.queue : f[i] = f[j] => i = j
  BY CompactedFacts
<1>2. Kept(t.queue) \subseteq DOMAIN t.queue
  BY DEF Kept
<1> HIDE DEF f
<1>3. \A i \in DOMAIN u.queue : f[i] \in DOMAIN t.queue
  BY <1>1, <1>2
<1> QED
  BY <1>1, <1>3 DEF Queued, Unheard, SameBut

LEMMA QueuedScanned ==
  ASSUME place \in Places, NEW t \in TablesType, log \in 0..MaxEvents, t.cursor <= log, Queued(t), Unheard(t),
         copies \in [Keys \cup {Summary} -> Nat],
         \A k \in Keys : copies[k] > 0 => k \in t.seen,
         NEW u, u = Scanned(t)
  PROVE  Queued(u) /\ Unheard(u)
<1> DEFINE ms == EventMessages(t)
           es == Ascending(Fresh(t, Scan(t)))
           n == Len(t.queue)
<1>1. /\ ms \in Seq(Row) /\ DOMAIN ms = DOMAIN es
      /\ \A i \in DOMAIN ms :
           /\ Key(es[i]) \in Keys /\ Key(es[i]) \notin t.seen /\ es[i] \in Scan(t)
           /\ ms[i] = Message(Key(es[i]), "event")
      /\ \A i, j \in DOMAIN ms : Key(es[i]) = Key(es[j]) => i = j
  BY FreshFacts
<1>2. u.queue = Enqueue(t, ms).queue /\ u.seen = t.seen \cup {Key(e) : e \in Scan(t)}
  BY ScannedFacts
<1> HIDE DEF ms, es
<1>3. \A i \in DOMAIN ms : ms[i].about \in Keys /\ ms[i].about \notin t.seen /\ ms[i].about \in u.seen
        /\ ms[i].about = Key(es[i])
  BY <1>1, <1>2 DEF Message
<1>4. /\ \A i \in DOMAIN t.queue : i \in DOMAIN u.queue /\ u.queue[i] = t.queue[i]
      /\ \A i \in DOMAIN u.queue \ DOMAIN t.queue : i - n \in DOMAIN ms /\ u.queue[i] = ms[i - n]
  BY <1>1, <1>2, EnqueueFacts
<1>5. u \in TablesType /\ DOMAIN u.queue \subseteq Nat /\ n \in Nat
  BY ScannedFacts, QueueFacts
<1>6. \A i \in DOMAIN u.queue : u.queue[i].about \in Keys => u.queue[i].about \in u.seen
  BY <1>2, <1>3, <1>4 DEF Queued
<1>7. ASSUME NEW i \in DOMAIN u.queue, NEW j \in DOMAIN u.queue,
             u.queue[i].about \in Keys, u.queue[i].about = u.queue[j].about
      PROVE  i = j
  <2>1. CASE i \in DOMAIN t.queue /\ j \in DOMAIN t.queue
    BY <1>4, <1>7, <2>1 DEF Queued
  <2>2. CASE i \in DOMAIN t.queue /\ j \notin DOMAIN t.queue
    BY <1>3, <1>4, <1>7, <2>2 DEF Queued
  <2>3. CASE i \notin DOMAIN t.queue /\ j \in DOMAIN t.queue
    BY <1>3, <1>4, <1>7, <2>3 DEF Queued
  <2>4. CASE i \notin DOMAIN t.queue /\ j \notin DOMAIN t.queue
    <3>1. i - n = j - n
      BY <1>1, <1>3, <1>4, <1>7, <2>4
    <3> QED
      BY <1>5, <3>1
  <2> QED
    BY <2>1, <2>2, <2>3, <2>4
<1>8. Queued(u)
  BY <1>6, <1>7 DEF Queued
<1>9. \A i \in DOMAIN ms : Waits(ms[i]) /\ AtRest(ms[i])
  <2> SUFFICES ASSUME NEW i \in DOMAIN ms PROVE Waits(ms[i]) /\ AtRest(ms[i])
    OBVIOUS
  <2>1. ms[i].status = "pending"
    BY <1>1 DEF Message
  <2>2. copies[ms[i].about] \in Nat /\ ~(copies[ms[i].about] > 0)
    BY <1>3
  <2>3. copies[ms[i].about] = 0
    BY <2>2
  <2> QED
    BY <2>1, <2>3 DEF Waits, AtRest
<1>10. Unheard(u)
  BY <1>4, <1>9 DEF Unheard
<1> QED
  BY <1>8, <1>10

LEMMA QueuedEvaluated ==
  ASSUME NEW t \in TablesType, chan \in {"open", "maintenance", "disabled"}, Queued(t), Unheard(t),
         NEW u, u = Evaluated(t)
  PROVE  Queued(u) /\ Unheard(u)
<1> DEFINE ms == AlertMessages(t)
           n == Len(t.queue)
<1>1. ms \in Seq(Row) /\ u.queue = Enqueue(t, ms).queue /\ u.seen = t.seen
  BY ToldFacts, EvaluatedFacts
<1>2. \A i \in DOMAIN ms : ms[i].about \notin Keys
  BY ToldFacts, Disjoint DEF About, Message
<1> HIDE DEF ms
<1>3. /\ \A i \in DOMAIN t.queue : i \in DOMAIN u.queue /\ u.queue[i] = t.queue[i]
      /\ \A i \in DOMAIN u.queue \ DOMAIN t.queue : i - n \in DOMAIN ms /\ u.queue[i] = ms[i - n]
  BY <1>1, EnqueueFacts
<1>4. \A i \in DOMAIN u.queue : u.queue[i].about \in Keys => i \in DOMAIN t.queue /\ u.queue[i] = t.queue[i]
  BY <1>2, <1>3
<1>5. Queued(u)
  BY <1>1, <1>4 DEF Queued
<1>6. \A i \in DOMAIN u.queue : Waits(u.queue[i]) /\ AtRest(u.queue[i])
  BY <1>4 DEF Unheard, Waits, AtRest
<1> QED
  BY <1>5, <1>6 DEF Unheard

LEMMA QueuedRecovered ==
  ASSUME NEW t \in TablesType, Queued(t), Unheard(t), NEW u, u = Recovered(t)
  PROVE  Queued(u) /\ Unheard(u)
<1>1. /\ SameBut(t, u) /\ DOMAIN u.queue = DOMAIN t.queue
      /\ \A i \in DOMAIN t.queue : u.queue[i] = Again(t.queue[i]) /\ t.queue[i] \in Row
  BY RecoveredFacts, QueueFacts
<1>2. \A i \in DOMAIN t.queue : u.queue[i].about = t.queue[i].about
  BY <1>1, AgainFacts
<1>3. Queued(u)
  BY <1>1, <1>2 DEF Queued, SameBut
<1>4. \A i \in DOMAIN t.queue : t.queue[i].about \in Keys \ cause => u.queue[i] = t.queue[i]
  BY <1>1, AgainFacts DEF Unheard, AtRest
<1>5. \A i \in DOMAIN u.queue : Waits(u.queue[i]) /\ AtRest(u.queue[i])
  BY <1>1, <1>2, <1>4 DEF Unheard, Waits, AtRest
<1> QED
  BY <1>3, <1>5 DEF Unheard

LEMMA QueuedPrepared ==
  ASSUME place \in Places, NEW t \in TablesType, log \in 0..MaxEvents, t.cursor <= log, Queued(t), Unheard(t),
         chan \in {"open", "maintenance", "disabled"},
         copies \in [Keys \cup {Summary} -> Nat],
         \A k \in Keys : copies[k] > 0 => k \in t.seen,
         NEW time \in BOOLEAN, NEW u, u = Prepared(t, time)
  PROVE  /\ u \in TablesType /\ Queued(u) /\ Unheard(u)
         /\ u.cursor = CursorAfter(t) /\ u.seen = t.seen \cup {Key(e) : e \in Scan(t)}
         /\ t.summary.status = "sent" => u.summary.status = "sent"
         /\ \A c \in Conditions :
              u.states[c] = [active |-> c \in truth,
                             sent |-> IF chan = "open" /\ Sending(t, c) THEN "recent" ELSE t.states[c].sent]
<1> DEFINE a == Compacted(t)
           b == Scanned(a)
           c1 == Evaluated(b)
           d == IF time THEN WithRun(c1) ELSE c1
<1>1. a \in TablesType /\ SameBut(t, a) /\ Queued(a) /\ Unheard(a)
  BY CompactedFacts, QueuedCompacted
<1>2. a.cursor <= log /\ \A k \in Keys : copies[k] > 0 => k \in a.seen
  BY <1>1 DEF SameBut
<1>3. Scan(a) = Scan(t) /\ CursorAfter(a) = CursorAfter(t)
  BY <1>1 DEF Scan, CursorAfter, SameBut
<1> HIDE DEF a
<1>4. /\ b \in TablesType /\ b.states = a.states /\ b.summary = a.summary
      /\ b.cursor = CursorAfter(t) /\ b.seen = a.seen \cup {Key(e) : e \in Scan(t)}
  BY <1>1, <1>2, <1>3, ScannedFacts
<1>5. Queued(b) /\ Unheard(b)
  BY <1>1, <1>2, QueuedScanned
<1> HIDE DEF b
<1>6. /\ c1 \in TablesType /\ c1.cursor = b.cursor /\ c1.seen = b.seen /\ c1.summary = b.summary
      /\ \A c \in Conditions :
           c1.states[c] = [active |-> c \in truth,
                           sent |-> IF chan = "open" /\ Sending(b, c) THEN "recent" ELSE b.states[c].sent]
      /\ Queued(c1) /\ Unheard(c1)
  BY <1>4, <1>5, EvaluatedFacts, QueuedEvaluated
<1> HIDE DEF c1
<1>7. /\ d \in TablesType /\ d.cursor = c1.cursor /\ d.seen = c1.seen /\ d.queue = c1.queue
      /\ d.states = c1.states /\ (c1.summary.status = "sent" => d.summary.status = "sent")
  BY <1>6, WithRunFacts
<1>8. Queued(d) /\ Unheard(d)
  BY <1>6, <1>7 DEF Queued, Unheard
<1>9. u = Recovered(d)
  BY DEF Prepared, a, b, c1
<1> HIDE DEF d
<1>10. u \in TablesType /\ SameBut(d, u) /\ Queued(u) /\ Unheard(u)
  BY <1>7, <1>8, <1>9, RecoveredFacts, QueuedRecovered
<1>11. \A c \in Conditions : Sending(b, c) = Sending(t, c)
  BY <1>1, <1>4 DEF Sending, SameBut
<1>12. u.states = c1.states /\ b.states = t.states
  BY <1>1, <1>4, <1>7, <1>10 DEF SameBut
<1>13. u.cursor = CursorAfter(t) /\ u.seen = t.seen \cup {Key(e) : e \in Scan(t)}
  BY <1>1, <1>4, <1>6, <1>7, <1>10 DEF SameBut
<1>14. t.summary.status = "sent" => u.summary.status = "sent"
  BY <1>1, <1>4, <1>6, <1>7, <1>10 DEF SameBut
<1> QED
  BY <1>6, <1>10, <1>11, <1>12, <1>13, <1>14

LEMMA AgreesCompacted ==
  ASSUME NEW t \in TablesType, NEW c \in Conditions, Agrees(t, c), NEW u, u = Compacted(t)
  PROVE  Agrees(u, c)
<1> DEFINE f == Ascending(Kept(t.queue))
<1>1. /\ SameBut(t, u) /\ f \in [DOMAIN u.queue -> Kept(t.queue)]
      /\ \A i \in DOMAIN u.queue : u.queue[i] = t.queue[f[i]]
      /\ \A j \in Kept(t.queue) : \E i \in DOMAIN u.queue : f[i] = j
      /\ \A i, j \in DOMAIN u.queue : f[i] = f[j] => i = j
  BY CompactedFacts
<1> HIDE DEF f
<1>2. \A i \in UnderWay(u, c) : i \in DOMAIN u.queue /\ f[i] \in UnderWay(t, c)
  BY <1>1 DEF UnderWay, Kept
<1>3. \A j \in UnderWay(t, c) : \E i \in UnderWay(u, c) : f[i] = j
  BY <1>1 DEF UnderWay, Kept
<1>4. \A i, j \in UnderWay(u, c) : i = j
  BY <1>1, <1>2 DEF Agrees
<1>5. \A i \in UnderWay(u, c) : u.queue[i].says = Stated(u.states[c])
  BY <1>1, <1>2 DEF Agrees, SameBut
<1>6. UnderWay(u, c) = {} => word[c] = Stated(u.states[c])
  BY <1>1, <1>3 DEF Agrees, SameBut
<1> QED
  BY <1>4, <1>5, <1>6 DEF Agrees

LEMMA AgreesScanned ==
  ASSUME place \in Places, NEW t \in TablesType, log \in 0..MaxEvents, t.cursor <= log,
         NEW c \in Conditions, Agrees(t, c), NEW u, u = Scanned(t)
  PROVE  Agrees(u, c)
<1> DEFINE ms == EventMessages(t)
           n == Len(t.queue)
<1>1. u.queue = Enqueue(t, ms).queue /\ u.states = t.states /\ ms \in Seq(Row)
  BY ScannedFacts, FreshFacts
<1>2. \A i \in DOMAIN ms : ms[i].about \in Keys
  <2> DEFINE es == Ascending(Fresh(t, Scan(t)))
  <2>1. DOMAIN ms = DOMAIN es /\ \A i \in DOMAIN es : Key(es[i]) \in Keys /\ ms[i] = Message(Key(es[i]), "event")
    BY FreshFacts
  <2> HIDE DEF ms, es
  <2> QED
    BY <2>1 DEF Message
<1> HIDE DEF ms
<1>3. /\ \A i \in DOMAIN t.queue : i \in DOMAIN u.queue /\ u.queue[i] = t.queue[i]
      /\ \A i \in DOMAIN u.queue \ DOMAIN t.queue : i - n \in DOMAIN ms /\ u.queue[i] = ms[i - n]
  BY <1>1, EnqueueFacts
<1>4. UnderWay(u, c) = UnderWay(t, c)
  BY <1>2, <1>3, Disjoint DEF UnderWay, Kept
<1>5. \A i \in UnderWay(t, c) : u.queue[i] = t.queue[i]
  BY <1>3 DEF UnderWay, Kept
<1> QED
  BY <1>1, <1>4, <1>5 DEF Agrees

\* Nothing has changed about c, or one message is queued and it is the only one.
LEMMA AgreesEvaluated ==
  ASSUME NEW t \in TablesType, chan \in {"open", "maintenance", "disabled"},
         NEW c \in Conditions, Agrees(t, c), NEW u, u = Evaluated(t),
         chan = "open" \/ ~Sending(t, c), c \notin Piled(u.queue)
  PROVE  Agrees(u, c)
<1> DEFINE ms == AlertMessages(t)
           n == Len(t.queue)
<1>1. /\ ms \in Seq(Row) /\ u.queue = Enqueue(t, ms).queue
      /\ u.states[c] = [active |-> c \in truth,
                        sent |-> IF chan = "open" /\ Sending(t, c) THEN "recent" ELSE t.states[c].sent]
  BY ToldFacts, EvaluatedFacts
<1>2. /\ \A i \in DOMAIN ms : \E b \in Conditions : Sending(t, b) /\ ms[i] = About(b)
      /\ Sending(t, c) => \E i \in DOMAIN ms : ms[i] = About(c)
  BY ToldFacts
<1> HIDE DEF ms
<1>3. /\ \A i \in DOMAIN t.queue : i \in DOMAIN u.queue /\ u.queue[i] = t.queue[i]
      /\ \A i \in DOMAIN u.queue \ DOMAIN t.queue : i - n \in DOMAIN ms /\ u.queue[i] = ms[i - n]
      /\ chan = "open" => \A j \in DOMAIN ms : j + n \in DOMAIN u.queue /\ u.queue[j + n] = ms[j]
  BY <1>1, EnqueueFacts
<1>4. \A i, j \in UnderWay(u, c) : i = j
  BY DEF Piled, UnderWay
<1>5. t.states[c] \in ConditionState /\ \A b : About(b).about = b
  BY QueueFacts DEF About, Message
<1>6. CASE ~Sending(t, c)
  <2>1. \A i \in DOMAIN ms : ms[i].about # c
    BY <1>2, <1>5, <1>6
  <2>2. UnderWay(u, c) = UnderWay(t, c)
    BY <1>3, <2>1 DEF UnderWay, Kept
  <2>3. \A i \in UnderWay(t, c) : u.queue[i] = t.queue[i]
    BY <1>3 DEF UnderWay, Kept
  <2>4. t.states[c].active = (c \in truth)
    BY <1>5, <1>6 DEF Sending, ShouldSend, ConditionState
  <2>5. Stated(u.states[c]) = Stated(t.states[c])
    BY <1>1, <1>6, <2>4 DEF Stated
  <2> QED
    BY <2>2, <2>3, <2>5, <1>4 DEF Agrees
<1>7. CASE Sending(t, c) /\ chan = "open"
  <2>1. PICK j \in DOMAIN ms : ms[j] = About(c)
    BY <1>2, <1>7
  <2>2. j + n \in DOMAIN u.queue /\ u.queue[j + n] = About(c)
    BY <1>3, <1>7, <2>1
  <2>3. /\ About(c).about = c /\ Unsettled(About(c))
        /\ About(c).says = IF c \in truth THEN "alert" ELSE "recovery"
    BY DEF About, Message, Unsettled
  <2>4. j + n \in UnderWay(u, c)
    BY <2>2, <2>3 DEF UnderWay, Kept
  <2>5. Stated(u.states[c]) = IF c \in truth THEN "alert" ELSE "recovery"
    <3>1. u.states[c].active = (c \in truth) /\ u.states[c].sent = "recent"
      BY <1>1, <1>7
    <3> QED
      BY <3>1 DEF Stated
  <2> QED
    BY <1>4, <2>2, <2>3, <2>4, <2>5 DEF Agrees
<1> QED
  BY <1>6, <1>7

LEMMA KeptRecovered ==
  ASSUME NEW t \in TablesType, NEW u, u = Recovered(t)
  PROVE  /\ Kept(u.queue) = Kept(t.queue)
         /\ \A i \in Kept(t.queue) : u.queue[i].about = t.queue[i].about /\ u.queue[i].says = t.queue[i].says
         /\ Piled(u.queue) = Piled(t.queue)
<1>1. /\ DOMAIN u.queue = DOMAIN t.queue
      /\ \A i \in DOMAIN t.queue : u.queue[i] = Again(t.queue[i]) /\ t.queue[i] \in Row
  BY RecoveredFacts, QueueFacts
<1>2. \A i \in DOMAIN t.queue : /\ Unsettled(u.queue[i]) <=> Unsettled(t.queue[i])
                                /\ u.queue[i].about = t.queue[i].about /\ u.queue[i].says = t.queue[i].says
  BY <1>1, AgainFacts
<1>3. Kept(u.queue) = Kept(t.queue) /\ Kept(t.queue) \subseteq DOMAIN t.queue
  BY <1>1, <1>2 DEF Kept
<1> QED
  BY <1>2, <1>3 DEF Piled

LEMMA AgreesRecovered ==
  ASSUME NEW t \in TablesType, NEW c \in Conditions, Agrees(t, c), NEW u, u = Recovered(t)
  PROVE  Agrees(u, c)
<1>1. SameBut(t, u)
  BY RecoveredFacts
<1>2. UnderWay(u, c) = UnderWay(t, c) /\ \A i \in UnderWay(t, c) : u.queue[i].says = t.queue[i].says
  BY KeptRecovered DEF UnderWay
<1> QED
  BY <1>1, <1>2 DEF Agrees, SameBut

LEMMA AgreesPrepared ==
  ASSUME place \in Places, NEW t \in TablesType, log \in 0..MaxEvents, t.cursor <= log,
         chan \in {"open", "maintenance", "disabled"},
         NEW c \in Conditions, Agrees(t, c), chan = "open" \/ ~Sending(t, c),
         NEW time \in BOOLEAN, NEW u, u = Prepared(t, time), c \notin Piled(u.queue)
  PROVE  Agrees(u, c)
<1> DEFINE a == Compacted(t)
           b == Scanned(a)
           e == Evaluated(b)
           d == IF time THEN WithRun(e) ELSE e
<1>1. a \in TablesType /\ SameBut(t, a) /\ Agrees(a, c)
  BY CompactedFacts, AgreesCompacted
<1>2. a.cursor <= log
  BY <1>1 DEF SameBut
<1> HIDE DEF a
<1>3. b \in TablesType /\ b.states = a.states /\ Agrees(b, c)
  BY <1>1, <1>2, ScannedFacts, AgreesScanned
<1> HIDE DEF b
<1>4. e \in TablesType
  BY <1>3, EvaluatedFacts
<1>5. d \in TablesType /\ d.queue = e.queue /\ d.states = e.states
  BY <1>4, WithRunFacts
<1>6. u = Recovered(d)
  BY DEF Prepared, a, b
<1> HIDE DEF d
<1>7. c \notin Piled(e.queue)
  BY <1>5, <1>6, KeptRecovered
<1>8. Sending(b, c) = Sending(t, c)
  BY <1>1, <1>3 DEF Sending, SameBut
<1>9. Agrees(e, c)
  BY <1>3, <1>7, <1>8, AgreesEvaluated
<1> HIDE DEF e
<1>10. Agrees(d, c)
  BY <1>5, <1>9 DEF Agrees, UnderWay
<1> QED
  BY <1>5, <1>6, <1>10, AgreesRecovered

-----------------------------------------------------------------------------
(* Notifications: the inductive invariant                                  *)

Channels == {"open", "maintenance", "disabled"}
Travelling == {"send", "record"}

NotifyTypes ==
  /\ db \in TablesType /\ tx \in TablesType
  /\ log \in 0..MaxEvents /\ db.cursor <= log /\ tx.cursor <= log
  /\ writer \in Processes \cup {NoOne}
  /\ pc \in [Processes -> {"idle", "next", "send", "record", "summary", "note"}]
  /\ cur \in Nat
  /\ hand \in [Processes -> Nat] /\ answer \in [Processes -> {"none", "ok", "error"}]
  /\ truth \subseteq Conditions /\ chan \in Channels /\ place \in Places
  /\ word \in [Conditions -> {"none", "event", "alert", "recovery"}]
  /\ copies \in [Keys \cup {Summary} -> Nat]

\* Only the worker changes more than the summary's run, and it sends nothing that is
\* not committed.
HoldInv ==
  /\ pc[Cli] \in {"idle", "summary", "note"}
  /\ writer = Worker <=> pc[Worker] \in {"next", "summary", "note"}
  /\ writer = Cli => pc[Cli] # "idle"
  /\ writer = NoOne => tx = db
  /\ writer # Worker =>
       tx.queue = db.queue /\ tx.states = db.states /\ tx.cursor = db.cursor /\ tx.seen = db.seen
  /\ due \subseteq DOMAIN tx.queue /\ \A i \in due : tx.queue[i].status = "pending"
  /\ pc[Worker] \in {"idle", "summary", "note"} => due = {}
  /\ IF pc[Worker] \in Travelling THEN cur \in DOMAIN db.queue /\ db.queue[cur].status = "processing"
     ELSE cur = 0

Passed(t) == \A e \in 1..t.cursor : e \in skipped \/ \E pl \in Places : KeyOf[<<e, pl>>] \in t.seen

SeenInv == Passed(db) /\ Passed(tx) /\ db.seen \subseteq tx.seen

Carried == db.queue[cur]

\* A key without a reason to be repeated has been told at most once, and that only when
\* no row about it waits.
KeyInv ==
  /\ Queued(db) /\ Queued(tx)
  /\ \A k \in Keys : copies[k] > 0 => k \in db.seen
  /\ \A k \in Keys \ cause : copies[k] <= 1
  /\ \A i \in DOMAIN db.queue : Waits(db.queue[i]) /\ (writer = Worker \/ i = cur \/ AtRest(db.queue[i]))
  /\ \A i \in DOMAIN tx.queue : Waits(tx.queue[i]) /\ (i = cur \/ AtRest(tx.queue[i]))
  /\ pc[Worker] = "send" /\ Carried.about \in Keys \ cause => copies[Carried.about] = 0
  /\ pc[Worker] = "record" /\ Carried.about \in Keys \ cause => answer[Worker] = "ok"

SummarySent(t) == t.summary.status = "sent"

\* Without a reason to repeat it, the summary has been sent by a process that held the
\* lock since it read the run, and whoever reads the run from then on finds it sent.
RunInv ==
  /\ \A p \in Processes : writer = p /\ pc[p] = "summary" /\ hand[p] > 0 => ~SummarySent(tx)
  /\ Summary \notin cause =>
       /\ copies[Summary] <= 1
       /\ \A p \in Processes : pc[p] = "note" => writer = p /\ answer[p] = "ok"
       /\ copies[Summary] > 0 =>
            \/ SummarySent(db) /\ SummarySent(tx)
            \/ \E p \in Processes : writer = p /\ (pc[p] = "note" \/ (pc[p] = "summary" /\ SummarySent(tx)))

WordInv ==
  \A c \in Conditions \ blurred :
    /\ Agrees(db, c) /\ Agrees(tx, c)
    /\ pc[Worker] = "record" /\ answer[Worker] = "ok" /\ Carried.about = c => word[c] = Carried.says

NotifyInv == NotifyTypes /\ HoldInv /\ SeenInv /\ KeyInv /\ RunInv /\ WordInv

-----------------------------------------------------------------------------
(* Notifications: what a step leaves alone                                 *)

LEMMA ProcessFacts ==
  /\ Processes = {Worker, Cli} /\ Worker # Cli /\ NoOne # Worker /\ NoOne # Cli
  /\ Worker \in Processes /\ Cli \in Processes /\ NoOne \notin Processes
  BY NotificationsAssumption DEF Processes

SameQueues ==
  /\ db'.queue = db.queue /\ tx'.queue = tx.queue
  /\ db'.seen = db.seen /\ tx'.seen = tx.seen
  /\ db'.states = db.states /\ tx'.states = tx.states

\* The worker carries the same message as before, or none.
SameCarried ==
  cur' = cur /\ (pc'[Worker] \in Travelling => pc'[Worker] = pc[Worker] /\ answer'[Worker] = answer[Worker])

LEMMA SeenSame ==
  ASSUME SeenInv, SameQueues, db'.cursor = db.cursor, tx'.cursor = tx.cursor, skipped \subseteq skipped'
  PROVE  SeenInv'
  BY DEF SeenInv, Passed, SameQueues

LEMMA KeySame ==
  ASSUME KeyInv, SameQueues, SameCarried, writer = Worker => writer' = Worker,
         \A k \in Keys : copies'[k] = copies[k] /\ (k \in cause' <=> k \in cause)
  PROVE  KeyInv'
<1>1. Queued(db)' /\ Queued(tx)'
  BY DEF KeyInv, Queued, SameQueues
<1>2. (\A k \in Keys : copies[k] > 0 => k \in db.seen)'
  BY DEF KeyInv, SameQueues
<1>3. (\A k \in Keys \ cause : copies[k] <= 1)'
  BY DEF KeyInv
<1>4. \A i : (Waits(db.queue[i]) => Waits(db.queue[i])') /\ (Waits(tx.queue[i]) => Waits(tx.queue[i])')
  BY DEF Waits, SameQueues
<1>5. \A i : (AtRest(db.queue[i]) => AtRest(db.queue[i])') /\ (AtRest(tx.queue[i]) => AtRest(tx.queue[i])')
  BY DEF AtRest, SameQueues
<1>6. cur' = cur /\ Carried' = Carried
  BY DEF SameCarried, SameQueues, Carried
<1>7. (\A i \in DOMAIN db.queue : Waits(db.queue[i]) /\ (writer = Worker \/ i = cur \/ AtRest(db.queue[i])))'
  BY <1>4, <1>5, <1>6 DEF KeyInv, SameQueues
<1>8. (\A i \in DOMAIN tx.queue : Waits(tx.queue[i]) /\ (i = cur \/ AtRest(tx.queue[i])))'
  BY <1>4, <1>5, <1>6 DEF KeyInv, SameQueues
<1>9. (pc[Worker] = "send" /\ Carried.about \in Keys \ cause => copies[Carried.about] = 0)'
  BY <1>6 DEF KeyInv, SameCarried, Travelling
<1>10. (pc[Worker] = "record" /\ Carried.about \in Keys \ cause => answer[Worker] = "ok")'
  BY <1>6 DEF KeyInv, SameCarried, Travelling
<1> QED
  BY <1>1, <1>2, <1>3, <1>7, <1>8, <1>9, <1>10 DEF KeyInv

LEMMA WordSame ==
  ASSUME WordInv, SameQueues, SameCarried, word' = word, blurred \subseteq blurred'
  PROVE  WordInv'
<1> SUFFICES ASSUME NEW c \in Conditions, c \notin blurred'
             PROVE  /\ Agrees(db, c)' /\ Agrees(tx, c)'
                    /\ (pc[Worker] = "record" /\ answer[Worker] = "ok" /\ Carried.about = c => word[c] = Carried.says)'
  BY DEF WordInv
<1>1. /\ Agrees(db, c) /\ Agrees(tx, c)
      /\ pc[Worker] = "record" /\ answer[Worker] = "ok" /\ Carried.about = c => word[c] = Carried.says
  BY DEF WordInv
<1>2. UnderWay(db, c)' = UnderWay(db, c) /\ UnderWay(tx, c)' = UnderWay(tx, c)
  BY DEF UnderWay, SameQueues
<1>3. Agrees(db, c)' /\ Agrees(tx, c)'
  BY <1>1, <1>2 DEF Agrees, SameQueues
<1>4. Carried' = Carried
  BY DEF SameCarried, SameQueues, Carried
<1> QED
  BY <1>1, <1>3, <1>4 DEF SameCarried, Travelling

\* Nobody begins or ends to send the summary.
LEMMA RunSame ==
  ASSUME RunInv, SummarySent(db') = SummarySent(db), SummarySent(tx') = SummarySent(tx), writer' = writer,
         copies'[Summary] = copies[Summary], Summary \in cause => Summary \in cause',
         \A p \in Processes : pc'[p] \in {"summary", "note"} \/ pc[p] \in {"summary", "note"} =>
           pc'[p] = pc[p] /\ hand'[p] = hand[p] /\ answer'[p] = answer[p]
  PROVE  RunInv'
<1>1. \A p \in Processes : (pc'[p] = "note" <=> pc[p] = "note") /\ (pc'[p] = "summary" <=> pc[p] = "summary")
  OBVIOUS
<1>2. (\A p \in Processes : writer = p /\ pc[p] = "summary" /\ hand[p] > 0 => ~SummarySent(tx))'
  BY <1>1 DEF RunInv
<1> SUFFICES ASSUME Summary \notin cause'
             PROVE  /\ copies'[Summary] <= 1
                    /\ \A p \in Processes : pc'[p] = "note" => writer' = p /\ answer'[p] = "ok"
                    /\ copies'[Summary] > 0 =>
                         \/ SummarySent(db') /\ SummarySent(tx')
                         \/ \E p \in Processes : writer' = p /\ (pc'[p] = "note" \/ (pc'[p] = "summary" /\ SummarySent(tx')))
  BY <1>2 DEF RunInv
<1> QED
  BY <1>1 DEF RunInv

LEMMA RowChanged ==
  ASSUME NEW t \in TablesType, NEW i \in DOMAIN t.queue, NEW r \in Row,
         NEW u, u = [t EXCEPT !.queue = [@ EXCEPT ![i] = r]]
  PROVE  /\ u \in TablesType /\ SameBut(t, u) /\ DOMAIN u.queue = DOMAIN t.queue /\ u.queue[i] = r
         /\ \A j \in DOMAIN t.queue : j # i => u.queue[j] = t.queue[j]
<1> DEFINE q == [t.queue EXCEPT ![i] = r]
<1>1. t.queue \in Seq(Row) /\ DOMAIN t.queue = 1..Len(t.queue)
  BY QueueFacts
<1>2. /\ q \in Seq(Row) /\ DOMAIN q = DOMAIN t.queue /\ q[i] = r
      /\ \A j \in DOMAIN t.queue : j # i => q[j] = t.queue[j]
  BY <1>1
<1>3. u = [t EXCEPT !.queue = q]
  OBVIOUS
<1> HIDE DEF q
<1> QED
  BY <1>2, <1>3, NewQueue

-----------------------------------------------------------------------------
(* Notifications: the steps                                                *)

LEMMA InitHolds == NotifyInit => NotifyInv
<1> SUFFICES ASSUME NotifyInit PROVE NotifyInv
  OBVIOUS
<1> USE DEF NotifyInit
<1>1. db.queue = <<>> /\ tx = db /\ writer = NoOne /\ cur = 0 /\ due = {}
  OBVIOUS
<1>2. db \in TablesType
  <2>1. [c \in Conditions |-> [active |-> FALSE, sent |-> "never"]] \in [Conditions -> ConditionState]
    BY DEF ConditionState
  <2>2. [status |-> "absent", attempts |-> 0, ripe |-> TRUE] \in Run
    BY DEF Run
  <2>3. <<>> \in Seq(Row)
    OBVIOUS
  <2> QED
    BY <2>1, <2>2, <2>3 DEF TablesType
<1>3. NotifyTypes
  <2>1. log \in 0..MaxEvents /\ db.cursor <= log
    BY NotificationsAssumption
  <2>2. copies \in [Keys \cup {Summary} -> Nat] /\ place \in Places
    BY NotificationsAssumption DEF Places
  <2> QED
    BY <1>1, <1>2, <2>1, <2>2, ProcessFacts DEF NotifyTypes, Channels
<1>4. \A i : i \notin DOMAIN db.queue
  BY <1>1
<1>5. HoldInv
  BY <1>1, ProcessFacts DEF HoldInv, Travelling
<1>6. SeenInv
  BY <1>1 DEF SeenInv, Passed
<1>7. KeyInv
  BY <1>1, <1>4, ProcessFacts DEF KeyInv, Queued
<1>8. RunInv
  BY <1>1, ProcessFacts DEF RunInv
<1>9. WordInv
  <2> SUFFICES ASSUME NEW c \in Conditions PROVE Agrees(db, c) /\ pc[Worker] # "record"
    BY <1>1 DEF WordInv
  <2>1. UnderWay(db, c) = {}
    BY <1>4 DEF UnderWay, Kept
  <2>2. word[c] = Stated(db.states[c])
    BY DEF Stated
  <2> QED
    BY <2>1, <2>2, ProcessFacts DEF Agrees
<1> QED
  BY <1>3, <1>5, <1>6, <1>7, <1>8, <1>9 DEF NotifyInv

LEMMA NothingRead ==
  ASSUME NotifyInv, UNCHANGED <<db, tx, writer, pc, due, cur, hand, answer>>,
         UNCHANGED <<word, copies, cause, blurred>>, skipped \subseteq skipped',
         log' \in 0..MaxEvents, log <= log', truth' \subseteq Conditions, chan' \in Channels,
         place' \in Places
  PROVE  NotifyInv'
<1>1. SameQueues /\ SameCarried
  BY DEF SameQueues, SameCarried
<1>2. NotifyTypes'
  <2>1. db.cursor \in Nat /\ tx.cursor \in Nat
    BY QueueFacts DEF NotifyInv, NotifyTypes
  <2>2. db.cursor <= log' /\ tx.cursor <= log'
    BY <2>1, NotificationsAssumption DEF NotifyInv, NotifyTypes
  <2> QED
    BY <2>2 DEF NotifyInv, NotifyTypes
<1>3. HoldInv'
  BY DEF NotifyInv, HoldInv
<1>4. SeenInv' /\ KeyInv' /\ WordInv'
  BY <1>1, SeenSame, KeySame, WordSame DEF NotifyInv
<1>5. RunInv'
  BY RunSame DEF NotifyInv
<1> QED
  BY <1>2, <1>3, <1>4, <1>5 DEF NotifyInv

LEMMA LogStep == ASSUME NotifyInv, LogEvent PROVE NotifyInv'
<1>1. log \in 0..MaxEvents /\ log < MaxEvents /\ log' = log + 1 /\ MaxEvents \in Nat
      /\ place' \in Places
  BY NotificationsAssumption DEF NotifyInv, NotifyTypes, LogEvent
<1>2. log' \in 0..MaxEvents /\ log <= log'
  BY <1>1
<1> QED
  BY <1>2, NothingRead DEF LogEvent, NoWrite, Processing, History, NotifyInv, NotifyTypes

LEMMA ChangeStep == ASSUME NotifyInv, Change PROVE NotifyInv'
<1>1. log' \in 0..MaxEvents /\ log <= log' /\ chan' \in Channels /\ truth' \subseteq Conditions
      /\ place' \in Places
  BY NotificationsAssumption DEF NotifyInv, NotifyTypes, Change
<1> QED
  BY <1>1, NothingRead DEF Change, NoWrite, Processing, History

LEMMA WindowStep == ASSUME NotifyInv, Window PROVE NotifyInv'
<1>1. log' \in 0..MaxEvents /\ log <= log' /\ truth' \subseteq Conditions /\ place' \in Places
  BY NotificationsAssumption DEF NotifyInv, NotifyTypes, Window
<1>2. chan' \in Channels
  BY DEF NotifyInv, NotifyTypes, Window, Channels
<1> QED
  BY <1>1, <1>2, NothingRead DEF Window, NoWrite, Processing, History

LEMMA RedirectStep == ASSUME NotifyInv, Redirect PROVE NotifyInv'
<1>1. log' \in 0..MaxEvents /\ log <= log' /\ chan' \in Channels /\ truth' \subseteq Conditions
  BY NotificationsAssumption DEF NotifyInv, NotifyTypes, Redirect
<1>2. place' \in Places
  BY NotificationsAssumption DEF NotifyInv, NotifyTypes, Redirect, Places
<1> QED
  BY <1>1, <1>2, NothingRead DEF Redirect, NoWrite, Processing, History

LEMMA ConfigureStep == ASSUME NotifyInv, Configure PROVE NotifyInv'
<1>1. log' \in 0..MaxEvents /\ log <= log' /\ truth' \subseteq Conditions /\ log' = log /\ log \in Nat
      /\ place' \in Places
  BY NotificationsAssumption DEF NotifyInv, NotifyTypes, Configure
<1>2. CASE chan # "disabled"
  BY <1>1, <1>2, NothingRead DEF Configure, NoWrite, Processing, History, Channels
<1>3. CASE chan = "disabled"
  <2> DEFINE t == [db EXCEPT !.cursor = log]
  <2>1. /\ writer = NoOne /\ chan' = "open" /\ db' = t /\ tx' = t /\ writer' = NoOne
        /\ skipped' = skipped \cup {e \in Events : e > db.cursor /\ e <= log}
        /\ UNCHANGED <<pc, due, cur, hand, answer, word, copies, cause, blurred, truth, place>>
    BY <1>3 DEF Configure, Commit, Processing, History
  <2>2. tx = db /\ db \in TablesType
    BY <2>1 DEF NotifyInv, NotifyTypes, HoldInv
  <2>3. t \in TablesType /\ t.cursor = log /\ t.seen = db.seen /\ t.queue = db.queue
        /\ t.states = db.states /\ t.summary = db.summary
    BY <1>1, <2>2 DEF TablesType
  <2> HIDE DEF t
  <2>4. SameQueues /\ SameCarried
    BY <2>1, <2>2, <2>3 DEF SameQueues, SameCarried
  <2>5. NotifyTypes'
    BY <1>1, <2>1, <2>3 DEF NotifyInv, NotifyTypes, Channels
  <2>6. HoldInv'
    BY <2>1, <2>2, <2>3 DEF NotifyInv, HoldInv
  <2>7. SeenInv'
    <3>1. \A e \in 1..log : e \in skipped' \/ \E pl \in Places : KeyOf[<<e, pl>>] \in t.seen
      <4> SUFFICES ASSUME NEW e \in 1..log, e \notin skipped'
                   PROVE  \E pl \in Places : KeyOf[<<e, pl>>] \in db.seen
        BY <2>3
      <4>1. e \in Events /\ e \in Nat /\ db.cursor \in Nat
        BY <1>1, <2>2, QueueFacts, NotificationsAssumption DEF Events
      <4>2. e <= db.cursor /\ e \notin skipped
        BY <1>1, <2>1, <4>1
      <4> QED
        BY <4>1, <4>2 DEF NotifyInv, SeenInv, Passed
    <3> QED
      BY <2>1, <2>3, <3>1 DEF SeenInv, Passed
  <2>8. KeyInv' /\ WordInv'
    BY <2>1, <2>4, KeySame, WordSame DEF NotifyInv
  <2>9. RunInv'
    BY <2>1, <2>2, <2>3, RunSame DEF NotifyInv, SummarySent
  <2> QED
    BY <2>5, <2>6, <2>7, <2>8, <2>9 DEF NotifyInv
<1> QED
  BY <1>2, <1>3

\* A row about neither a key nor a condition.
LEMMA RowAppended ==
  ASSUME NEW t \in TablesType, NEW r \in Row, NEW u, u = [t EXCEPT !.queue = Append(@, r)]
  PROVE  /\ u \in TablesType /\ SameBut(t, u) /\ DOMAIN t.queue \subseteq DOMAIN u.queue
         /\ \A j \in DOMAIN t.queue : u.queue[j] = t.queue[j]
         /\ \A j \in DOMAIN u.queue \ DOMAIN t.queue : u.queue[j] = r
<1> DEFINE q == Append(t.queue, r)
<1>1. t.queue \in Seq(Row) /\ DOMAIN t.queue = 1..Len(t.queue) /\ Len(t.queue) \in Nat
  BY QueueFacts
<1>2. /\ q \in Seq(Row) /\ DOMAIN q = 1..(Len(t.queue) + 1)
      /\ \A j \in DOMAIN t.queue : q[j] = t.queue[j]
      /\ q[Len(t.queue) + 1] = r
  BY <1>1
<1>3. u = [t EXCEPT !.queue = q]
  OBVIOUS
<1> HIDE DEF q
<1>4. DOMAIN t.queue \subseteq DOMAIN q /\ \A j \in DOMAIN q \ DOMAIN t.queue : j = Len(t.queue) + 1
  BY <1>1, <1>2
<1> QED
  BY <1>2, <1>3, <1>4, NewQueue

LEMMA AskTestStep == ASSUME NotifyInv, AskTest PROVE NotifyInv'
<1> DEFINE r == Message(Test, "event")
           t == [db EXCEPT !.queue = Append(@, r)]
<1>1. /\ writer = NoOne /\ db' = t /\ tx' = t /\ writer' = NoOne
      /\ UNCHANGED <<pc, due, cur, hand, answer, word, copies, cause, blurred, log, truth, chan, place, skipped>>
  BY DEF AskTest, Commit, World, Processing, History
<1>2. tx = db /\ db \in TablesType
  BY <1>1 DEF NotifyInv, NotifyTypes, HoldInv
<1>3. r \in Row
  BY DEF Message, Row
<1>4. r.about = Test
  BY DEF Message
<1> HIDE DEF r
<1> HIDE DEF t
<1>5a. t = [db EXCEPT !.queue = Append(@, r)]
  BY DEF t
<1>5. /\ t \in TablesType /\ SameBut(db, t) /\ DOMAIN db.queue \subseteq DOMAIN t.queue
      /\ \A j \in DOMAIN db.queue : t.queue[j] = db.queue[j]
      /\ \A j \in DOMAIN t.queue \ DOMAIN db.queue : t.queue[j] = r
  BY <1>2, <1>3, <1>5a, RowAppended
<1>6. NotifyTypes'
  BY <1>1, <1>5 DEF NotifyInv, NotifyTypes, SameBut
<1>7. HoldInv'
  BY <1>1, <1>2, <1>5 DEF NotifyInv, HoldInv
<1>8. SeenInv'
  BY <1>1, <1>2, <1>5 DEF NotifyInv, SeenInv, Passed, SameBut
<1>9. \A j \in DOMAIN t.queue : t.queue[j].about \in Keys \cup Conditions =>
        j \in DOMAIN db.queue /\ t.queue[j] = db.queue[j]
  BY <1>4, <1>5, Disjoint
<1>10. /\ Queued(db) /\ \A i \in DOMAIN db.queue : Waits(db.queue[i]) /\ (i = cur \/ AtRest(db.queue[i]))
  BY <1>2 DEF NotifyInv, KeyInv
<1>11. Queued(t) /\ \A i \in DOMAIN t.queue : Waits(t.queue[i]) /\ (i = cur \/ AtRest(t.queue[i]))
  BY <1>5, <1>9, <1>10 DEF Queued, Waits, AtRest, SameBut
<1>12. pc[Worker] \in Travelling => Carried' = Carried
  BY <1>1, <1>5 DEF NotifyInv, HoldInv, Carried
<1>13. KeyInv'
  <2>1. Queued(db)' /\ Queued(tx)'
    BY <1>1, <1>11 DEF Queued
  <2>2. (\A k \in Keys : copies[k] > 0 => k \in db.seen)' /\ (\A k \in Keys \ cause : copies[k] <= 1)'
    BY <1>1, <1>5 DEF NotifyInv, KeyInv, SameBut
  <2>3. (\A i \in DOMAIN db.queue : Waits(db.queue[i]) /\ (writer = Worker \/ i = cur \/ AtRest(db.queue[i])))'
    BY <1>1, <1>11 DEF Waits, AtRest
  <2>4. (\A i \in DOMAIN tx.queue : Waits(tx.queue[i]) /\ (i = cur \/ AtRest(tx.queue[i])))'
    BY <1>1, <1>11 DEF Waits, AtRest
  <2>5. (pc[Worker] = "send" /\ Carried.about \in Keys \ cause => copies[Carried.about] = 0)'
    BY <1>1, <1>12 DEF NotifyInv, KeyInv, Travelling
  <2>6. (pc[Worker] = "record" /\ Carried.about \in Keys \ cause => answer[Worker] = "ok")'
    BY <1>1, <1>12 DEF NotifyInv, KeyInv, Travelling
  <2> QED
    BY <2>1, <2>2, <2>3, <2>4, <2>5, <2>6 DEF KeyInv
<1>14. RunInv'
  BY <1>1, <1>2, <1>5, RunSame DEF NotifyInv, SummarySent, SameBut
<1>15. WordInv'
  <2> SUFFICES ASSUME NEW c \in Conditions, c \notin blurred
               PROVE  /\ Agrees(db, c)' /\ Agrees(tx, c)'
                      /\ (pc[Worker] = "record" /\ answer[Worker] = "ok" /\ Carried.about = c =>
                            word[c] = Carried.says)'
    BY <1>1 DEF WordInv
  <2>1. UnderWay(t, c) = UnderWay(db, c)
    BY <1>5, <1>9 DEF UnderWay, Kept
  <2>2. \A i \in UnderWay(db, c) : t.queue[i] = db.queue[i]
    BY <1>5 DEF UnderWay, Kept
  <2>3. Agrees(t, c)
    BY <1>5, <2>1, <2>2 DEF NotifyInv, WordInv, Agrees, SameBut
  <2>4. Agrees(db, c)' /\ Agrees(tx, c)'
    BY <1>1, <2>3 DEF Agrees
  <2> QED
    BY <1>1, <1>12, <2>4 DEF NotifyInv, WordInv, Travelling
<1> QED
  BY <1>6, <1>7, <1>8, <1>13, <1>14, <1>15 DEF NotifyInv

LEMMA LaterFacts ==
  ASSUME NEW t \in TablesType, NEW u, u = Later(t)
  PROVE  /\ u \in TablesType /\ u.cursor = t.cursor /\ u.seen = t.seen
         /\ u.summary.status = t.summary.status
         /\ DOMAIN u.queue = DOMAIN t.queue
         /\ \A i \in DOMAIN t.queue : u.queue[i] = [t.queue[i] EXCEPT !.ripe = TRUE]
         /\ \A c \in Conditions : Stated(u.states[c]) = Stated(t.states[c])
<1> DEFINE q == [i \in DOMAIN t.queue |-> [t.queue[i] EXCEPT !.ripe = TRUE]]
           s == [t.summary EXCEPT !.ripe = TRUE]
           st == [c \in Conditions |-> Cooled(t.states[c])]
<1>1. /\ t.queue \in Seq(Row) /\ Len(t.queue) \in Nat /\ DOMAIN t.queue = 1..Len(t.queue)
      /\ \A i \in DOMAIN t.queue : t.queue[i] \in Row
      /\ t.summary \in Run /\ t.states \in [Conditions -> ConditionState]
  BY QueueFacts
<1>2. \A r \in Row : [r EXCEPT !.ripe = TRUE] \in Row
  BY DEF Row
<1>3. q \in [1..Len(t.queue) -> Row] /\ \A i \in DOMAIN t.queue : q[i] = [t.queue[i] EXCEPT !.ripe = TRUE]
  BY <1>1, <1>2
<1>4. s \in Run /\ s.status = t.summary.status
  BY <1>1 DEF Run
<1>5. /\ st \in [Conditions -> ConditionState]
      /\ \A c \in Conditions : Stated(st[c]) = Stated(t.states[c])
  <2>1. \A c \in Conditions : t.states[c] \in ConditionState
    BY <1>1
  <2>2. \A c \in Conditions : st[c] \in ConditionState /\ Stated(st[c]) = Stated(t.states[c])
    BY <2>1 DEF Cooled, ConditionState, Stated
  <2> QED
    BY <2>2
<1>6. u = [t EXCEPT !.queue = q, !.summary = s, !.states = st]
  BY DEF Later
<1> HIDE DEF q, s, st
<1>7. q \in Seq(Row) /\ DOMAIN q = DOMAIN t.queue
  BY <1>1, <1>3, AsSequence
<1>8. /\ u \in TablesType /\ u.cursor = t.cursor /\ u.seen = t.seen /\ u.summary = s
      /\ u.queue = q /\ u.states = st
  BY <1>4, <1>5, <1>6, <1>7 DEF TablesType
<1> QED
  BY <1>3, <1>4, <1>5, <1>7, <1>8

LEMMA TickStep == ASSUME NotifyInv, Tick PROVE NotifyInv'
<1> DEFINE t == Later(db)
<1>1. /\ writer = NoOne /\ pc[Worker] = "idle" /\ db' = t /\ tx' = t /\ writer' = NoOne
      /\ UNCHANGED <<pc, due, cur, hand, answer, word, copies, cause, blurred, log, truth, chan, place, skipped>>
  BY DEF Tick, Commit, World, Processing, History
<1>2. tx = db /\ db \in TablesType /\ cur = 0 /\ due = {} /\ \A i \in DOMAIN db.queue : db.queue[i] \in Row
  BY <1>1, QueueFacts DEF NotifyInv, NotifyTypes, HoldInv, Travelling
<1>3. /\ t \in TablesType /\ t.cursor = db.cursor /\ t.seen = db.seen
      /\ t.summary.status = db.summary.status
      /\ DOMAIN t.queue = DOMAIN db.queue
      /\ \A i \in DOMAIN db.queue : t.queue[i] = [db.queue[i] EXCEPT !.ripe = TRUE]
      /\ \A c \in Conditions : Stated(t.states[c]) = Stated(db.states[c])
  BY <1>2, LaterFacts
<1> HIDE DEF t
<1>4. \A i \in DOMAIN db.queue :
        /\ t.queue[i].about = db.queue[i].about /\ t.queue[i].says = db.queue[i].says
        /\ t.queue[i].status = db.queue[i].status
  BY <1>2, <1>3 DEF Row
<1>5. NotifyTypes'
  BY <1>1, <1>3 DEF NotifyInv, NotifyTypes
<1>6. HoldInv'
  BY <1>1, <1>2, <1>3 DEF NotifyInv, HoldInv, Travelling
<1>7. SeenInv'
  BY <1>1, <1>2, <1>3 DEF NotifyInv, SeenInv, Passed
<1>8. KeyInv'
  <2>1. Queued(db)' /\ Queued(tx)'
    BY <1>1, <1>3, <1>4 DEF NotifyInv, KeyInv, Queued
  <2>2. (\A k \in Keys : copies[k] > 0 => k \in db.seen)' /\ (\A k \in Keys \ cause : copies[k] <= 1)'
    BY <1>1, <1>3 DEF NotifyInv, KeyInv
  <2>3. \A i \in DOMAIN db.queue : Waits(db.queue[i]) /\ (i = cur \/ AtRest(db.queue[i]))
    BY <1>2 DEF NotifyInv, KeyInv
  <2>4. \A i \in DOMAIN t.queue : Waits(t.queue[i]) /\ (i = cur \/ AtRest(t.queue[i]))
    BY <1>3, <1>4, <2>3 DEF Waits, AtRest
  <2>5. (\A i \in DOMAIN db.queue : Waits(db.queue[i]) /\ (writer = Worker \/ i = cur \/ AtRest(db.queue[i])))'
    BY <1>1, <2>4 DEF Waits, AtRest
  <2>6. (\A i \in DOMAIN tx.queue : Waits(tx.queue[i]) /\ (i = cur \/ AtRest(tx.queue[i])))'
    BY <1>1, <2>4 DEF Waits, AtRest
  <2> QED
    BY <1>1, <2>1, <2>2, <2>5, <2>6 DEF KeyInv
<1>9. RunInv'
  BY <1>1, <1>2, <1>3, RunSame DEF NotifyInv, SummarySent
<1>10. WordInv'
  <2> SUFFICES ASSUME NEW c \in Conditions, c \notin blurred PROVE Agrees(db, c)' /\ Agrees(tx, c)'
    BY <1>1 DEF WordInv
  <2>1. UnderWay(t, c) = UnderWay(db, c) /\ \A i \in UnderWay(db, c) : t.queue[i].says = db.queue[i].says
    BY <1>3, <1>4 DEF UnderWay, Kept, Unsettled
  <2>2. Agrees(t, c)
    BY <1>3, <2>1 DEF NotifyInv, WordInv, Agrees
  <2> QED
    BY <1>1, <2>2 DEF Agrees
<1> QED
  BY <1>5, <1>6, <1>7, <1>8, <1>9, <1>10 DEF NotifyInv

-----------------------------------------------------------------------------
(* Notifications: the worker's cycle                                       *)

LEMMA GotoFacts ==
  ASSUME pc \in [Processes -> {"idle", "next", "send", "record", "summary", "note"}],
         NEW p \in Processes, NEW l \in {"idle", "next", "send", "record", "summary", "note"}, Goto(p, l)
  PROVE  /\ pc' \in [Processes -> {"idle", "next", "send", "record", "summary", "note"}]
         /\ pc'[p] = l /\ \A q \in Processes : q # p => pc'[q] = pc[q]
  BY DEF Goto

\* While nobody writes, nothing is under way that the tables do not show.
LEMMA IdleFacts ==
  ASSUME NotifyInv, writer = NoOne
  PROVE  /\ tx = db /\ db \in TablesType /\ tx \in TablesType
         /\ \A i \in DOMAIN db.queue : i # cur => Waits(db.queue[i]) /\ AtRest(db.queue[i])
         /\ Summary \notin cause =>
              (\A p \in Processes : pc[p] # "note") /\ (copies[Summary] > 0 => SummarySent(db))
  BY ProcessFacts DEF NotifyInv, NotifyTypes, HoldInv, KeyInv, RunInv

LEMMA CycleStep == ASSUME NotifyInv, Cycle PROVE NotifyInv'
<1>1. PICK time \in BOOLEAN :
        LET t == Prepared(db, time) IN
        /\ Write(Worker, t)
        /\ due' = IF chan # "disabled" THEN Batch(t.queue) ELSE {}
        /\ blurred' = blurred \cup Piled(t.queue) \cup
             IF chan = "open" THEN {} ELSE {c \in Conditions : ShouldSend(db.states[c], c \in truth)}
  <2>1. PICK time \in {b \in BOOLEAN : b => "summary" \in occur} :
          /\ Write(Worker, Prepared(db, time))
          /\ due' = IF chan # "disabled" THEN Batch(Prepared(db, time).queue) ELSE {}
          /\ blurred' = blurred \cup Piled(Prepared(db, time).queue) \cup
               IF chan = "open" THEN {} ELSE {c \in Conditions : ShouldSend(db.states[c], c \in truth)}
    BY DEF Cycle
  <2> QED
    BY <2>1
<1> DEFINE t == Prepared(db, time)
<1>2. /\ pc[Worker] = "idle" /\ writer = NoOne /\ db' = db /\ tx' = t /\ writer' = Worker
      /\ UNCHANGED <<cur, hand, answer, word, copies, cause, log, truth, chan, place, skipped>>
      /\ Goto(Worker, "next")
  BY <1>1 DEF Cycle, Write, World
<1>3. /\ tx = db /\ db \in TablesType /\ cur = 0 /\ DOMAIN db.queue \subseteq Nat \ {0}
      /\ \A i \in DOMAIN db.queue : i # cur => Waits(db.queue[i]) /\ AtRest(db.queue[i])
      /\ Summary \notin cause =>
           (\A p \in Processes : pc[p] # "note") /\ (copies[Summary] > 0 => SummarySent(db))
  BY <1>2, IdleFacts, QueueFacts DEF NotifyInv, HoldInv, Travelling
<1>4. /\ log \in 0..MaxEvents /\ db.cursor <= log /\ chan \in {"open", "maintenance", "disabled"}
      /\ place \in Places
      /\ copies \in [Keys \cup {Summary} -> Nat] /\ \A k \in Keys : copies[k] > 0 => k \in db.seen
  BY DEF NotifyInv, NotifyTypes, KeyInv, Channels
<1>5. Queued(db) /\ Unheard(db)
  BY <1>3 DEF NotifyInv, KeyInv, Unheard
<1>6. /\ t \in TablesType /\ Queued(t) /\ Unheard(t)
      /\ t.cursor = CursorAfter(db) /\ t.seen = db.seen \cup {Key(e) : e \in Scan(db)}
      /\ db.summary.status = "sent" => t.summary.status = "sent"
  BY <1>3, <1>4, <1>5, QueuedPrepared
<1>7. \A c \in Conditions \ blurred' : Agrees(t, c)
  <2> SUFFICES ASSUME NEW c \in Conditions, c \notin blurred' PROVE Agrees(t, c)
    OBVIOUS
  <2>1. c \notin blurred /\ c \notin Piled(t.queue) /\ (chan = "open" \/ ~Sending(db, c))
    BY <1>1 DEF Sending
  <2>2. Agrees(db, c)
    BY <2>1 DEF NotifyInv, WordInv
  <2> QED
    BY <1>3, <1>4, <2>1, <2>2, AgreesPrepared
<1>8. blurred \subseteq blurred' /\ due' \subseteq Due(t.queue)
  BY <1>1 DEF Batch
<1> HIDE DEF t
<1>9. /\ pc' \in [Processes -> {"idle", "next", "send", "record", "summary", "note"}]
      /\ pc'[Worker] = "next" /\ \A q \in Processes : q # Worker => pc'[q] = pc[q]
  BY <1>2, GotoFacts, ProcessFacts DEF NotifyInv, NotifyTypes
<1>10. t.cursor <= log /\ \A e \in 1..t.cursor : e <= db.cursor \/ e \in Scan(db)
  BY <1>3, <1>4, <1>6, ScanFacts
<1>11. NotifyTypes'
  BY <1>2, <1>6, <1>9, <1>10, ProcessFacts DEF NotifyInv, NotifyTypes
<1>12. HoldInv'
  <2>1. due' \subseteq DOMAIN t.queue /\ \A i \in due' : t.queue[i].status = "pending"
    BY <1>8 DEF Due
  <2> QED
    BY <1>2, <1>3, <1>9, <2>1, ProcessFacts DEF NotifyInv, HoldInv, Travelling
<1>13. SeenInv'
  <2>1. \A e \in 1..t.cursor : e \in skipped \/ \E pl \in Places : KeyOf[<<e, pl>>] \in t.seen
    <3> SUFFICES ASSUME NEW e \in 1..t.cursor
                 PROVE  e \in skipped \/ \E pl \in Places : KeyOf[<<e, pl>>] \in t.seen
      OBVIOUS
    <3>1. CASE e \in Scan(db)
      BY <1>4, <1>6, <3>1 DEF Key
    <3>2. CASE e <= db.cursor
      <4>1. e \in 1..db.cursor
        BY <1>3, <3>2, QueueFacts
      <4> QED
        BY <1>6, <4>1 DEF NotifyInv, SeenInv, Passed
    <3> QED
      BY <1>10, <3>1, <3>2
  <2> QED
    BY <1>2, <1>6, <2>1 DEF NotifyInv, SeenInv, Passed
<1>14. KeyInv'
  <2>1. Queued(db)' /\ Queued(tx)'
    BY <1>2, <1>5, <1>6 DEF Queued
  <2>2. (\A k \in Keys : copies[k] > 0 => k \in db.seen)' /\ (\A k \in Keys \ cause : copies[k] <= 1)'
    BY <1>2, <1>4 DEF NotifyInv, KeyInv
  <2>3. (\A i \in DOMAIN db.queue : Waits(db.queue[i]) /\ (writer = Worker \/ i = cur \/ AtRest(db.queue[i])))'
    BY <1>2, <1>5 DEF Unheard, Waits
  <2>4. (\A i \in DOMAIN tx.queue : Waits(tx.queue[i]) /\ (i = cur \/ AtRest(tx.queue[i])))'
    BY <1>2, <1>6 DEF Unheard, Waits, AtRest
  <2> QED
    BY <1>9, <2>1, <2>2, <2>3, <2>4 DEF KeyInv
<1>15. RunInv'
  <2>1. \A p \in Processes : writer' = p => pc'[p] = "next"
    BY <1>2, <1>9
  <2>2. Summary \notin cause => \A p \in Processes : pc'[p] # "note"
    BY <1>3, <1>9
  <2>3. Summary \notin cause => copies[Summary] <= 1
    BY DEF NotifyInv, RunInv
  <2>4. Summary \notin cause /\ copies[Summary] > 0 => SummarySent(db) /\ SummarySent(t)
    BY <1>3, <1>6 DEF SummarySent
  <2> QED
    BY <1>2, <2>1, <2>2, <2>3, <2>4 DEF RunInv, SummarySent
<1>16. WordInv'
  <2> SUFFICES ASSUME NEW c \in Conditions, c \notin blurred' PROVE Agrees(db, c)' /\ Agrees(tx, c)'
    BY <1>9 DEF WordInv
  <2>1. Agrees(db, c) /\ Agrees(t, c)
    BY <1>7, <1>8 DEF NotifyInv, WordInv
  <2> QED
    BY <1>2, <2>1 DEF Agrees
<1> QED
  BY <1>11, <1>12, <1>13, <1>14, <1>15, <1>16 DEF NotifyInv

LEMMA ClaimStep == ASSUME NotifyInv, Claim PROVE NotifyInv'
<1>1. PICK i \in due : /\ Commit([tx EXCEPT !.queue[i] = Taken(@)]) /\ due' = due \ {i} /\ cur' = i
  BY DEF Claim
<1> DEFINE r == Taken(tx.queue[i])
           t == [tx EXCEPT !.queue = [@ EXCEPT ![i] = r]]
<1>2. /\ pc[Worker] = "next" /\ db' = t /\ tx' = t /\ writer' = NoOne
      /\ UNCHANGED <<hand, answer, word, copies, cause, blurred, log, truth, chan, place, skipped>>
      /\ Goto(Worker, "send")
  BY <1>1 DEF Claim, Commit, World, History
<1>3. /\ tx \in TablesType /\ i \in DOMAIN tx.queue /\ tx.queue[i].status = "pending" /\ writer = Worker
      /\ cur = 0 /\ DOMAIN tx.queue \subseteq Nat \ {0} /\ tx.queue[i] \in Row
  BY <1>1, <1>2, QueueFacts DEF NotifyInv, NotifyTypes, HoldInv, Travelling
<1>4. r \in Row /\ r.about = tx.queue[i].about /\ r.says = tx.queue[i].says /\ r.status = "processing"
  <2>1. \A x \in Row : x.attempts + 1 \in Nat
    BY DEF Row
  <2>2. \A x \in Row : Taken(x) \in Row
    BY <2>1 DEF Taken, Row
  <2>3. \A x \in Row : Taken(x).about = x.about /\ Taken(x).says = x.says /\ Taken(x).status = "processing"
    BY DEF Taken, Row
  <2> QED
    BY <1>3, <2>2, <2>3
<1> HIDE DEF r
<1>5. t = [tx EXCEPT !.queue = [@ EXCEPT ![i] = r]]
  BY DEF t
<1> HIDE DEF t
<1>6. /\ t \in TablesType /\ SameBut(tx, t) /\ DOMAIN t.queue = DOMAIN tx.queue /\ t.queue[i] = r
      /\ \A j \in DOMAIN tx.queue : j # i => t.queue[j] = tx.queue[j]
  BY <1>3, <1>4, <1>5, RowChanged
<1>7. /\ pc' \in [Processes -> {"idle", "next", "send", "record", "summary", "note"}]
      /\ pc'[Worker] = "send" /\ \A q \in Processes : q # Worker => pc'[q] = pc[q]
  BY <1>2, GotoFacts, ProcessFacts DEF NotifyInv, NotifyTypes
<1>8. NotifyTypes'
  BY <1>1, <1>2, <1>3, <1>6, <1>7 DEF NotifyInv, NotifyTypes, SameBut
<1>9. HoldInv'
  <2>1. due' \subseteq DOMAIN t.queue /\ \A j \in due' : t.queue[j].status = "pending"
    BY <1>1, <1>6 DEF NotifyInv, HoldInv
  <2>2. i \in DOMAIN t.queue /\ t.queue[i].status = "processing"
    BY <1>3, <1>4, <1>6
  <2> QED
    BY <1>1, <1>2, <1>7, <2>1, <2>2, ProcessFacts DEF NotifyInv, HoldInv, Travelling
<1>10. SeenInv'
  BY <1>2, <1>6 DEF NotifyInv, SeenInv, Passed, SameBut
<1>11. KeyInv'
  <2>1. Queued(tx) /\ (\A j \in DOMAIN tx.queue : Waits(tx.queue[j]) /\ AtRest(tx.queue[j]))
    BY <1>3 DEF NotifyInv, KeyInv
  <2>2. \A j \in DOMAIN tx.queue : t.queue[j].about = tx.queue[j].about
    BY <1>4, <1>6
  <2>3. Queued(t)
    BY <1>6, <2>1, <2>2 DEF Queued, SameBut
  <2>4. Queued(db)' /\ Queued(tx)'
    BY <1>2, <2>3 DEF Queued
  <2>5. (\A k \in Keys : copies[k] > 0 => k \in db.seen)' /\ (\A k \in Keys \ cause : copies[k] <= 1)'
    BY <1>2, <1>6 DEF NotifyInv, KeyInv, SeenInv, SameBut
  <2>6. \A j \in DOMAIN t.queue : Waits(t.queue[j]) /\ (j = i \/ AtRest(t.queue[j]))
    BY <1>4, <1>6, <2>1 DEF Waits
  <2>7. (\A j \in DOMAIN db.queue : Waits(db.queue[j]) /\ (writer = Worker \/ j = cur \/ AtRest(db.queue[j])))'
    BY <1>1, <1>2, <2>6 DEF Waits, AtRest
  <2>8. (\A j \in DOMAIN tx.queue : Waits(tx.queue[j]) /\ (j = cur \/ AtRest(tx.queue[j])))'
    BY <1>1, <1>2, <2>6 DEF Waits, AtRest
  <2>9. (pc[Worker] = "send" /\ Carried.about \in Keys \ cause => copies[Carried.about] = 0)'
    <3>1. Carried' = r
      BY <1>1, <1>2, <1>6 DEF Carried
    <3>2. r.about \in Keys \ cause => copies[r.about] = 0
      BY <1>3, <1>4, <2>1 DEF Waits
    <3> QED
      BY <1>2, <3>1, <3>2
  <2> QED
    BY <1>7, <2>4, <2>5, <2>7, <2>8, <2>9 DEF KeyInv
<1>12. RunInv'
  <2>1. Summary \notin cause =>
          /\ copies[Summary] <= 1 /\ \A p \in Processes : pc[p] # "note"
          /\ copies[Summary] > 0 => SummarySent(tx)
    BY <1>2, <1>3, ProcessFacts DEF NotifyInv, RunInv
  <2>2. \A p \in Processes : pc'[p] = "note" => pc[p] = "note"
    BY <1>7
  <2>3. SummarySent(tx) => SummarySent(t)
    BY <1>6 DEF SummarySent, SameBut
  <2> QED
    BY <1>2, <2>1, <2>2, <2>3, ProcessFacts DEF RunInv, SummarySent
<1>13. WordInv'
  <2> SUFFICES ASSUME NEW c \in Conditions, c \notin blurred PROVE Agrees(db, c)' /\ Agrees(tx, c)'
    BY <1>2, <1>7 DEF WordInv
  <2>1. UnderWay(t, c) = UnderWay(tx, c)
    BY <1>3, <1>4, <1>6 DEF UnderWay, Kept, Unsettled
  <2>2. \A j \in UnderWay(tx, c) : t.queue[j].says = tx.queue[j].says
    BY <1>4, <1>6 DEF UnderWay, Kept
  <2>3. Agrees(t, c)
    BY <1>6, <2>1, <2>2 DEF NotifyInv, WordInv, Agrees, SameBut
  <2> QED
    BY <1>2, <2>3 DEF Agrees
<1> QED
  BY <1>8, <1>9, <1>10, <1>11, <1>12, <1>13 DEF NotifyInv

LEMMA SendStep == ASSUME NotifyInv, Send PROVE NotifyInv'
<1> DEFINE r == db.queue[cur]
<1>1. PICK d \in Deliveries :
        /\ answer' = [answer EXCEPT ![Worker] = d.said]
        /\ word' = IF d.arrives /\ r.about \in Conditions THEN [word EXCEPT ![r.about] = r.says] ELSE word
        /\ copies' = IF d.arrives /\ r.about \in Keys THEN [copies EXCEPT ![r.about] = Capped(@)] ELSE copies
        /\ cause' = IF d.said = "error" THEN cause \cup ({r.about} \cap Keys) ELSE cause
  BY DEF Send
<1>2. /\ pc[Worker] = "send" /\ Goto(Worker, "record")
      /\ UNCHANGED <<db, tx, writer, due, cur, hand, blurred, log, truth, chan, place, skipped>>
  BY DEF Send, NoWrite, World
<1>3. /\ db \in TablesType /\ tx \in TablesType /\ cur \in DOMAIN db.queue /\ r.status = "processing"
      /\ writer # Worker /\ tx.queue = db.queue /\ tx.states = db.states /\ tx.seen = db.seen
  BY <1>2 DEF NotifyInv, NotifyTypes, HoldInv, Travelling
<1>4. r \in Row /\ d.said \in {"ok", "error"} /\ d.arrives \in BOOLEAN /\ (d.said = "ok" => d.arrives)
  BY <1>3, QueueFacts DEF Deliveries
<1>5. /\ pc' \in [Processes -> {"idle", "next", "send", "record", "summary", "note"}]
      /\ pc'[Worker] = "record" /\ \A q \in Processes : q # Worker => pc'[q] = pc[q]
  BY <1>2, GotoFacts, ProcessFacts DEF NotifyInv, NotifyTypes
<1>6. Carried = r /\ Carried' = r
  BY <1>2 DEF Carried
<1>7. /\ copies \in [Keys \cup {Summary} -> Nat] /\ copies' \in [Keys \cup {Summary} -> Nat]
      /\ \A k \in Keys \cup {Summary} : k # r.about => copies'[k] = copies[k]
      /\ r.about \in Keys /\ copies[r.about] = 0 => copies'[r.about] <= 1
  <2>1. copies \in [Keys \cup {Summary} -> Nat]
    BY DEF NotifyInv, NotifyTypes
  <2>2. \A n \in Nat : Capped(n) \in Nat /\ Capped(0) = 1
    BY DEF Capped
  <2> QED
    BY <1>1, <2>1, <2>2
<1>8. /\ answer' \in [Processes -> {"none", "ok", "error"}] /\ answer'[Worker] = d.said
      /\ \A q \in Processes : q # Worker => answer'[q] = answer[q]
  BY <1>1, <1>4, ProcessFacts DEF NotifyInv, NotifyTypes
<1>9. /\ word' \in [Conditions -> {"none", "event", "alert", "recovery"}]
      /\ \A c \in Conditions : c # r.about => word'[c] = word[c]
      /\ \A c \in Conditions : c = r.about /\ d.arrives => word'[c] = r.says
  <2>1. word \in [Conditions -> {"none", "event", "alert", "recovery"}] /\ r.says \in {"event", "alert", "recovery"}
    BY <1>4 DEF NotifyInv, NotifyTypes, Row
  <2> QED
    BY <1>1, <2>1
<1>10. NotifyTypes'
  BY <1>2, <1>5, <1>7, <1>8, <1>9 DEF NotifyInv, NotifyTypes
<1>11. HoldInv'
  BY <1>2, <1>3, <1>5, ProcessFacts DEF NotifyInv, HoldInv, Travelling
<1>12. SeenInv'
  BY <1>2 DEF NotifyInv, SeenInv, Passed
<1>13. cause \subseteq cause' /\ cause' \subseteq cause \cup Keys
       /\ (d.said = "error" /\ r.about \in Keys => r.about \in cause')
  BY <1>1
<1>14. KeyInv'
  <2>1. Queued(db) /\ \A i \in DOMAIN db.queue : Waits(db.queue[i]) /\ (i = cur \/ AtRest(db.queue[i]))
    BY <1>3 DEF NotifyInv, KeyInv
  <2>2. r.about \in Keys \ cause => copies[r.about] = 0
    BY <1>2, <1>6 DEF NotifyInv, KeyInv
  <2>3. (\A k \in Keys : copies[k] > 0 => k \in db.seen)'
    <3> SUFFICES ASSUME NEW k \in Keys, copies'[k] > 0 PROVE k \in db.seen
      BY <1>2
    <3>1. CASE k = r.about
      BY <1>3, <2>1, <3>1 DEF Queued
    <3>2. CASE k # r.about
      BY <1>7, <3>2 DEF NotifyInv, KeyInv
    <3> QED
      BY <3>1, <3>2
  <2>4. (\A k \in Keys \ cause : copies[k] <= 1)'
    <3> SUFFICES ASSUME NEW k \in Keys, k \notin cause' PROVE copies'[k] <= 1
      OBVIOUS
    <3>1. k \notin cause
      BY <1>13
    <3>2. CASE k = r.about
      BY <1>7, <2>2, <3>1, <3>2
    <3>3. CASE k # r.about
      BY <1>7, <3>1, <3>3 DEF NotifyInv, KeyInv
    <3> QED
      BY <3>2, <3>3
  <2>5. \A i \in DOMAIN db.queue : Waits(db.queue[i])' /\ (i = cur \/ AtRest(db.queue[i])')
    <3> SUFFICES ASSUME NEW i \in DOMAIN db.queue
                 PROVE  Waits(db.queue[i])' /\ (i = cur \/ AtRest(db.queue[i])')
      OBVIOUS
    <3>1. i = cur \/ AtRest(db.queue[i])'
      BY <1>2, <1>13, <2>1 DEF AtRest
    <3>2. Waits(db.queue[i])'
      <4> SUFFICES ASSUME db.queue[i].about \in Keys \ cause', db.queue[i].status = "pending"
                   PROVE  copies'[db.queue[i].about] = 0
        BY <1>2 DEF Waits
      <4>1. i # cur /\ db.queue[i].about # r.about
        BY <1>3, <2>1 DEF Queued
      <4>2. copies[db.queue[i].about] = 0
        BY <1>13, <2>1 DEF Waits
      <4> QED
        BY <1>7, <4>1, <4>2
    <3> QED
      BY <3>1, <3>2
  <2>6. Queued(db)' /\ Queued(tx)'
    BY <1>2, <1>3, <2>1 DEF Queued
  <2>7. (\A i \in DOMAIN db.queue : Waits(db.queue[i]) /\ (writer = Worker \/ i = cur \/ AtRest(db.queue[i])))'
    BY <1>2, <2>5
  <2>8. (\A i \in DOMAIN tx.queue : Waits(tx.queue[i]) /\ (i = cur \/ AtRest(tx.queue[i])))'
    BY <1>2, <1>3, <2>5 DEF Waits, AtRest
  <2>9. (pc[Worker] = "record" /\ Carried.about \in Keys \ cause => answer[Worker] = "ok")'
    BY <1>4, <1>6, <1>8, <1>13
  <2> QED
    BY <1>5, <2>3, <2>4, <2>6, <2>7, <2>8, <2>9 DEF KeyInv
<1>15. RunInv'
  <2>1. copies'[Summary] = copies[Summary]
    BY <1>1, <1>7, Disjoint
  <2>2. \A p \in Processes : pc'[p] \in {"summary", "note"} \/ pc[p] \in {"summary", "note"} =>
          pc'[p] = pc[p] /\ hand'[p] = hand[p] /\ answer'[p] = answer[p]
    BY <1>2, <1>5, <1>8
  <2> QED
    BY <1>2, <1>13, <2>1, <2>2, RunSame DEF NotifyInv, SummarySent
<1>16. WordInv'
  <2> SUFFICES ASSUME NEW c \in Conditions, c \notin blurred
               PROVE  /\ Agrees(db, c)' /\ Agrees(tx, c)'
                      /\ answer'[Worker] = "ok" /\ r.about = c => word'[c] = r.says
    BY <1>2, <1>6 DEF WordInv
  <2>1. Agrees(db, c)
    BY DEF NotifyInv, WordInv
  <2>2. r.about = c => cur \in UnderWay(db, c)
    BY <1>3 DEF UnderWay, Kept, Unsettled
  <2>3. UnderWay(db, c) = {} => word'[c] = Stated(db.states[c])
    BY <1>9, <2>1, <2>2 DEF Agrees
  <2>4. Agrees(db, c)'
    BY <1>2, <2>1, <2>3 DEF Agrees, UnderWay
  <2>5. Agrees(tx, c)'
    BY <1>2, <1>3, <2>1, <2>3 DEF Agrees, UnderWay
  <2> QED
    BY <1>4, <1>8, <1>9, <2>4, <2>5
<1> QED
  BY <1>10, <1>11, <1>12, <1>14, <1>15, <1>16 DEF NotifyInv

LEMMA RecordStep == ASSUME NotifyInv, Record PROVE NotifyInv'
<1> DEFINE r == db.queue[cur]
           s == IF answer[Worker] = "ok" THEN "sent" ELSE Final(r.attempts)
           gone == IF s = "failed" THEN {r.about} \cap Conditions ELSE {}
           w == [r EXCEPT !.status = s]
           t == [db EXCEPT !.queue = [@ EXCEPT ![cur] = w]]
<1>1. /\ pc[Worker] = "record" /\ writer = NoOne /\ db' = db /\ tx' = t /\ writer' = Worker
      /\ blurred' = blurred \cup gone /\ cur' = 0 /\ answer' = [answer EXCEPT ![Worker] = "none"]
      /\ Goto(Worker, "next")
      /\ UNCHANGED <<due, hand, word, copies, cause, log, truth, chan, place, skipped>>
  BY DEF Record, Write, World
<1>2. /\ db \in TablesType /\ cur \in DOMAIN db.queue /\ r.status = "processing" /\ tx = db /\ r \in Row
      /\ DOMAIN db.queue \subseteq Nat \ {0}
      /\ \A i \in DOMAIN db.queue : i # cur => Waits(db.queue[i]) /\ AtRest(db.queue[i])
      /\ Summary \notin cause =>
           (\A p \in Processes : pc[p] # "note") /\ (copies[Summary] > 0 => SummarySent(db))
  BY <1>1, IdleFacts, QueueFacts DEF NotifyInv, NotifyTypes, HoldInv, Travelling
<1>3. s \in {"sent", "failed", "pending"} /\ (answer[Worker] = "ok" => s = "sent") /\ (s = "sent" => answer[Worker] = "ok")
  BY DEF Final
<1>4. blurred \subseteq blurred' /\ (s = "failed" /\ r.about \in Conditions => r.about \in blurred')
  BY <1>1
<1> HIDE DEF s
<1>5. w \in Row /\ w.about = r.about /\ w.says = r.says /\ w.status = s
  BY <1>2, <1>3 DEF Row
<1> HIDE DEF w, gone
<1>6. t = [db EXCEPT !.queue = [@ EXCEPT ![cur] = w]]
  BY DEF t
<1> HIDE DEF t
<1>7. /\ t \in TablesType /\ SameBut(db, t) /\ DOMAIN t.queue = DOMAIN db.queue /\ t.queue[cur] = w
      /\ \A j \in DOMAIN db.queue : j # cur => t.queue[j] = db.queue[j]
  BY <1>2, <1>5, <1>6, RowChanged
<1>8. /\ pc' \in [Processes -> {"idle", "next", "send", "record", "summary", "note"}]
      /\ pc'[Worker] = "next" /\ \A q \in Processes : q # Worker => pc'[q] = pc[q]
  BY <1>1, GotoFacts, ProcessFacts DEF NotifyInv, NotifyTypes
<1>9. NotifyTypes'
  BY <1>1, <1>7, <1>8, ProcessFacts DEF NotifyInv, NotifyTypes, SameBut
<1>10. HoldInv'
  <2>1. due \subseteq DOMAIN t.queue /\ \A j \in due : t.queue[j].status = "pending"
    BY <1>2, <1>7 DEF NotifyInv, HoldInv
  <2> QED
    BY <1>1, <1>8, <2>1, ProcessFacts DEF NotifyInv, HoldInv, Travelling
<1>11. SeenInv'
  BY <1>1, <1>7 DEF NotifyInv, SeenInv, Passed, SameBut
<1>12. KeyInv'
  <2>1. Queued(db) /\ \A i \in DOMAIN db.queue : Waits(db.queue[i])
    BY DEF NotifyInv, KeyInv
  <2>2. Carried = r /\ (r.about \in Keys \ cause => s = "sent")
    BY <1>1, <1>3 DEF NotifyInv, KeyInv, Carried
  <2>3. \A j \in DOMAIN db.queue : t.queue[j].about = db.queue[j].about
    BY <1>5, <1>7
  <2>4. Queued(t)
    BY <1>7, <2>1, <2>3 DEF Queued, SameBut
  <2>5. Queued(db)' /\ Queued(tx)'
    BY <1>1, <2>1, <2>4 DEF Queued
  <2>6. (\A k \in Keys : copies[k] > 0 => k \in db.seen)' /\ (\A k \in Keys \ cause : copies[k] <= 1)'
    BY <1>1 DEF NotifyInv, KeyInv
  <2>7. Waits(w) /\ AtRest(w)
    BY <1>3, <1>5, <2>2 DEF Waits, AtRest
  <2>8. \A j \in DOMAIN t.queue : Waits(t.queue[j]) /\ AtRest(t.queue[j])
    BY <1>2, <1>7, <2>7
  <2>9. (\A i \in DOMAIN db.queue : Waits(db.queue[i]) /\ (writer = Worker \/ i = cur \/ AtRest(db.queue[i])))'
    BY <1>1, <2>1 DEF Waits
  <2>10. (\A i \in DOMAIN tx.queue : Waits(tx.queue[i]) /\ (i = cur \/ AtRest(tx.queue[i])))'
    BY <1>1, <2>8 DEF Waits, AtRest
  <2> QED
    BY <1>8, <2>5, <2>6, <2>9, <2>10 DEF KeyInv
<1>13. RunInv'
  <2>1. \A p \in Processes : writer' = p => pc'[p] = "next"
    BY <1>1, <1>8
  <2>2. Summary \notin cause => \A p \in Processes : pc'[p] # "note"
    BY <1>2, <1>8
  <2>3. Summary \notin cause => copies[Summary] <= 1
    BY DEF NotifyInv, RunInv
  <2>4. Summary \notin cause /\ copies[Summary] > 0 => SummarySent(db) /\ SummarySent(t)
    BY <1>2, <1>7 DEF SummarySent, SameBut
  <2> QED
    BY <1>1, <2>1, <2>2, <2>3, <2>4 DEF RunInv, SummarySent
<1>14. WordInv'
  <2> SUFFICES ASSUME NEW c \in Conditions, c \notin blurred' PROVE Agrees(db, c)' /\ Agrees(tx, c)'
    BY <1>8 DEF WordInv
  <2>1. /\ Agrees(db, c) /\ (answer[Worker] = "ok" /\ r.about = c => word[c] = r.says)
    BY <1>1, <1>4 DEF NotifyInv, WordInv, Carried
  <2>2. Agrees(t, c)
    <3>1. CASE r.about = c /\ s = "sent"
      <4>1. cur \in UnderWay(db, c)
        BY <1>2, <3>1 DEF UnderWay, Kept, Unsettled
      <4>2. UnderWay(t, c) = {}
        <5> SUFFICES ASSUME NEW j \in UnderWay(t, c) PROVE FALSE
          OBVIOUS
        <5>1. j \in DOMAIN db.queue /\ j # cur
          BY <1>5, <1>7, <3>1 DEF UnderWay, Kept, Unsettled
        <5>2. j \in UnderWay(db, c)
          BY <1>7, <5>1 DEF UnderWay, Kept
        <5> QED
          BY <2>1, <4>1, <5>1, <5>2 DEF Agrees
      <4>3. word[c] = Stated(db.states[c])
        BY <1>3, <2>1, <3>1, <4>1 DEF Agrees
      <4> QED
        BY <1>7, <4>2, <4>3 DEF Agrees, SameBut
    <3>2. CASE r.about # c \/ s = "pending"
      <4>1. UnderWay(t, c) = UnderWay(db, c)
        BY <1>2, <1>5, <1>7, <3>2 DEF UnderWay, Kept, Unsettled
      <4>2. \A j \in UnderWay(db, c) : t.queue[j].says = db.queue[j].says
        BY <1>5, <1>7 DEF UnderWay, Kept
      <4> QED
        BY <1>7, <2>1, <4>1, <4>2 DEF Agrees, SameBut
    <3> QED
      BY <1>3, <1>4, <3>1, <3>2
  <2> QED
    BY <1>1, <2>1, <2>2 DEF Agrees
<1> QED
  BY <1>9, <1>10, <1>11, <1>12, <1>13, <1>14 DEF NotifyInv

-----------------------------------------------------------------------------
(* Notifications: the summaries                                            *)

LEMMA TakeSummaryStep == ASSUME NotifyInv, TakeSummary PROVE NotifyInv'
<1>1. /\ pc[Worker] = "next" /\ due = {} /\ writer = Worker /\ Goto(Worker, "summary")
      /\ hand' = [hand EXCEPT ![Worker] =
           IF chan # "disabled" /\ tx.summary.status \in {"queued", "retry_wait"} /\ tx.summary.ripe
           THEN tx.summary.attempts + 1 ELSE 0]
      /\ UNCHANGED <<db, tx, writer, due, cur, answer, word, copies, cause, blurred, log, truth, chan, place, skipped>>
  BY DEF TakeSummary, TakeRun, NoWrite, World, History
<1>2. /\ pc' \in [Processes -> {"idle", "next", "send", "record", "summary", "note"}]
      /\ pc'[Worker] = "summary" /\ \A q \in Processes : q # Worker => pc'[q] = pc[q]
  BY <1>1, GotoFacts, ProcessFacts DEF NotifyInv, NotifyTypes
<1>3. /\ hand' \in [Processes -> Nat] /\ (hand'[Worker] > 0 => ~SummarySent(tx))
      /\ \A q \in Processes : q # Worker => hand'[q] = hand[q]
  <2>1. tx.summary.attempts + 1 \in Nat /\ hand \in [Processes -> Nat] /\ Worker \in Processes
    BY ProcessFacts DEF NotifyInv, NotifyTypes, TablesType, Run
  <2> QED
    BY <1>1, <2>1 DEF SummarySent
<1>4. SameQueues /\ SameCarried
  BY <1>1, <1>2 DEF SameQueues, SameCarried, Travelling
<1>5. NotifyTypes'
  BY <1>1, <1>2, <1>3 DEF NotifyInv, NotifyTypes
<1>6. HoldInv'
  BY <1>1, <1>2, ProcessFacts DEF NotifyInv, HoldInv, Travelling
<1>7. SeenInv' /\ KeyInv' /\ WordInv'
  BY <1>1, <1>4, SeenSame, KeySame, WordSame DEF NotifyInv
<1>8. RunInv'
  <2>1. Summary \notin cause =>
          /\ copies[Summary] <= 1 /\ \A p \in Processes : pc'[p] # "note"
          /\ copies[Summary] > 0 => SummarySent(db) /\ SummarySent(tx)
    BY <1>1, <1>2 DEF NotifyInv, RunInv
  <2> QED
    BY <1>1, <1>3, <2>1 DEF RunInv, SummarySent
<1> QED
  BY <1>5, <1>6, <1>7, <1>8 DEF NotifyInv

\* The command has read the run in the committed tables, or in those it has just written.
LEMMA RunTaken ==
  ASSUME NotifyInv, StartCli
  PROVE  \E t \in TablesType :
           /\ TakeRun(Cli, t) /\ db' = db /\ UNCHANGED <<due, cur, answer, word, copies, cause, blurred>>
           /\ UNCHANGED <<log, truth, chan, place, skipped>> /\ pc[Cli] = "idle"
           /\ \/ writer = NoOne /\ writer' = Cli /\ tx' = t /\ tx = db
                 /\ t.queue = tx.queue /\ t.states = tx.states /\ t.cursor = tx.cursor /\ t.seen = tx.seen
                 /\ (SummarySent(tx) => SummarySent(t))
              \/ writer' = writer /\ tx' = tx
<1>1. db \in TablesType /\ pc[Cli] = "idle"
  BY DEF NotifyInv, NotifyTypes, StartCli
<1>2. /\ UNCHANGED <<due, cur, answer, word, copies, cause, blurred>>
      /\ UNCHANGED <<log, truth, chan, place, skipped>>
  BY DEF StartCli, World, History
<1>3. CASE writer = NoOne /\ Write(Cli, WithRun(db)) /\ TakeRun(Cli, WithRun(db))
  <2>1. tx = db
    BY <1>3 DEF NotifyInv, HoldInv
  <2>2. /\ WithRun(db) \in TablesType /\ WithRun(db).cursor = db.cursor /\ WithRun(db).seen = db.seen
        /\ WithRun(db).queue = db.queue /\ WithRun(db).states = db.states
        /\ db.summary.status = "sent" => WithRun(db).summary.status = "sent"
    BY <1>1, WithRunFacts
  <2> QED
    BY <1>1, <1>2, <1>3, <2>1, <2>2 DEF Write, SummarySent
<1>4. CASE NoWrite /\ TakeRun(Cli, db)
  BY <1>1, <1>2, <1>4 DEF NoWrite
<1> QED
  BY <1>3, <1>4 DEF StartCli

LEMMA StartCliStep == ASSUME NotifyInv, StartCli PROVE NotifyInv'
<1>1. PICK t \in TablesType :
        /\ TakeRun(Cli, t) /\ db' = db /\ UNCHANGED <<due, cur, answer, word, copies, cause, blurred>>
        /\ UNCHANGED <<log, truth, chan, place, skipped>> /\ pc[Cli] = "idle"
        /\ \/ writer = NoOne /\ writer' = Cli /\ tx' = t /\ tx = db
              /\ t.queue = tx.queue /\ t.states = tx.states /\ t.cursor = tx.cursor /\ t.seen = tx.seen
              /\ (SummarySent(tx) => SummarySent(t))
           \/ writer' = writer /\ tx' = tx
  BY RunTaken
<1>2. /\ pc' \in [Processes -> {"idle", "next", "send", "record", "summary", "note"}]
      /\ pc'[Cli] = "summary" /\ \A q \in Processes : q # Cli => pc'[q] = pc[q]
  BY <1>1, GotoFacts, ProcessFacts DEF NotifyInv, NotifyTypes, TakeRun
<1>3. /\ hand' \in [Processes -> Nat] /\ (hand'[Cli] > 0 => ~SummarySent(t))
      /\ \A q \in Processes : q # Cli => hand'[q] = hand[q]
  <2>1. t.summary.attempts + 1 \in Nat /\ hand \in [Processes -> Nat] /\ Cli \in Processes
    BY ProcessFacts DEF NotifyInv, NotifyTypes, TablesType, Run
  <2> QED
    BY <1>1, <2>1 DEF SummarySent, TakeRun
<1>4. SameQueues /\ SameCarried /\ tx'.cursor = tx.cursor /\ tx' \in TablesType /\ writer # Cli
  BY <1>1, <1>2, ProcessFacts DEF NotifyInv, NotifyTypes, HoldInv, SameQueues, SameCarried, Travelling
<1>5. NotifyTypes'
  BY <1>1, <1>2, <1>3, <1>4, ProcessFacts DEF NotifyInv, NotifyTypes
<1>6. HoldInv'
  BY <1>1, <1>2, <1>4, ProcessFacts DEF NotifyInv, HoldInv, Travelling, SameQueues
<1>7. SeenInv' /\ KeyInv' /\ WordInv'
  BY <1>1, <1>4, SeenSame, KeySame, WordSame, ProcessFacts DEF NotifyInv
<1>8. RunInv'
  <2>1. CASE writer = NoOne /\ writer' = Cli /\ tx' = t /\ tx = db /\ (SummarySent(tx) => SummarySent(t))
    <3>1. Summary \notin cause =>
            (\A p \in Processes : pc'[p] # "note") /\ copies[Summary] <= 1
              /\ (copies[Summary] > 0 => SummarySent(db) /\ SummarySent(t))
      BY <1>2, <2>1, IdleFacts DEF NotifyInv, RunInv
    <3>2. (\A p \in Processes : writer = p /\ pc[p] = "summary" /\ hand[p] > 0 => ~SummarySent(tx))'
      BY <1>3, <2>1 DEF SummarySent
    <3> QED
      BY <1>1, <2>1, <3>1, <3>2 DEF RunInv, SummarySent
  <2>2. CASE writer' = writer /\ tx' = tx
    <3>1. \A p \in Processes : writer = p => pc'[p] = pc[p] /\ hand'[p] = hand[p]
      BY <1>2, <1>3, <1>4
    <3>2. (\A p \in Processes : writer = p /\ pc[p] = "summary" /\ hand[p] > 0 => ~SummarySent(tx))'
      BY <2>2, <3>1 DEF NotifyInv, RunInv, SummarySent
    <3>3. \A p \in Processes : pc'[p] = "note" => pc[p] = "note"
      BY <1>2
    <3>4. Summary \notin cause =>
            /\ copies[Summary] <= 1
            /\ \A p \in Processes : pc[p] = "note" => writer = p /\ answer[p] = "ok"
            /\ copies[Summary] > 0 =>
                 \/ SummarySent(db) /\ SummarySent(tx)
                 \/ \E p \in Processes : writer = p /\ (pc'[p] = "note" \/ (pc'[p] = "summary" /\ SummarySent(tx)))
      BY <3>1 DEF NotifyInv, RunInv
    <3> QED
      BY <1>1, <2>2, <3>2, <3>3, <3>4 DEF RunInv, SummarySent
  <2> QED
    BY <1>1, <2>1, <2>2
<1> QED
  BY <1>5, <1>6, <1>7, <1>8 DEF NotifyInv

LEMMA SendSummaryStep == ASSUME NotifyInv, NEW p \in Processes, SendSummary(p) PROVE NotifyInv'
<1>1. PICK d \in Deliveries :
        /\ answer' = [answer EXCEPT ![p] = d.said]
        /\ copies' = IF d.arrives THEN [copies EXCEPT ![Summary] = Capped(@)] ELSE copies
        /\ cause' = IF d.said = "error" \/ writer # p THEN cause \cup {Summary} ELSE cause
  BY DEF SendSummary
<1>2. /\ pc[p] = "summary" /\ hand[p] > 0 /\ Goto(p, "note")
      /\ UNCHANGED <<db, tx, writer, due, cur, hand, word, blurred, log, truth, chan, place, skipped>>
  BY DEF SendSummary, NoWrite, World
<1>3. d.said \in {"ok", "error"}
  BY DEF Deliveries
<1>4. /\ pc' \in [Processes -> {"idle", "next", "send", "record", "summary", "note"}]
      /\ pc'[p] = "note" /\ \A q \in Processes : q # p => pc'[q] = pc[q]
  BY <1>2, GotoFacts DEF NotifyInv, NotifyTypes
<1>5. /\ answer' \in [Processes -> {"none", "ok", "error"}] /\ answer'[p] = d.said
      /\ \A q \in Processes : q # p => answer'[q] = answer[q]
  BY <1>1, <1>3 DEF NotifyInv, NotifyTypes
<1>6. /\ copies' \in [Keys \cup {Summary} -> Nat] /\ \A k \in Keys : copies'[k] = copies[k]
      /\ copies[Summary] = 0 => copies'[Summary] <= 1
  <2>1. copies \in [Keys \cup {Summary} -> Nat] /\ \A n \in Nat : Capped(n) \in Nat /\ Capped(0) = 1
    BY DEF NotifyInv, NotifyTypes, Capped
  <2> QED
    BY <1>1, <2>1, Disjoint
<1>7. \A k \in Keys : k \in cause' <=> k \in cause
  BY <1>1, Disjoint
<1>8. SameQueues /\ SameCarried
  BY <1>2, <1>4, <1>5, ProcessFacts DEF SameQueues, SameCarried, Travelling
<1>9. NotifyTypes'
  BY <1>2, <1>4, <1>5, <1>6 DEF NotifyInv, NotifyTypes
<1>10. HoldInv'
  BY <1>2, <1>4, ProcessFacts DEF NotifyInv, HoldInv, Travelling
<1>11. SeenInv' /\ KeyInv' /\ WordInv'
  BY <1>2, <1>6, <1>7, <1>8, SeenSame, KeySame, WordSame DEF NotifyInv
<1>12. RunInv'
  <2>1. (\A q \in Processes : writer = q /\ pc[q] = "summary" /\ hand[q] > 0 => ~SummarySent(tx))'
    BY <1>2, <1>4 DEF NotifyInv, RunInv, SummarySent
  <2> SUFFICES ASSUME Summary \notin cause'
               PROVE  /\ copies'[Summary] <= 1
                      /\ \A q \in Processes : pc'[q] = "note" => writer = q /\ answer'[q] = "ok"
                      /\ \E q \in Processes : writer = q /\ pc'[q] = "note"
    BY <1>2, <2>1 DEF RunInv
  <2>2. Summary \notin cause /\ d.said = "ok" /\ writer = p
    BY <1>1, <1>3
  <2>3. ~SummarySent(tx)
    BY <1>2, <2>2 DEF NotifyInv, RunInv
  <2>4. ~(copies[Summary] > 0)
    BY <1>2, <2>2, <2>3 DEF NotifyInv, RunInv
  <2>5. copies[Summary] = 0
    BY <2>4 DEF NotifyInv, NotifyTypes
  <2>6. \A q \in Processes : q # p => pc[q] # "note"
    BY <2>2 DEF NotifyInv, RunInv
  <2> QED
    BY <1>4, <1>5, <1>6, <2>2, <2>5, <2>6
<1> QED
  BY <1>9, <1>10, <1>11, <1>12 DEF NotifyInv

LEMMA NoteStep == ASSUME NotifyInv, NEW p \in Processes, Note(p) PROVE NotifyInv'
<1> DEFINE n == [status |-> SummaryStatus(p), attempts |-> hand[p], ripe |-> FALSE]
           t == [tx EXCEPT !.summary = n]
<1>1. /\ pc[p] = "note" /\ writer \in {p, NoOne} /\ Goto(p, "summary")
      /\ db' = db /\ writer' = p /\ hand' = [hand EXCEPT ![p] = 0] /\ answer' = [answer EXCEPT ![p] = "none"]
      /\ UNCHANGED <<due, cur, word, copies, cause, blurred, log, truth, chan, place, skipped>>
      /\ tx' = [IF writer = p THEN tx ELSE db EXCEPT !.summary = n]
  BY DEF Note, Write, World, History
<1>2. (IF writer = p THEN tx ELSE db) = tx
  BY <1>1 DEF NotifyInv, HoldInv
<1>3. tx' = t
  BY <1>1, <1>2
<1>4. n \in Run /\ (answer[p] = "ok" => n.status = "sent")
  <2>1. SummaryStatus(p) \in {"sent", "failed", "retry_wait"} /\ (answer[p] = "ok" => SummaryStatus(p) = "sent")
    BY DEF SummaryStatus
  <2>2. hand[p] \in Nat
    BY DEF NotifyInv, NotifyTypes
  <2> QED
    BY <2>1, <2>2 DEF Run
<1> HIDE DEF n
<1>5. /\ t \in TablesType /\ t.queue = tx.queue /\ t.states = tx.states /\ t.cursor = tx.cursor
      /\ t.seen = tx.seen /\ t.summary = n
  BY <1>4 DEF NotifyInv, NotifyTypes, TablesType
<1> HIDE DEF t
<1>6. /\ pc' \in [Processes -> {"idle", "next", "send", "record", "summary", "note"}]
      /\ pc'[p] = "summary" /\ \A q \in Processes : q # p => pc'[q] = pc[q]
  BY <1>1, GotoFacts DEF NotifyInv, NotifyTypes
<1>7. /\ hand' \in [Processes -> Nat] /\ hand'[p] = 0
      /\ answer' \in [Processes -> {"none", "ok", "error"}]
      /\ \A q \in Processes : q # p => answer'[q] = answer[q]
  BY <1>1 DEF NotifyInv, NotifyTypes
<1>8. writer = Worker => p = Worker
  BY <1>1, ProcessFacts
<1>9. SameQueues /\ SameCarried
  BY <1>1, <1>3, <1>5, <1>6, <1>7, ProcessFacts DEF SameQueues, SameCarried, Travelling
<1>10. NotifyTypes'
  BY <1>1, <1>3, <1>5, <1>6, <1>7 DEF NotifyInv, NotifyTypes
<1>11. HoldInv'
  <2>1. writer' = Worker <=> pc'[Worker] \in {"next", "summary", "note"}
    BY <1>1, <1>6, ProcessFacts DEF NotifyInv, HoldInv
  <2>2. (pc'[Worker] \in Travelling <=> pc[Worker] \in Travelling)
        /\ (pc'[Worker] \in {"idle", "summary", "note"} <=> pc[Worker] \in {"idle", "summary", "note"})
    BY <1>1, <1>6, ProcessFacts DEF Travelling
  <2>3. writer' = Cli => pc'[Cli] # "idle"
    BY <1>1, <1>6
  <2>4. pc'[Cli] \in {"idle", "summary", "note"}
    BY <1>6, ProcessFacts DEF NotifyInv, HoldInv
  <2>5. writer' # Worker =>
          tx'.queue = db'.queue /\ tx'.states = db'.states /\ tx'.cursor = db'.cursor /\ tx'.seen = db'.seen
    BY <1>1, <1>3, <1>5, <1>8 DEF NotifyInv, HoldInv
  <2> QED
    BY <1>1, <1>3, <1>5, <2>1, <2>2, <2>3, <2>4, <2>5, ProcessFacts DEF NotifyInv, HoldInv
<1>12. SeenInv' /\ KeyInv' /\ WordInv'
  BY <1>1, <1>3, <1>5, <1>8, <1>9, SeenSame, KeySame, WordSame DEF NotifyInv
<1>13. RunInv'
  <2>1. (\A q \in Processes : writer = q /\ pc[q] = "summary" /\ hand[q] > 0 => ~SummarySent(tx))'
    BY <1>1, <1>7
  <2> SUFFICES ASSUME Summary \notin cause
               PROVE  /\ copies[Summary] <= 1
                      /\ \A q \in Processes : pc'[q] # "note"
                      /\ pc'[p] = "summary" /\ SummarySent(t)
    BY <1>1, <1>3, <2>1 DEF RunInv, SummarySent
  <2>2. copies[Summary] <= 1 /\ answer[p] = "ok" /\ \A q \in Processes : q # p => pc[q] # "note"
    BY <1>1, ProcessFacts DEF NotifyInv, RunInv
  <2> QED
    BY <1>4, <1>5, <1>6, <2>2 DEF SummarySent
<1> QED
  BY <1>10, <1>11, <1>12, <1>13 DEF NotifyInv

LEMMA FinishStep == ASSUME NotifyInv, NEW p \in Processes, Finish(p) PROVE NotifyInv'
<1>1. /\ pc[p] = "summary" /\ Goto(p, "idle")
      /\ UNCHANGED <<due, cur, hand, answer, word, copies, cause, blurred, log, truth, chan, place, skipped>>
      /\ IF writer = p THEN db' = tx /\ tx' = tx /\ writer' = NoOne ELSE UNCHANGED <<db, tx, writer>>
  BY DEF Finish, Commit, NoWrite, World, History
<1>2. /\ pc' \in [Processes -> {"idle", "next", "send", "record", "summary", "note"}]
      /\ pc'[p] = "idle" /\ \A q \in Processes : q # p => pc'[q] = pc[q]
  BY <1>1, GotoFacts DEF NotifyInv, NotifyTypes
<1>3. p # Worker => pc'[Worker] = pc[Worker]
  BY <1>2, ProcessFacts
<1>4. p = Worker => writer = Worker /\ due = {} /\ cur = 0
  BY <1>1 DEF NotifyInv, HoldInv, Travelling
<1>5. NotifyTypes'
  BY <1>1, <1>2, ProcessFacts DEF NotifyInv, NotifyTypes
<1>6. CASE writer = p
  <2>1. db' = tx /\ tx' = tx /\ writer' = NoOne
    BY <1>1, <1>6
  <2>2. HoldInv'
    <3>1. pc'[Worker] \notin {"next", "summary", "note"}
      BY <1>2, <1>3, <1>6, ProcessFacts DEF NotifyInv, HoldInv
    <3>2. pc'[Worker] \in Travelling => pc[Worker] = pc'[Worker] /\ tx.queue = db.queue
      BY <1>2, <1>3, <1>6, ProcessFacts DEF NotifyInv, HoldInv, Travelling
    <3>3. due \subseteq DOMAIN tx.queue /\ (\A i \in due : tx.queue[i].status = "pending")
          /\ (pc'[Worker] \in {"idle", "summary", "note"} => due = {})
      BY <1>3, <1>4, <1>6 DEF NotifyInv, HoldInv
    <3>4. IF pc'[Worker] \in Travelling THEN cur \in DOMAIN tx.queue /\ tx.queue[cur].status = "processing"
          ELSE cur = 0
      BY <1>3, <1>4, <3>2 DEF NotifyInv, HoldInv, Travelling
    <3>5. pc'[Cli] \in {"idle", "summary", "note"}
      BY <1>2, ProcessFacts DEF NotifyInv, HoldInv
    <3> QED
      BY <1>1, <2>1, <3>1, <3>3, <3>4, <3>5, ProcessFacts DEF HoldInv
  <2>3. SeenInv'
    BY <1>1, <2>1 DEF NotifyInv, SeenInv, Passed
  <2>4. pc'[Worker] \in Travelling => pc[Worker] = pc'[Worker] /\ Carried' = Carried
    BY <1>1, <1>2, <1>3, <1>6, <2>1, ProcessFacts DEF NotifyInv, HoldInv, Travelling, Carried
  <2>5. KeyInv'
    <3>1. Queued(db)' /\ Queued(tx)'
      BY <2>1 DEF NotifyInv, KeyInv, Queued
    <3>2. (\A k \in Keys : copies[k] > 0 => k \in db.seen)' /\ (\A k \in Keys \ cause : copies[k] <= 1)'
      BY <1>1, <2>1 DEF NotifyInv, KeyInv, SeenInv
    <3>3. \A i \in DOMAIN tx.queue : Waits(tx.queue[i]) /\ (i = cur \/ AtRest(tx.queue[i]))
      BY DEF NotifyInv, KeyInv
    <3>4. (\A i \in DOMAIN db.queue : Waits(db.queue[i]) /\ (writer = Worker \/ i = cur \/ AtRest(db.queue[i])))'
      BY <1>1, <2>1, <3>3 DEF Waits, AtRest
    <3>5. (\A i \in DOMAIN tx.queue : Waits(tx.queue[i]) /\ (i = cur \/ AtRest(tx.queue[i])))'
      BY <1>1, <2>1, <3>3 DEF Waits, AtRest
    <3>6. (pc[Worker] = "send" /\ Carried.about \in Keys \ cause => copies[Carried.about] = 0)'
      BY <1>1, <2>4 DEF NotifyInv, KeyInv, Travelling
    <3>7. (pc[Worker] = "record" /\ Carried.about \in Keys \ cause => answer[Worker] = "ok")'
      BY <1>1, <2>4 DEF NotifyInv, KeyInv, Travelling
    <3> QED
      BY <3>1, <3>2, <3>4, <3>5, <3>6, <3>7 DEF KeyInv
  <2>6. RunInv'
    <3>1. Summary \notin cause =>
            /\ copies[Summary] <= 1
            /\ \A q \in Processes : pc'[q] # "note"
            /\ copies[Summary] > 0 => SummarySent(tx)
      <4> SUFFICES ASSUME Summary \notin cause
                   PROVE  /\ copies[Summary] <= 1
                          /\ \A q \in Processes : pc'[q] # "note"
                          /\ copies[Summary] > 0 => SummarySent(tx)
        OBVIOUS
      <4>1. \A q \in Processes : pc'[q] # "note"
        BY <1>2, <1>6 DEF NotifyInv, RunInv
      <4> QED
        BY <1>1, <1>6, <4>1 DEF NotifyInv, RunInv
    <3> QED
      BY <1>1, <2>1, <3>1, ProcessFacts DEF RunInv, SummarySent
  <2>7. WordInv'
    <3> SUFFICES ASSUME NEW c \in Conditions, c \notin blurred
                 PROVE  /\ Agrees(db, c)' /\ Agrees(tx, c)'
                        /\ (pc[Worker] = "record" /\ answer[Worker] = "ok" /\ Carried.about = c =>
                              word[c] = Carried.says)'
      BY <1>1 DEF WordInv
    <3>1. Agrees(db, c)' /\ Agrees(tx, c)'
      BY <1>1, <2>1 DEF NotifyInv, WordInv, Agrees, UnderWay
    <3> QED
      BY <1>1, <2>4, <3>1 DEF NotifyInv, WordInv, Travelling
  <2> QED
    BY <1>5, <2>2, <2>3, <2>5, <2>6, <2>7 DEF NotifyInv
<1>7. CASE writer # p
  <2>1. UNCHANGED <<db, tx, writer>> /\ p = Cli /\ pc'[Worker] = pc[Worker]
    BY <1>1, <1>3, <1>4, <1>7, ProcessFacts
  <2>2. SameQueues /\ SameCarried
    BY <1>1, <2>1 DEF SameQueues, SameCarried
  <2>3. HoldInv'
    BY <1>1, <1>2, <1>7, <2>1, ProcessFacts DEF NotifyInv, HoldInv
  <2>4. SeenInv' /\ KeyInv' /\ WordInv'
    BY <1>1, <2>1, <2>2, SeenSame, KeySame, WordSame DEF NotifyInv
  <2>5. RunInv'
    <3>1. \A q \in Processes : (pc'[q] = "note" => pc[q] = "note") /\ (pc'[q] = "summary" => pc[q] = "summary")
            /\ (writer = q => pc'[q] = pc[q])
      BY <1>2, <1>7
    <3>2. (\A q \in Processes : writer = q /\ pc[q] = "summary" /\ hand[q] > 0 => ~SummarySent(tx))'
      BY <1>1, <2>1, <3>1 DEF NotifyInv, RunInv, SummarySent
    <3> SUFFICES ASSUME Summary \notin cause
                 PROVE  /\ copies[Summary] <= 1
                        /\ \A q \in Processes : pc'[q] = "note" => writer = q /\ answer[q] = "ok"
                        /\ copies[Summary] > 0 =>
                             \/ SummarySent(db) /\ SummarySent(tx)
                             \/ \E q \in Processes : writer = q /\ (pc'[q] = "note" \/ (pc'[q] = "summary" /\ SummarySent(tx)))
      BY <1>1, <2>1, <3>2 DEF RunInv, SummarySent
    <3> QED
      BY <3>1 DEF NotifyInv, RunInv
  <2> QED
    BY <1>5, <2>3, <2>4, <2>5 DEF NotifyInv
<1> QED
  BY <1>6, <1>7

LEMMA AbortStep == ASSUME NotifyInv, NEW p \in Processes, Abort(p) PROVE NotifyInv'
<1>1. /\ pc[p] # "idle" /\ Goto(p, "idle")
      /\ IF writer = p THEN tx' = db /\ writer' = NoOne /\ db' = db ELSE UNCHANGED <<db, tx, writer>>
      /\ cause' = cause \cup
           (IF p = Worker THEN Keys \cap {db.queue[i].about : i \in Claimed} ELSE {})
             \cup (IF pc[p] \in {"summary", "note"} THEN {Summary} ELSE {})
      /\ due' = IF p = Worker THEN {} ELSE due
      /\ cur' = IF p = Worker THEN 0 ELSE cur
      /\ hand' = [hand EXCEPT ![p] = 0] /\ answer' = [answer EXCEPT ![p] = "none"]
      /\ UNCHANGED <<log, truth, chan, place, skipped, word, copies, blurred>>
  BY DEF Abort, NoWrite
<1>2. /\ pc' \in [Processes -> {"idle", "next", "send", "record", "summary", "note"}]
      /\ pc'[p] = "idle" /\ \A q \in Processes : q # p => pc'[q] = pc[q]
  BY <1>1, GotoFacts DEF NotifyInv, NotifyTypes
<1>3. /\ hand' \in [Processes -> Nat] /\ answer' \in [Processes -> {"none", "ok", "error"}]
      /\ \A q \in Processes : q # p => hand'[q] = hand[q] /\ answer'[q] = answer[q]
  BY <1>1 DEF NotifyInv, NotifyTypes
<1>4. p # Worker => /\ p = Cli /\ pc'[Worker] = pc[Worker] /\ answer'[Worker] = answer[Worker]
                    /\ due' = due /\ cur' = cur
  BY <1>1, <1>2, <1>3, ProcessFacts
<1>5. db' = db /\ tx' \in {db, tx} /\ writer' \in {writer, NoOne} /\ writer' # p
  BY <1>1, ProcessFacts
<1>6. writer' # Worker =>
        tx'.queue = db.queue /\ tx'.states = db.states /\ tx'.cursor = db.cursor /\ tx'.seen = db.seen
  BY <1>1, ProcessFacts DEF NotifyInv, HoldInv
<1>7. p # Worker => (writer' = Worker <=> writer = Worker) /\ tx'.queue = tx.queue
  BY <1>1, <1>4, ProcessFacts DEF NotifyInv, HoldInv
<1>8. NotifyTypes'
  BY <1>1, <1>2, <1>3, <1>5, ProcessFacts DEF NotifyInv, NotifyTypes
<1>9. HoldInv'
  <2>1. pc'[Cli] \in {"idle", "summary", "note"} /\ (writer' = Cli => pc'[Cli] # "idle")
    BY <1>1, <1>2, ProcessFacts DEF NotifyInv, HoldInv
  <2>2. writer' = NoOne => tx' = db
    BY <1>1 DEF NotifyInv, HoldInv
  <2>3. CASE p = Worker
    BY <1>1, <1>2, <1>5, <1>6, <2>1, <2>2, <2>3 DEF HoldInv, Travelling
  <2>4. CASE p # Worker
    BY <1>4, <1>5, <1>6, <1>7, <2>1, <2>2, <2>4 DEF NotifyInv, HoldInv
  <2> QED
    BY <2>3, <2>4
<1>10. SeenInv'
  BY <1>1, <1>5 DEF NotifyInv, SeenInv, Passed
<1>11. cause \subseteq cause'
  BY <1>1
<1>12. KeyInv'
  <2>1. Queued(db)' /\ Queued(tx)'
    BY <1>5 DEF NotifyInv, KeyInv, Queued
  <2>2. (\A k \in Keys : copies[k] > 0 => k \in db.seen)' /\ (\A k \in Keys \ cause : copies[k] <= 1)'
    BY <1>1, <1>5, <1>11 DEF NotifyInv, KeyInv
  <2>3. \A i \in DOMAIN db.queue : Waits(db.queue[i])'
    BY <1>1, <1>5, <1>11 DEF NotifyInv, KeyInv, Waits
  <2>4. \A i \in DOMAIN tx'.queue : Waits(tx.queue[i])'
    <3>1. CASE tx' = db
      BY <1>1, <1>11, <3>1 DEF NotifyInv, KeyInv, Waits
    <3>2. CASE tx' = tx
      BY <1>1, <1>11, <3>2 DEF NotifyInv, KeyInv, Waits
    <3> QED
      BY <1>5, <3>1, <3>2
  <2>5. CASE p = Worker
    <3>1. \A i \in DOMAIN db.queue : AtRest(db.queue[i])'
      <4> SUFFICES ASSUME NEW i \in DOMAIN db.queue, db.queue[i].about \in Keys \ cause'
                   PROVE  db.queue[i].status # "processing"
        BY <1>5 DEF AtRest
      <4>1. i \notin Claimed
        BY <1>1, <2>5
      <4> QED
        BY <4>1 DEF Claimed
    <3>2. writer' # Worker /\ tx'.queue = db.queue
      BY <1>5, <1>6, <2>5
    <3>3. \A i \in DOMAIN tx'.queue : AtRest(tx.queue[i])'
      BY <1>5, <3>1, <3>2 DEF AtRest
    <3> QED
      BY <1>2, <1>5, <2>1, <2>2, <2>3, <2>4, <2>5, <3>1, <3>3 DEF KeyInv
  <2>6. CASE p # Worker
    <3>1. \A k \in Keys : k \in cause' <=> k \in cause
      BY <1>1, <2>6, Disjoint
    <3>2. \A i \in DOMAIN db.queue : writer' = Worker \/ i = cur' \/ AtRest(db.queue[i])'
      BY <1>4, <1>5, <1>7, <1>11, <2>6 DEF NotifyInv, KeyInv, AtRest
    <3>3. \A i \in DOMAIN tx'.queue : i = cur' \/ AtRest(tx.queue[i])'
      BY <1>4, <1>7, <1>11, <2>6 DEF NotifyInv, KeyInv, AtRest
    <3>4. Carried' = Carried
      BY <1>4, <1>5, <2>6 DEF Carried
    <3>5. (pc[Worker] = "send" /\ Carried.about \in Keys \ cause => copies[Carried.about] = 0)'
      BY <1>1, <1>4, <2>6, <3>1, <3>4 DEF NotifyInv, KeyInv
    <3>6. (pc[Worker] = "record" /\ Carried.about \in Keys \ cause => answer[Worker] = "ok")'
      BY <1>4, <2>6, <3>1, <3>4 DEF NotifyInv, KeyInv
    <3> QED
      BY <1>5, <2>1, <2>2, <2>3, <2>4, <3>2, <3>3, <3>5, <3>6 DEF KeyInv
  <2> QED
    BY <2>5, <2>6
<1>13. RunInv'
  <2>1. \A q \in Processes : writer' = q =>
          q # p /\ writer = q /\ tx' = tx /\ pc'[q] = pc[q] /\ hand'[q] = hand[q]
    BY <1>1, <1>2, <1>3, <1>5, ProcessFacts
  <2>2. (\A q \in Processes : writer = q /\ pc[q] = "summary" /\ hand[q] > 0 => ~SummarySent(tx))'
    BY <2>1 DEF NotifyInv, RunInv, SummarySent
  <2> SUFFICES ASSUME Summary \notin cause'
               PROVE  /\ copies[Summary] <= 1
                      /\ \A q \in Processes : pc'[q] = "note" => writer' = q /\ answer'[q] = "ok"
                      /\ copies[Summary] > 0 =>
                           \/ SummarySent(db) /\ SummarySent(tx')
                           \/ \E q \in Processes : writer' = q /\ (pc'[q] = "note" \/ (pc'[q] = "summary" /\ SummarySent(tx')))
    BY <1>1, <1>5, <2>2 DEF RunInv, SummarySent
  <2>3. Summary \notin cause /\ pc[p] \notin {"summary", "note"}
    BY <1>1
  <2>4. \A q \in Processes : pc'[q] = "note" => q # p /\ pc[q] = "note" /\ answer'[q] = answer[q]
    BY <1>2, <1>3
  <2>5. \A q \in Processes : writer = q /\ q # p => writer' = q /\ tx' = tx /\ pc'[q] = pc[q]
    BY <1>1, <1>2
  <2>6. SummarySent(db) /\ SummarySent(tx) => SummarySent(tx')
    BY <1>5 DEF SummarySent
  <2>7. copies[Summary] > 0 =>
           \/ SummarySent(db) /\ SummarySent(tx)
           \/ \E q \in Processes : q # p /\ writer = q /\ (pc[q] = "note" \/ (pc[q] = "summary" /\ SummarySent(tx)))
    BY <2>3 DEF NotifyInv, RunInv
  <2>8. copies[Summary] <= 1 /\ \A q \in Processes : pc[q] = "note" => writer = q /\ answer[q] = "ok"
    BY <2>3 DEF NotifyInv, RunInv
  <2> QED
    BY <2>4, <2>5, <2>6, <2>7, <2>8
<1>14. WordInv'
  <2> SUFFICES ASSUME NEW c \in Conditions, c \notin blurred
               PROVE  /\ Agrees(db, c)' /\ Agrees(tx, c)'
                      /\ (pc[Worker] = "record" /\ answer[Worker] = "ok" /\ Carried.about = c =>
                            word[c] = Carried.says)'
    BY <1>1 DEF WordInv
  <2>1. Agrees(db, c)' /\ Agrees(tx, c)'
    BY <1>1, <1>5 DEF NotifyInv, WordInv, Agrees, UnderWay
  <2>2. pc'[Worker] = "record" => p # Worker /\ Carried' = Carried
    BY <1>2, <1>4, <1>5 DEF Carried
  <2> QED
    BY <1>1, <1>4, <2>1, <2>2 DEF NotifyInv, WordInv
<1> QED
  BY <1>8, <1>9, <1>10, <1>12, <1>13, <1>14 DEF NotifyInv

LEMMA StutterStep == ASSUME NotifyInv, UNCHANGED notifyVars PROVE NotifyInv'
<1>1. log' \in 0..MaxEvents /\ log <= log' /\ truth' \subseteq Conditions /\ chan' \in Channels
      /\ place' \in Places
  BY NotificationsAssumption DEF NotifyInv, NotifyTypes, notifyVars
<1> QED
  BY <1>1, NothingRead DEF notifyVars

LEMMA NotifyStep == NotifyInv /\ [NotifyNext]_notifyVars => NotifyInv'
<1> SUFFICES ASSUME NotifyInv, [NotifyNext]_notifyVars PROVE NotifyInv'
  OBVIOUS
<1>1. CASE Dispatch
  BY <1>1, CycleStep, ClaimStep, SendStep, RecordStep, TakeSummaryStep DEF Dispatch
<1>2. CASE StartCli
  BY <1>2, StartCliStep
<1>3. CASE Serve
  BY <1>3, LogStep, ChangeStep, WindowStep, ConfigureStep, RedirectStep, AskTestStep DEF Serve
<1>4. CASE Tick
  BY <1>4, TickStep
<1>5. ASSUME NEW p \in Processes, Summarize(p) \/ Abort(p) PROVE NotifyInv'
  BY <1>5, SendSummaryStep, NoteStep, FinishStep, AbortStep DEF Summarize
<1>6. CASE UNCHANGED notifyVars
  BY <1>6, StutterStep
<1> QED
  BY <1>1, <1>2, <1>3, <1>4, <1>5, <1>6 DEF NotifyNext

\* What the tables, the queues and the messages on their way say of each other.
THEOREM NotifyInvariant == NotifySpec => []NotifyInv
  BY InitHolds, NotifyStep, PTL DEF NotifySpec

LEMMA TypesHold == ASSUME NotifyInv PROVE NotifyTypeOK
<1>1. /\ db \in TablesType /\ tx \in TablesType /\ log \in Nat
      /\ db.cursor <= log /\ writer \in Processes \cup {NoOne}
      /\ truth \subseteq Conditions /\ chan \in {"open", "maintenance", "disabled"} /\ place \in Places
  BY NotificationsAssumption DEF NotifyInv, NotifyTypes, Channels
<1>2. /\ db.queue \in Seq(Row) /\ tx.queue \in Seq(Row) /\ db.cursor \in Nat /\ db.seen \subseteq Keys
      /\ db.summary \in Run /\ db.states \in [Conditions -> ConditionState]
  BY <1>1, QueueFacts
<1>3. db.cursor \in 0..log
  BY <1>1, <1>2
<1>4. cur \in {0} \cup DOMAIN tx.queue /\ due \subseteq DOMAIN tx.queue
  BY DEF NotifyInv, HoldInv, Travelling
<1> QED
  BY <1>1, <1>2, <1>3, <1>4 DEF NotifyTypeOK

\* EventsToldOnce for every log, queue and limit: however the scans, the dispatches, the
\* command line and the deaths of either process interleave, an event the cursor passed
\* was queued or skipped by enabling the channel, and no key is told twice without cause.
THEOREM ToldOnce == NotifySpec => []EventsToldOnce
<1>1. NotifyInv => EventsToldOnce
  <2> SUFFICES ASSUME NotifyInv PROVE EventsToldOnce
    OBVIOUS
  <2>1. \A e \in 1..db.cursor : e \in skipped \/ \E pl \in Places : KeyOf[<<e, pl>>] \in db.seen
    BY DEF NotifyInv, SeenInv, Passed
  <2>2. \A k \in Keys \cup {Summary} : copies[k] > 1 => k \in cause
    <3> SUFFICES ASSUME NEW k \in Keys \cup {Summary}, k \notin cause PROVE ~(copies[k] > 1)
      OBVIOUS
    <3>1. copies[k] \in Nat /\ copies[k] <= 1
      BY DEF NotifyInv, NotifyTypes, KeyInv, RunInv
    <3> QED
      BY <3>1
  <2> QED
    BY <2>1, <2>2, TypesHold DEF EventsToldOnce
<1> QED
  BY <1>1, NotifyInvariant, PTL

\* LastWord for every set of conditions: once nothing about a condition is under way, the
\* last message that arrived about it is the one its row in the database stands for.
THEOREM LastWordStands == NotifySpec => []LastWord
<1>1. NotifyInv => LastWord
  <2> SUFFICES ASSUME NotifyInv, NEW c \in Conditions, c \notin blurred,
                      \A i \in DOMAIN db.queue : db.queue[i].about = c => ~Unsettled(db.queue[i])
               PROVE  word[c] = Stated(db.states[c])
    BY DEF LastWord, Stated
  <2>1. UnderWay(db, c) = {}
    BY DEF UnderWay, Kept
  <2> QED
    BY <2>1 DEF NotifyInv, WordInv, Agrees
<1> QED
  BY <1>1, NotifyInvariant, PTL

=============================================================================
