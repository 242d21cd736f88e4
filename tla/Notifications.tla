----------------------------- MODULE Notifications -----------------------------
(***************************************************************************)
(* Telegram messages about events and conditions                           *)
(* (backup_manager/notifications.py) and the daily summary                 *)
(* (telegram_summaries.py).  The worker runs a cycle every minute in the   *)
(* transaction of its jobs; `cli telegram-summary-run` sends summaries too; *)
(* the web application changes the channel and asks for a test.            *)
(*                                                                         *)
(* db is what is committed, tx the writer's copy.  A row that is settled is *)
(* not read again, except for its key, and leaves the model with the next  *)
(* cycle; a suppressed row is settled at once.                             *)
(***************************************************************************)
EXTENDS Naturals, Sequences, FiniteSets

CONSTANTS
  MaxEvents,     \* bound: rows of audit_log that are worth a message
  MaxPlaces,     \* bound: where alerts go, a destination and one of its topics, one
                 \* after the other
  Keys, KeyOf,   \* what the queue tells a message about each of them from others by:
                 \* the backup or event, and the place
  Watched,       \* what evaluate_conditions watches, in its order
  ScanLimit,     \* audit rows of one scan
  Limit,         \* queue rows of one dispatch
  MaxAttempts,
  MaxRows,       \* bound: rows that wait
  Scenes,        \* bound: which of events, conditions, tests and summaries occur together
  MaxLosses,     \* bound: processes that die, waits of 15 s for the write lock
  Test, Summary, \* what the other messages are about
  Worker, Cli, NoOne

Events == 1..MaxEvents
Places == 1..MaxPlaces
Conditions == {Watched[i] : i \in DOMAIN Watched}
Processes == {Worker, Cli}

ASSUME NotificationsAssumption ==
  /\ MaxEvents \in Nat /\ KeyOf \in [Events \X Places -> Keys] /\ MaxPlaces \in Nat \ {0}
  /\ Watched \in Seq(Conditions) /\ Conditions \cap Keys = {}
  /\ {Test, Summary} \cap (Keys \cup Conditions) = {} /\ Test # Summary
  /\ Scenes \subseteq SUBSET {"event", "condition", "test", "summary"}
  /\ {ScanLimit, Limit, MaxAttempts} \subseteq Nat \ {0}
  /\ MaxRows \in Nat /\ MaxLosses \in Nat
  /\ Worker # Cli /\ NoOne \notin Processes

VARIABLES
  db, tx, writer,  \* committed tables, the writer's copy, the writer
  pc,              \* where each process is
  due, cur,        \* the worker's list of queue rows, the one it sends
  hand,            \* per process: the attempt at the summary it will record, or none
  answer,          \* per process: what became of the message on its way
  log,             \* audit rows
  occur,           \* which of events, conditions, tests and summaries there are
  truth,           \* conditions that hold
  chan, place,     \* the channel: open, in its maintenance window, disabled; where
                   \* alerts go
  word, copies,    \* history: the last word about a condition, messages about a key
  cause, blurred,  \* history: keys with a reason to be repeated, conditions whose
                   \* messages piled up, were suppressed or given up
  skipped, dropped,  \* history: events an enabled channel began after, conditions
                     \* with a message that was given up
  losses           \* processes that died or waited too long

notifyVars ==
  <<db, tx, writer, pc, due, cur, hand, answer, log, occur, truth, chan, place, word,
    copies, cause, blurred, skipped, dropped, losses>>

Row == [about : Keys \cup Conditions \cup {Test}, says : {"event", "alert", "recovery"},
        status : {"pending", "processing", "sent", "failed"}, attempts : Nat, ripe : BOOLEAN]

\* sent: last_sent_at is missing, younger than the cooldown, or older.
ConditionState == [active : BOOLEAN, sent : {"never", "recent", "past"}]
Run == [status : {"absent", "queued", "retry_wait", "sent", "failed"}, attempts : Nat, ripe : BOOLEAN]

-----------------------------------------------------------------------------
(* What a cycle does before it sends                                       *)

Message(a, s) == [about |-> a, says |-> s, status |-> "pending", attempts |-> 0, ripe |-> TRUE]
Unsettled(r) == r.status \in {"pending", "processing"}

\* The numbers in S, from the least to the greatest.
Ascending(S) == [i \in 1..Cardinality(S) |-> CHOOSE n \in S : Cardinality({m \in S : m < n}) = i - 1]

Kept(q) == {i \in DOMAIN q : Unsettled(q[i])}

\* enqueue: a message is suppressed unless the channel is open.
Enqueue(t, ms) == IF chan = "open" THEN [t EXCEPT !.queue = @ \o ms] ELSE t

Scan(t) == {e \in Events : e > t.cursor /\ e <= log /\ e <= t.cursor + ScanLimit}

Key(e) == KeyOf[<<e, place>>]

\* idempotent: the first of each key the queue has never had; another destination
\* or topic makes another key.
Fresh(t, es) ==
  {e \in es : Key(e) \notin t.seen /\ ~ \E f \in es : f < e /\ Key(f) = Key(e)}

\* Mutant: the cursor goes to the end of the log.
CursorAtEnd(t) == log

CursorAfter(t) == IF Scan(t) = {} THEN t.cursor ELSE CHOOSE e \in Scan(t) : \A f \in Scan(t) : f <= e

\* scan_audit_events
Scanned(t) ==
  LET es == Ascending(Fresh(t, Scan(t))) IN
  [Enqueue(t, [i \in DOMAIN es |-> Message(Key(es[i]), "event")])
     EXCEPT !.cursor = CursorAfter(t), !.seen = @ \cup {Key(e) : e \in Scan(t)}]

\* Mutant: an alert is sent when the condition begins and never again.
AlertOnce(s, on) == s.active # on

\* record_condition: begun, ended, or going on for longer than the cooldown.
ShouldSend(s, on) == s.active # on \/ (on /\ s.sent # "recent")

\* Mutant: a recovery does not reset the state.
NotedKept(s, on) == s.active \/ on

Noted(s, on) == on

Told(t) == {i \in DOMAIN Watched : ShouldSend(t.states[Watched[i]], Watched[i] \in truth)}
About(c) == Message(c, IF c \in truth THEN "alert" ELSE "recovery")

Evaluated(t) ==
  LET told == Ascending(Told(t)) IN
  [Enqueue(t, [i \in DOMAIN told |-> About(Watched[told[i]])])
     EXCEPT !.states = [c \in Conditions |->
       [active |-> Noted(@[c], c \in truth),
        sent |-> IF chan = "open" /\ ShouldSend(@[c], c \in truth) THEN "recent" ELSE @[c].sent]]]

\* schedule_summary_runs: one run for the period and the destination.
WithRun(t) ==
  IF t.summary.status = "absent" THEN [t EXCEPT !.summary.status = "queued"] ELSE t

\* dispatch: an interrupted delivery is taken up after fifteen minutes.
Recovered(t) ==
  [t EXCEPT !.queue = [i \in DOMAIN @ |->
     IF @[i].status = "processing" /\ @[i].ripe THEN [@[i] EXCEPT !.status = "pending"] ELSE @[i]]]

Compacted(t) ==
  LET kept == Ascending(Kept(t.queue)) IN
  [t EXCEPT !.queue = [i \in DOMAIN kept |-> t.queue[kept[i]]]]

\* What a cycle makes of the tables before it sends; at a time of day also the summary.
Prepared(t, time) ==
  LET s == Evaluated(Scanned(Compacted(t))) IN Recovered(IF time THEN WithRun(s) ELSE s)

Due(q) == {i \in DOMAIN q : q[i].status = "pending" /\ q[i].ripe}

\* ORDER BY critical first, id
Before(q, i, j) ==
  \/ q[i].says = "alert" /\ q[j].says # "alert"
  \/ (q[i].says = "alert") = (q[j].says = "alert") /\ i < j

Batch(q) == {j \in Due(q) : Cardinality({i \in Due(q) : Before(q, i, j)}) < Limit}

-----------------------------------------------------------------------------
NotifyInit ==
  /\ db = [cursor |-> 0, seen |-> {}, queue |-> <<>>,
           states |-> [c \in Conditions |-> [active |-> FALSE, sent |-> "never"]],
           summary |-> [status |-> "absent", attempts |-> 0, ripe |-> TRUE]]
  /\ tx = db /\ writer = NoOne
  /\ pc = [p \in Processes |-> "idle"]
  /\ due = {} /\ cur = 0
  /\ hand = [p \in Processes |-> 0]
  /\ answer = [p \in Processes |-> "none"]
  /\ occur \in Scenes
  /\ log = 0 /\ truth = {} /\ chan = "open" /\ place = 1
  /\ word = [c \in Conditions |-> "none"]
  /\ copies = [k \in Keys \cup {Summary} |-> 0]
  /\ cause = {} /\ blurred = {} /\ skipped = {} /\ dropped = {}
  /\ losses = 0

Commit(t) == db' = t /\ tx' = t /\ writer' = NoOne
Write(p, t) == tx' = t /\ writer' = p /\ db' = db
NoWrite == UNCHANGED <<db, tx, writer>>
Goto(p, l) == pc' = [pc EXCEPT ![p] = l]
World == <<log, occur, truth, chan, place, skipped, losses>>
History == <<word, copies, cause, blurred, dropped>>

Piled(q) == {c \in Conditions : \E i, j \in Kept(q) : i # j /\ q[i].about = c /\ q[j].about = c}
Capped(n) == IF n < 2 THEN n + 1 ELSE n

-----------------------------------------------------------------------------
(* The worker's cycle                                                      *)

\* run_once of the jobs has left the worker the writer: until the first claim
\* nothing of this is committed.
Cycle ==
  /\ pc[Worker] = "idle" /\ writer = NoOne
  /\ \E t \in {Prepared(db, time) : time \in {b \in BOOLEAN : b => "summary" \in occur}} :
       /\ Write(Worker, t)
       /\ due' = IF chan # "disabled" THEN Batch(t.queue) ELSE {}
       /\ blurred' = blurred \cup Piled(t.queue) \cup
            IF chan = "open" THEN {} ELSE {c \in Conditions : ShouldSend(db.states[c], c \in truth)}
  /\ Goto(Worker, "next")
  /\ UNCHANGED <<cur, hand, answer, word, copies, cause, dropped>>
  /\ UNCHANGED World

Taken(r) == [r EXCEPT !.status = "processing", !.ripe = FALSE, !.attempts = @ + 1]

\* Committed before the message travels.
Claim ==
  /\ pc[Worker] = "next"
  /\ \E i \in due :
       /\ \A j \in due \ {i} : Before(tx.queue, i, j)
       /\ Commit([tx EXCEPT !.queue[i] = Taken(@)])
       /\ due' = due \ {i} /\ cur' = i
  /\ Goto(Worker, "send")
  /\ UNCHANGED <<hand, answer>> /\ UNCHANGED World /\ UNCHANGED History

\* The message arrives or not, and so does Telegram's answer.
Deliveries == {d \in [arrives : BOOLEAN, said : {"ok", "error"}] : d.said = "ok" => d.arrives}

Send ==
  /\ pc[Worker] = "send"
  /\ LET r == db.queue[cur] IN
     \E d \in Deliveries :
       /\ answer' = [answer EXCEPT ![Worker] = d.said]
       /\ word' = IF d.arrives /\ r.about \in Conditions THEN [word EXCEPT ![r.about] = r.says] ELSE word
       /\ copies' = IF d.arrives /\ r.about \in Keys THEN [copies EXCEPT ![r.about] = Capped(@)] ELSE copies
       /\ cause' = IF d.said = "error" THEN cause \cup ({r.about} \cap Keys) ELSE cause
  /\ Goto(Worker, "record")
  /\ NoWrite
  /\ UNCHANGED <<due, cur, hand, blurred, dropped>> /\ UNCHANGED World

\* The status after a delivery that was not accepted.
Final(n) == IF n >= MaxAttempts THEN "failed" ELSE "pending"

Record ==
  /\ pc[Worker] = "record" /\ writer = NoOne
  /\ LET r == db.queue[cur]
         s == IF answer[Worker] = "ok" THEN "sent" ELSE Final(r.attempts)
         gone == IF s = "failed" THEN {r.about} \cap Conditions ELSE {} IN
       /\ Write(Worker, [db EXCEPT !.queue[cur].status = s])
       /\ dropped' = dropped \cup gone
       /\ blurred' = blurred \cup gone
  /\ Goto(Worker, "next")
  /\ cur' = 0 /\ answer' = [answer EXCEPT ![Worker] = "none"]
  /\ UNCHANGED <<due, hand, word, copies, cause>> /\ UNCHANGED World

-----------------------------------------------------------------------------
(* Summaries, by the worker after its dispatch and by the command line     *)

\* The list of process_summary_runs: here it has one run or none.
TakeRun(p, t) ==
  /\ hand' = [hand EXCEPT ![p] =
       IF chan # "disabled" /\ t.summary.status \in {"queued", "retry_wait"} /\ t.summary.ripe
       THEN t.summary.attempts + 1 ELSE 0]
  /\ Goto(p, "summary")

TakeSummary ==
  /\ pc[Worker] = "next" /\ due = {} /\ writer = Worker
  /\ TakeRun(Worker, tx)
  /\ NoWrite
  /\ UNCHANGED <<due, cur, answer>> /\ UNCHANGED World /\ UNCHANGED History

\* telegram-summary-run: trying to insert a run makes the command the writer; a
\* kind without a destination, or an executive one without activity, inserts none.
StartCli ==
  /\ pc[Cli] = "idle" /\ "summary" \in occur
  /\ \/ writer = NoOne /\ Write(Cli, WithRun(db)) /\ TakeRun(Cli, WithRun(db))
     \/ NoWrite /\ TakeRun(Cli, db)
  /\ UNCHANGED <<due, cur, answer>> /\ UNCHANGED World /\ UNCHANGED History

\* Nobody claims the run: who reads it sends it.
SendSummary(p) ==
  /\ pc[p] = "summary" /\ hand[p] > 0
  /\ \E d \in Deliveries :
       /\ answer' = [answer EXCEPT ![p] = d.said]
       /\ copies' = IF d.arrives THEN [copies EXCEPT ![Summary] = Capped(@)] ELSE copies
       /\ cause' = IF d.said = "error" \/ writer # p THEN cause \cup {Summary} ELSE cause
  /\ Goto(p, "note")
  /\ NoWrite
  /\ UNCHANGED <<due, cur, hand, word, blurred, dropped>> /\ UNCHANGED World

SummaryStatus(p) ==
  IF answer[p] = "ok" THEN "sent" ELSE IF hand[p] >= MaxAttempts THEN "failed" ELSE "retry_wait"

Note(p) ==
  /\ pc[p] = "note" /\ writer \in {p, NoOne}
  /\ Write(p, [IF writer = p THEN tx ELSE db
                 EXCEPT !.summary = [status |-> SummaryStatus(p), attempts |-> hand[p], ripe |-> FALSE]])
  /\ hand' = [hand EXCEPT ![p] = 0] /\ answer' = [answer EXCEPT ![p] = "none"]
  /\ Goto(p, "summary")
  /\ UNCHANGED <<due, cur>> /\ UNCHANGED World /\ UNCHANGED History

\* The connection commits when it is closed.
Finish(p) ==
  /\ pc[p] = "summary" /\ hand[p] = 0
  /\ IF writer = p THEN Commit(tx) ELSE NoWrite
  /\ Goto(p, "idle")
  /\ UNCHANGED <<due, cur, hand, answer>> /\ UNCHANGED World /\ UNCHANGED History

Claimed == {i \in DOMAIN db.queue : db.queue[i].status = "processing"}

\* The process dies, or waits too long for the write lock.
Abort(p) ==
  /\ pc[p] # "idle" /\ losses < MaxLosses
  /\ losses' = losses + 1
  /\ IF writer = p THEN tx' = db /\ writer' = NoOne /\ db' = db ELSE NoWrite
  /\ cause' = cause \cup
       (IF p = Worker THEN Keys \cap {db.queue[i].about : i \in Claimed} ELSE {})
         \cup (IF pc[p] \in {"summary", "note"} THEN {Summary} ELSE {})
  /\ due' = IF p = Worker THEN {} ELSE due
  /\ cur' = IF p = Worker THEN 0 ELSE cur
  /\ hand' = [hand EXCEPT ![p] = 0] /\ answer' = [answer EXCEPT ![p] = "none"]
  /\ Goto(p, "idle")
  /\ UNCHANGED <<log, occur, truth, chan, place, skipped, word, copies, blurred, dropped>>

-----------------------------------------------------------------------------
(* The rest of the system                                                  *)

Processing == <<pc, due, cur, hand, answer>>
Waiting == Cardinality(Kept(db.queue))

\* Somebody's transaction appends an audit row.
LogEvent ==
  /\ "event" \in occur /\ log < MaxEvents /\ writer = NoOne
  /\ log' = log + 1
  /\ NoWrite /\ UNCHANGED <<occur, truth, chan, place, skipped, losses>>
  /\ UNCHANGED Processing /\ UNCHANGED History

\* A condition begins or ends.
Change ==
  /\ "condition" \in occur /\ Waiting < MaxRows
  /\ \E c \in Conditions : truth' = IF c \in truth THEN truth \ {c} ELSE truth \cup {c}
  /\ NoWrite /\ UNCHANGED <<log, occur, chan, place, skipped, losses>>
  /\ UNCHANGED Processing /\ UNCHANGED History

\* The maintenance window begins or ends.
Window ==
  /\ chan' = CASE chan = "open" -> "maintenance" [] chan = "maintenance" -> "open" [] OTHER -> chan
  /\ NoWrite /\ UNCHANGED <<log, occur, truth, place, skipped, losses>>
  /\ UNCHANGED Processing /\ UNCHANGED History

\* configure_telegram: enabling moves the cursor to the end of the log.
Configure ==
  /\ writer = NoOne
  /\ IF chan = "disabled"
     THEN /\ chan' = "open"
          /\ Commit([db EXCEPT !.cursor = log])
          /\ skipped' = skipped \cup {e \in Events : e > db.cursor /\ e <= log}
     ELSE chan' = "disabled" /\ NoWrite /\ UNCHANGED skipped
  /\ UNCHANGED <<log, occur, truth, place, losses>>
  /\ UNCHANGED Processing /\ UNCHANGED History

\* Alerts go to another destination, or to another of its topics.
Redirect ==
  /\ "event" \in occur /\ writer = NoOne /\ place < MaxPlaces
  /\ place' = place + 1
  /\ NoWrite /\ UNCHANGED <<log, occur, truth, chan, skipped, losses>>
  /\ UNCHANGED Processing /\ UNCHANGED History

\* queue_basic_test; the model keeps one.
AskTest ==
  /\ "test" \in occur /\ writer = NoOne /\ chan # "disabled" /\ Waiting < MaxRows
  /\ \A i \in DOMAIN db.queue : db.queue[i].about # Test
  /\ Commit([db EXCEPT !.queue = Append(@, Message(Test, "event"))])
  /\ UNCHANGED World /\ UNCHANGED Processing /\ UNCHANGED History

\* Time passes: a retry's delay, a lease of fifteen minutes, a cooldown.
Cooled(s) == IF s.sent = "recent" /\ Waiting < MaxRows THEN [s EXCEPT !.sent = "past"] ELSE s
Later(t) ==
  [t EXCEPT !.queue = [i \in DOMAIN @ |-> [@[i] EXCEPT !.ripe = TRUE]],
            !.summary.ripe = TRUE, !.states = [c \in Conditions |-> Cooled(@[c])]]
Tick ==
  /\ writer = NoOne /\ pc[Worker] = "idle"
  /\ Later(db) # db
  /\ Commit(Later(db))
  /\ UNCHANGED World /\ UNCHANGED Processing /\ UNCHANGED History

-----------------------------------------------------------------------------
Dispatch == Cycle \/ Claim \/ Send \/ Record \/ TakeSummary
Summarize(p) == SendSummary(p) \/ Note(p) \/ Finish(p)
Serve == LogEvent \/ Change \/ Window \/ Configure \/ Redirect \/ AskTest

NotifyNext ==
  \/ Dispatch \/ StartCli \/ Serve \/ Tick
  \/ \E p \in Processes : Summarize(p) \/ Abort(p)

NotifySpec == NotifyInit /\ [][NotifyNext]_notifyVars

\* The timer starts cycles for ever, a command ends, time passes between the cycles.
LiveSpec ==
  /\ NotifySpec
  /\ WF_notifyVars(Dispatch) /\ WF_notifyVars(Summarize(Worker)) /\ WF_notifyVars(Summarize(Cli))
  /\ SF_notifyVars(Tick)

-----------------------------------------------------------------------------
(* Properties                                                              *)

NotifyTypeOK ==
  /\ db.queue \in Seq(Row) /\ tx.queue \in Seq(Row)
  /\ db.states \in [Conditions -> ConditionState] /\ db.summary \in Run
  /\ db.cursor \in 0..log /\ db.seen \subseteq Keys
  /\ writer \in Processes \cup {NoOne}
  /\ due \subseteq DOMAIN tx.queue /\ cur \in {0} \cup DOMAIN tx.queue
  /\ truth \subseteq Conditions /\ chan \in {"open", "maintenance", "disabled"}
  /\ place \in Places

\* docs/NOTIFICATIONS.md, "Eventos", docs/TELEGRAM_OPERATIONAL_NOTIFICATIONS.md: an
\* event the cursor has passed has been queued, or the channel was enabled after it;
\* and no event, in one place, and no summary, is told twice unless an answer got lost, a process
\* died at it or two processes had it.
EventsToldOnce ==
  /\ NotifyTypeOK
  /\ \A e \in 1..db.cursor : e \in skipped \/ \E pl \in Places : KeyOf[<<e, pl>>] \in db.seen
  /\ \A k \in Keys \cup {Summary} : copies[k] > 1 => k \in cause

\* Once nothing about a condition waits, the last word about it is what its state
\* says, unless two messages about it waited at once or one was not sent.
LastWord ==
  \A c \in Conditions \ blurred :
    writer = NoOne /\ pc[Worker] = "idle" /\ (\A i \in DOMAIN db.queue : db.queue[i].about = c => ~Unsettled(db.queue[i]))
      => word[c] = IF db.states[c].active THEN "alert" ELSE IF db.states[c].sent = "never" THEN "none" ELSE "recovery"

\* docs/NOTIFICATIONS.md, "Cooldown e recuperação": a condition that lasts is told
\* while the channel is open, also if it began when it was not.
AlertsReach ==
  \A c \in Conditions :
    []<>(c \notin truth \/ chan # "open" \/ word[c] = "alert" \/ c \in dropped)
=============================================================================
