---------------------------- MODULE FtpAccounts ----------------------------
(***************************************************************************)
(* Receiving accounts: rows of ftp_accounts and the Pure-FTPd user         *)
(* database, kept in step by a privileged helper process.                  *)
(*                                                                         *)
(* Each web request commits its change to the row, runs the helper, and    *)
(* commits the helper's verdict; the web server serves one request at a    *)
(* time (app.py:5260), and one that dies leaves its remaining steps        *)
(* undone.  The helper gets the account's id only: it reads the committed  *)
(* row itself, looks whether the server knows the username, and then acts. *)
(* Rows are keyed by id and a username is unique among live rows only; the *)
(* server is keyed by username.                                            *)
(*                                                                         *)
(* The helper changes pureftpd.passwd and then makes the database of the   *)
(* server anew from the whole file.  Where it failed in between the two    *)
(* differ on its username, which stays clouded until a request on it has   *)
(* made the database anew.                                                 *)
(***************************************************************************)
EXTENDS Naturals, FiniteSets

CONSTANTS
    MaxAccounts,    \* bound: rows ever created
    Devices,        \* equipment an account may belong to
    NoDevice,       \* equipment_id of a file-server account
    Usernames,
    Generated,      \* the username of an isolated account, never used twice
    MaxFailures     \* bound: failing helpers, lost answers, dying requests

ASSUME AccountsAssumption ==
    /\ MaxAccounts \in Nat \ {0} /\ MaxFailures \in Nat
    /\ NoDevice \notin Devices /\ Generated \notin Usernames

VARIABLES
    rows,       \* id -> committed row of ftp_accounts
    last,       \* the last id given out (AUTOINCREMENT)
    push,       \* ids whose MikroTik integration is active
    gone,       \* equipment removed for good
    login,      \* username -> home and password, in the file pure-pw keeps
    req,        \* what the request under way is doing
    failures,   \* failures so far
    clouded     \* history: usernames whose last request failed halfway

ftpVars == <<rows, last, push, gone, login, req, failures, clouded>>

Idle == [op |-> "none"]

Put(f, x, value) == [y \in DOMAIN f \cup {x} |-> IF y = x THEN value ELSE f[y]]

Live(R, a) == a \in DOMAIN R /\ R[a].active /\ ~R[a].deleted

\* The partial unique indexes of migration 024.
UniqueLive(R) ==
    \A a, b \in DOMAIN R : a # b /\ Live(R, a) /\ Live(R, b) =>
        /\ R[a].user # R[b].user
        /\ R[a].dev = NoDevice \/ R[a].dev # R[b].dev

Busy == req.op # "none"

Free == ~Busy
At(ops, steps) == req.op \in ops /\ req.step \in steps

Changes == {"create", "reset", "disable", "deactivate", "link"}
Served == Changes \cup {"purge"}

\* A password is told apart only from its account's: "current" is the one
\* the row holds, "open" the one an open transaction has written to it,
\* "old" any other.  A new password in the row of a outdates all others.
Outdated(L, a) ==
    [u \in DOMAIN L |-> IF L[u].home = a THEN [L[u] EXCEPT !.pass = "old"] ELSE L[u]]

UserOf(R, a) == IF a \in DOMAIN R THEN R[a].user ELSE Generated

\* Withdrawing a row whose username another live row has taken over takes
\* that row's login with it.
Shared(a, R) ==
    IF \E b \in DOMAIN R \ {a} : Live(R, b) /\ R[b].user = R[a].user
    THEN {R[a].user} \cap Usernames ELSE {}

Request(op, a, pass, R) ==
    [op |-> op, acct |-> a, user |-> UserOf(R, a), pass |-> pass, old |-> Idle,
     step |-> "call", ok |-> FALSE, built |-> FALSE, todo |-> {}, dev |-> NoDevice]

Ask(op, a, old, R) ==
    /\ req' = [Request(op, a, "none", R) EXCEPT !.old = old]
    /\ clouded' = clouded \cup Shared(a, R)

\* The row of a holds a new password, which this request gives the helper.
AskNew(op, a, R) ==
    /\ req' = Request(op, a, "current", R)
    /\ login' = Outdated(login, a)
    /\ clouded' = clouded \cup Shared(a, R)

FtpInit ==
    /\ rows = <<>> /\ last = 0 /\ push = {}
    /\ gone = {}
    /\ login = <<>>
    /\ req = Idle
    /\ failures = 0 /\ clouded = {}

(***************************************************************************)
(* The first transaction of each request.                                  *)
(***************************************************************************)
Row(u, d) == [user |-> u, dev |-> d, active |-> TRUE, deleted |-> FALSE]

Create(u, d) ==
    LET R == Put(rows, last + 1, Row(u, d)) IN
    /\ Free /\ last < MaxAccounts
    /\ d \in {NoDevice} \cup (Devices \ gone)
    /\ UniqueLive(R)
    /\ rows' = R /\ last' = last + 1
    /\ AskNew("create", last + 1, R)
    /\ UNCHANGED <<push, gone, failures>>

Reset(a) ==
    /\ Free /\ Live(rows, a)
    /\ AskNew("reset", a, rows)
    /\ UNCHANGED <<rows, last, push, gone, failures>>

Withdrawn(R, a, delete) ==
    [R EXCEPT ![a].active = FALSE, ![a].deleted = @ \/ delete]

Disable(a, delete) ==
    /\ Free
    /\ a \in DOMAIN rows /\ (delete \/ ~rows[a].deleted)
    /\ rows' = Withdrawn(rows, a, delete)
    /\ Ask("disable", a, rows[a], rows)
    /\ UNCHANGED <<last, push, gone, login, failures>>

\* The device must also be active and a MikroTik; both can be edited at any
\* time, so any request may find them so.
Reachable(a) == rows[a].dev \in Devices \ gone

\* The account goes with its integration if its notes are those of an
\* account the integration owns: a free field of the settings, so it is
\* taken to say either.
Deactivate(a) ==
    /\ Free /\ a \in push /\ Reachable(a)
    /\ push' = push \ {a}
    /\ \/ /\ Live(rows, a)
          /\ rows' = Withdrawn(rows, a, FALSE)
          /\ Ask("deactivate", a, rows[a], rows)
       \/ UNCHANGED <<rows, req, clouded>>
    /\ UNCHANGED <<last, gone, login, failures>>

\* A rotation also sets is_active of a row that was disabled or deleted.
Rotated(a) == [rows EXCEPT ![a].active = TRUE]

Rotate(a) ==
    LET R == Rotated(a) IN
    /\ Free /\ a \in push /\ Reachable(a)
    /\ UniqueLive(R)
    /\ rows' = R
    /\ AskNew("reset", a, R)
    /\ UNCHANGED <<last, push, gone, failures>>

(***************************************************************************)
(* An integration is created in one transaction that stays open while the  *)
(* helper runs: the helper still reads the row as it was.                   *)
(***************************************************************************)
OfDevice(d) == {a \in DOMAIN rows : rows[a].dev = d}

MayLink(d) == d \notin gone /\ \A a \in OfDevice(d) \cap push : ~Live(rows, a)

\* An account the device has, with its password kept or changed ...
Link(a, pass) ==
    /\ Free /\ Live(rows, a) /\ rows[a].dev # NoDevice /\ MayLink(rows[a].dev)
    /\ req' = Request("link", a, pass, rows)
    /\ clouded' = clouded \cup Shared(a, rows)
    /\ UNCHANGED <<rows, last, push, gone, login, failures>>

\* ... or kept and, the row holding only a hash of it, not sent at all.
LinkUnread(a) ==
    /\ Free /\ Live(rows, a) /\ rows[a].dev # NoDevice /\ MayLink(rows[a].dev)
    /\ push' = (push \ OfDevice(rows[a].dev)) \cup {a}
    /\ UNCHANGED <<rows, last, gone, login, req, failures, clouded>>

\* A new account for the device: the helper cannot see its row, so the
\* handler takes the creation back, all within the transaction.
LinkIsolated(d) ==
    /\ Free /\ last < MaxAccounts /\ MayLink(d)
    /\ \A a \in OfDevice(d) : ~Live(rows, a)
    /\ last' = last + 1
    /\ rows' = Put(rows, last + 1, [Row(Generated, d) EXCEPT !.active = FALSE, !.deleted = TRUE])
    /\ push' = push \ OfDevice(d)
    /\ UNCHANGED <<gone, login, req, failures, clouded>>

(***************************************************************************)
(* The helper.  It reads the row as committed, looks the username up among *)
(* the server's, and adds, changes or removes it.                          *)
(***************************************************************************)
\* Bug for a mutant run: the helper trusts the action it is asked for and
\* does not look whether the row is still live.
WantsAsAsked(op, a) == IF op \in {"disable", "deactivate", "purge"} THEN "remove" ELSE "write"

Wants(op, a) ==
    IF op \in {"disable", "deactivate", "purge"} \/ ~Live(rows, a) THEN "remove" ELSE "write"

Answer(ok, built) == req' = [req EXCEPT !.step = "answer", !.ok = ok, !.built = built]

Without(u) == [v \in DOMAIN login \ {u} |-> login[v]]

\* What the file holds once it has been written or removed.
Changed ==
    IF Wants(req.op, req.acct) = "remove" THEN Without(req.user)
    ELSE Put(login, req.user, [home |-> req.acct, pass |-> req.pass])

\* A username it is to remove and does not find leaves the database as it is.
HelperActs ==
    /\ At(Served, {"call"})
    /\ login' = Changed
    /\ Answer(TRUE, Wants(req.op, req.acct) = "write" \/ req.user \in DOMAIN login)
    /\ UNCHANGED <<rows, last, push, gone, failures, clouded>>

\* pure-pw has changed the file, and a later command of the helper fails (the
\* username is clouded, so a directory changed or not makes no difference).
HelperHalfway ==
    /\ At(Served, {"call"}) /\ failures < MaxFailures
    /\ login' = Changed
    /\ Answer(FALSE, FALSE)
    /\ failures' = failures + 1
    /\ clouded' = clouded \cup ({req.user} \cap Usernames)
    /\ UNCHANGED <<rows, last, push, gone>>

\* The helper is refused, or fails before it changes anything.
HelperFails ==
    /\ At(Served, {"call"}) /\ failures < MaxFailures
    /\ Answer(FALSE, FALSE)
    /\ failures' = failures + 1
    /\ UNCHANGED <<rows, last, push, gone, login, clouded>>

\* It acts, and its answer comes after the twenty seconds it is given.
AnswerLost ==
    /\ At(Served, {"answer"}) /\ req.ok /\ failures < MaxFailures
    /\ req' = [req EXCEPT !.ok = FALSE]
    /\ failures' = failures + 1
    /\ clouded' = clouded \cup ({req.user} \cap Usernames)
    /\ UNCHANGED <<rows, last, push, gone, login>>

(***************************************************************************)
(* The last transaction of each request, as the rows and the integrations  *)
(* it leaves.                                                              *)
(***************************************************************************)
Outcome(R, P) == [rows |-> R, push |-> P]

Created(a) ==
    Outcome(IF req.ok THEN rows ELSE [rows EXCEPT ![a].active = FALSE, ![a].deleted = TRUE], push)

\* A failure takes the withdrawal back.
Disabled(a) ==
    Outcome(IF req.ok THEN rows
            ELSE [rows EXCEPT ![a].active = req.old.active, ![a].deleted = req.old.deleted], push)

Deactivated(a) ==
    IF req.ok THEN Outcome(rows, push) ELSE Outcome([rows EXCEPT ![a].active = TRUE], push \cup {a})

Linked(a) ==
    Outcome(rows, (push \ OfDevice(rows[a].dev)) \cup (IF req.ok THEN {a} ELSE {}))

Result ==
    LET a == req.acct IN
    CASE req.op = "create" -> Created(a)
      [] req.op = "reset" -> Outcome(rows, push)   \* a refused password stays
      [] req.op \in {"disable", "purge"} -> Disabled(a)
      [] req.op = "deactivate" -> Deactivated(a)
      [] req.op = "link" -> Linked(a)

\* A request served to its end, the database made anew, settles its username
\* again; a refused password leaves the row with one the server does not know.
Settled ==
    LET u == {req.user} \cap Usernames IN
    CASE req.ok /\ req.built /\ Shared(req.acct, rows) = {} -> clouded \ u
      [] ~req.ok /\ req.op = "reset" -> clouded \cup u
      [] OTHER -> clouded

Ended == req' = Idle

\* The open transaction's password becomes the row's, or nobody's.
Closed(L, a, ok) ==
    [u \in DOMAIN L |->
        IF L[u].home # a THEN L[u]
        ELSE [L[u] EXCEPT !.pass = IF ok /\ @ = "open" THEN "current"
                                   ELSE IF ok \/ @ = "open" THEN "old" ELSE @]]

EndRequest ==
    LET a == req.acct IN
    /\ At(Changes, {"answer"})
    /\ rows' = Result.rows /\ push' = Result.push
    /\ Ended
    /\ login' = IF req.pass = "open" THEN Closed(login, a, req.ok) ELSE login
    /\ clouded' = Settled
    /\ UNCHANGED <<last, gone, failures>>

(***************************************************************************)
(* Removing equipment for good: the accounts it had when the request came  *)
(* are deleted one by one, then every row that names it goes.              *)
(***************************************************************************)
StartPurge(d) ==
    /\ Free /\ d \notin gone
    /\ req' = [Request("purge", 0, "none", rows) EXCEPT
                !.step = "next", !.dev = d, !.todo = {a \in OfDevice(d) : ~rows[a].deleted}]
    /\ UNCHANGED <<rows, last, push, gone, login, failures, clouded>>

PurgeNext ==
    /\ At({"purge"}, {"next"}) /\ req.todo # {}
    /\ \E a \in req.todo :
         /\ rows' = Withdrawn(rows, a, TRUE)
         /\ req' = [req EXCEPT !.acct = a, !.user = rows[a].user, !.old = rows[a], !.step = "call"]
         /\ clouded' = clouded \cup Shared(a, rows)
    /\ UNCHANGED <<last, push, gone, login, failures>>

PurgeNoted ==
    /\ At({"purge"}, {"answer"})
    /\ rows' = Result.rows /\ push' = Result.push
    /\ IF req.ok
       THEN req' = [req EXCEPT !.todo = @ \ {req.acct}, !.step = "next", !.user = Generated]
       ELSE Ended
    /\ clouded' = Settled
    /\ UNCHANGED <<last, gone, login, failures>>

PurgeAll ==
    LET d == req.dev IN
    /\ At({"purge"}, {"next"}) /\ req.todo = {}
    /\ rows' = [a \in DOMAIN rows \ OfDevice(d) |-> rows[a]]
    /\ push' = push \ OfDevice(d)
    /\ gone' = gone \cup {d}
    /\ Ended
    /\ UNCHANGED <<last, login, failures, clouded>>

\* Equipment with no history goes at once.
Unattached(d) == OfDevice(d) = {}

RemoveEquipment(d) ==
    /\ Free /\ d \notin gone /\ Unattached(d)
    /\ gone' = gone \cup {d}
    /\ UNCHANGED <<rows, last, push, login, req, failures, clouded>>

(***************************************************************************)
(* The process dies, or the request waits longer than fifteen seconds for  *)
(* the write lock: the steps left are not taken, whatever was committed    *)
(* stays, an open transaction is undone.  Nothing completes it later.       *)
(***************************************************************************)
Dies ==
    /\ Busy /\ failures < MaxFailures
    /\ Ended
    /\ login' = IF req.pass = "open" THEN Closed(login, req.acct, FALSE) ELSE login
    /\ failures' = failures + 1
    /\ clouded' = clouded \cup ({req.user} \cap Usernames)
    /\ UNCHANGED <<rows, last, push, gone>>

Account(a) ==
    \/ Reset(a)
    \/ \E delete \in BOOLEAN : Disable(a, delete)
    \/ Deactivate(a)
    \/ Rotate(a)
    \/ \E pass \in {"current", "open"} : Link(a, pass)
    \/ LinkUnread(a)

Begins ==
    \/ \E u \in Usernames, d \in Devices \cup {NoDevice} : Create(u, d)
    \/ \E a \in DOMAIN rows : Account(a)
    \/ \E d \in Devices : LinkIsolated(d) \/ StartPurge(d)

\* Everything but a helper that does what it is asked.
Step ==
    \/ HelperFails \/ AnswerLost
    \/ EndRequest
    \/ PurgeNext \/ PurgeNoted \/ PurgeAll
    \/ Dies
    \/ \E d \in Devices : RemoveEquipment(d)

FtpNext == Begins \/ HelperActs \/ HelperHalfway \/ Step

FtpSpec == FtpInit /\ [][FtpNext]_ftpVars

(***************************************************************************)
(* Properties.                                                             *)
(***************************************************************************)
RowType == [user : Usernames \cup {Generated}, dev : Devices \cup {NoDevice}, active : BOOLEAN,
            deleted : BOOLEAN]

FtpTypeOK ==
    /\ DOMAIN rows \subseteq 1..last /\ \A a \in DOMAIN rows : rows[a] \in RowType
    /\ last \in 0..MaxAccounts
    /\ push \subseteq DOMAIN rows
    /\ gone \subseteq Devices
    /\ DOMAIN login \subseteq Usernames
    /\ \A u \in DOMAIN login : login[u] \in [home : 1..last, pass : {"current", "old", "open"}]
    /\ failures \in 0..MaxFailures
    /\ clouded \subseteq Usernames

\* The username the request in flight is about.
Touches(u) == Busy /\ req.user = u

AgreesOn(u) ==
    {[home |-> a, pass |-> "current"] : a \in {a \in DOMAIN rows : Live(rows, a) /\ rows[a].user = u}}
      = {login[v] : v \in DOMAIN login \cap {u}}

\* With no request under way on a username, the server accepts it exactly
\* when a live row has it, with that row's directory and that row's last
\* password: whatever sequence of creations, resets, rotations,
\* deactivations, refused helpers and removals of equipment led there.
ServerAgrees == \A u \in Usernames \ clouded : ~Touches(u) => AgreesOn(u)
=============================================================================
