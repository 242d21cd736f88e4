------------------------------ MODULE Accounts ------------------------------
(***************************************************************************)
(* Users, sessions and the tool that resets an administrator's password.    *)
(*                                                                         *)
(* The web server serves one request at a time (app.py:5260), each in two   *)
(* transactions: current_user or handle_login reads the user's row, and the *)
(* handler then writes by id.  The tool is a process of its own, and its    *)
(* steps fall between them unless the operator has stopped the services,    *)
(* which docs/ADMIN_PASSWORD_RESET.md asks for and no code verifies.  When  *)
(* its last check fails the tool puts its copy over the database, and over  *)
(* whatever was committed since.                                            *)
(*                                                                         *)
(* A user's sessions are told apart from other users' only, and a user      *)
(* without access has no role that matters: whoever gives access back gives *)
(* a role with it.                                                          *)
(*                                                                         *)
(* A hash is not its password: each has a salt of its own, and no handler    *)
(* and no tool compares a new password with the one in force.  The password *)
(* every installation comes with (db.py:40) satisfies the policy of them    *)
(* all, so whoever is to choose another one may choose it again; "first"    *)
(* says whether the seeded user's password is that one.                     *)
(*                                                                         *)
(* Names that Updater has too are longer here (AccountsInit, AccountsSpec): *)
(* OperatorProofs extends both.                                            *)
(***************************************************************************)
EXTENDS Naturals, FiniteSets

CONSTANTS
    Names,      \* usernames
    Seeded,     \* "admin", the user seed_defaults inserts
    NoOne,
    MaxRows,    \* bound: rows in the five tables the tool counts
    MaxSince    \* bound: commits of the services since the tool's copy

ASSUME NamesAssumption ==
    /\ Seeded \in Names /\ NoOne \notin Names
    /\ MaxRows \in Nat /\ MaxSince \in Nat

VARIABLES
    data,       \* what is committed
    req,        \* the request under way
    tool,       \* the reset tool, and what it said last
    copy,       \* the copy of the run under way
    since,      \* commits of the services since then
    overtaken   \* history: an administrator's request has written after a restore in its middle

accountVars == <<data, req, tool, copy, since, overtaken>>

(***************************************************************************)
(* Rows.                                                                   *)
(***************************************************************************)
Roles == {"admin", "other"}
NoAccess == "none"

User(access, hash) == [access |-> access, hash |-> hash, must |-> TRUE]

Has(d, u) == u \in DOMAIN d.users

Admins(d) == {u \in DOMAIN d.users : d.users[u].access = "admin"}

SetUser(d, u, row) ==
    [d EXCEPT !.users = [v \in DOMAIN @ \cup {u} |-> IF v = u THEN row ELSE @[v]]]

Seed == [users |-> [u \in {Seeded} |-> User("admin", 0)], sessions |-> {}, setup |-> FALSE, rows |-> 0,
         first |-> TRUE]

NoCopy == [Seed EXCEPT !.users = [u \in {} |-> NoOne]]

\* Every hash made is another one.  One nothing remembers stands for every
\* other; 0 is the seeded one, Unknown that of a password nobody was told.
Hashes == 1..4
Unknown == 5

Remembered(u) ==
    (IF Has(copy, u) THEN {copy.users[u].hash} ELSE {})
      \cup (IF tool.sel = u THEN {tool.old, tool.new} ELSE {})

NewHash(u) == CHOOSE h \in Hashes \ Remembered(u) : \A g \in Hashes \ Remembered(u) : h <= g

\* A password is set: the seeded user's may be the first one again.
Password(d, u, row, first) == [SetUser(d, u, row) EXCEPT !.first = first]

MayBeFirst(u) == IF u = Seeded THEN BOOLEAN ELSE {data.first}

\* late: a history bit, set by a restore that comes in the middle.
Request(op, u) == [op |-> op, by |-> u, late |-> FALSE]

Idle == Request("none", NoOne)

NoReset == [step |-> "idle", sel |-> Seeded, before |-> 0, old |-> 0, new |-> 0, said |-> "nothing"]

AccountsInit ==
    /\ data = Seed /\ req = Idle
    /\ tool = NoReset /\ copy = NoCopy /\ since = 0
    /\ overtaken = FALSE

\* A commit of the services.
Commits(d) ==
    /\ data' = d
    /\ since' = IF copy = NoCopy \/ d = data THEN since ELSE since + 1
    /\ since' <= MaxSince
    /\ UNCHANGED <<tool, copy>>

(***************************************************************************)
(* A request begins: who asks is read, and may ask, in a transaction that   *)
(* deletes the sessions older than eight hours.                             *)
(***************************************************************************)
AdminOps == {"setup", "users", "import"}

\* Bug for a mutant run: require_admin without require_user's redirection.
AdminAtOnce(op, row) == row.access = "admin"

MayAsk(op, row) ==
    op = "change" \/ (row.access = "admin" /\ ~row.must)

BeginRequest(op, u, kept) ==
    /\ req = Idle
    /\ u \in kept /\ data.users[u].access # NoAccess
    /\ MayAsk(op, data.users[u])
    /\ Commits([data EXCEPT !.sessions = kept])
    /\ req' = Request(op, u)
    /\ UNCHANGED overtaken

\* The password typed is the one of the row that was read.
BeginLogin(u) ==
    /\ req = Idle
    /\ Has(data, u) /\ data.users[u].access # NoAccess /\ data.users[u].hash # Unknown
    /\ req' = Request("login", u)
    /\ UNCHANGED <<data, tool, copy, since, overtaken>>

Logout(u) ==
    /\ req = Idle /\ u \in data.sessions
    /\ Commits([data EXCEPT !.sessions = @ \ {u}])
    /\ UNCHANGED <<req, overtaken>>

(***************************************************************************)
(* It writes.  The row of who asked must still be there: the session or the *)
(* audit log refers to it.                                                  *)
(***************************************************************************)
Writes(op, d) ==
    /\ req.op = op /\ Has(data, req.by)
    /\ Commits(d)
    /\ req' = Idle
    /\ overtaken' = (overtaken \/ (req.late /\ op \in AdminOps))

Login ==
    Writes("login", [data EXCEPT !.sessions = @ \cup {req.by}])

ChangePassword ==
    \E first \in MayBeFirst(req.by) :
        Writes("change", Password(data, req.by,
                    [data.users[req.by] EXCEPT !.hash = NewHash(req.by), !.must = FALSE], first))

Setup == Writes("setup", [data EXCEPT !.setup = TRUE])

CreateUser(u, role) ==
    /\ ~Has(data, u)
    /\ Writes("users", SetUser(data, u, User(role, NewHash(u))))

\* Bug for a mutant run: administrators may withdraw their own access.
AnyUpdate(u, access) == TRUE

MayUpdate(u, access) == u # req.by \/ access = "admin"

UpdateUser(u, access) ==
    /\ Has(data, u) /\ MayUpdate(u, access)
    /\ LET d == SetUser(data, u, [data.users[u] EXCEPT !.access = access]) IN
       \/ Writes("users", d)
       \/ \E first \in MayBeFirst(u) :
              Writes("users", [Password(d, u, [d.users[u] EXCEPT !.hash = NewHash(u), !.must = TRUE], first)
                               EXCEPT !.sessions = @ \ ({u} \ {req.by})])

\* One user of the file; a file with more does what several files do.
Import(u, access) ==
    LET row == IF Has(data, u) THEN data.users[u] ELSE User(access, Unknown) IN
    Writes("import", SetUser(data, u, [row EXCEPT !.access = access]))

\* Refused for its form, failed, or dead with its process.
GiveUp ==
    /\ req # Idle
    /\ req' = Idle
    /\ UNCHANGED <<data, tool, copy, since, overtaken>>

\* The workers, and requests about other things.
Work ==
    /\ \E n \in 0..MaxRows \ {data.rows} : Commits([data EXCEPT !.rows = n])
    /\ UNCHANGED <<req, overtaken>>

(***************************************************************************)
(* reset_admin_password, confirmed.                                         *)
(***************************************************************************)
At(step) == tool.step = step

Ends(t) == tool' = t /\ copy' = NoCopy /\ since' = 0

\* What the hashes were is still told of only by a password that was set.
Says(word) ==
    Ends(IF tool.new = 0 THEN NoReset
         ELSE [NoReset EXCEPT !.sel = tool.sel, !.said = word, !.new = tool.new,
                              !.old = IF word = "ok" THEN tool.old ELSE 0])

\* A database with nothing in it but the seeded user is taken for a wrong one.
Inspect(u) ==
    /\ At("idle")
    /\ u \in Admins(data)
    /\ data.rows > 0 \/ Cardinality(DOMAIN data.users) > 1
    /\ tool' = [NoReset EXCEPT !.step = "inspected", !.sel = u, !.before = data.rows]
    /\ UNCHANGED <<data, req, copy, since, overtaken>>

Select ==
    /\ At("inspected") /\ tool.sel \in Admins(data)
    /\ tool' = [tool EXCEPT !.step = "selected", !.old = data.users[tool.sel].hash]
    /\ UNCHANGED <<data, req, copy, since, overtaken>>

BackUp ==
    /\ At("selected")
    /\ tool' = [tool EXCEPT !.step = "copied"]
    /\ copy' = data
    /\ UNCHANGED <<data, req, since, overtaken>>

\* Bug for a mutant run: the user's sessions stay.
ResetPassword(d, u, hash, first) ==
    Password(d, u, [d.users[u] EXCEPT !.hash = hash, !.must = TRUE], first)

Reset(d, u, hash, first) ==
    [Password(d, u, [d.users[u] EXCEPT !.hash = hash, !.must = TRUE], first)
     EXCEPT !.sessions = @ \ {u}]

Commit ==
    LET hash == NewHash(tool.sel) IN
    /\ At("copied")
    /\ data.users[tool.sel].hash = tool.old
    /\ \E first \in MayBeFirst(tool.sel) : data' = Reset(data, tool.sel, hash, first)
    /\ tool' = [tool EXCEPT !.step = "committed", !.new = hash]
    /\ UNCHANGED <<req, copy, since, overtaken>>

\* The user is no administrator any more, or has another password by now, or
\* anything else goes wrong before the commit.
Cancel ==
    /\ tool.step \in {"inspected", "selected", "copied"}
    /\ Says("cancelled")
    /\ UNCHANGED <<data, req, overtaken>>

Confirmed == data.users[tool.sel].hash # tool.old /\ data.rows = tool.before

Check ==
    /\ At("committed") /\ Confirmed
    /\ Says("ok")
    /\ UNCHANGED <<data, req, overtaken>>

\* The password or the rows are not as they should be; or the database is found
\* damaged, or cannot be read.
Restore ==
    /\ At("committed")
    /\ data' = copy
    /\ Says("cancelled")
    /\ req' = [req EXCEPT !.late = @ \/ (req # Idle /\ since > 0)]
    /\ UNCHANGED overtaken

Dies ==
    /\ ~At("idle")
    /\ Ends(NoReset)
    /\ UNCHANGED <<data, req, overtaken>>

Requests ==
    \/ \E op \in AdminOps \cup {"change"}, kept \in SUBSET data.sessions :
           \E u \in kept : BeginRequest(op, u, kept)
    \/ \E u \in Names : BeginLogin(u) \/ Logout(u)
    \/ Login \/ ChangePassword \/ Setup
    \/ \E u \in Names :
           \/ \E role \in Roles : CreateUser(u, role)
           \/ \E access \in Roles \cup {NoAccess} : UpdateUser(u, access) \/ Import(u, access)
    \/ GiveUp

Tool ==
    \/ \E u \in Names : Inspect(u)
    \/ Select \/ BackUp \/ Commit \/ Cancel
    \/ Check \/ Restore \/ Dies

AccountsNext == Requests \/ Tool \/ Work

AccountsSpec == AccountsInit /\ [][AccountsNext]_accountVars

(***************************************************************************)
(* Properties.                                                             *)
(***************************************************************************)
UserType == [access : Roles \cup {NoAccess}, hash : Hashes \cup {0, Unknown}, must : BOOLEAN]

Typed(d) ==
    /\ DOMAIN d.users \subseteq Names /\ \A u \in DOMAIN d.users : d.users[u] \in UserType
    /\ d.sessions \subseteq DOMAIN d.users
    /\ d.setup \in BOOLEAN /\ d.rows \in 0..MaxRows /\ d.first \in BOOLEAN

AccountsTypeOK ==
    /\ Typed(data) /\ Typed(copy)
    /\ req.op \in AdminOps \cup {"none", "login", "change"} /\ req.by \in Names \cup {NoOne}
    /\ req.late \in BOOLEAN /\ overtaken \in BOOLEAN
    /\ tool.sel \in Names /\ since \in 0..MaxSince

PastFirstAccess(d) == d.setup => d.users[Seeded].hash # 0

AdminKept ==
    /\ Admins(data) # {} /\ Admins(data') = {} => req.op = "import"
    /\ PastFirstAccess(data) => PastFirstAccess(data')
    /\ req.op \in AdminOps /\ req' = Idle /\ data' # data => req.by \in Admins(data)

\* What only administrators may is written for somebody who still is one when
\* it is written; only an imported file takes the last administrator's access;
\* and an installation that is set up has been through the change of the first
\* user's password: its row has another hash than the one that was installed
\* (FirstPasswordEnds is about the password).  Every request asks again who
\* asks (require_admin), no administrator can withdraw their own access
\* (handle_settings_users), and one request is served at a time.  A restore in
\* the middle of such a request takes that away: it then writes for somebody who
\* may be no administrator any more, and from what it has written the rest may
\* follow; nothing is said from there on.
Administered == [][AdminKept \/ overtaken']_accountVars

\* The page on which a user changes the password they were given says that it is
\* invalid from then on (app.py:1034): a seeded user who needs not change theirs
\* does not have the one every installation comes with.
FirstPasswordEnds == ~data.users[Seeded].must => ~data.first

\* What the tool said last stays true, whatever the services do meanwhile and
\* after: a hash that was reset is not in the row again, and one that was set and
\* taken back never is.
Told ==
    Has(data, tool.sel) =>
        /\ tool.said = "ok" => data.users[tool.sel].hash # tool.old
        /\ tool.said = "cancelled" => data.users[tool.sel].hash # tool.new

ResetDone(d) ==
    LET u == tool.sel
        row == [copy.users[u] EXCEPT !.hash = d.users[u].hash, !.must = TRUE] IN
    /\ row # copy.users[u]
    /\ d = [copy EXCEPT !.users[u] = row, !.sessions = @ \ {u}, !.first = d.first]

\* If no service has committed anything since the copy was made, the database is
\* the copy or the copy with one user's password reset and sessions ended.
AllOrNothing ==
    copy # NoCopy /\ since = 0 =>
        IF At("copied") THEN data = copy ELSE ResetDone(data)

\* docs/ADMIN_PASSWORD_RESET.md: the transaction changes the user's hash, the
\* obligation to change it, and the user's sessions, and nothing else; whatever
\* races it or fails, the tool has done what it says; and every variable keeps its
\* type.
ResetIsWhole == AccountsTypeOK /\ Told /\ AllOrNothing
=============================================================================
