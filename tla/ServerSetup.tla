---------------------------- MODULE ServerSetup ----------------------------
(***************************************************************************)
(* The scripts that configure the servers around the application           *)
(* (scripts/enable-ftp.sh, install.sh, configure-https.sh), while the web  *)
(* application goes on changing FTP accounts.  Each copies what it is      *)
(* about to replace, replaces it, has the result tested and puts the copy  *)
(* back when the test refuses it; enable-ftp.sh does so for any command    *)
(* that fails.  The user database of the accounts lies in one of the       *)
(* directories that are copied and put back.                               *)
(***************************************************************************)
EXTENDS FtpAccounts, Sequences

CONSTANT
    Room    \* bound: the accounts there may be besides no script, one, two ...

ASSUME SetupAssumption == Room \in Seq(Nat)

VARIABLES
    files,      \* what the scripts replace
    ftpd,       \* pure-ftpd.service runs
    importerTimer,  \* which of "enabled", "active" it is
    linked,     \* the sites among nginx's enabled ones
    served,     \* the sites nginx runs with: site -> contents or "off"
    script,     \* the script under way and where it is
    kept,       \* its copies: item -> value
    logins,     \* the user database in the copy of "pure"
    touched,    \* history: usernames dealt with since that copy
    reverted,   \* history: those whose login a copy replaced, or whose file is gone
    before,     \* history: the machine when the script began
    outcome,    \* how the last script ended
    scripts     \* scripts so far

setup == <<files, ftpd, importerTimer, linked, served, script, kept, logins, touched, reverted, before, outcome, scripts>>

(***************************************************************************)
(* /etc/pure-ftpd (its configuration: the user database is login), the     *)
(* sudoers file, the helper, the importer's units, the setting             *)
(* ftp_enabled; and nginx's sites: install.sh's ("site", whose file ends   *)
(* in .conf) and configure-https.sh's ("https").  "mixed" is a new         *)
(* configuration with the files of the old one copied over it, "bad" a     *)
(* site nginx -t refuses.                                                  *)
(***************************************************************************)
Items == <<"pure", "sudoers", "helper", "units", "setting">>
Sites == {"site", "https"}
Files == {Items[i] : i \in DOMAIN Items} \cup Sites

SiteOf(kind) == IF kind = "https" THEN "https" ELSE "site"

\* nginx -t accepts what is linked; a link to a file that is not there is refused.
Loads(fs, links) == \A s \in links : fs[s] \in {"old", "good"}

\* What nginx serves once it has loaded that.
Disk(fs, links) == [s \in Sites |-> IF s \in links THEN fs[s] ELSE "off"]

\* nginx serves what lies on the disk, and would load it.
Sure(fs) == Loads(fs, linked) /\ served = Disk(fs, linked)

Machine(kind) ==
    [files |-> files, ftpd |-> ftpd, timer |-> importerTimer, linked |-> linked, sure |-> Sure(files), by |-> kind]
NoMachine ==
    [files |-> [f \in Files |-> "absent"], ftpd |-> FALSE, timer |-> {}, linked |-> {}, sure |-> FALSE, by |-> "none"]

Quiet == [kind |-> "none", step |-> "none"]

With(f, v) == [files EXCEPT ![f] = v]
WithAll(fs, v) == [f \in Files |-> IF f \in fs THEN v ELSE files[f]]

\* A machine with everything, certificate or not, or with the bare application and
\* Pure-FTPd's package.
SetupInit ==
    /\ FtpInit
    /\ \E all \in BOOLEAN, https \in BOOLEAN :
         /\ files = [f \in Files |->
                IF (all /\ (f # "https" \/ https)) \/ f = "pure" THEN "old" ELSE "absent"]
         /\ ftpd = all /\ importerTimer = (IF all THEN {"enabled", "active"} ELSE {})
    /\ linked = {s \in Sites : files[s] # "absent"} /\ served = Disk(files, linked)
    /\ script = Quiet
    /\ kept = <<>> /\ logins = <<>> /\ touched = {} /\ reverted = {}
    /\ before = NoMachine /\ outcome = "none" /\ scripts = 0

Is(kind, step) == script = [kind |-> kind, step |-> step]
GoTo(step) == script' = [script EXCEPT !.step = step]
Untouched == UNCHANGED <<touched, before, outcome, scripts>>
NoAccounts == UNCHANGED <<ftpVars, reverted>>
Nginx == <<linked, served>>

\* The script is over; its copies are not looked at again.
Over(how) ==
    /\ script' = Quiet /\ kept' = <<>> /\ logins' = <<>>
    /\ touched' = {} /\ outcome' = how
    /\ UNCHANGED scripts
    /\ before' = IF how \in {"undone", "refused"} THEN before ELSE NoMachine

Fits(accounts, n) == n < Len(Room) /\ accounts <= Room[n + 1]


Start(kind, step) ==
    /\ script = Quiet /\ Fits(last, scripts + 1)
    /\ script' = [kind |-> kind, step |-> step]
    /\ before' = Machine(kind) /\ outcome' = "none" /\ scripts' = scripts + 1
    /\ UNCHANGED <<files, ftpd, importerTimer, linked, served, kept, logins, touched>>
    /\ NoAccounts

\* The user database the copy holds replaces the present one.
LoginBack(copy, lost) ==
    /\ login' = copy
    /\ reverted' = reverted \cup lost
    /\ UNCHANGED <<rows, last, push, gone, req, failures, clouded>>

(***************************************************************************)
(* enable-ftp.sh                                                           *)
(***************************************************************************)
StartEnable == Start("enable", "save")

NextCopy == Items[Cardinality(DOMAIN kept) + 1]

\* backup_one, item after item, into a directory of this run.
Save ==
    /\ Is("enable", "save")
    /\ kept' = Put(kept, NextCopy, files[NextCopy])
    /\ IF NextCopy = "pure" THEN logins' = login /\ touched' = {} ELSE UNCHANGED <<logins, touched>>
    /\ GoTo(IF NextCopy = "setting" THEN "configure" ELSE "save")
    /\ UNCHANGED <<files, ftpd, importerTimer, before, outcome, scripts>>
    /\ UNCHANGED Nginx /\ NoAccounts

\* write_conf; an existing user database is never made anew.
Configure ==
    /\ Is("enable", "configure")
    /\ files' = With("pure", "new")
    /\ GoTo("tools")
    /\ UNCHANGED <<ftpd, importerTimer, kept, logins>>
    /\ UNCHANGED Nginx /\ NoAccounts /\ Untouched

PutTools ==
    /\ Is("enable", "tools")
    /\ files' = WithAll({"sudoers", "helper", "units"}, "new")
    /\ GoTo("check")
    /\ UNCHANGED <<ftpd, importerTimer, kept, logins>>
    /\ UNCHANGED Nginx /\ NoAccounts /\ Untouched

\* Nothing is restarted before visudo, the wrapper and the compiler accept it.
Check ==
    /\ Is("enable", "check")
    /\ \E ok \in BOOLEAN : GoTo(IF ok THEN "switch" ELSE "rollback")
    /\ UNCHANGED <<files, ftpd, importerTimer, kept, logins>>
    /\ UNCHANGED Nginx /\ NoAccounts /\ Untouched

SwitchOn ==
    /\ Is("enable", "switch")
    /\ files' = With("setting", "new")
    /\ GoTo("restart")
    /\ UNCHANGED <<ftpd, importerTimer, kept, logins>>
    /\ UNCHANGED Nginx /\ NoAccounts /\ Untouched

RestartFtp ==
    /\ Is("enable", "restart")
    /\ importerTimer' = importerTimer \cup {"enabled"}
    /\ \E ok \in BOOLEAN : ftpd' = ok /\ GoTo(IF ok THEN "timer" ELSE "rollback")
    /\ UNCHANGED <<files, kept, logins>>
    /\ UNCHANGED Nginx /\ NoAccounts /\ Untouched

RestartTimer ==
    /\ Is("enable", "timer")
    /\ importerTimer' = importerTimer \cup {"active"}
    /\ Over("done")
    /\ UNCHANGED <<files, ftpd>>
    /\ UNCHANGED Nginx /\ NoAccounts

\* A command fails or a signal comes: the trap runs rollback.
Trap ==
    /\ script.kind = "enable" /\ script.step \notin {"rollback", "restore", "resume"}
    /\ failures < MaxFailures
    /\ failures' = failures + 1
    /\ GoTo("rollback")
    /\ UNCHANGED <<rows, last, push, gone, login, req, clouded, reverted>>
    /\ UNCHANGED <<files, ftpd, importerTimer, kept, logins>>
    /\ UNCHANGED Nginx /\ Untouched

\* Every item is still to be put back.
Rollback ==
    /\ Is("enable", "rollback")
    /\ ftpd' = FALSE
    /\ GoTo("restore")
    /\ UNCHANGED <<files, importerTimer, kept, logins>>
    /\ UNCHANGED Nginx /\ NoAccounts /\ Untouched

\* Mutant: an item that was absent is left as the script has made it.
CopyOrPresent(f) == IF f \in DOMAIN kept /\ kept[f] # "absent" THEN kept[f] ELSE files[f]

\* restore_one removes an item of which it finds no copy; the setting is left
\* as it is then.
CopyOf(f) ==
    CASE f \in DOMAIN kept -> kept[f]
      [] f \notin DOMAIN kept /\ f = "setting" -> files[f]
      [] OTHER -> "absent"

Restore ==
    /\ Is("enable", "restore")
    /\ files' = [f \in Files |-> IF f \in Sites THEN files[f] ELSE CopyOf(f)]
    /\ IF "pure" \in DOMAIN kept THEN LoginBack(logins, touched) ELSE LoginBack(<<>>, Usernames)
    /\ GoTo("resume")
    /\ UNCHANGED <<ftpd, importerTimer, kept, logins>>
    /\ UNCHANGED Nginx /\ Untouched

Resume ==
    /\ Is("enable", "resume")
    /\ ftpd' \in IF before.ftpd THEN BOOLEAN ELSE {FALSE}
    /\ importerTimer' = (importerTimer \ {"enabled"}) \cup before.timer
    /\ Over(IF "setting" \in DOMAIN kept THEN "undone" ELSE "cut")
    /\ UNCHANGED files
    /\ UNCHANGED Nginx /\ NoAccounts

Enable ==
    \/ StartEnable \/ Save \/ Configure \/ PutTools \/ Check \/ SwitchOn \/ RestartFtp \/ RestartTimer
    \/ Trap \/ Rollback \/ Restore \/ Resume

(***************************************************************************)
(* install.sh, on a machine that may have an installation already: Pure-   *)
(* FTPd if it is asked for, then nginx.  Whatever fails without being      *)
(* handled ends the script where it is.                                    *)
(***************************************************************************)
StartInstall == \E ftp \in BOOLEAN : Start("install", IF ftp THEN "stop" ELSE "units")

StopFtp ==
    /\ Is("install", "stop")
    /\ ftpd' = FALSE
    /\ kept' = Put(<<>>, "pure", files["pure"]) /\ logins' = login /\ touched' = {}
    /\ GoTo("configure")
    /\ UNCHANGED <<files, importerTimer, before, outcome, scripts>>
    /\ UNCHANGED Nginx /\ NoAccounts

InstallConf ==
    /\ Is("install", "configure")
    /\ files' = With("pure", "new")
    /\ GoTo("tools")
    /\ UNCHANGED <<ftpd, importerTimer, kept, logins>>
    /\ UNCHANGED Nginx /\ NoAccounts /\ Untouched

\* visudo refuses the sudoers file: it goes, the copy of /etc/pure-ftpd is laid
\* over the new one, and the server stays stopped.
InstallTools ==
    /\ Is("install", "tools")
    /\ \/ /\ files' = WithAll({"sudoers", "helper"}, "new")
          /\ GoTo("setting")
          /\ UNCHANGED <<kept, logins>> /\ NoAccounts /\ Untouched
       \/ /\ files' = [With("helper", "new") EXCEPT !["sudoers"] = "absent", !["pure"] = "mixed"]
          /\ LoginBack(logins, touched)
          /\ Over("refused")
    /\ UNCHANGED <<ftpd, importerTimer>>
    /\ UNCHANGED Nginx

InstallSetting ==
    /\ Is("install", "setting")
    /\ files' = With("setting", "new")
    /\ GoTo("start")
    /\ UNCHANGED <<ftpd, importerTimer, kept, logins>>
    /\ UNCHANGED Nginx /\ NoAccounts /\ Untouched

\* Pure-FTPd does not start: the copy is laid over, and it is started again; the
\* setting stays on.
InstallStart ==
    /\ Is("install", "start")
    /\ \/ /\ ftpd' = TRUE /\ GoTo("units")
          /\ UNCHANGED <<files, kept, logins>> /\ NoAccounts /\ Untouched
       \/ /\ ftpd' \in BOOLEAN
          /\ files' = With("pure", "mixed")
          /\ LoginBack(logins, touched)
          /\ Over("refused")
    /\ UNCHANGED importerTimer
    /\ UNCHANGED Nginx

InstallUnits ==
    /\ Is("install", "units")
    /\ files' = With("units", "new")
    /\ GoTo("render")
    /\ UNCHANGED <<ftpd, importerTimer, kept, logins>>
    /\ UNCHANGED Nginx /\ NoAccounts /\ Untouched

\* The site is rendered; it is refused if another one has its name or is the
\* default of its port too.
RenderSite ==
    /\ Is("install", "render")
    /\ \/ GoTo("put") /\ UNCHANGED <<kept, logins>> /\ Untouched
       \/ Over("refused")
    /\ UNCHANGED <<files, ftpd, importerTimer>>
    /\ UNCHANGED Nginx /\ NoAccounts

\* The site is copied if there is one, and replaced; the new one may be one nginx -t
\* refuses.
PutSite(site, step) ==
    /\ kept' = Put(kept, site, files[site])
    /\ \E v \in {"good", "bad"} : files' = With(site, v)
    /\ GoTo(step)
    /\ UNCHANGED <<ftpd, importerTimer, logins>>
    /\ NoAccounts /\ Untouched

\* backup_and_install_nginx_config
InstallSite == Is("install", "put") /\ PutSite("site", "link") /\ UNCHANGED Nginx

\* Mutant: the refused site stays.
SiteStays(site) == files

\* restore_nginx_config: without a copy the new file is removed, its link is not.
SiteBack(site) == With(site, kept[site])

\* The distribution's site is removed, this one enabled and nginx -t run.
LinkSite ==
    /\ Is("install", "link")
    /\ linked' = linked \cup {"site"}
    /\ \/ /\ Loads(files, linked')
          /\ GoTo("services")
          /\ UNCHANGED <<files, kept, logins>> /\ Untouched
       \/ /\ ~Loads(files, linked')
          /\ files' = SiteBack("site")
          /\ Over("refused")
    /\ UNCHANGED <<ftpd, importerTimer, served>> /\ NoAccounts

\* The importer's timer starts only if FTP was asked for; nginx only if it did
\* not run: with none of these sites it may or may not.
StartUnits ==
    /\ Is("install", "services")
    /\ importerTimer' = IF "pure" \in DOMAIN kept THEN {"enabled", "active"} ELSE importerTimer
    /\ \/ served' = served
       \/ served = Disk(files, {}) /\ served' = Disk(files, linked)
    /\ GoTo("reload")
    /\ UNCHANGED <<files, ftpd, linked, kept, logins>>
    /\ NoAccounts /\ Untouched

\* reload_and_validate_nginx: the reload fails, or the certificate served is
\* not the expected one; the old site returns, and is loaded if nginx -t accepts it.
Reload ==
    /\ Is("install", "reload")
    /\ \/ /\ Loads(files, linked) /\ served' = Disk(files, linked)
          /\ Over("done") /\ UNCHANGED files
       \/ /\ files' = SiteBack("site")
          /\ IF Loads(files', linked) THEN served' = Disk(files', linked)
             ELSE served' = served \/ (Loads(files, linked) /\ served' = Disk(files, linked))
          /\ Over("refused")
    /\ UNCHANGED <<ftpd, importerTimer, linked>> /\ NoAccounts

Install ==
    \/ StartInstall \/ StopFtp \/ InstallConf \/ InstallTools \/ InstallSetting \/ InstallStart
    \/ InstallUnits \/ RenderSite \/ InstallSite \/ LinkSite \/ StartUnits \/ Reload

(***************************************************************************)
(* configure-https.sh                                                      *)
(***************************************************************************)
StartHttps == Start("https", "issue")

\* certbot; without a certificate nothing is changed.
Issue ==
    /\ Is("https", "issue")
    /\ \/ GoTo("put") /\ UNCHANGED <<kept, logins>> /\ Untouched
       \/ Over("refused")
    /\ UNCHANGED <<files, ftpd, importerTimer>>
    /\ UNCHANGED Nginx /\ NoAccounts

HttpsSite ==
    /\ Is("https", "put") /\ PutSite("https", "test")
    /\ linked' = linked \cup {"https"} /\ UNCHANGED served

\* A refused site without a predecessor of its own name stays where it is, linked.
TestHttps ==
    /\ Is("https", "test")
    /\ \/ /\ Loads(files, linked)
          /\ GoTo("reload")
          /\ UNCHANGED <<files, kept, logins>> /\ Untouched
       \/ /\ ~Loads(files, linked)
          /\ files' = IF kept["https"] = "absent" THEN files ELSE SiteBack("https")
          /\ Over("refused")
    /\ UNCHANGED <<ftpd, importerTimer>>
    /\ UNCHANGED Nginx /\ NoAccounts

ReloadHttps ==
    /\ Is("https", "reload")
    /\ served' = Disk(files, linked)
    /\ Over("done")
    /\ UNCHANGED <<files, ftpd, importerTimer, linked>> /\ NoAccounts

\* A renewal's deploy hook reloads whatever lies on the disk, if it loads.
Renew ==
    /\ script = Quiet /\ Fits(last, scripts + 1)
    /\ scripts' = scripts + 1
    /\ served' = IF Loads(files, linked) THEN Disk(files, linked) ELSE served
    /\ UNCHANGED <<files, ftpd, importerTimer, linked, script, kept, logins, touched, before, outcome>>
    /\ NoAccounts

Https == StartHttps \/ Issue \/ HttpsSite \/ TestHttps \/ ReloadHttps \/ Renew

(***************************************************************************)
(* A script ends in the middle: killed, or a command nothing handles       *)
(* failed.  Between removing an item and copying it back, the item is gone.*)
(***************************************************************************)
Cut ==
    /\ script # Quiet /\ failures < MaxFailures
    /\ Over("cut")
    /\ failures' = failures + 1
    /\ \/ UNCHANGED <<files, login, reverted>>
       \/ /\ Is("enable", "restore")
          /\ files' = With("pure", "absent")
          /\ login' = <<>> /\ reverted' = Usernames
    /\ UNCHANGED <<ftpd, importerTimer, rows, last, push, gone, req, clouded>>
    /\ UNCHANGED Nginx

(***************************************************************************)
(* The web application meanwhile                                           *)
(***************************************************************************)
\* There is a helper, and what it is to write there is room for.
HelperWorks ==
    /\ files["helper"] # "absent"
    /\ Wants(req.op, req.acct) = "remove" \/ files["pure"] # "absent"

HelperMissing ==
    /\ At(Served, {"call"}) /\ ~HelperWorks
    /\ Answer(FALSE, FALSE)
    /\ UNCHANGED <<rows, last, push, gone, login, failures, clouded>>

\* A helper that acts brings its username up to date again.
Web ==
    /\ \/ HelperActs /\ HelperWorks /\ reverted' = reverted \ {req.user}
       \/ HelperHalfway /\ HelperWorks /\ UNCHANGED reverted
       \/ (Begins \/ HelperMissing \/ Step) /\ UNCHANGED reverted
    /\ Fits(last', scripts)
    /\ touched' = IF "pure" \in DOMAIN kept
                  THEN touched \cup ({q.user : q \in {r \in {req, req'} : r # Idle}} \cap Usernames)
                  ELSE touched
    /\ UNCHANGED <<files, ftpd, importerTimer, linked, served, script, kept, logins, before, outcome, scripts>>

SetupSpec ==
    SetupInit /\ [][Web \/ Enable \/ Install \/ Https \/ Cut]_<<ftpVars, setup>>

(***************************************************************************)
(* Properties                                                              *)
(***************************************************************************)
\* The server and the live rows agree on every username, however the scripts'
\* copies and the web application's requests interleave, but for the logins changed
\* while a script's copy was waiting to be put back.
ServersAgree == \A u \in Usernames \ (clouded \cup reverted) : ~Touches(u) => AgreesOn(u)

\* enable-ftp.sh: a rollback that runs to its end, begun when every copy had been
\* made, leaves every item and the timer's enablement as they were, present or
\* absent.
RollbackRestores ==
    outcome = "undone" =>
        /\ \A i \in DOMAIN Items : files[Items[i]] = before.files[Items[i]]
        /\ ("enabled" \in importerTimer) = ("enabled" \in before.timer)

\* install.sh, configure-https.sh: a script that refuses what it was to install over a
\* site of its own leaves nginx, if it served what lay on its disk, serving what lies
\* there now, all of which loads: a restart of nginx changes nothing, whatever lies
\* linked beside it.  (Without a site of its own the script has no copy to put back.)
SiteReturns ==
    outcome = "refused" /\ before.sure /\ SiteOf(before.by) \in before.linked => Sure(files)

\* docs/SETTINGS.md:39 and the message of configure-https.sh:83: a refusal restores
\* the previous configuration.  Not so after an ordinary install.
RefusalRestores ==
    outcome = "refused" /\ before.sure /\ before.by = "https" => Sure(files)
=============================================================================
