-------------------------------- MODULE Schema --------------------------------
(***************************************************************************)
(* The database file as those who replace or rebuild it see it: migrate    *)
(* (backup_manager/db.py), run by a deployment (scripts/deploy-update.sh,  *)
(* which stops everything first) or by an installation or the command line *)
(* (which stop nothing), and the guard (scripts/database-guard.py), which  *)
(* copies a healthy database every hour and replaces a corrupt one.        *)
(*                                                                         *)
(* live is the file at DB_PATH.  When the guard moves it aside, who has it *)
(* open goes on writing to what is evidence by then.                       *)
(***************************************************************************)
EXTENDS Naturals, FiniteSets, SequencesExt

CONSTANTS
  Migrators,     \* processes that run migrate
  Deployers,     \* those that are deployments
  Starters,      \* those that start the services afterwards: deployments, installations
  Release,       \* the version migrations/manifest.json fixes
  Rebuilding,    \* migrations that check foreign keys only after their COMMIT
  Keep,          \* automatic backups the guard keeps
  MaxFaults,     \* bound: corruptions, killed guards, rebuilds that lose a reference
  NoOne

ASSUME SchemaAssumption ==
  /\ Deployers \subseteq Starters /\ Starters \subseteq Migrators
  /\ Release \in Nat \ {0} /\ Rebuilding \subseteq 1..Release
  /\ Keep \in Nat \ {0} /\ MaxFaults \in Nat
  /\ NoOne \notin Migrators

VARIABLES
  live,          \* the file at DB_PATH
  auto,          \* the guard's backups, the newest last
  saved,         \* versions of the pre-migration and deployment backups, never
                 \* removed, that are whole and hold what the system has stored
  lock,          \* who holds the migration lock
  pc, pending,   \* where each migrator is, the versions it found missing
  conn,          \* the file it has open: none, the live one, one moved aside
  gpc, sel,      \* where the guard is, the backup it restores
  evidence,      \* the file it has moved aside, until it is done
  services,      \* the web application and the workers' timers are running
  timer,         \* so is the guard's
  faults,
  died,          \* history: where the guard was when it was killed
  swapped        \* history: the guard replaced the file under a running migrate

vars == <<live, auto, saved, lock, pc, pending, conn, gpc, sel, evidence, services, timer, faults,
          died, swapped>>

Versions == 1..Release

\* data: what the system has stored is in it; sound: integrity_check accepts it;
\* tied: foreign_key_check does; seeded: it has the roles, the administrator and
\* the settings a new database gets.
Content == [exists : BOOLEAN, versions : SUBSET Versions, seeded : BOOLEAN, data : BOOLEAN,
            sound : BOOLEAN, tied : BOOLEAN]
NoFile == [exists |-> FALSE, versions |-> {}, seeded |-> FALSE, data |-> FALSE, sound |-> FALSE, tied |-> FALSE]

\* Of no bytes, or with the table of the migrations and nothing in it.
EmptyFile == [NoFile EXCEPT !.exists = TRUE, !.sound = TRUE, !.tied = TRUE]

IsBeginning(vs) == \E n \in 0..Release : vs = 1..n

\* check_schema_version, require_schema_current
Current(c) == c.exists /\ c.versions = Versions

\* valid: an empty file is a healthy database too.
Valid(c) == c.exists /\ c.sound /\ c.tied

-----------------------------------------------------------------------------
\* The database of some release that the guard has copied, perhaps corrupt since.
Init ==
  /\ \E n \in Versions :
       LET db == [exists |-> TRUE, versions |-> 1..n, seeded |-> TRUE, data |-> TRUE, sound |-> TRUE, tied |-> TRUE] IN
         live \in {db, [db EXCEPT !.sound = FALSE], [db EXCEPT !.tied = FALSE]} /\ auto = <<db>>
  /\ saved = {}
  /\ lock = NoOne
  /\ pc = [p \in Migrators |-> "idle"]
  /\ pending = [p \in Migrators |-> {}]
  /\ conn = [p \in Migrators |-> "none"]
  /\ gpc = "idle" /\ sel = NoFile /\ evidence = NoFile
  /\ services = TRUE /\ timer = TRUE
  /\ faults = 0 /\ died = {} /\ swapped = FALSE

Goto(p, l) == pc' = [pc EXCEPT ![p] = l]
Guard == <<gpc, sel, evidence, auto>>
World == <<services, timer, faults, died, swapped>>

\* The process ends: its connection closes, its lock goes.
Stop(p) ==
  /\ Goto(p, "idle")
  /\ conn' = [conn EXCEPT ![p] = "none"]
  /\ pending' = [pending EXCEPT ![p] = {}]
  /\ lock' = IF lock = p THEN NoOne ELSE lock

\* Connecting creates the file.
Opened == IF live.exists THEN live ELSE EmptyFile

\* The backup of c, as far as it can be used.
Usable(c) == IF c.data /\ c.sound THEN {c.versions} ELSE {}

-----------------------------------------------------------------------------
(* A deployment up to its migration                                        *)

\* run_integrity_check opens the database; a corrupt one ends the deployment.
Begin(p) ==
  /\ pc[p] = "idle"
  /\ IF p \in Deployers
     THEN /\ live' = Opened
          /\ IF Opened.sound THEN Goto(p, "quiesce") ELSE UNCHANGED pc
     ELSE Goto(p, "lock") /\ UNCHANGED live
  /\ UNCHANGED <<saved, lock, pending, conn>>
  /\ UNCHANGED Guard /\ UNCHANGED World

\* quiesce_runtime stops the guard as well, wherever it is.
Quiesce(p) ==
  /\ pc[p] = "quiesce"
  /\ services' = FALSE /\ timer' = FALSE
  /\ gpc' = "idle" /\ evidence' = NoFile
  /\ died' = died \cup {gpc}
  /\ Goto(p, "copy")
  /\ UNCHANGED <<live, auto, sel, saved, lock, pending, conn, faults, swapped>>

\* backup_sqlite; the copy of a corrupt database, if there is one, is of no use.
CopyDatabase(p) ==
  /\ pc[p] = "copy"
  /\ saved' = saved \cup Usable(live)
  /\ Goto(p, "lock")
  /\ UNCHANGED <<live, lock, pending, conn>>
  /\ UNCHANGED Guard /\ UNCHANGED World

-----------------------------------------------------------------------------
(* migrate                                                                 *)

Lock(p) ==
  /\ pc[p] = "lock"
  /\ lock = NoOne
  /\ lock' = p
  /\ Goto(p, "examine")
  /\ UNCHANGED <<live, saved, pending, conn>>
  /\ UNCHANGED Guard /\ UNCHANGED World

\* The migrations of the target that are not recorded.
Missing(vs) == Versions \ vs

\* Under the lock: what is recorded must be a beginning of the manifest; nothing
\* to do is a success once the file is verified; a file that is to be changed and
\* has any bytes is copied first.
Examine(p) ==
  /\ pc[p] = "examine"
  /\ LET todo == Missing(live.versions) IN
     \/ ~IsBeginning(live.versions) /\ Stop(p)
     \/ IsBeginning(live.versions) /\ todo = {} /\ live.seeded /\ ~Valid(live) /\ Stop(p)
     \/ /\ IsBeginning(live.versions) /\ todo = {} /\ live.seeded /\ Valid(live)
        /\ Goto(p, "done") /\ UNCHANGED <<lock, pending, conn>>
     \/ /\ IsBeginning(live.versions) /\ (todo # {} \/ ~live.seeded)
        /\ pending' = [pending EXCEPT ![p] = todo]
        /\ \/ (todo = {} \/ live.versions = {}) /\ Goto(p, "open")
           \/ todo # {} /\ live.exists /\ Goto(p, "backup")
        /\ UNCHANGED <<lock, conn>>
  /\ UNCHANGED <<live, saved>>
  /\ UNCHANGED Guard /\ UNCHANGED World

\* _sqlite_backup keeps a copy only if integrity_check accepts it.
Verified(c) == c.exists /\ c.sound

BackUp(p) ==
  /\ pc[p] = "backup"
  /\ IF Verified(live)
     THEN saved' = saved \cup Usable(live) /\ Goto(p, "open") /\ UNCHANGED <<lock, pending, conn>>
     ELSE Stop(p) /\ UNCHANGED saved
  /\ UNCHANGED live
  /\ UNCHANGED Guard /\ UNCHANGED World

Open(p) ==
  /\ pc[p] = "open"
  /\ live' = Opened
  /\ conn' = [conn EXCEPT ![p] = "live"]
  /\ Goto(p, "apply")
  /\ UNCHANGED <<saved, lock, pending>>
  /\ UNCHANGED Guard /\ UNCHANGED World

Least(vs) == CHOOSE v \in vs : \A w \in vs : v <= w

\* Migration v and its record, in one transaction, in the file that is open: one
\* that was moved aside may be the guard's evidence.
Migrated(c, v) == [c EXCEPT !.versions = @ \cup {v}]

Record(p, v) ==
  /\ conn[p] = "live" => v \notin live.versions
  /\ evidence' \in {evidence} \cup (IF conn[p] = "old" /\ evidence.exists THEN {Migrated(evidence, v)} ELSE {})

\* A rebuild goes on only if every reference in the file has its row.
Apply(p) ==
  /\ pc[p] = "apply" /\ pending[p] # {}
  /\ LET v == Least(pending[p]) IN
       /\ conn[p] = "live" /\ v \in Rebuilding => live.tied
       /\ Record(p, v)
       /\ live' = IF conn[p] = "live" THEN Migrated(live, v) ELSE live
       /\ pending' = [pending EXCEPT ![p] = @ \ {v}]
  /\ UNCHANGED <<saved, lock, pc, conn, auto, gpc, sel>>
  /\ UNCHANGED World

Fault == faults < MaxFaults /\ faults' = faults + 1

\* A rebuild finds after its COMMIT that a reference has lost its row, now or
\* before: migrate ends, what it has committed stays.
LosesReference(p) ==
  /\ pc[p] = "apply" /\ pending[p] # {}
  /\ LET v == Least(pending[p]) IN
       /\ v \in Rebuilding
       /\ Record(p, v)
       /\ live' = IF conn[p] = "live" THEN [Migrated(live, v) EXCEPT !.tied = FALSE] ELSE live
  /\ IF conn[p] = "live" /\ live.tied THEN Fault ELSE UNCHANGED faults
  /\ Stop(p)
  /\ UNCHANGED <<saved, auto, gpc, sel, services, timer, died, swapped>>

\* seed_defaults, the final checks, the commit of the seeds; in a file moved
\* aside they find what they find.
Seal(p) ==
  /\ pc[p] = "apply" /\ pending[p] = {}
  /\ \/ /\ conn[p] = "live" => Valid(live) /\ Current(live)
        /\ live' = IF conn[p] = "live" THEN [live EXCEPT !.seeded = TRUE] ELSE live
        /\ Goto(p, "done") /\ conn' = [conn EXCEPT ![p] = "none"]
        /\ UNCHANGED <<lock, pending>>
     \/ /\ conn[p] = "live" => ~(Valid(live) /\ Current(live))
        /\ Stop(p) /\ UNCHANGED live
  /\ UNCHANGED saved
  /\ UNCHANGED Guard /\ UNCHANGED World

\* The lock is given back; who starts services checks the schema, then starts
\* them.
Finish(p) ==
  /\ pc[p] = "done"
  /\ IF p \in Starters /\ Current(live)
     THEN Goto(p, "restart") /\ lock' = NoOne /\ UNCHANGED <<pending, conn>>
     ELSE Stop(p)
  /\ UNCHANGED <<live, saved>>
  /\ UNCHANGED Guard /\ UNCHANGED World

Restart(p) ==
  /\ pc[p] = "restart"
  /\ services' = TRUE /\ timer' = TRUE
  /\ Stop(p)
  /\ UNCHANGED <<live, saved, faults, died, swapped>>
  /\ UNCHANGED Guard

\* Mutant: a migration that fails is passed over.
PassOver(p) ==
  /\ pc[p] = "apply" /\ pending[p] # {}
  /\ pending' = [pending EXCEPT ![p] = @ \ {Least(@)}]
  /\ UNCHANGED <<live, saved, lock, pc, conn>>
  /\ UNCHANGED Guard /\ UNCHANGED World

\* The process fails where it is: a lock it waited ten seconds for, a migration
\* that is refused, a step of the deployment, a kill.  Nothing uncommitted stays.
Fail(p) ==
  /\ pc[p] # "idle"
  /\ Stop(p)
  /\ UNCHANGED <<live, saved>>
  /\ UNCHANGED Guard /\ UNCHANGED World

-----------------------------------------------------------------------------
(* The guard                                                               *)

Trim(s) == SubSeq(s, IF Len(s) > Keep THEN Len(s) - Keep + 1 ELSE 1, Len(s))

\* Mutant: whatever opens is copied.
Copied(c) == c.exists

Healthy(c) == Valid(c)

\* recover: a healthy database is copied, another one is to be replaced.
Look ==
  /\ gpc = "idle" /\ timer
  /\ \/ /\ Healthy(live)
        /\ auto' = Trim(Append(auto, live))
        /\ UNCHANGED <<gpc, sel, services>>
     \/ /\ ~Healthy(live) /\ auto # <<>>
        /\ sel' = Last(auto)
        /\ services' = FALSE
        /\ gpc' = "stopped"
        /\ UNCHANGED auto
  /\ UNCHANGED <<live, evidence, saved, lock, pc, pending, conn, timer, faults, died, swapped>>

Migrating == \E p \in Migrators : pc[p] \in {"backup", "open", "apply", "done"}

\* Mutant: nothing is put back.
MoveAsideOnly ==
  /\ gpc = "stopped"
  /\ live' = NoFile
  /\ gpc' = "copied"
  /\ UNCHANGED <<auto, sel, evidence, saved, lock, pc, pending, conn, services, timer, faults, died, swapped>>

\* os.replace; without a file it raises, and what was stopped stays stopped.
MoveAside ==
  /\ gpc = "stopped"
  /\ IF live.exists
     THEN /\ live' = NoFile /\ evidence' = live
          /\ conn' = [p \in Migrators |-> IF conn[p] = "live" THEN "old" ELSE conn[p]]
          /\ swapped' = (swapped \/ Migrating)
          /\ gpc' = "replaced"
     ELSE gpc' = "idle" /\ UNCHANGED <<live, conn, swapped, evidence>>
  /\ UNCHANGED <<auto, sel, saved, lock, pc, pending, services, timer, faults, died>>

\* The copy, which sqlite makes in one transaction, into the file that may have
\* been created meanwhile.
PutBack ==
  /\ gpc = "replaced"
  /\ live' = sel
  /\ swapped' = (swapped \/ Migrating)
  /\ gpc' = "copied"
  /\ UNCHANGED <<auto, sel, evidence, saved, lock, pc, pending, conn, services, timer, faults, died>>

\* Mutant: what was stopped stays stopped.
StartNothing ==
  /\ gpc = "copied" /\ Valid(live)
  /\ gpc' = "idle" /\ sel' = NoFile /\ evidence' = NoFile
  /\ UNCHANGED <<live, auto, saved, lock, pc, pending, conn, services, timer, faults, died, swapped>>

StartServices ==
  /\ gpc = "copied" /\ Valid(live)
  /\ services' = TRUE
  /\ gpc' = "idle" /\ sel' = NoFile /\ evidence' = NoFile
  /\ UNCHANGED <<live, auto, saved, lock, pc, pending, conn, timer, faults, died, swapped>>

\* RECOVERY_RESTORE_INVALID: what was put back is invalid by now, so what was moved
\* aside comes back, with who has it open, and what was stopped stays stopped.
RestoreInvalid ==
  /\ gpc = "copied" /\ ~Valid(live)
  /\ live' = evidence
  /\ \E back \in SUBSET {p \in Migrators : conn[p] = "old"} :
       conn' = [p \in Migrators |-> IF p \in back THEN "live" ELSE IF conn[p] = "none" THEN "none" ELSE "old"]
  /\ swapped' = (swapped \/ Migrating)
  /\ gpc' = "idle" /\ sel' = NoFile /\ evidence' = NoFile
  /\ UNCHANGED <<auto, saved, lock, pc, pending, services, timer, faults, died>>

\* The guard is killed; its copy is rolled back to an empty file.
GuardDies ==
  /\ gpc # "idle" /\ Fault
  /\ gpc' = "idle" /\ sel' = NoFile /\ evidence' = NoFile
  /\ live' \in IF gpc = "replaced" THEN {live, Opened} ELSE {live}
  /\ died' = died \cup {gpc}
  /\ UNCHANGED <<auto, saved, lock, pc, pending, conn, services, timer, swapped>>

Corrupt ==
  /\ Valid(live) /\ Fault
  /\ live' \in {[live EXCEPT !.sound = FALSE], [live EXCEPT !.tied = FALSE]}
  /\ UNCHANGED <<auto, saved, lock, pc, pending, conn, gpc, sel, evidence, services, timer, died, swapped>>

-----------------------------------------------------------------------------
Migrate(p) ==
  \/ Begin(p) \/ Quiesce(p) \/ CopyDatabase(p) \/ Lock(p) \/ Examine(p) \/ BackUp(p) \/ Open(p)
  \/ Apply(p) \/ LosesReference(p) \/ Seal(p) \/ Finish(p) \/ Restart(p)

Recover == Look \/ MoveAside \/ PutBack \/ StartServices \/ RestoreInvalid

Next ==
  \/ \E p \in Migrators : Migrate(p) \/ Fail(p)
  \/ Recover
  \/ GuardDies
  \/ Corrupt

Spec == Init /\ [][Next]_vars

\* The guard's timer fires every hour, and its run goes on.
LiveSpec == Spec /\ WF_vars(Recover)

-----------------------------------------------------------------------------
(* Properties                                                              *)

TypeOK ==
  /\ live \in Content /\ sel \in Content /\ evidence \in Content
  /\ auto \in Seq(Content) /\ Len(auto) <= Keep
  /\ saved \subseteq SUBSET Versions
  /\ lock \in Migrators \cup {NoOne}
  /\ pc \in [Migrators -> {"idle", "quiesce", "copy", "lock", "examine", "backup", "open", "apply", "done", "restart"}]
  /\ pending \in [Migrators -> SUBSET Versions]
  /\ conn \in [Migrators -> {"none", "live", "old"}]
  /\ gpc \in {"idle", "stopped", "replaced", "copied"}
  /\ services \in BOOLEAN /\ timer \in BOOLEAN /\ died \subseteq {"idle", "stopped", "replaced", "copied"} /\ swapped \in BOOLEAN
  /\ faults \in 0..MaxFaults

\* The versions recorded are a beginning of the manifest, whatever fails and
\* whoever else migrates, unless the guard replaced the file under a migrate; and
\* every variable keeps its type.
PrefixApplied ==
  /\ TypeOK
  /\ swapped \/ IsBeginning(live.versions)

\* The guard was killed between moving the database aside and putting the backup
\* back: DB_PATH is left missing or empty.
Torn == "replaced" \in died

\* A whole copy of what the system has stored exists, unless the guard was killed
\* in that moment: an empty database is copied like any other, and the copies of
\* the last fourteen hours are all that is kept.
DataKept ==
  Torn \/ \E c \in {live} \cup ToSet(auto) : c.exists /\ c.sound /\ c.data

\* The application never serves a database that was created anew in place of the
\* one that was lost, with the same exception, and until the guard has put the
\* backup back: require_schema_current asks for the versions only.
ServesItsData == services /\ Current(live) /\ ~Torn /\ gpc # "replaced" => live.data

\* A migration of a database that is in use begins with a verified copy of it, of
\* no later version (docs/MIGRATIONS.md, "Antes do primeiro DDL"), unless the
\* guard replaces the file under it; that the guard puts a file back is none.
CopiedFirst ==
  \A v \in Versions :
    /\ v \in live'.versions \ live.versions /\ live.data /\ ~swapped' /\ gpc' = gpc
    => \E vs \in saved : vs \subseteq live.versions

BackupBeforeMigration == [][CopiedFirst]_vars

\* A corrupt database is replaced and what was stopped for it runs again, unless
\* the guard is killed after it moved the file, or a deployment has stopped its timer.
Recovers ==
  services /\ live.exists /\ ~Valid(live)
    ~> (services /\ Valid(live)) \/ ~timer \/ Torn \/ "copied" \in died
=============================================================================
