------------------------------- MODULE Setup -------------------------------
(***************************************************************************)
(* What is installed: host entries and Skills, the scheduler, the imports, *)
(* the move of the knowledge root and the operation certificate.           *)
(* A behaviour is a behaviour of one of these components, named by part.   *)
(***************************************************************************)
EXTENDS Integers, FiniteSets, Sequences

CONSTANTS
    \* Installer
    Hosts, Selections, Kind, InstallerFaults, MaxSetups,
    \* Scheduler
    Actions, Interval, Allowance, SchedulerFaults, SchedulerTime,
    \* Migration
    Paths, Contents, ClassOf, RecordsOf, KindOf, ImportEdits, ImportFaults,
    \* RootMigration
    Authorised, RootEdits, RootFaults,
    \* Activation
    Procs, Required, Outcomes, Fallback, Ttl, ActivationTime, MaxChanges, MaxStarts, ActivationFaults

\* The interval of the timer is positive and its accuracy is a length of time; no action is
\* called like a file that is missing or somebody else's.
ASSUME TimerHasPeriod == Interval \in Nat \ {0} /\ Allowance \in Nat
ASSUME ActionsAreNamed == {"none", "foreign"} \cap Actions = {}
\* The files of a plan are numbered, and a receipt has a time to live.
ASSUME FilesAreCounted == Authorised \in Nat
ASSUME TimesAreCounted == Ttl \in Nat /\ ActivationTime \in Nat /\ MaxChanges \in Nat

VARIABLES
    part,    \* the component of this behaviour; the others' variables are "unused"
    file, journal, scheduler, source, run, result, text, faults, want, state, unit, job,
    mon, src, checkpoints, manifests, events, edits, dest, stage, owner, abandoned, plan,
    receipt, backup, cmd, answer, latest, stated, now, hookfile, started, os, receipts,
    oldest, snapshot, certificate, doc, sends, unsaved, overlapped, seen, changes
vars == <<part, file, journal, scheduler, source, run, result, text, faults, want, state,
          unit, job, mon, src, checkpoints, manifests, events, edits, dest, stage, owner,
          abandoned, plan, receipt, backup, cmd, answer, latest, stated, now, hookfile,
          started, os, receipts, oldest, snapshot, certificate, doc, sends, unsaved,
          overlapped, seen, changes>>

I == INSTANCE Installer WITH MaxFaults <- InstallerFaults
D == INSTANCE Scheduler WITH MaxFaults <- SchedulerFaults, MaxTime <- SchedulerTime
M == INSTANCE Migration WITH MaxEdits <- ImportEdits, MaxFaults <- ImportFaults
R == INSTANCE RootMigration WITH N <- Authorised, MaxEdits <- RootEdits, MaxFaults <- RootFaults
A == INSTANCE Activation WITH MaxTime <- ActivationTime, MaxFaults <- ActivationFaults

\* The rest of the variables while a component runs.
BesideI == <<part, want, state, unit, job, mon, src, checkpoints, manifests, events, edits,
            dest, stage, owner, abandoned, plan, receipt, backup, cmd, answer, latest,
            stated, now, hookfile, started, os, receipts, oldest, snapshot, certificate,
            doc, sends, unsaved, overlapped, seen, changes>>
BesideD == <<part, file, journal, scheduler, source, result, text, src, checkpoints,
            manifests, events, edits, dest, stage, owner, abandoned, plan, receipt, backup,
            cmd, answer, latest, stated, now, hookfile, started, os, receipts, oldest,
            snapshot, certificate, doc, sends, unsaved, overlapped, seen, changes>>
BesideM == <<part, file, journal, scheduler, source, text, want, state, unit, job, mon,
            dest, stage, owner, abandoned, plan, receipt, backup, cmd, answer, latest,
            stated, now, hookfile, started, os, receipts, oldest, snapshot, certificate,
            doc, sends, unsaved, overlapped, seen, changes>>
BesideR == <<part, file, journal, scheduler, source, run, result, text, want, state, unit,
            job, mon, checkpoints, manifests, events, now, hookfile, started, os, receipts,
            oldest, snapshot, certificate, doc, sends, unsaved, overlapped, seen, changes>>
BesideA == <<part, file, journal, scheduler, source, result, text, want, state, unit, job,
            mon, src, checkpoints, manifests, events, edits, dest, stage, owner, abandoned,
            plan, receipt, backup, cmd, answer, latest, stated>>

Init ==
    \/ /\ I!Init
       /\ part = "installer" /\ want = "unused" /\ state = "unused" /\ unit = "unused"
       /\ job = "unused" /\ mon = "unused" /\ src = "unused" /\ checkpoints = "unused"
       /\ manifests = "unused" /\ events = "unused" /\ edits = "unused" /\ dest = "unused"
       /\ stage = "unused" /\ owner = "unused" /\ abandoned = "unused" /\ plan = "unused"
       /\ receipt = "unused" /\ backup = "unused" /\ cmd = "unused" /\ answer = "unused"
       /\ latest = "unused" /\ stated = "unused" /\ now = "unused" /\ hookfile = "unused"
       /\ started = "unused" /\ os = "unused" /\ receipts = "unused" /\ oldest = "unused"
       /\ snapshot = "unused" /\ certificate = "unused" /\ doc = "unused"
       /\ sends = "unused" /\ unsaved = "unused" /\ overlapped = "unused" /\ seen = "unused"
       /\ changes = "unused"
    \/ /\ D!Init
       /\ part = "scheduler" /\ file = "unused" /\ journal = "unused"
       /\ scheduler = "unused" /\ source = "unused" /\ result = "unused" /\ text = "unused"
       /\ src = "unused" /\ checkpoints = "unused" /\ manifests = "unused"
       /\ events = "unused" /\ edits = "unused" /\ dest = "unused" /\ stage = "unused"
       /\ owner = "unused" /\ abandoned = "unused" /\ plan = "unused" /\ receipt = "unused"
       /\ backup = "unused" /\ cmd = "unused" /\ answer = "unused" /\ latest = "unused"
       /\ stated = "unused" /\ now = "unused" /\ hookfile = "unused" /\ started = "unused"
       /\ os = "unused" /\ receipts = "unused" /\ oldest = "unused" /\ snapshot = "unused"
       /\ certificate = "unused" /\ doc = "unused" /\ sends = "unused" /\ unsaved = "unused"
       /\ overlapped = "unused" /\ seen = "unused" /\ changes = "unused"
    \/ /\ M!Init
       /\ part = "migration" /\ file = "unused" /\ journal = "unused"
       /\ scheduler = "unused" /\ source = "unused" /\ text = "unused" /\ want = "unused"
       /\ state = "unused" /\ unit = "unused" /\ job = "unused" /\ mon = "unused"
       /\ dest = "unused" /\ stage = "unused" /\ owner = "unused" /\ abandoned = "unused"
       /\ plan = "unused" /\ receipt = "unused" /\ backup = "unused" /\ cmd = "unused"
       /\ answer = "unused" /\ latest = "unused" /\ stated = "unused" /\ now = "unused"
       /\ hookfile = "unused" /\ started = "unused" /\ os = "unused" /\ receipts = "unused"
       /\ oldest = "unused" /\ snapshot = "unused" /\ certificate = "unused"
       /\ doc = "unused" /\ sends = "unused" /\ unsaved = "unused" /\ overlapped = "unused"
       /\ seen = "unused" /\ changes = "unused"
    \/ /\ R!Init
       /\ part = "root" /\ file = "unused" /\ journal = "unused" /\ scheduler = "unused"
       /\ source = "unused" /\ run = "unused" /\ result = "unused" /\ text = "unused"
       /\ want = "unused" /\ state = "unused" /\ unit = "unused" /\ job = "unused"
       /\ mon = "unused" /\ checkpoints = "unused" /\ manifests = "unused"
       /\ events = "unused" /\ now = "unused" /\ hookfile = "unused" /\ started = "unused"
       /\ os = "unused" /\ receipts = "unused" /\ oldest = "unused" /\ snapshot = "unused"
       /\ certificate = "unused" /\ doc = "unused" /\ sends = "unused" /\ unsaved = "unused"
       /\ overlapped = "unused" /\ seen = "unused" /\ changes = "unused"
    \/ /\ A!Init
       /\ part = "activation" /\ file = "unused" /\ journal = "unused"
       /\ scheduler = "unused" /\ source = "unused" /\ result = "unused" /\ text = "unused"
       /\ want = "unused" /\ state = "unused" /\ unit = "unused" /\ job = "unused"
       /\ mon = "unused" /\ src = "unused" /\ checkpoints = "unused" /\ manifests = "unused"
       /\ events = "unused" /\ edits = "unused" /\ dest = "unused" /\ stage = "unused"
       /\ owner = "unused" /\ abandoned = "unused" /\ plan = "unused" /\ receipt = "unused"
       /\ backup = "unused" /\ cmd = "unused" /\ answer = "unused" /\ latest = "unused"
       /\ stated = "unused"
Next ==
    \/ part = "installer" /\ I!Next /\ UNCHANGED BesideI
    \/ part = "scheduler" /\ D!Next /\ UNCHANGED BesideD
    \/ part = "migration" /\ M!Next /\ UNCHANGED BesideM
    \/ part = "root" /\ R!Next /\ UNCHANGED BesideR
    \/ part = "activation" /\ A!Next /\ UNCHANGED BesideA
Spec == Init /\ [][Next]_vars

-----------------------------------------------------------------------------
\* The user's last edit of a target is in the target or in a backup through every rollback
\* and recovery, and a setup that completes has given every selected host its entries
\* (_restore_transaction_entries, _setup_reconciled).
SetupKeepsTargets ==
    /\ [](part = "installer" => I!UserTextIsKept)
    /\ [][part = "installer" => I!CompletedIsInstalled]_vars

\* A failed setup's changes "were rolled back": a rollback without a conflict undoes
\* them.
RollbackUndoes == [][part = "installer" => I!RollbackUndoes]_vars

\* A registration that reports success leaves the job asked for; a unit file somebody else
\* made stays, but for the one that appears after a registration looked at that unit and
\* before its script writes it; and a point that counts as missed passed while the machine
\* was awake and the job did not run (register_scheduler, _remove_owned_scheduler_file,
\* install-systemd-user.sh).
RegistrationIsReal ==
    [][part = "scheduler" =>
          D!ReportedIsRegistered /\ D!ForeignUnitIsKept /\ D!MissedIsReal]_vars

\* A record is imported once, however often the import dies and is repeated, and what a
\* checkpoint lets a later run skip was imported (execute_migration).
ImportedOnce == part = "migration" => M!ImportedOnce /\ M!CompletedIsImported

\* The user's last content of a file is in the old root, the new one or the backup, unless
\* it was in a plan whose cleanup took a JSON file's word that there is a backup; and the
\* new root appears whole, as planned (apply_root_migration, cleanup_legacy_root,
\* _verify_legacy_backup).
NothingIsLost ==
    /\ [](part = "root" => R!NothingIsLost)
    /\ [][part = "root" => R!AppearsWhole]_vars

\* A certificate is backed by recent receipts of every required event; a test notification
\* is sent once per system unless it could not be recorded or verifications overlapped; the
\* display is verified only on a system on which the user confirmed it; and a verified hook
\* that is lost is reported, except by a process that had not found it verified, could not
\* read the receipts or came with an old row (certify_host, verify_operation,
\* read_hook_status, _write_status_snapshot).
EvidenceIsCurrent ==
    /\ [](part = "activation" =>
             A!CertificateIsBacked /\ A!SendsAreBounded /\ A!DisplayIsCurrent)
    /\ [][part = "activation" => A!LossOfHookIsReported]_vars
=============================================================================
