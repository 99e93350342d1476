----------------------------- MODULE Publishing -----------------------------
(***************************************************************************)
(* What is read or leaves the machine: readers of the projection,          *)
(* synchronisation, export and publication, releases and the experiment.   *)
(* A behaviour is a behaviour of one of these components, named by part.   *)
(***************************************************************************)
EXTENDS Integers, FiniteSets, Sequences

CONSTANTS
    \* Sync
    Machines, Events, Author, Shown, Paths, MaxRaces, SyncFaults,
    \* Projection
    Publishers, Readers, MaxVersion, MaxCli, ProjectionFaults,
    \* Publication
    Tree, Allowed, Keys, Forbidden, MaxMoves, PublicationFaults,
    \* Release
    Workflows, Receipts, Producer, Kinds, MaxCommits, MaxRuns, MaxFiles,
    \* Experiment
    Sessions, Arm, Minimum, MaxPrompts, MaxOutcomes, MaxEdits, ExperimentFaults

\* PUBLIC_RELEASE_RECEIPT_WORKFLOWS names a required workflow for every required receipt.
ASSUME ProducersAreWorkflows == Producer \in [Receipts -> Workflows]
\* The files evaluate_public_completion reads beside the index and the receipts.
ASSUME KindsAreKnown == Kinds \subseteq {"export", "publication", "security", "production"}
\* minimum_sessions_per_variant is a number, and so is the bound on prompts.
ASSUME MinimumIsCounted == Minimum \in Nat
ASSUME PromptsAreCounted == MaxPrompts \in Nat

VARIABLES
    part,    \* the component of this behaviour; the others' variables are "unused"
    remote, head, disk, kn, stray, wt, run, result, faults, journal, gens, index, pages,
    mirror, lock, pub, rd, cli, runs, dest, receipt, plan, approved, job, moves,
    receipts, reports, attestation, gates, accepted, files, pc, seen, prompts, log,
    shown, outcomes, protocol, report, edits
vars == <<part, remote, head, disk, kn, stray, wt, run, result, faults, journal, gens, index, pages,
          mirror, lock, pub, rd, cli, runs, dest, receipt, plan, approved, job, moves,
          receipts, reports, attestation, gates, accepted, files, pc, seen, prompts,
          log, shown, outcomes, protocol, report, edits>>

Y == INSTANCE Sync WITH MaxFaults <- SyncFaults
P == INSTANCE Projection WITH MaxFaults <- ProjectionFaults
B == INSTANCE Publication WITH MaxFaults <- PublicationFaults
G == INSTANCE Release
X == INSTANCE Experiment WITH MaxFaults <- ExperimentFaults

\* The rest of the variables while a component runs.
BesideY == <<part, journal, gens, index, pages, mirror, lock, pub, rd, cli, runs, dest,
            receipt, plan, approved, job, moves, receipts, reports, attestation, gates,
            accepted, files, pc, seen, prompts, log, shown, outcomes, protocol, report,
            edits>>
BesideP == <<part, remote, head, disk, kn, stray, wt, run, result, dest, receipt, plan,
            approved, job, moves, receipts, reports, attestation, gates, accepted, files,
            pc, seen, prompts, log, shown, outcomes, protocol, report, edits>>
BesideB == <<part, disk, kn, stray, wt, journal, gens, index, pages, mirror, lock, pub,
            rd, cli, runs, receipts, reports, attestation, gates, accepted, files, pc,
            seen, prompts, log, shown, outcomes, protocol, report, edits>>
BesideG == <<part, remote, disk, kn, stray, wt, run, result, faults, journal, gens, pages,
            mirror, lock, pub, rd, cli, dest, receipt, plan, approved, job, moves, pc,
            seen, prompts, log, shown, outcomes, protocol, report, edits>>
BesideX == <<part, remote, head, disk, kn, stray, wt, run, result, journal, gens, index,
            pages, mirror, lock, pub, rd, cli, runs, dest, receipt, plan, approved, job,
            moves, receipts, reports, attestation, gates, accepted, files>>

Init ==
    \/ /\ Y!Init
       /\ part = "sync" /\ journal = "unused" /\ gens = "unused" /\ index = "unused"
       /\ pages = "unused" /\ mirror = "unused" /\ lock = "unused" /\ pub = "unused"
       /\ rd = "unused" /\ cli = "unused" /\ runs = "unused" /\ dest = "unused"
       /\ receipt = "unused" /\ plan = "unused" /\ approved = "unused" /\ job = "unused"
       /\ moves = "unused" /\ receipts = "unused" /\ reports = "unused"
       /\ attestation = "unused" /\ gates = "unused" /\ accepted = "unused"
       /\ files = "unused" /\ pc = "unused" /\ seen = "unused" /\ prompts = "unused"
       /\ log = "unused" /\ shown = "unused" /\ outcomes = "unused" /\ protocol = "unused"
       /\ report = "unused" /\ edits = "unused"
    \/ /\ P!Init
       /\ part = "projection" /\ remote = "unused" /\ head = "unused" /\ disk = "unused"
       /\ kn = "unused" /\ stray = "unused" /\ wt = "unused" /\ run = "unused"
       /\ result = "unused" /\ dest = "unused" /\ receipt = "unused" /\ plan = "unused"
       /\ approved = "unused" /\ job = "unused" /\ moves = "unused" /\ receipts = "unused"
       /\ reports = "unused" /\ attestation = "unused" /\ gates = "unused"
       /\ accepted = "unused" /\ files = "unused" /\ pc = "unused" /\ seen = "unused"
       /\ prompts = "unused" /\ log = "unused" /\ shown = "unused" /\ outcomes = "unused"
       /\ protocol = "unused" /\ report = "unused" /\ edits = "unused"
    \/ /\ B!Init
       /\ part = "publication" /\ disk = "unused" /\ kn = "unused" /\ stray = "unused"
       /\ wt = "unused" /\ journal = "unused" /\ gens = "unused" /\ index = "unused"
       /\ pages = "unused" /\ mirror = "unused" /\ lock = "unused" /\ pub = "unused"
       /\ rd = "unused" /\ cli = "unused" /\ runs = "unused" /\ receipts = "unused"
       /\ reports = "unused" /\ attestation = "unused" /\ gates = "unused"
       /\ accepted = "unused" /\ files = "unused" /\ pc = "unused" /\ seen = "unused"
       /\ prompts = "unused" /\ log = "unused" /\ shown = "unused" /\ outcomes = "unused"
       /\ protocol = "unused" /\ report = "unused" /\ edits = "unused"
    \/ /\ G!Init
       /\ part = "release" /\ remote = "unused" /\ disk = "unused" /\ kn = "unused"
       /\ stray = "unused" /\ wt = "unused" /\ run = "unused" /\ result = "unused"
       /\ faults = "unused" /\ journal = "unused" /\ gens = "unused" /\ pages = "unused"
       /\ mirror = "unused" /\ lock = "unused" /\ pub = "unused" /\ rd = "unused"
       /\ cli = "unused" /\ dest = "unused" /\ receipt = "unused" /\ plan = "unused"
       /\ approved = "unused" /\ job = "unused" /\ moves = "unused" /\ pc = "unused"
       /\ seen = "unused" /\ prompts = "unused" /\ log = "unused" /\ shown = "unused"
       /\ outcomes = "unused" /\ protocol = "unused" /\ report = "unused"
       /\ edits = "unused"
    \/ /\ X!Init
       /\ part = "experiment" /\ remote = "unused" /\ head = "unused" /\ disk = "unused"
       /\ kn = "unused" /\ stray = "unused" /\ wt = "unused" /\ run = "unused"
       /\ result = "unused" /\ journal = "unused" /\ gens = "unused" /\ index = "unused"
       /\ pages = "unused" /\ mirror = "unused" /\ lock = "unused" /\ pub = "unused"
       /\ rd = "unused" /\ cli = "unused" /\ runs = "unused" /\ dest = "unused"
       /\ receipt = "unused" /\ plan = "unused" /\ approved = "unused" /\ job = "unused"
       /\ moves = "unused" /\ receipts = "unused" /\ reports = "unused"
       /\ attestation = "unused" /\ gates = "unused" /\ accepted = "unused"
       /\ files = "unused"
Next ==
    \/ part = "sync" /\ Y!Next /\ UNCHANGED BesideY
    \/ part = "projection" /\ P!Next /\ UNCHANGED BesideP
    \/ part = "publication" /\ B!Next /\ UNCHANGED BesideB
    \/ part = "release" /\ G!Next /\ UNCHANGED BesideG
    \/ part = "experiment" /\ X!Next /\ UNCHANGED BesideX
Spec == Init /\ [][Next]_vars

-----------------------------------------------------------------------------
\* The published projection is the one of the published journal, a worktree directory has
\* its ownership record, and no attempt rewrites the remote branch or takes an event from a
\* repository (sync_once).
SynchronisedIsKept ==
    /\ [](part = "sync" => Y!PublishedProjection /\ Y!LeftoverIsOwned)
    /\ [][part = "sync" => Y!NothingPublishedIsLost]_vars

\* A reader gets what was published at some moment of its read (_read_item).
ReadWasCurrent == [][part = "projection" => P!ReadWasCurrent]_vars

\* No exported commit holds a file outside the allow-list or a key, except what somebody else
\* put into the root; a validated export is clean, has one commit and is the one of its receipt,
\* unless the root was changed after the export read it, which nothing looks at again; a
\* publication is verified only as the history a person approved; and a repository somebody
\* else created is never changed (_copy_selected_files, run_public_export_validation,
\* verify_publication, _create_repository).
PublishedWasApproved ==
    /\ [](part = "publication" => B!ExportIsSelected)
    /\ [][part = "publication" =>
             B!ValidatedIsExact /\ B!VerifiedWasApproved /\ B!ForeignIsUntouched]_vars

\* A release is ready only with all evidence of one commit, and an attested commit is one on
\* which every workflow succeeded (evaluate_public_completion).
ReadyIsOneCommit == part = "release" => G!ReadyIsOneCommit /\ G!AcceptedIsGreen

\* The analysis assigns a session the arm its hook assigned: they "cannot disagree
\* about the experiment arm".
HookArmAgrees == part = "experiment" => X!HookArmAgrees

\* No more prompts were shown context without a readable exposure than the log has unreadable
\* lines, and an effect is claimed only of prompts with one record under the registered
\* protocol and one outcome (_append_legacy_exposure, _append_log_line, summarize_experiment).
ClaimIsClean == part = "experiment" => X!ShownIsRecorded /\ X!ClaimIsClean
=============================================================================
