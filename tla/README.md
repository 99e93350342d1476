# Formal models of portable-external-intelligence

The engine under `src/src/ei` collects observations from coding agents, keeps them
encrypted until an *organizer* (a language-model provider) has judged them, and appends
what is worth keeping to a journal from which knowledge is projected. It is a set of
short-lived processes (host hooks, `ei` commands, a scheduled maintenance run) that share
files: there is no server, no database transaction across stores, and any process may be
killed between two writes. These models are about that: which promises survive every
interleaving and every interruption.

Paths in this document are relative to `src/src/ei` unless they start with `docs/` or
`tests/` (relative to `src/`).

## 1. Inventory

### Parts that carry the protocol

| Component | State it keeps | Operations | Talks to |
|---|---|---|---|
| Pending intake (`pending_capture.py`) | one intent file per candidate: `PREPARED`, `COMMITTED`, `EXPIRED`, cleanup code | `accept_candidate`, `reconcile_pending`, `_complete`, `_recover_terminal`, `_expire` | spool, queue, capture ledger |
| Capture ledger (`capture_ledger.py`, `capture_contract.py`) | one receipt per capture: `WAITING`, `SECURED`, `UNAVAILABLE`, `UNKNOWN`, candidates | `merge_receipt`, `record_receipt`, targets, close-out proofs | intake, close-out |
| Queue (`queue.py`) | one file per item: state, lease, attempts, references; emergency envelopes | `enqueue_receipt`, `claim_queue_item`, `attach_validated_result`, `transition_queue_item`, `recover_emergency_spool` | spool, catalog |
| Spool (`spool.py`, `crypto.py`, `key_provider.py`) | encrypted bodies with a lifetime | `write_spool`, `read_spool`, `delete_spool`, `gc_expired_spool` | catalog |
| Runtime catalog (`runtime_catalog.py`) | SQLite inventory of one store directory: row phases, charges, shard stamps, `halted` | `write`, `delete`, `migrate_page`, `mark_unknown`, page queries | queue, spool, intents, emergency spool |
| Lock files (`queue.py`, `sync.py`, `spool.py`, `capture_ledger.py`) | a file with the owner's name | create, judge stale, break, release | every store |
| Drain (`maintainer.py`, `gate.py`, `curator.py`) | none of its own | `drain_queue`, `_process_claimed`, `_finish_changeset`, the failure handler | queue, spool, organizer, change sets |
| Organizer hold (`organizer_recovery.py`) | `organizer-<hash>.json`: attempts, reason, deadline, permission, binding | `run`, `recover`, `request_auth_retry` | drain, provider |
| Budget ledger (`inference/budget.py`) | counters per day, run, candidate; reservations | `reserve`, `settle` | router |
| Router and providers (`inference/*`) | the subscription provider's `AUTH_DISABLED` latch | `generate`, `repair_auth` | hold, budget ledger |
| Change sets and journal (`changeset.py`, `journal.py`, `reconciliation.py`) | append-only event files, application markers | `validate_changeset`, `apply_changeset`, `append_event`, lifecycle reconciliation | drain, close-out, maintenance |
| Agent capture and hooks (`capture.py`, `hook_entry.py`) | capture events, registered turns, receipts | `record_agent_observation`, `handle_hook` | journal, intake, ledger |
| Source recovery (`capture_recovery.py`, `ingest.py`) | record plans, bindings, two cursors | `recover_page`, `ingest_sources`, `coordinate_record` | journal, intake |
| Close-out (`closeout_*.py`) | index, record, prepared body, witness, cursor | `process_closeout`, association, receipts, team hand-off, recovery, expiry | ledger, change sets, team, incidents |
| Team sharing (`team_*.py`) | append-only team events, encrypted outbox with receipts, projection cache | `deliver_prepared_team_routing`, `drain_team_outbox`, `refresh_team_projection` | close-out, spool, shared folder |
| Incidents (`incidents.py`, `operation_health.py`, `operation_runtime.py`, `notifications/*`) | incident states, a notification lease, cached health | `update_incidents`, `claim_`, `settle_`, `abort_notification` | hooks, maintenance |
| Synchronisation (`sync.py`, `sync_policy.py`) | owned worktree, `sync-state.json` | `sync_once`: collect, worktree, commit, rebase, push, adopt | git, projection |
| Maintenance (`maintainer.py`) | status snapshot, time budget | `run_maintenance`, its stages in order | everything above |
| Projection (`project.py`, `projection_state.py`, `index.py`) | generations with owner records, the index's pointer, the page for people | `project_events`, readers | journal, recall |
| Installer (`installer.py`, `setup_reconciliation.py`, `skill_installer.py`) | host files with managed parts, manifest, transaction journals, backups | `setup`, `rollback`, `recover`, `uninstall` | the user's files, scheduler |
| Scheduler (`task_scheduler.py`) | unit files, `scheduler-state.json`, monitor sample | `register`, `inspect`, `unregister`, monitor | the operating system |
| Notification identity (`installer.py`) | ownership receipt, shortcut, activator | register, remove, recover | Windows |
| Activation (`operation_activation.py`, `canary.py`, `certification.py`) | hook receipts, status snapshot, certificate, operation state | canary, certify, `verify_operation`, confirmation | hooks, notifications |
| Knowledge root (`knowledge_setup.py`, `knowledge_repository.py`, `github_knowledge.py`) | the root, its staging with an owner record, operation receipts | plan, apply, create, push, read back | git, GitHub |
| Migration (`migrate.py`, `inventory.py`, `recovery.py`) | plan, checkpoint, rollback manifest; staging and receipt of a moved root | apply, rollback, cleanup, staging recovery | journal |
| Publication (`public_export.py`, `github_publication.py`) | export receipt, publication record | export, resume, plan, confirm, publish, verify | git, GitHub |
| Release (`release.py`) | evidence index, attestation | readiness, attest, verify | hosted workflows |
| Experiment (`experiment.py`, `measurement_events.py`) | exposure and outcome logs, protocol | `prepare_exposure`, `summarize_experiment` | prompt hook |

The remaining parts (host adapters, privacy patterns, retrieval and ranking, metrics,
configuration and diagnostics) are listed in `PROJECT.json` with the reason they are not
modelled: they are pure functions of text or only read.

### What is hard

* **Several files, one promise.** A candidate lives in an intent, a body, a queue item, a
  receipt and the journal; each is written by its own rename and the process may die after
  any of them.
* **Stale copies.** Workers hold a lease that may expire under them; intake and
  reconciliation decide from a queue item they read without its lock.
* **Replays.** Hosts repeat `accept_candidate`; drains repeat an interrupted item;
  migrations repeat an interrupted write.
* **One result applied twice, or two results for one item**, after a crash between the
  journal and the queue.
* **Budgets.** Bytes of a store, tokens of a day, attempts of a candidate, retry
  intervals: each is a counter that must stay right across crashes.
* **Cleanup that must happen in the end**, although each of its steps may fail.
* **Things outside.** Remote repositories, shared folders, host files the user edits, the
  operating system's scheduler and its notifications change between any two looks at them,
  and a command that timed out may have done its work.

`PROJECT.json`'s `hazards` lists them at their lines with the properties that watch them.

### What makes each part correct

* intake: nothing acknowledged is lost silently; evidence of loss precedes destruction;
* queue and drain: one verdict per candidate, decisions are final, nothing waits for ever;
* spool: a body is there as long as it is needed, and leaves when it is not;
* catalog: every body on disk is charged, a charge is released only on evidence, no
  interruption of its own stops the store for good;
* hold and ledger: a failing provider is called as seldom as promised, a held one only
  when asked, and every call is paid for;
* journal and projection: a change set shows whole or not at all, readers see one
  published state, the newest state is published in the end;
* captures, sources, close-out: once, through whichever route; an acknowledgement is
  backed by a decision; what is lost is reported;
* team, synchronisation, publication: what was reported as delivered is there, what others
  put there stays, what leaves the machine is what was approved;
* installer, scheduler, migration: the user's own content survives, what is reported as
  installed is installed, nothing is imported twice or removed unseen.

## 2. Modules

    Custody                 what intake and organisation promise (abstract)
       ^ refined by
    Pipeline  =  PendingCapture + Drain, both over QueueStore
       PipelineProofs       theorems        MCPipeline   runs
    RuntimeCatalog          one store directory and its inventory
       RuntimeCatalogProofs theorems        MCCatalog    runs
    Organizer               hold, router, budget ledger, provider latch, drains
       OrganizerProofs      theorems        MCOrganizer  runs
    Knowledge   =  Journal, Locks, Projection, Maintenance, KnowledgeSetup
       KnowledgeProofs      theorems        (its own run)
    Publishing  =  Sync, Projection, Publication, Release, Experiment
       PublishingProofs     theorems        MCPublishing runs
    Intake      =  Hooks, Sources, Closeout, Operation, Team, Notification
       IntakeProofs         theorems        MCIntake     runs
    Setup       =  Installer, Scheduler, Migration, RootMigration, Activation
       SetupProofs          theorems        MCSetup      runs

The last four modules of the list put together components that meet only through what they
report, never in a file they both write half of. Interleaving those would multiply their
states and show nothing new, so each module is a *sum*: a variable `part` names the
component of the behaviour, `Init` is the disjunction of the components' initial states,
`Next` that of their steps, and the variables of the other components have the value
`"unused"`. Components that use a variable of the same name share it. Every property of
such a module says `part = "x" => ...`, and the fairness of a component is
`WF_<<X!vars>>(part = "x" /\ X!Action)`. Within a component everything that runs
concurrently is interleaved. A combined property, such as `CloseoutIsProven`, is the
conjunction of named parts which the component's module states one by one.

### QueueStore, Drain, PendingCapture, Pipeline

`QueueStore` holds what both sides share: `queue` (a `QueueItem` per candidate with its
state, lease, result reference and eligibility), `spool` (which bodies exist), `emergency`,
`expires`, the clock and `proc`, the local state of every process with its program label
and *its own copy of the item*. `transition_queue_item`'s table is `Allowed`; its terminal
branch is `MarkDecided` followed by the four cleanup steps (`DeletePayload`,
`ClearPayload`, `DeleteResult`, `ClearResult`), each of which may fail alone.

`Drain` has one action per durable effect of `drain_queue`: `Claim`, `ReadCandidate`,
`Infer` (any verdict, or a failure), `SaveResult`, `AttachResult` (refused when the stored
item differs from the copy), `StartCurating`, `ApplyChangeset`, `MarkOutcome`, `Settle`
and the exception handler. `PendingCapture` does the same for `accept_candidate` and
`reconcile_pending`; one keeper process stands for intake, because both hold the capture
lock. `Faulty` steps are a storage error or the death of the process, at most `MaxFaults`.

`Pipeline` composes the two and states the properties. `Custody` is the abstract
specification: take, secure, lose, apply, decide, drop. The refinement mapping reads
`held` off the spool, `evidence` off the receipts, `applied` off the journal and `outcome`
off the decided items.

### RuntimeCatalog

One store: `rows` (the table), `disk` (bodies in their shards), `flat` (bodies of the
layout before the catalog), `dirty` (shards whose directory stamp differs from the recorded
one), `complete` and `halted`. `write`, `delete` and `migrate_page` are split at every
durable effect (`Reserve`/`Retry`, `Put`, `Settle`; `BeginDelete`, `Unlink`, `Forget`;
`BeginPage`, repairs, `Prepare`, `Move`, `SettleMove`, `EndPage`) and `Abandon` may cut
them short anywhere; `HaltOnError` is a page that meets an error of the file system or of
the key. `Tamper` is another program changing any file at any time. Callers hold the root
lock, so one operation is under way at a time. `tampered`, `raced` and `failed` are
history: which files others changed, which of them in the middle of an operation, and
whether a page met an error.

### Organizer

`hold` is the file of `organizer_recovery.py`. `run` keeps its lock across the provider
call, so one operation `op` is under way at a time, with a `stage` after each durable
effect: cooldown written (`Enter`), latch opened (`Repair`), budget reserved (`Admit`),
provider running (`Call`), answered (`Answer`), settled (`Settle`), hold written
(`Restore`, `Clear` or `Fail`). `Abort` is an error that leaves `run`, `Crash` the end of
the process. Workers load a configuration and a moment when they start, and use both to
the end of their drain, as `drain_queue` does; `ChangeConfig` and `Tick` happen any time.
`RequestRetry` is `ei resume-organizer`. One tick is 300 s, the first delay of
`next_retry`; a day is `DayLength` ticks. Input tokens, output tokens and cost are one
number. What the provider used, reported and marked as known are three choices of
`Answer`. Histories: `asked`, `heldCalls`, `streak`, `lastAt`, `calls`, `spent`.

### Locks

`file` is the owner the lock file names, or `NoFile`; `old` is the set of files that have
outlasted the limit, `seen` what each process last read of the lock, `pc` where it stands.
`Create`, `Judge`, `Compare`, `Break`, `GiveUp` and `Release` are steps of their own. `kind` chooses
`queue.py`'s rule (older than 120 s) or `FileLock`'s (the process id is dead, and the age
when it is not known). `Age` lets a file outlast the limit, `Die` ends a process anywhere.

### The modules of Knowledge

* **Journal**: `apply_changeset` builds the events of a change set from a reading of the
  journal, appends them one by one (`Check`, `Replace`) and the marker last; two workers
  may apply at once, after a lease that ended even the same candidate, and die anywhere.
  `claim` keeps who claimed a candidate last (the queue takes no other result) and whether
  another still applied it then. `_states` is the projection of the applied change
  sets, `promotion_eligibility` and the reconciliation use it. `Drain`'s `ApplyChangeset`
  is the one step this module unfolds.
* **Projection**: `project_events` prepares a generation (directory, owner record,
  content), replaces the index, leads the page for people to it and throws older ones
  away; `_project_events_legacy` is the command line's rewrite in place; `_read_item` a
  reader that holds on to a generation. The hook's fallback to the page of a root that has
  no index yet is not modelled.
* **Maintenance**: `run_maintenance` stage by stage, each with what it may take of the
  budget (`phase`, `End`) and report, the gate before synchronisation (`SyncGate`), and
  the effect on journal, index and incident. A drain of another process appends meanwhile.
  The rows of single items that `queue_result.errors` adds to a run's report are left out:
  they change the report only.
* **KnowledgeSetup**: plan and application in the three modes, the staging with its owner
  record, commit, creation of the repository, push and read-back, as `run.pc` goes on.
  `staging = "theirs"` is somebody else's directory of that name.

### The modules of Intake

* **Hooks**: agents that record observations through the journal or the intake, with the
  admission per session, under one lock, and `handle_hook`, which answers within its
  deadline. A turn is registered under its key, or without an identity under a random key
  (`unknown`); it is bound to its place of work only where an adapter proves the scope
  (`ProveScope`), and the hook answers ok either way, so `OkIsRegistered` says what "ok"
  does mean. `ReceiptLost` is the expiry of a capture that covers the turn.
* **Sources**: `recover_page` of maintenance and `_ingest_sources` of `ei ingest` over one
  file whose contents change, in trusted and legacy mode; binding, plan, payload and
  cursor are separate writes.
* **Closeout**: reservation, prepared body, application, receipt and binding of each
  target, witness, team hand-off, acknowledgement, recovery and expiry, for the live
  process and maintenance. The targets in `OwnCaptures` have a pending capture of their own
  turn as well, which may be secured or expire before and after the decision: the state
  SECURED under a close-out decided NO, which
  `tests/unit/test_closeout_association.py:360-441` sets up, is reached in that way.
* **Operation**: an incident with generations, the lease and result of its notification,
  the health cache of hooks, and observers that claim, send and settle.
* **Team**: delivery to the shared store or the outbox, the retry of the outbox with both
  receipts, the scan with its issues, and readers' projections; the shared root comes and
  goes. A ciphertext outlives its time (`Expire`) and is then deleted by the next reader or
  by `gc_expired_spool`, delivered or not.
* **Notification**: the receipt of ownership, the two files outside the runtime, and the
  helper, each of whose calls may time out having worked.

### The modules of Setup

* **Installer**: plan, transaction journal, backups, the passes over hosts that leave,
  stay and come, manifest, commit, rollback, recovery and uninstall; `Edit` any time. One
  `mutate_file`, and one comparison with its restore, is a step (`installer.py:1041-1051`,
  `installer.py:1111-1115`): an edit between the comparison and the replacement is not seen.
* **Scheduler**: inspection, the registration script with a step for each file it writes
  (`scripts/install-systemd-user.sh`), removal, and the monitor's samples over a clock that
  sleeps and restarts. Somebody else replaces a unit file at any moment.
* **Migration**: the import of records with its checkpoint and rollback. One `ei migrate`
  at a time is assumed; no lock keeps two apart.
* **RootMigration**: plan, copy, move, receipt, rollback and cleanup of an old root, with
  an editing user. A cleanup compares a backup tree with the plan, or believes a JSON file
  that states there is one; `stated` remembers the plans that were believed.
* **Activation**: one host's hook receipts, status document, certificate, and the test
  notification with its confirmation. The doctor, the setups and the certifications run
  beside each other without a lock: each reads the status (`read_hook_status`), or the
  document for another host's sake (`ReadDocument`), and replaces the whole document
  later; either file may be unreadable. Skill, host version and executable are the one
  answer `ready`; an unknown hook feature counts as an invalid hook file. A certification
  inside `verify_operation` is one like any other. A process does not outlive its
  operating system, so `Upgrade` ends all of them. The user may confirm a message long
  after it was sent, from the setup that sent it (`ConfirmDisplay`).

### The modules of Publishing

* **Sync**: `sync_once` with its worktree, its commit, the rebase, the push whose
  answer may be lost, and the adoption of the pushed commit, for two machines. After a lost
  race the projection is made again; when its status, staging or commit fails, the next
  push takes the rebased history as it is (`PushRaces`).
* **Publication**: the export from a moving `HEAD`, its validation in three steps, the
  approval, the creation of the repository, push and verification. Others add to the root,
  edit, commit and amend there at any moment (`RootChanges`), an export under way included;
  `run.disturbed` and the receipt's mark say when the root was changed after the export had
  committed or compared it.
* **Release**: evidence of changing commits and workflow runs, readiness and attestation.
  The run numbers the index states are trusted, as the module's header says; the kinds of
  evidence in the run are the security and the production report, the others are of the
  same shape and covered by the proof.
* **Experiment**: assignment, exposures recorded by hooks, outcomes and the claim. An append
  may be cut before its newline, and the next line then becomes part of the cut one.

## 3. Runs

| Run | Question | Properties | Bounds |
|---|---|---|---|
| `workers` | two workers on one candidate, leases expiring, a replayed accept | `BodyCustody`, `LedgerBeforeIntent`, `OneVerdict`, `AttachedResultStands`, `ImplementsCustody` | 1 candidate, 2 workers, 2 possible change sets, clock 0..2, 2 claims, 2 accepts, no deaths |
| `liveness` | with one fault, does everything finish | `CandidatesSettle`, `BodiesLeave` | 1 candidate, 1 worker, 2 accepts, 1 fault, `FairSpec` |
| `catalog_updates` | a store that replaces bodies, any legacy layout, any tampering and errors | `ChargesCover`, `CapacityIsEvidence`, `HaltIsExplained`, `RefundsNeedEvidence` | 2 entries of 1 shard, 2 lengths, the long body with an expiry |
| `organizer_drains` | two drains with different configurations on one hold and one budget | `HeldCallsAreAsked`, `HoldReadable`, `LatchIsResumable`, `CallsAreCounted`, `SpendIsCharged`, `CallsAreSpaced` | 2 workers, 2 candidates, clock 0..2, delays 1 and 2, 2 days, 2 calls a day, 1 a run, 1 request |
| `catalog_sealed` | what halts a store that only adds and repeats writes | `HaltIsExplained` | 2 entries in 2 shards, all bodies with an expiry |
| `knowledge` | what becomes of accepted knowledge | `JournalIsSound`, `ExclusiveWithoutFaults`, `PublishedIsReadable`, `RunIsComplete`, `RootIsWhole`, `KnowledgeProgresses` | below |
| `intake` | how observations come in and trouble goes out | `ObservedIsStoredOnce`, `CloseoutIsProven`, `IncidentsAreTrue`, `ReportIsDurable`, `ForeignIsKept`, `IntakeProgresses` | below |
| `setup` | what is done to a machine by hand | `SetupKeepsTargets`, `RegistrationIsReal`, `ImportedOnce`, `NothingIsLost`, `EvidenceIsCurrent` | below |
| `publishing` | what leaves the machine | `SynchronisedIsKept`, `ReadWasCurrent`, `PublishedWasApproved`, `ReadyIsOneCommit`, `ClaimIsClean` | below |
| `late_loss` | *violation*: is a completed candidate ever recorded as lost | `CompletedNeverLost` | no faults |
| `rollback_undoes` | *violation*: does a rollback without a conflict undo the setup | `RollbackUndoes` | as `setup` |
| `hook_arm` | *violation*: does the analysis see the arm of the hook | `HookArmAgrees` | as `publishing` |

The bounds of the composed runs:

* `knowledge`: Journal 3 candidates, 2 workers, 1 fault (a death, or a lease that is
  outlived), 4 moments; Locks 3 processes, both rules, 2 faults; Projection 1 publisher, 4 versions of the journal, 1 unbounded
  command, 1 fault; Maintenance 2 versions, 1 unreadable close-out, stages that overrun by
  1; KnowledgeSetup 2 faults.
* `intake`: Hooks 2 agents, 2 observations, a limit of 1 per session, 1 turn, 2 faults;
  Sources 3 contents of a file with 2 ordinary records and a private one, 1 change,
  1 fault; Closeout the live process and maintenance, 2 targets of which one has a capture
  of its own, 1 fault; Operation a hook and maintenance, 2 changes, 1 fault;
  Team 1 machine, 1 event, 2 readers, 2 faults; Notification 3 faults.
* `setup`: Installer 2 hosts, 4 selections, a shared hook file and an owned Skill, 2
  faults, 2 setups; Scheduler 2 actions, a period of 2 in 7 moments, 2 faults;
  Migration 2 paths with 4 contents, 1 edit, 2 faults; RootMigration 2 files, 2 edits, 2
  faults; Activation 2 processes, 2 commands, 2 events, a time to live of 1 in 2 moments, 1
  change, 1 fault.
* `publishing`: Sync 2 machines, 2 events, 1 race, 1 fault; Projection 1 publisher, 1
  reader, 2 versions, 2 unbounded commands, 1 fault; Publication 3 revisions, 1 move, 2
  faults; Release 2 workflows, 2 commits, 3 runs; Experiment 3 sessions, 1 prompt, 2
  outcomes, 1 edit of the protocol, 1 fault.

Why the bounds are enough. Times are compared, never added up, so a clock with a before,
an at and an after of each deadline shows every order of lease, TTL and retry. Two workers
are the fewest that can disagree, two verdicts the fewest that can differ, two faults
the fewest of which the second can hit the recovery from the first; where one fault is
the bound (Journal, Projection, Sync, Closeout, Activation, Experiment), a second failure
during the recovery is left out. In the catalog two entries of one shard, and of two, show
every case of the membership check. In the organizer `Reserve = 1` of 2 reaches each cap
exactly and one above, on two days. Three processes at a lock are the fewest of which one breaks it,
one takes it and one comes back from a stale look. Four versions of the journal fill the
three generations that may exist. Two machines are the fewest that race for a push. The
safety properties of the seven systems do not rest on these bounds, but for one conjunct of
`JournalIsSound` (`ActiveHasEvidence`) and for `SetupKeepsTargets`: they are proved, also
for several candidates behind one receipt and any number of deaths. Those two are in the
proofs of `Pipeline` alone: `workers` has one candidate and no deaths, so the loss that one
candidate brings on its siblings (hazard at `pending_capture.py:438`) is met by TLC nowhere.
`ExclusiveWithoutFaults` speaks of the executions in which nothing goes stale; the takeover
of a stale lock is in the model, and in `KnowledgeProgresses`, but not in that promise.

Deadlock is not checked: a system with nothing to do is idle, which is its normal state;
what must happen is stated by the liveness properties.

Symmetry is used for workers, verdicts, candidates and entries of one shard, all of which
the specifications treat alike, and only in runs without liveness.

### Fairness

`Pipeline`'s `FairSpec` assumes weak fairness of time and of the next step of an operation
that has begun (a process that is alive goes on; its death is a step of its own), and
strong fairness of starting a drain, of claiming each cleanup and of reconciling each
intent. The code justifies it by the scheduled maintenance: it runs again and again, and
its pages rotate with a stored cursor, so no record is passed over for ever. Faults are
finitely many. No fairness is assumed of success: `Infer` may answer with a failure each
time, and `CandidateResolves` then holds because the TTL ends the candidate.

The composed runs follow the same rule, a step of a live process or of the next scheduled
run is weakly fair:

| Component | Fair | Because |
|---|---|---|
| Journal | `Apply(w)` | drains go on |
| Locks | `Step(p)`; `Age` of a dead process's file | waiters poll; time passes |
| Projection | `Project`; the unbounded command once begun | maintenance projects in every run |
| Maintenance | `Start`, `Step`; a drain once begun | the scheduler starts runs |
| KnowledgeSetup | `Step`; planning in the local mode, strongly | the user repeats the setup: an assumption about the user, without which nothing is promised |
| Hooks | `Handle(t)` | a hook is one call with a deadline |
| Sources | `recover_page`, `Progress` | a stage of maintenance |
| Closeout | `Expire`, `Work(p)`, `Recover(p)` | time passes; a stage of maintenance |
| Operation | `Maintain`, `Service(h)`; `Tick`, strongly | maintenance runs; hooks are called while the host is used |
| Team | `Maintain`, delivery, `Refresh(r)`, the return of the root | a stage of maintenance; without the root nothing can be promised |
| Notification | `Progress` | setup or removal is repeated |

No liveness is claimed for the catalog (a refusal may repeat for as long as the store is
damaged), for the organizer (a provider may fail for ever), or in `setup` and `publishing`,
whose commands are given by hand.

## 4. Proofs

TLAPS checks the following for every value of the constants, from the `ASSUME`s of the
modules and nothing else.

**PipelineProofs.** The inductive invariant `IInv` has two halves. `StoresOK` says how the
files agree: an item or an envelope exists only for an accounted body (`BodyOK`), the
intent is never ahead of the receipt, the journal and the decided items agree with the
attached result (`JournalOK`). `WorkerOK` and `KeeperOK` say what each process may rely on
at its label *however stale its copy is*: what a worker holds is `Bound`, the one verdict
attached or already carried out; a cleanup is only ever for a decision already stored.
The properties alone are not inductive, because a stale worker in front of a write could
hold anything. `StoreStep` is the other side: what any step may do to the stores, namely
keep decisions, bound verdicts, losses and accounted bodies. Each action is proved to make
a `StoreStep` and to re-establish its own process's half (`Safe`); `WorkerStable` and
`KeeperStable` show that the other processes' halves survive any `StoreStep`. From `IInv`
follow `TypeCorrect`, `CustodyOfBodies`, `LedgerFirst`, `SingleVerdict`; from the steps
`ResultStands` and `Refinement` (Pipeline implements Custody).

**RuntimeCatalogProofs.** `IInv` is the conjunction of `TypeOK`, `RowShape` (columns agree
with the phase), `InHand` (the entry the operation works on), `Untouched` (phase by phase,
the files of an entry nobody else changed), `Stamped` (what an unchanged directory stamp
vouches for) and `Calm` (without tampering there is one unfinished write at most). It
gives `ChargesAlwaysCover`, `KnownIsEvidence` and `RefundsAreEvidenced`. `HaltStaysExplained`
needs two facts more, for every store and without a hypothesis: a halted store runs no page
and takes no write (`HaltedOp`), so the update that explains a halt stays as it was found
(`UnaccountedStays`).

**OrganizerProofs.** `IInv` says what one operation has made of the hold it found
(`RunOK`: one more attempt, a deadline of the moment plus its delay, the permission taken
and marked as used), that every accepted request is pending, in use or spent (`CreditOK`),
that the deadline of the hold, and of the hold a refusal would restore, keeps its distance
to the last call (`SpaceOK`), that a reservation covers the call that may still be made
(`AttemptsOK`) and stays in every counter until it is settled (`LedgerOK`), and that a shut
latch leaves a resumable hold (`HoldOK`). None of the properties is inductive alone: a
restored hold brings back its permission and its deadline, so what is known of
`op.previous` has to be carried along. From it follow `TypesHold`,
`RequestsBoundHeldCalls`, `HoldStaysReadable`, `LatchStaysResumable`, `CallsStayCounted`,
`SpendStaysCharged` and `CallsStaySpaced`, the last for every non-decreasing sequence of
delays.

**KnowledgeProofs.** One invariant for each component; `Starts` and `Steps` carry them to
the sum.

* *Locks.* `ExclusiveWithoutFaults` is not inductive: a process with a stale judgement in
  hand would unlink the holder's file. `Undisturbed` adds that without a fault nothing is
  old or dead, so nobody is ever about to break a lock. `LocksExclude` follows for any
  number of processes and both rules, if no process is named like a missing file.
* *Projection.* `PInv` says that whoever works has the lock (`Locked`), that the
  generations the index and the page for people lead to are whole (`Led`), and what a
  publisher may rely on between its reading of the index and its replacing it (`Held`): the
  generations it keeps are the ones still pointed to, so what it removes is not. It gives
  `PublishedStaysReadable`.
* *Maintenance.* `InTime` bounds the clock at which each stage can begin when every earlier
  one took all it was given and noticed late; `Covered` says that events and projection
  cover what the run found and appended unless an error is on record. They give
  `RunStaysComplete`, from the assumptions on `Slack` in the module.
* *KnowledgeSetup.* `Foreign` (what others made is not what a setup works on), `Filled` (a
  root is filled in place only where there was one) and `Private` (label by label, what has
  been verified of the repository) give `RootStaysWhole`.
* *Journal.* `Applies` says that a worker holds the change set as it was curated, and that
  whoever else holds its candidate is known to (`claim[c].twice`); `Appending` that every
  operation before its place has an event in the journal, its own or the other's, and that
  the file it is about to write is not there, is the same, or belongs to a candidate held
  twice; `Journaled` that an event belongs to an operation of its change set and a marker
  comes with one for every operation. A replacement takes no operation its event (`Kept`),
  so both conjuncts of `AppliedStaysProven` hold with overlapping workers too. The other
  conjunct of `JournalIsSound`, `ActiveHasEvidence`, follows the fold `_states` over the
  whole journal and is only model-checked.

**PublishingProofs.** Built the same way.

* *Sync.* `SInv`: the remote history fits its projection (`Fits`), and so does the tree an
  attempt is about to push; what a history shows has its events there (`Backed`), in an
  attempt's tree once it is projected and until then there or in its plan (`Carried`); what
  an attempt is about to merge continues its `HEAD`; its worktree directory is on record.
  `git rebase` is a recursion over commits; what it makes is `RebasedIs`, by induction
  through the least counterexample (`LeastNumber`). From it: the events of both sides and no
  others (`RebasedHolds`), and a rebase without conflict of a history that fits on one that
  fits makes one that fits (`RebasedFits`). So the projection after a lost race changes
  nothing, and a push that goes out without it (`sync.py:1331-1336`) does no harm. It gives
  `SynchronisationKeeps`.
* *Projection, the reader's side.* `Reading`: what a reader holds on to, and what is current
  now, was current since its read began. It gives `ReadStaysCurrent`.
* *Publication.* `EInv` says of an export only what its own lists say, since the source
  moves meanwhile: but for what others placed there the root has no key (`Selected`), and
  while nobody disturbs a run's root it is at each phase what the run made (`Exporting`); a
  validated receipt of such a run names an audited commit (`Audited`). `QInv` says that
  while a command works the approval is of the plan on record and the repository is ours
  (`Approved`). They give `PublicationStaysApproved`.
* *Release.* Runs are only added, so `NamesRuns` and `Received` (the numbers in index,
  attestation and receipts are runs of the right workflow) keep; `Ready` and `Attested`
  are the answers given, restated with the runs. They give `ReadyStaysOneCommit`.
* *Experiment.* `Turn` (a prompt has no record before its hook writes one, and one after)
  and `Once` (no two records of one prompt) make the number of keys the number of records;
  `Logged` and `ShownTo` tie records and shown context to their sessions; `CutShort` says
  that the hook which left a line unended shows no context for it, so that what a cut line
  swallows is at most one shown record, and the line it makes is unreadable; `Claimed`
  restates a claim of its own reading. They give `ClaimStaysClean`.

**SetupProofs.** Built the same way, for all components of `Setup` but the installer.

* *Scheduler.* `Registering`: what an inspection let pass (`run.seen`) was nobody else's. A
  foreign unit file survives a removal, which looks again at each file; a registration
  overwrites one only if it came between the inspection and the script's write of that
  file, and the property says just that. `Sampled`: within
  one run of the machine a later activation has a later time, so two samples with one
  activation have one number of runs; it needs a timer with a positive interval. They give
  `RegistrationStaysReal`.
* *Migration.* `MInv`: a run knows what the journal holds, since nobody else imports, and a
  checkpoint skips only what is in the journal or never to be imported. It gives
  `ImportStaysOnce`.
* *RootMigration.* `TInv`: every edit gives a content the file never had (`Numbered`), so a
  file that equals the plan was not edited since; what is no longer in the old root is in
  the backup as it was last (`KeptSomewhere`); a file found as planned when a cleanup comes
  to it is in the backup as planned (`Cleaning`), both but for the plans whose cleanup
  believed a JSON file (`stated`); and what has been copied is as planned (`Copying`). It
  gives `ContentStaysSomewhere`.
* *Activation.* `Receipted`: the oldest receipt is at least as old as each of a verified
  hook's receipts, so a receipt that runs out makes the status BROKEN and not merely
  unverified; and what each process has read is of receipts that were there (`Reads`).
  `Sending`: while no two verifications have overlapped on the system (`Alone`), a
  notification that came out and that no lost run accounts for (`Owed`) is in the document
  or about to be written to it, and whoever verifies knows of it (`Verifies`). `Told`: a
  display that counts as seen names a system on which the user confirmed, however late.
  They give `EvidenceStaysCurrent`.

**IntakeProofs.** Built the same way, for all six components of `Intake`. It uses that a
session has finitely many observations (`ObservationsAreFinite`) and that a source is a
sequence of records (`ContentsAreSequences`).

* *Hooks.* `Reserved`: a call that is about to complete an intent has reserved it, so
  completing it adds nothing to the session's count; `OneRoute`: a key has an event or an
  intent, and not both, although the namespace may come or go between two calls;
  `Registering`: a hook passes a step of the registration only when the step is done, binds
  a turn only with its identity and a proven scope, and without faults every scoped turn
  with an identity that was answered ok is bound.
* *Sources.* `RoutesFit` (what is stored of a record has the identity its plan fixed, by
  whichever route), `CursorsFit` and `SeenFits` (what lies behind either cursor was stored
  or refused), `RunFits` (what a run knows of the record in hand when it passes it). With
  the hooks they give `ObservationStaysOnce`.
* *Closeout.* `Decidedly` (a target is secured by its own capture or by the applied YES of
  the close-out, and a proof leaves none waiting), `Agreed` (a stale copy that says YES is of
  a record that says YES; each new version keeps it: `Firm`), `HandedOver` (neither the record nor a call's copy says DELIVERED of what the team does not
  have), `Witnessed` (proofs stay, so a call that has seen all of them ends with all of
  them, however stale its record is) and `Confessed` (the loss a call is about to finish
  was reported). They give `CloseoutStaysProven`.
* *Operation.* `Counting`: a cached count whose binding holds is of the trouble that is
  there. `Claiming` carries the argument for one notification an hour: what was shown
  within the hour is on record as a success, or there is an unfinished attempt of this
  hour, which keeps every other observer from claiming; so one observer at most is between
  claim and settlement, and the record an abort restores is still true. They give
  `IncidentsStayTrue`.
* *Team.* `Delivering` (a receipt or a drain says DELIVERED only of an event in the store),
  `Backed` (a receipt, also one about to be written, has its event or, until the time of the
  ciphertext is over, the ciphertext: `Overdue`, `BodiesAge`) and `Recorded` (the reported
  answers) give `ReportStaysDurable`.
* *Notification.* The type of the two files suffices: each call of the helper looks at what
  it replaces. It gives `ForeignStaysKept`.

Only model-checked: the liveness properties (fairness and ENABLED are outside TLAPS),
`SetupKeepsTargets` of the installer, and `ActiveHasEvidence`.

## 5. Findings

Violations that a run shows:

* `late_loss`: reconciliation decides on a loss from a queue item read without its lock;
  a worker that completes the item meanwhile leaves a completed candidate recorded as
  `PENDING_EXPIRED`, for good.
* `rollback_undoes`: a target that one setup changes twice has two backups of one name; the
  rollback restores what the first change wrote.
* `hook_arm`: the exposure's record hashes the session's hash once more, so that the
  analysis computes the arm from another value than the hook did.

Met while modelling, visible in the models or in the code they follow, and not asked by a
run of their own:

* **Intake and queue.** An accept replayed while a worker finishes the candidate writes
  the deleted body again, and no cleanup reaches it (`pending_capture.py:381`,
  `pending_capture.py:384`): the one exception `BodiesLeave` states (`RewritesDecided`); a stale
  worker that moves an item its successor has deferred leaves a leased state without a
  lease, which every later claim passes by until the TTL (`queue.py:806`).
* **Catalog.** An update of an item whose payload reference is cleared, interrupted before
  its file is written, halts the whole queue (`runtime_catalog.py:390`; a legacy item whose
  first update clears its reference is enough). A key that cannot be fetched while a legacy
  body is catalogued (`spool.py:386`) and a passing `OSError` inside `migrate_page`
  (`runtime_catalog.py:497-504`) halt the spool for good (`HaltOnError`), although R54 and
  R57 of `docs/plans/2026-09-18-reliable-automatic-accumulation-implementation.md` want an
  interruption repaired and a missing key to be temporary. `HaltIsExplained` names these
  three beside tampering. A deletion
  interrupted after its unlink leaves the row in doubt for ever (R50 of the plan accepts
  this); a `writing` row without its file blocks other writes until its writer repeats it.
* **Organizer.** A verdict the gate reaches without the provider releases an
  authentication hold and spends its permission (`Clear` after `JudgeLocally`), although
  the same plan (line 484) admits only the provider's recovery or a new configuration.
  Retry delays count from the start of the drain, which may be ten minutes before the call
  that failed: `CallsAreSpaced` holds between drains, not between calls.
* **Journal.** A change set interrupted and rebuilt with another payload under the same
  event id ends as `EVENT_ID_COLLISION` (`changeset.py:644`, `changeset.py:804`), where
  `tests/integration/test_organizer_restart.py:318` expects completion. Two
  workers that hold one candidate may replace each other's event file by another payload:
  `append_event` looks whether the file exists and replaces it later (`journal.py:1045`,
  `journal.py:1067`). So `JournalIsSound` does not say that the journal only grows: it says
  that a file is replaced only while two hold its candidate, and by an event of the same
  operation, which still proves the application.
* **Locks.** With the process-id rule and one death two processes may hold the lock.
* **Projection.** A stop between the directory of a generation and its owner record
  refuses every later projection (`project.py:606`); an older reading of the journal may
  be published over a newer one; an interrupted unbounded command leaves the manifest
  mismatched until it is run again.
* **Maintenance.** A permanently missing source or lost close-out blocks synchronisation;
  a slow shared folder may use up the budget of the rest.
* **Knowledge root.** A repository whose creation timed out after it worked blocks the
  `github-new` mode for good; a push that arrived unverified is later `NOT_EMPTY`; an
  empty existing root is filled in place and may stay half made.
* **Hooks.** A hook answers ok although `register_adapter_target` returned False and bound
  nothing (`hook_entry.py:266-280`, `closeout_context.py:401-443`); for some hosts
  `tests/unit/test_capture_ledger.py:41-67` expects just that, so ok is no promise of a
  bound turn.
* **Close-out.** An acknowledged close-out can still become LOST; `NOT_APPLIED` may be
  reported though the marker exists; a death inside `reserve` blocks the whole store; a
  recovery may replace the final team decision (`closeout_association.py:1149`).
* **Sources.** An expired capture, or a private record refused by `ei ingest`, ends every
  page before the records behind it.
* **Team.** A partial file of a writer that died blocks the retry; a transient write
  failure or a root lost between scan and append makes an event FAILED for good, as does
  one failed read of the key. A ciphertext whose time is over is deleted undelivered by a
  reader or by maintenance (`spool.py:604-606`, `spool.py:643-666`, `maintainer.py:1435`);
  each retry of its receipt then ends SPOOL_NOT_FOUND and DEFERRED, for ever
  (`team_outbox.py:425-427`). `ReportIsDurable` holds until that time, and the team's part
  of `IntakeProgresses` allows it.
* **Notification.** The recovery after a death between the completed receipt and the
  commit erases the receipt of files that exist.
* **Installer.** A target is changed before its journal entry is written; an interrupted
  update of a hashed target blocks the next plan before the recovery is reached; two
  setups are not kept apart; a failed setup leaves the operating system's scheduler as it
  made it.
* **Scheduler.** A failed script is recorded as not registered though its timer may run; a
  death between the units and the state blocks the next registration. A foreign unit file
  that appears between the check (`task_scheduler.py:1012`) and the script's write
  (`scripts/install-systemd-user.sh:54-55`) is overwritten.
* **Migrations.** A death between an event and its checkpoint leaves the event out of the
  rollback manifest; the cleanup of a moved root is refused once the plan is rebuilt
  (`cli.py:1590`, against `docs/root-migration.md:46-51`); staging recovery removes the
  staging of a running copy. `docs/root-migration.md:43-45` asks for a backup with matching
  hashes, but a JSON file that says `verified: true` and repeats the two digests is taken
  for one and no tree is looked at (`migrate.py:1236-1241`); after such a cleanup and a
  rollback the contents may be nowhere.
* **Activation.** `automatic_operation` cannot become VERIFIED when a scheduler is
  requested; a broken hook is reported to the first reader only. Nothing keeps two
  verifications apart: both may send the test notification. `hook-status.json` is read and
  later replaced as a whole without a lock (`canary.py:625-690`), so an old row may come
  back over a newer one; an unreadable receipts file turns a VERIFIED hook into
  HOOK_UNVERIFIED (`canary.py:530-538`).
* **Synchronisation.** A projection mismatch keeps the source pending for ever; two
  machines that both project always conflict; a commit kept from an offline retry is
  pushed only with new changes (`docs/production-rollout.md:60-61`). When the status, the
  staging or the commit of the new projection fails after a lost race, the rebased history
  is pushed as it is (`sync.py:1331-1336`).
* **Publication and release.** A root that is changed while it is validated is still
  reported `validated` (`public_export.py:893`, `public_export.py:974-999`). The push may publish a root changed since the audit (only
  the verification notices); a failure midway leaves the repository and blocks a new plan;
  a release's index and its hosted checks ask for runs on different commits.
* **Experiment.** The exposure is recorded before the deadline is looked at; a line cut
  before its newline (`measurement_events.py:539-546`) swallows the next exposure, which the
  analysis skips although its context is shown (`measurement_events.py:650-655`,
  `experiment.py:190-193`).

## 6. Not modelled, and simplifications

* Parts listed as not modelled in `PROJECT.json`: host adapters, retrieval and context,
  metrics, privacy patterns, the safe file system primitives, configuration and
  diagnostics. They are pure functions of text, only read, or are the atomic steps the
  other modules are made of.
* Mutual exclusion is taken for granted in every module but `Locks`, which shows under
  what conditions it holds.
* Encryption, formats, hashing and the wording of errors; bodies are told apart by name.
* Capacity limits, scan cursors and the `blocked:` allowance of the catalog appear as a
  refusal to act, which every run allows anyway.
* The gate's and curator's judgement is a nondeterministic verdict; so is what the privacy
  checks, the publication audit, git, gh, systemctl and the notification helper answer.
* Receipts in state `UNKNOWN` are absorbing and end an intake as an error does.
* In `Organizer`: the cloud provider (never called), the local providers (no latch), an
  organizer not selected yet (drains defer without reaching the hold), the `verified_auth`
  evidence of `recover`, which nothing passes.
* In `Journal`: merges, splits and redactions are one change against a pattern.
* In `Installer`: `update()`, profile changes, the virtual environment, the interactive
  selection. In `Scheduler`: launchd and Windows tasks, which follow the same protocol
  with one file fewer. In `Sync`: the branch and index checks of a dirty source are one
  guard. In `Release`: the effect-evidence gate and the legacy manifest. In `Activation`:
  the host tests are external answers. In `KnowledgeSetup`: the migration of a remote. In
  `Team`: initialisation of the store and the quarantine of foreign files.
* `decided` is absorbing, so `ClearPayload` and `ClearResult` always find the state they
  compare with; the comparison is kept as the code has it.

## 7. What is left

1. `SetupKeepsTargets`, whose invariant has to number the user's edits against the entries
   and copies of every journal; `ActiveHasEvidence` by induction over the fold, as
   `RebasedIs` does it.
2. An abstract specification of close-out, with `Closeout` shown to implement it, as
   `Custody` is for the pipeline.
3. Interleavings across components that are now apart: a drain and a maintenance run over
   one journal with real change sets; a setup during a scheduled run.
4. The installer's `update()` and the migration of a remote.
