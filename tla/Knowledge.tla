----------------------------- MODULE Knowledge ------------------------------
(***************************************************************************)
(* What happens to accepted knowledge: the journal, its projection, the    *)
(* maintenance run, the lock files and the making of the knowledge root.   *)
(* A behaviour is a behaviour of one of these components, named by part.   *)
(***************************************************************************)
EXTENDS Integers, FiniteSets, Sequences

CONSTANTS
    \* Journal
    Candidates, Against, Rich, Workers, Needed, JournalFaults, MaxTime,
    \* Locks
    Procs, Kinds, NoFile, LockFaults,
    \* Projection
    Publishers, Readers, MaxVersion, MaxCli, ProjectionFaults,
    \* Maintenance
    MaxRunVersion, MaxBad, Slack,
    \* KnowledgeSetup
    SetupFaults

\* No candidate, process or publisher has the name of an absent one.
ASSUME NobodyIsNamed == "none" \notin Candidates
ASSUME ProcessesAreNamed == NoFile \notin Procs
ASSUME FreeIsNobody == "free" \notin Publishers
ASSUME VersionsAreCounted == MaxVersion \in Nat \ {0}
\* The journal of a maintenance run has fewer states than the sentinel of one not read.
ASSUME RunsAreCounted == MaxRunVersion \in 0..98
\* A stage notices the end of its time at most one unit late: the margin the reserves have.
ASSUME SlackIsSmall == Slack \in {0, 1}

VARIABLES
    part,    \* the component of this behaviour; the others' variables are "unused"
    journal, curated, outcome, claim, run, now, faults, kind, file, pc, seen, old, gens,
    index, pages, mirror, lock, pub, rd, cli, runs, clock, bad, errs, base, events,
    projection, fresh, drain, sync, observed, incident, bads, root, origin, staging, owner,
    remote, link, receipt, retained
vars == <<part, journal, curated, outcome, claim, run, now, faults, kind, file, pc, seen,
          old, gens, index, pages, mirror, lock, pub, rd, cli, runs, clock, bad, errs, base,
          events, projection, fresh, drain, sync, observed, incident, bads, root, origin,
          staging, owner, remote, link, receipt, retained>>

J == INSTANCE Journal WITH MaxFaults <- JournalFaults
L == INSTANCE Locks WITH MaxFaults <- LockFaults
P == INSTANCE Projection WITH MaxFaults <- ProjectionFaults
M == INSTANCE Maintenance WITH MaxVersion <- MaxRunVersion
K == INSTANCE KnowledgeSetup WITH MaxFaults <- SetupFaults

\* The rest of the variables while a component runs.
BesideJ == <<part, kind, file, pc, seen, old, gens, index, pages, mirror, lock, pub, rd,
            cli, runs, clock, bad, errs, base, events, projection, fresh, drain, sync,
            observed, incident, bads, root, origin, staging, owner, remote, link, receipt,
            retained>>
BesideL == <<part, journal, curated, outcome, claim, run, now, gens, index, pages, mirror,
            lock, pub, rd, cli, runs, clock, bad, errs, base, events, projection, fresh,
            drain, sync, observed, incident, bads, root, origin, staging, owner, remote,
            link, receipt, retained>>
BesideP == <<part, curated, outcome, claim, run, now, kind, file, pc, seen, old, clock, bad,
            errs, base, events, projection, fresh, drain, sync, observed, incident, bads,
            root, origin, staging, owner, remote, link, receipt, retained>>
BesideM == <<part, curated, outcome, claim, run, now, faults, kind, file, seen, old, gens,
            pages, mirror, lock, pub, rd, cli, runs, root, origin, staging, owner, remote,
            link, receipt, retained>>
BesideK == <<part, journal, curated, outcome, claim, now, kind, file, pc, seen, old, gens,
            index, pages, mirror, lock, pub, rd, cli, runs, clock, bad, errs, base, events,
            projection, fresh, drain, sync, observed, incident, bads>>

Init ==
    \/ /\ J!Init
       /\ part = "journal" /\ kind = "unused" /\ file = "unused" /\ pc = "unused"
       /\ seen = "unused" /\ old = "unused" /\ gens = "unused" /\ index = "unused"
       /\ pages = "unused" /\ mirror = "unused" /\ lock = "unused" /\ pub = "unused"
       /\ rd = "unused" /\ cli = "unused" /\ runs = "unused" /\ clock = "unused"
       /\ bad = "unused" /\ errs = "unused" /\ base = "unused" /\ events = "unused"
       /\ projection = "unused" /\ fresh = "unused" /\ drain = "unused" /\ sync = "unused"
       /\ observed = "unused" /\ incident = "unused" /\ bads = "unused" /\ root = "unused"
       /\ origin = "unused" /\ staging = "unused" /\ owner = "unused" /\ remote = "unused"
       /\ link = "unused" /\ receipt = "unused" /\ retained = "unused"
    \/ /\ L!Init
       /\ part = "locks" /\ journal = "unused" /\ curated = "unused" /\ outcome = "unused"
       /\ claim = "unused" /\ run = "unused" /\ now = "unused" /\ gens = "unused"
       /\ index = "unused" /\ pages = "unused" /\ mirror = "unused" /\ lock = "unused"
       /\ pub = "unused" /\ rd = "unused" /\ cli = "unused" /\ runs = "unused"
       /\ clock = "unused" /\ bad = "unused" /\ errs = "unused" /\ base = "unused"
       /\ events = "unused" /\ projection = "unused" /\ fresh = "unused" /\ drain = "unused"
       /\ sync = "unused" /\ observed = "unused" /\ incident = "unused" /\ bads = "unused"
       /\ root = "unused" /\ origin = "unused" /\ staging = "unused" /\ owner = "unused"
       /\ remote = "unused" /\ link = "unused" /\ receipt = "unused" /\ retained = "unused"
    \/ /\ P!Init
       /\ part = "projection" /\ curated = "unused" /\ outcome = "unused"
       /\ claim = "unused" /\ run = "unused" /\ now = "unused" /\ kind = "unused"
       /\ file = "unused" /\ pc = "unused" /\ seen = "unused" /\ old = "unused"
       /\ clock = "unused" /\ bad = "unused" /\ errs = "unused" /\ base = "unused"
       /\ events = "unused" /\ projection = "unused" /\ fresh = "unused" /\ drain = "unused"
       /\ sync = "unused" /\ observed = "unused" /\ incident = "unused" /\ bads = "unused"
       /\ root = "unused" /\ origin = "unused" /\ staging = "unused" /\ owner = "unused"
       /\ remote = "unused" /\ link = "unused" /\ receipt = "unused" /\ retained = "unused"
    \/ /\ M!Init
       /\ part = "maintenance" /\ curated = "unused" /\ outcome = "unused"
       /\ claim = "unused" /\ run = "unused" /\ now = "unused" /\ faults = "unused"
       /\ kind = "unused" /\ file = "unused" /\ seen = "unused" /\ old = "unused"
       /\ gens = "unused" /\ pages = "unused" /\ mirror = "unused" /\ lock = "unused"
       /\ pub = "unused" /\ rd = "unused" /\ cli = "unused" /\ runs = "unused"
       /\ root = "unused" /\ origin = "unused" /\ staging = "unused" /\ owner = "unused"
       /\ remote = "unused" /\ link = "unused" /\ receipt = "unused" /\ retained = "unused"
    \/ /\ K!Init
       /\ part = "setup" /\ journal = "unused" /\ curated = "unused" /\ outcome = "unused"
       /\ claim = "unused" /\ now = "unused" /\ kind = "unused" /\ file = "unused"
       /\ pc = "unused" /\ seen = "unused" /\ old = "unused" /\ gens = "unused"
       /\ index = "unused" /\ pages = "unused" /\ mirror = "unused" /\ lock = "unused"
       /\ pub = "unused" /\ rd = "unused" /\ cli = "unused" /\ runs = "unused"
       /\ clock = "unused" /\ bad = "unused" /\ errs = "unused" /\ base = "unused"
       /\ events = "unused" /\ projection = "unused" /\ fresh = "unused" /\ drain = "unused"
       /\ sync = "unused" /\ observed = "unused" /\ incident = "unused" /\ bads = "unused"
Next ==
    \/ part = "journal" /\ J!Next /\ UNCHANGED BesideJ
    \/ part = "locks" /\ L!Next /\ UNCHANGED BesideL
    \/ part = "projection" /\ P!Next /\ UNCHANGED BesideP
    \/ part = "maintenance" /\ M!Next /\ UNCHANGED BesideM
    \/ part = "setup" /\ K!Next /\ UNCHANGED BesideK
Spec == Init /\ [][Next]_vars

\* The fairness of each component, for the behaviours that are its own.
FairSpec ==
    /\ Spec
    /\ \A w \in Workers : WF_<<J!vars>>(part = "journal" /\ J!Apply(w))
    /\ \A p \in Procs :
          /\ WF_<<L!vars>>(part = "locks" /\ UNCHANGED kind /\ L!Step(p))
          /\ WF_<<L!vars>>(part = "locks" /\ UNCHANGED kind /\ L!Dead(p) /\ L!Age(p))
    /\ \A p \in Publishers : WF_<<P!vars>>(part = "projection" /\ P!Project(p))
    /\ WF_<<P!vars>>(part = "projection" /\ cli.pc # "idle" /\ P!_project_events_legacy)
    /\ WF_<<M!vars>>(part = "maintenance" /\ M!Start)
    /\ WF_<<M!vars>>(part = "maintenance" /\ M!Step)
    /\ WF_<<M!vars>>(part = "maintenance" /\ drain # M!None /\ M!Drain)
    /\ WF_<<K!vars>>(part = "setup" /\ K!Step)
    /\ SF_<<K!vars>>(part = "setup" /\ K!plan_knowledge_setup("local"))

-----------------------------------------------------------------------------
\* What shows in the journal of an applied change set shows completely, a pattern is active
\* only with the evidence the policy asks for, and an event file is replaced only while two
\* workers hold its candidate, by an event of the same operation; with two appliers, a lease
\* that ends under one of them and a death between any two appends (apply_changeset,
\* promotion_eligibility, append_event).
JournalIsSound ==
    /\ [](part = "journal" => J!AppliedIsProven /\ J!ActiveHasEvidence)
    /\ [][part = "journal" => J!ReplacedWhileHeldTwice]_vars

\* A lock file is exclusive as long as nobody dies or outstays its limit (FileLock).
ExclusiveWithoutFaults == part = "locks" => L!ExclusiveWithoutFaults

\* What people and readers are led to is there: both generations the index names are
\* complete, and so is the one behind the page for people (project_events,
\* _repair_mirror).
PublishedIsReadable == part = "projection" => P!PointerIsComplete /\ P!MirrorIsReadable

\* A run attempts every stage the reserves are for, whatever the others take, and
\* synchronises only what it has projected of the events it found (run_maintenance).
RunIsComplete ==
    /\ [](part = "maintenance" => M!StagesGetTheirTurn)
    /\ [][part = "maintenance" => M!SyncIsCurrent]_vars

\* A knowledge root that did not exist is whole once it exists; COMPLETE is reported only of
\* one pushed, whole, to a private repository; and what others put beside it or into the
\* repository stays (bootstrap_knowledge_repository, apply_github_knowledge_setup).
RootIsWhole ==
    /\ [](part = "setup" => K!RootIsWhole)
    /\ [][part = "setup" => K!CompleteIsPushed /\ K!OthersAreKept]_vars

\* What was begun is finished: change sets are settled, nobody is kept out by a lock left
\* behind, the newest state of the journal is projected and published by a maintenance run
\* that also closes its incident, and a failed setup never blocks the next one for good.
KnowledgeProgresses ==
    /\ \A c \in Candidates : []<>(part = "journal" => J!Settled(c))
    /\ \A p \in Procs : []<>(part = "locks" => L!Served(p))
    /\ []<>(part = "projection" => P!Published)
    /\ []<>(part = "maintenance" => index = journal)
    /\ []<>(part = "maintenance" => ~incident)
    /\ []<>(part = "setup" => K!Made)
=============================================================================
