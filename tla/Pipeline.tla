------------------------------ MODULE Pipeline ------------------------------
(***************************************************************************)
(* Intake (PendingCapture) and organisation (Drain) over the same queue,   *)
(* spool and ledger: the whole path of a candidate from accept_candidate   *)
(* to its decision, its loss and the deletion of its bodies.               *)
(***************************************************************************)
EXTENDS Drain, PendingCapture

vars == <<storeVars, journal, captureVars>>

Init ==
    /\ queue = [c \in Candidates |-> NotFound]
    /\ spool = {}
    /\ emergency = {}
    /\ expires = [c \in Candidates |-> 0]
    /\ clock = 0
    /\ faults = 0
    /\ proc = [p \in Procs |-> RestState(0)]
    /\ journal = {}
    /\ intent = [c \in Candidates |-> NoIntent]
    /\ receipt = [k \in Captures |-> NoReceipt]
    /\ accepts = [c \in Candidates |-> 0]

Work(w) == WorkerStep(w) /\ UNCHANGED captureVars
Keep == KeeperStep /\ UNCHANGED journal
Pass == Tick /\ UNCHANGED <<journal, captureVars>>

Next == (\E w \in Workers : Work(w)) \/ Keep \/ Pass

Spec == Init /\ [][Next]_vars

-----------------------------------------------------------------------------
(* Fairness.  A process that has started an operation goes on with it (a   *)
(* death is a step of its own, and deaths are finitely many); drains and   *)
(* reconciliation are run again and again by the scheduled maintenance,    *)
(* and their pages rotate over all records, so no record is passed over    *)
(* for ever; time goes on.                                                 *)

Onward(w) ==
    /\ \/ ReadCandidate(w) \/ Infer(w) \/ SaveResult(w) \/ AttachResult(w) \/ StartCurating(w)
       \/ ApplyChangeset(w) \/ Settle(w) \/ MarkOutcome(w) \/ CleanUp(w)
       \/ HandleFailure(w) \/ HandlerSettle(w)
    /\ UNCHANGED captureVars

Fairness ==
    /\ WF_vars(Pass)
    /\ WF_vars(KeeperOnward /\ UNCHANGED journal)
    /\ \A c \in Candidates : SF_vars(Reconcile(c, clock) /\ UNCHANGED journal)
    /\ \A w \in Workers :
         /\ WF_vars(Onward(w))
         /\ SF_vars(BeginRun(w) /\ UNCHANGED captureVars)
         /\ \A c \in Candidates : SF_vars(ClaimCleanup(w, c) /\ UNCHANGED captureVars)

FairSpec == Spec /\ Fairness

-----------------------------------------------------------------------------
(* Safety.                                                                 *)

CleanupLabels == {"delete_payload", "clear_payload", "delete_result", "clear_result"}
WorkerLabels ==
    {"rest", "read", "infer", "save", "attach", "curate", "apply", "mark", "settle", "failed",
     "handle"} \cup CleanupLabels
LossLabels ==
    {"expire", "inspect", "revoke", "drop_result", "drop_payload", "drop_failed", "drop_confirmed"}
KeeperLabels ==
    {"rest", "write", "authenticate", "enqueue", "secure", "commit", "mark", "lose"}
       \cup LossLabels \cup CleanupLabels

ProcState ==
    [pc: WorkerLabels \cup KeeperLabels, moment: Time, cand: Candidates \cup {"none"},
     item: QueueItem, tries: Nat, verdict: Verdicts \cup {"none"}, target: QueueState \cup {"NOT_FOUND"},
     at: Time \cup {NoTime}, ret: {"rest", "secure"}]

StoreTypeOK ==
    /\ queue \in [Candidates -> QueueItem]
    /\ \A c \in Candidates :
         queue[c].state \notin Leased => queue[c].owner = "nobody" /\ queue[c].lease = NoTime
    /\ spool \subseteq Candidates \X (Verdicts \cup {"payload"})
    /\ emergency \subseteq Candidates
    /\ expires \in [Candidates -> Time]
    /\ clock \in Time
    /\ faults \in 0 .. MaxFaults
    /\ journal \subseteq Candidates \X YesVerdicts
    /\ intent \in [Candidates -> Intent]
    /\ receipt \in [Captures -> Receipt]
    /\ accepts \in [Candidates -> 0 .. MaxAccepts]

\* Every store and every process's local state stays within its type, and only an item in
\* a leased state carries a lease (transition_queue_item drops it).
TypeOK == StoreTypeOK /\ proc \in [Procs -> ProcState]

\* A candidate that the ledger calls SECURED, and any queue item still to be worked on,
\* has its body in the spool until it is decided or its capture is recorded as lost
\* (_complete, transition_queue_item, _expire): no crash, replayed accept, emergency
\* envelope or stale worker leaves an acknowledged candidate without its body.
BodyCustody ==
    \A c \in Candidates :
        /\ Secured(c) => IsDecided(c) \/ Body(c) \in spool
        /\ queue[c].state # "NOT_FOUND" => IsDecided(c) \/ Lost(c) \/ Body(c) \in spool

\* The intent never runs ahead of the ledger (the order of writes in _complete and
\* _expire): COMMITTED only with the candidate in its receipt, EXPIRED only with the loss
\* on record.
LedgerBeforeIntent ==
    \A c \in Candidates :
        /\ intent[c].phase = "COMMITTED" =>
             Lost(c) \/ (Secured(c) /\ queue[c].state # "NOT_FOUND")
        /\ intent[c].phase = "EXPIRED" => Lost(c)

\* However leases expire under running workers and results are replayed after crashes,
\* at most one validated changeset per candidate reaches the journal, a DONE item's
\* changeset is there, and a NO_DISCARDED item's never is (attach_validated_result,
\* load_validated_result, _finish_changeset).
OneVerdict ==
    \A c \in Candidates :
        /\ \A u, v \in YesVerdicts : <<c, u>> \in journal /\ <<c, v>> \in journal => u = v
        /\ queue[c].state = "DONE" => \E v \in YesVerdicts : <<c, v>> \in journal
        /\ queue[c].state = "NO_DISCARDED" => \A v \in YesVerdicts : <<c, v>> \notin journal

\* A validated result attached to an item is never exchanged for another one, and its
\* reference is cleared only in a decided item (attach_validated_result compares the whole
\* item, transition_queue_item clears references after the decision only).
AttachedResultStands ==
    [][\A c \in Candidates : queue[c].result # "none" =>
         \/ queue'[c].result = queue[c].result
         \/ queue'[c].result = "none" /\ IsDecided(c)]_vars

\* The detailed pipeline implements Custody.
Outcome == [c \in Candidates |-> IF IsDecided(c) THEN queue[c].state ELSE "none"]
Evidence == [c \in Candidates |-> IF Lost(c) THEN "lost" ELSE IF Secured(c) THEN "secured" ELSE "none"]
Held == {c \in Candidates : Body(c) \in spool}

C == INSTANCE Custody WITH held <- Held, evidence <- Evidence, applied <- journal, outcome <- Outcome

\* Custody's promises hold of the queue, the spool, the ledger and the journal: a body is
\* dropped only after its decision or recorded loss, evidence of loss is final, SECURED is
\* only said of a body that is there or consumed, decisions are final and agree with the
\* journal.
ImplementsCustody == C!CSpec

-----------------------------------------------------------------------------
(* Liveness, under FairSpec.                                               *)

\* An accepted candidate is in the end secured or recorded as lost: an interrupted
\* accept_candidate never stays PREPARED (reconcile_pending).
IntakeSettles ==
    \A c \in Candidates :
        intent[c].phase = "PREPARED" ~> intent[c].phase \in {"COMMITTED", "EXPIRED"}

\* Every accepted candidate is in the end decided or recorded as lost; none stays in a
\* retry, a quarantine or an emergency envelope for ever.
CandidateResolves ==
    \A c \in Candidates : intent[c] # NoIntent ~> IsDecided(c) \/ Lost(c)

\* No interruption leaves a candidate between two stores for ever: its acceptance is
\* completed or its loss recorded, and then it is decided (reconcile_pending, drain_queue).
CandidatesSettle == IntakeSettles /\ CandidateResolves

\* An accept, replayed while a worker finishes the candidate, writes the body of a decided
\* one again: it found the item undecided, and write_spool takes a deleted body for a new one.
RewritesDecided(c) == Keeps("write") /\ Candidate = c /\ IsDecided(c)

\* The body of a decided candidate leaves the spool, however often the cleanup fails
\* (claim_queue_item and _recover_terminal retry it), if no replayed accept overtaken by the
\* decision writes it again; and so does the body of a lost candidate, however often it is
\* accepted (reconcile_pending runs _expire again).
BodiesLeave ==
    \A c \in Candidates :
        /\ []~RewritesDecided(c) => (IsDecided(c) ~> Body(c) \notin spool)
        /\ intent[c].phase = "EXPIRED" ~> Body(c) \notin spool

-----------------------------------------------------------------------------
(* What the repository says of the code and the code does not do.          *)

\* pending_capture.py, _recover_terminal: "never classify a completed candidate as TTL
\* loss".  No step records the loss of a candidate whose item is already decided.
CompletedNeverLost ==
    [][\A c \in Candidates : ~Lost(c) /\ Lost(c)' => ~IsDecided(c)]_vars

=============================================================================
