------------------------------- MODULE Drain -------------------------------
(***************************************************************************)
(* drain_queue (src/ei/maintainer.py) with claim_queue_item and            *)
(* attach_validated_result (src/ei/queue.py): any number of workers claim  *)
(* queue items under a lease, have the organizer judge the candidate, keep *)
(* the validated result beside the payload, apply a YES to the journal and *)
(* finish the item.  A lease may expire under a worker that is still       *)
(* running, so several workers may hold the same item at different stages. *)
(***************************************************************************)
EXTENDS QueueStore

CONSTANTS
    MaxAttempts,   \* settings.curation_max_attempts
    AttemptBound   \* bound: claims of one candidate that are explored

ASSUME DrainAssumption ==
    MaxAttempts \in Nat \ {0} /\ AttemptBound \in Nat

VARIABLE
    journal   \* applied changesets: <<c, verdict>> once the marker event exists

\* Every drain starts with one reading of the clock and uses it throughout.
BeginRun(w) ==
    /\ At(w, "rest")
    /\ proc[w].moment < clock
    /\ Becomes(w, RestState(clock))
    /\ UNCHANGED <<queue, spool, emergency, clock, expires, journal, faults>>

-----------------------------------------------------------------------------
(* recover_emergency_spool: runs at the start of a drain under the queue   *)
(* and the emergency lock.  The envelope goes only after the queue file is *)
(* there; an existing item must still carry the same payload reference,    *)
(* otherwise the whole pass stops on the collision.                        *)

\* Bound: an envelope's own TTL is not told apart, it may lapse at any time.
RecoverEnvelope(w, c) ==
    /\ At(w, "rest")
    /\ c \in emergency
    /\ \/ queue[c].state = "NOT_FOUND" /\ queue' = [queue EXCEPT ![c] = FreshItem]
       \/ queue[c].payload /\ UNCHANGED queue
    /\ emergency' = emergency \ {c}
    /\ UNCHANGED <<spool, clock, proc, expires, journal, faults>>

\* The process dies after the queue file is written and before the envelope is deleted.
RecoverEnvelopeDies(w, c) ==
    /\ At(w, "rest")
    /\ c \in emergency
    /\ queue[c].state = "NOT_FOUND"
    /\ queue' = [queue EXCEPT ![c] = FreshItem]
    /\ Faulty
    /\ UNCHANGED <<spool, emergency, clock, proc, expires, journal>>

ExpireEnvelope(w, c) ==
    /\ At(w, "rest")
    /\ c \in emergency
    /\ emergency' = emergency \ {c}
    /\ UNCHANGED <<queue, spool, clock, proc, expires, journal, faults>>

-----------------------------------------------------------------------------
(* claim_queue_item.  The rotating page decides which of the eligible      *)
(* items comes first; here it is any of them.                              *)

\* A stale lease (by the worker's own clock) makes a leased item READY again.
Eligible(w, c) ==
    LET item == queue[c]
        now == proc[w].moment IN
    /\ item.payload => expires[c] > now
    /\ \/ item.state \in Claimable
       \/ item.state \in Leased /\ item.lease # NoTime /\ item.lease <= now
    /\ item.eligible <= now

Claim(w, c) ==
    LET claimed == [queue[c] EXCEPT !.state = "IN_PROGRESS", !.attempts = @ + 1, !.owner = w,
                                    !.lease = After(proc[w].moment, LeaseTime)] IN
    /\ At(w, "rest")
    /\ Eligible(w, c)
    /\ queue[c].attempts < AttemptBound
    /\ queue' = [queue EXCEPT ![c] = claimed]
    /\ Becomes(w, [proc[w] EXCEPT !.pc = "read", !.cand = c, !.item = claimed,
                                  !.tries = claimed.attempts])
    /\ UNCHANGED <<spool, emergency, clock, expires, journal, faults>>

\* A decided item that still references a body is cleaned up before any claim.
ClaimCleanup(w, c) ==
    /\ At(w, "rest")
    /\ IsDecided(c) /\ HasRefs(queue[c])
    /\ queue[c].eligible <= proc[w].moment
    /\ Becomes(w, [proc[w] EXCEPT !.pc = "mark", !.cand = c, !.item = queue[c],
                                  !.target = queue[c].state])
    /\ UNCHANGED <<queue, spool, emergency, clock, expires, journal, faults>>

-----------------------------------------------------------------------------
(* _process_claimed and _finish_changeset.                                 *)

\* process_failure: where a failure sends the item, by the attempts the worker saw.
\* A privacy or safety reason quarantines; any other is retried up to the limit.
FailureTargets(attempts) ==
    {"QUARANTINED", IF attempts >= MaxAttempts THEN "FAILED_NEEDS_ATTENTION" ELSE "FAILED_RETRYABLE"}

\* The payload is authenticated first; a cached verdict replays without inference.
ReadCandidate(w) ==
    LET c == proc[w].cand
        item == proc[w].item IN
    /\ At(w, "read")
    /\ \/ /\ <<c, "payload">> \notin spool \/ (item.result # "none" /\ <<c, item.result>> \notin spool)
          /\ Goto(w, "failed")
       \/ /\ <<c, "payload">> \in spool /\ item.result = "none"
          /\ Goto(w, "infer")
       \/ /\ <<c, "payload">> \in spool /\ item.result = "NO" /\ <<c, "NO">> \in spool
          /\ Becomes(w, [proc[w] EXCEPT !.pc = "mark", !.verdict = "NO", !.target = "NO_DISCARDED"])
       \/ /\ <<c, "payload">> \in spool /\ item.result \in YesVerdicts /\ <<c, item.result>> \in spool
          /\ Becomes(w, [proc[w] EXCEPT !.pc = "apply", !.verdict = item.result])
    /\ UNCHANGED <<queue, spool, emergency, clock, expires, journal, faults>>

\* The organizer answers with a verdict, or the decision is deferred, or the answer
\* fails validation.
Infer(w) ==
    /\ At(w, "infer")
    /\ \/ \E v \in Verdicts : Becomes(w, [proc[w] EXCEPT !.pc = "save", !.verdict = v])
       \/ \E t \in {"DEFERRED"} \cup FailureTargets(proc[w].item.attempts) :
            Becomes(w, [proc[w] EXCEPT !.pc = "settle", !.target = t])
    /\ UNCHANGED <<queue, spool, emergency, clock, expires, journal, faults>>

\* save_validated_result names the body by its content.  A body left behind by an
\* earlier run has another lifetime and refuses the write; one saved at the same
\* instant is returned as it is.
SaveResult(w) ==
    LET saved == <<proc[w].cand, proc[w].verdict>> IN
    /\ At(w, "save")
    /\ \/ spool' = spool \cup {saved} /\ Goto(w, "attach")
       \/ saved \in spool /\ Goto(w, "failed") /\ UNCHANGED spool
    /\ UNCHANGED <<queue, emergency, clock, expires, journal, faults>>

\* Mutant: the state is compared and not the claim.
AttachResultUnfenced(w) ==
    LET c == proc[w].cand
        new == [queue[c] EXCEPT !.result = proc[w].verdict] IN
    /\ At(w, "attach")
    /\ queue[c].state = "IN_PROGRESS"
    /\ queue' = [queue EXCEPT ![c] = new]
    /\ IF proc[w].verdict = "NO"
       THEN Becomes(w, [proc[w] EXCEPT !.pc = "mark", !.item = new, !.target = "NO_DISCARDED"])
       ELSE Becomes(w, [proc[w] EXCEPT !.pc = "curate", !.item = new])
    /\ UNCHANGED <<spool, emergency, clock, expires, journal, faults>>

\* attach_validated_result compares the whole stored item with the worker's copy: a
\* claim that has changed hands in the meantime refuses the result.
AttachResult(w) ==
    LET c == proc[w].cand
        new == [queue[c] EXCEPT !.result = proc[w].verdict] IN
    /\ At(w, "attach")
    /\ IF queue[c] = proc[w].item /\ queue[c].state = "IN_PROGRESS"
       THEN /\ queue' = [queue EXCEPT ![c] = new]
            /\ IF proc[w].verdict = "NO"
               THEN Becomes(w, [proc[w] EXCEPT !.pc = "mark", !.item = new,
                                               !.target = "NO_DISCARDED"])
               ELSE Becomes(w, [proc[w] EXCEPT !.pc = "curate", !.item = new])
       ELSE Goto(w, "failed") /\ UNCHANGED queue
    /\ UNCHANGED <<spool, emergency, clock, expires, journal, faults>>

\* apply_gate_decision of a YES.
StartCurating(w) ==
    LET c == proc[w].cand
        new == Transitioned(queue[c], "YES_CURATING", NoTime, clock) IN
    /\ At(w, "curate")
    /\ IF Allowed(proc[w].item.state, "YES_CURATING") /\ Allowed(queue[c].state, "YES_CURATING")
       THEN /\ queue' = [queue EXCEPT ![c] = new]
            /\ Becomes(w, [proc[w] EXCEPT !.pc = "apply", !.item = new])
       ELSE Goto(w, "failed") /\ UNCHANGED queue
    /\ UNCHANGED <<spool, emergency, clock, expires, journal, faults>>

\* _finish_changeset: apply_changeset finds its own marker or appends the events and
\* the marker; a refusal defers or fails the item.
ApplyChangeset(w) ==
    /\ At(w, "apply")
    /\ \/ /\ journal' = journal \cup {<<proc[w].cand, proc[w].verdict>>}
          /\ Becomes(w, [proc[w] EXCEPT !.pc = "mark", !.target = "DONE"])
          /\ UNCHANGED faults
       \/ /\ Faulty
          /\ \E t \in {"DEFERRED"} \cup FailureTargets(proc[w].item.attempts) :
               Becomes(w, [proc[w] EXCEPT !.pc = "settle", !.target = t])
          /\ UNCHANGED journal
    /\ UNCHANGED <<queue, spool, emergency, clock, expires>>

\* The next_eligible_at that a deferral or a retryable failure passes.
RetryDue(w) ==
    IF proc[w].target \in {"DEFERRED", "FAILED_RETRYABLE"}
    THEN After(proc[w].moment, RetryTime) ELSE NoTime

\* Mutant: only the worker's copy is consulted, not the stored item.
SettleAsStale(w, refused) ==
    LET c == proc[w].cand
        target == proc[w].target IN
    /\ Allowed(proc[w].item.state, target)
    /\ queue' = [queue EXCEPT ![c] = Transitioned(queue[c], target, RetryDue(w), proc[w].moment)]
    /\ Rest(w)

\* A non-terminal transition with the worker's copy of the item.
SettleAs(w, refused) ==
    LET c == proc[w].cand
        target == proc[w].target IN
    IF Allowed(proc[w].item.state, target) /\ Allowed(queue[c].state, target)
    THEN /\ queue' = [queue EXCEPT ![c] = Transitioned(queue[c], target, RetryDue(w), proc[w].moment)]
         /\ Rest(w)
    ELSE /\ IF refused = "rest" THEN Rest(w) ELSE Goto(w, refused)
         /\ UNCHANGED queue

Settle(w) ==
    /\ At(w, "settle")
    /\ SettleAs(w, "failed")
    /\ UNCHANGED <<spool, emergency, clock, expires, journal, faults>>

\* The terminal transition, either of the decision just made or, for an item that was
\* decided before, of the cleanup that claim_queue_item retries.
MarkOutcome(w) ==
    LET retry == proc[w].item.state \in Decided
        due == IF retry THEN After(proc[w].moment, CooldownTime) ELSE NoTime
        now == IF proc[w].verdict = "NO" THEN clock ELSE proc[w].moment IN
    /\ MarkDecided(w, due, now, IF retry THEN "rest" ELSE "failed")
    /\ UNCHANGED journal

CleanUp(w) == Cleanup(w) /\ UNCHANGED journal

-----------------------------------------------------------------------------
(* The exception handler of drain_queue.                                   *)

Working == {"read", "infer", "save", "attach", "curate", "apply", "mark", "settle"}

\* Any storage call of the processing may raise.
Raise(w) ==
    /\ proc[w].pc \in Working
    /\ proc[w].item.state \notin Decided
    /\ Faulty
    /\ Goto(w, "failed")
    /\ UNCHANGED <<queue, spool, emergency, clock, expires, journal>>

\* The handler reads the stored item: a decision that is already durable stands.  Any
\* other item fails by the attempts of the claim the handler still has.
HandleFailure(w) ==
    /\ At(w, "failed")
    /\ IF IsDecided(proc[w].cand)
       THEN Rest(w)
       ELSE \E t \in {"DEFERRED"} \cup FailureTargets(proc[w].tries) :
              Becomes(w, [proc[w] EXCEPT !.pc = "handle", !.target = t])
    /\ UNCHANGED <<queue, spool, emergency, clock, expires, journal, faults>>

\* A refused transition is only logged.
HandlerSettle(w) ==
    /\ At(w, "handle")
    /\ SettleAs(w, "rest")
    /\ UNCHANGED <<spool, emergency, clock, expires, journal, faults>>

\* The process dies or runs out of its time budget, at any point.  What it left in
\* the stores stays there.
WorkerDies(w) ==
    /\ ~At(w, "rest")
    /\ Faulty
    /\ Rest(w)
    /\ UNCHANGED <<queue, spool, emergency, clock, expires, journal>>

-----------------------------------------------------------------------------
WorkerStep(w) ==
    \/ BeginRun(w)
    \/ \E c \in Candidates :
         \/ RecoverEnvelope(w, c) \/ RecoverEnvelopeDies(w, c) \/ ExpireEnvelope(w, c)
         \/ Claim(w, c) \/ ClaimCleanup(w, c)
    \/ ReadCandidate(w) \/ Infer(w) \/ SaveResult(w) \/ AttachResult(w) \/ StartCurating(w)
    \/ ApplyChangeset(w) \/ Settle(w) \/ MarkOutcome(w) \/ CleanUp(w)
    \/ Raise(w) \/ HandleFailure(w) \/ HandlerSettle(w) \/ WorkerDies(w)
=============================================================================
