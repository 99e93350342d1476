--------------------------- MODULE PendingCapture ---------------------------
(***************************************************************************)
(* Intake of a candidate body (src/ei/pending_capture.py) and the evidence *)
(* it leaves in the capture ledger (src/ei/capture_ledger.py).  An intent  *)
(* file is saved before the body, the body before the queue item, the      *)
(* queue item before the receipt, the receipt before the intent's commit;  *)
(* loss runs the same way: the receipt first, then the intent, the queue   *)
(* item and the bodies.                                                    *)
(*                                                                         *)
(* Everything here happens under the capture lock, so one process, the     *)
(* Keeper, stands for whoever holds it.  The queue and the spool have      *)
(* locks of their own: the workers of Drain interleave with every step.    *)
(***************************************************************************)
EXTENDS QueueStore

CONSTANTS
    Captures, CaptureOf,   \* the capture identity each candidate belongs to
    TTL,                   \* the pending policy's ttl_seconds
    MaxAccepts             \* bound: times one candidate is handed to accept_candidate

ASSUME CaptureAssumption ==
    /\ CaptureOf \in [Candidates -> Captures]
    /\ TTL \in Nat \ {0} /\ MaxAccepts \in Nat

VARIABLES
    intent,    \* the intent file of each candidate
    receipt,   \* the receipt of each capture
    accepts    \* calls of accept_candidate so far

captureVars == <<intent, receipt, accepts>>

Intent ==
    [phase: {"NONE", "PREPARED", "COMMITTED", "EXPIRED"}, queued: BOOLEAN,
     cleanup: {"NONE", "FAILED", "CONFIRMED"}]
NoIntent == [phase |-> "NONE", queued |-> FALSE, cleanup |-> "NONE"]

\* A receipt in state UNAVAILABLE with reason PENDING_EXPIRED is EXPIRED here; WAITING
\* receipts carry no candidate and are not told apart from no receipt.
Receipt == [state: {"WAITING", "SECURED", "EXPIRED"}, candidates: SUBSET Candidates]
NoReceipt == [state |-> "WAITING", candidates |-> {}]

\* merge_receipt: loss is absorbing, candidate ids accumulate, and a receipt with a
\* candidate is SECURED.
Merged(old, new) ==
    LET ids == old.candidates \cup new.candidates IN
    [state |-> IF "EXPIRED" \in {old.state, new.state} THEN "EXPIRED"
               ELSE IF ids # {} THEN "SECURED" ELSE new.state,
     candidates |-> ids]

Lost(c) == receipt[CaptureOf[c]].state = "EXPIRED"
Secured(c) == receipt[CaptureOf[c]].state = "SECURED" /\ c \in receipt[CaptureOf[c]].candidates
Body(c) == <<c, "payload">>

keeperRest == Becomes(Keeper, RestState(0))
Candidate == proc[Keeper].cand
Keeps(label) == At(Keeper, label)

-----------------------------------------------------------------------------
(* The beginning of both operations: one reading of "now" (taken before    *)
(* the lock is waited for), then the receipt, the intent and, without its  *)
(* lock, the queue item.                                                   *)

Now == {clock, clock - 1} \cap Time

TerminalRecorded(c) == intent[c].queued /\ IsDecided(c)

Start(c, now, label) ==
    Becomes(Keeper, [RestState(now) EXCEPT !.pc = label, !.cand = c])

\* _recover_terminal: a decided item is its own evidence.  References it still has are
\* cleaned up first.
RecoverTerminal(c, now) ==
    Becomes(Keeper,
            [RestState(now) EXCEPT !.pc = IF HasRefs(queue[c]) THEN "mark" ELSE "secure",
                                   !.cand = c, !.item = queue[c],
                                   !.target = queue[c].state, !.ret = "secure"])

\* accept_candidate.  A first accept fixes the body's deadline (bound: early enough that
\* the deadline is told apart).  After a loss the receipt is returned as it is and
\* nothing changes.
Accept(c, now) ==
    /\ Keeps("rest")
    /\ accepts[c] < MaxAccepts
    /\ accepts' = [accepts EXCEPT ![c] = @ + 1]
    /\ ~Lost(c)
    /\ \/ /\ intent[c] = NoIntent /\ now + TTL <= Horizon
          /\ intent' = [intent EXCEPT ![c].phase = "PREPARED"]
          /\ expires' = [expires EXCEPT ![c] = now + TTL]
          /\ Start(c, now, "write")
       \/ /\ intent[c] # NoIntent
          /\ IF TerminalRecorded(c) THEN RecoverTerminal(c, now)
             ELSE Start(c, now, IF expires[c] <= now THEN "lose" ELSE "write")
          /\ UNCHANGED <<intent, expires>>
    /\ UNCHANGED <<queue, spool, emergency, clock, faults, receipt>>

\* Mutant: the deadline is not looked at.
ReconcilePatient(c, now) ==
    /\ Keeps("rest")
    /\ intent[c] # NoIntent
    /\ IF TerminalRecorded(c) THEN RecoverTerminal(c, now)
       ELSE Start(c, now, IF Lost(c) THEN "lose" ELSE "authenticate")
    /\ UNCHANGED <<queue, spool, emergency, expires, clock, faults, captureVars>>

\* reconcile_pending, one intent of the page.
Reconcile(c, now) ==
    /\ Keeps("rest")
    /\ intent[c] # NoIntent
    /\ IF TerminalRecorded(c) THEN RecoverTerminal(c, now)
       ELSE Start(c, now, IF expires[c] <= now \/ Lost(c) THEN "lose" ELSE "authenticate")
    /\ UNCHANGED <<queue, spool, emergency, expires, clock, faults, captureVars>>

-----------------------------------------------------------------------------
(* write_spool and _complete.                                              *)

\* The body's name is the candidate's, so writing it again is idempotent, unless the
\* body has been deleted: then it is written anew.
WriteBody ==
    /\ Keeps("write")
    /\ spool' = spool \cup {Body(Candidate)}
    /\ Goto(Keeper, "authenticate")
    /\ UNCHANGED <<queue, emergency, expires, clock, faults, captureVars>>

\* The body is authenticated before any acknowledgement, then the queue id is saved.
Authenticate ==
    /\ Keeps("authenticate")
    /\ IF Body(Candidate) \in spool /\ expires[Candidate] > proc[Keeper].moment
       THEN /\ intent' = [intent EXCEPT ![Candidate].queued = TRUE]
            /\ Goto(Keeper, "enqueue")
       ELSE keeperRest /\ UNCHANGED intent
    /\ UNCHANGED <<queue, spool, emergency, expires, clock, faults, receipt, accepts>>

\* enqueue_receipt of an absent item.
Enqueue ==
    /\ Keeps("enqueue")
    /\ queue[Candidate].state = "NOT_FOUND"
    /\ queue' = [queue EXCEPT ![Candidate] = FreshItem]
    /\ UNCHANGED <<spool, emergency, expires, clock, faults, proc, captureVars>>

\* Its store fails: an emergency envelope keeps the item, and is no acknowledgement.
EnqueueEmergency ==
    /\ Keeps("enqueue")
    /\ queue[Candidate].state = "NOT_FOUND"
    /\ Faulty
    /\ emergency' = emergency \cup {Candidate}
    /\ keeperRest
    /\ UNCHANGED <<queue, spool, expires, clock, captureVars>>

\* Mutant: the intent is committed before the receipt is recorded.
ConfirmQueuedEarly ==
    /\ Keeps("enqueue")
    /\ queue[Candidate].state # "NOT_FOUND"
    /\ IF queue[Candidate].payload THEN Goto(Keeper, "commit") ELSE keeperRest
    /\ UNCHANGED <<queue, spool, emergency, expires, clock, faults, captureVars>>

\* The stored item, found or just written, must still reference the body.
ConfirmQueued ==
    /\ Keeps("enqueue")
    /\ queue[Candidate].state # "NOT_FOUND"
    /\ IF queue[Candidate].payload THEN Goto(Keeper, "secure") ELSE keeperRest
    /\ UNCHANGED <<queue, spool, emergency, expires, clock, faults, captureVars>>

\* _record_receipt_locked with the queue item as evidence.  A loss on record stands.
Secure ==
    LET k == CaptureOf[Candidate]
        new == [state |-> "SECURED", candidates |-> {Candidate}] IN
    /\ Keeps("secure")
    /\ IF Lost(Candidate)
       THEN keeperRest /\ UNCHANGED receipt
       ELSE /\ receipt' = [receipt EXCEPT ![k] = Merged(@, new)]
            /\ Goto(Keeper, "commit")
    /\ UNCHANGED <<queue, spool, emergency, expires, clock, faults, intent, accepts>>

Commit ==
    /\ Keeps("commit")
    /\ intent' = [intent EXCEPT ![Candidate].phase = "COMMITTED"]
    /\ keeperRest
    /\ UNCHANGED <<queue, spool, emergency, expires, clock, faults, receipt, accepts>>

\* The terminal transition of _recover_terminal and its cleanup.
RecoverMark ==
    /\ MarkDecided(Keeper, After(proc[Keeper].moment, CooldownTime), proc[Keeper].moment, "rest")
    /\ UNCHANGED captureVars

RecoverCleanup == Cleanup(Keeper) /\ UNCHANGED captureVars

-----------------------------------------------------------------------------
(* _expire.                                                                *)

\* Mutant: the loss is not recorded.
LoseSilently ==
    /\ Keeps("lose")
    /\ Goto(Keeper, "expire")
    /\ UNCHANGED <<queue, spool, emergency, expires, clock, faults, captureVars>>

\* Loss evidence comes first, for the whole capture.
Lose ==
    LET new == [state |-> "EXPIRED", candidates |-> {}] IN
    /\ Keeps("lose")
    /\ receipt' = [receipt EXCEPT ![CaptureOf[Candidate]] = Merged(@, new)]
    /\ Goto(Keeper, "expire")
    /\ UNCHANGED <<queue, spool, emergency, expires, clock, faults, intent, accepts>>

ExpireIntent ==
    /\ Keeps("expire")
    /\ intent' = [intent EXCEPT ![Candidate].phase = "EXPIRED"]
    /\ Goto(Keeper, "inspect")
    /\ UNCHANGED <<queue, spool, emergency, expires, clock, faults, receipt, accepts>>

\* The queue item is read without its lock; a decided one is left as it is.
Inspect ==
    LET item == queue[Candidate]
        next == CASE ~intent[Candidate].queued \/ item.state = "NOT_FOUND" -> "drop_payload"
                  [] intent[Candidate].queued /\ item.state \in Decided ->
                       IF item.result # "none" THEN "drop_result" ELSE "drop_payload"
                  [] OTHER -> "revoke" IN
    /\ Keeps("inspect")
    /\ Becomes(Keeper, [proc[Keeper] EXCEPT !.pc = next, !.item = item])
    /\ UNCHANGED <<queue, spool, emergency, expires, clock, faults, captureVars>>

\* transition_queue_item admits a quarantined item here, once its body has expired.
Revocable(item) ==
    \/ Allowed(item.state, "FAILED_NEEDS_ATTENTION")
    \/ item.state = "QUARANTINED" /\ item.payload /\ expires[Candidate] <= proc[Keeper].moment

Revoke ==
    LET c == Candidate
        new == Transitioned(queue[c], "FAILED_NEEDS_ATTENTION", NoTime, proc[Keeper].moment) IN
    /\ Keeps("revoke")
    /\ IF Revocable(proc[Keeper].item) /\ Revocable(queue[c])
       THEN /\ queue' = [queue EXCEPT ![c] = new]
            /\ Becomes(Keeper, [proc[Keeper] EXCEPT
                 !.pc = IF new.result # "none" THEN "drop_result" ELSE "drop_payload", !.item = new])
       ELSE Goto(Keeper, "drop_failed") /\ UNCHANGED queue
    /\ UNCHANGED <<spool, emergency, expires, clock, faults, captureVars>>

DropResult ==
    /\ Keeps("drop_result")
    /\ spool' = spool \ {<<Candidate, proc[Keeper].item.result>>}
    /\ Goto(Keeper, "drop_payload")
    /\ UNCHANGED <<queue, emergency, expires, clock, faults, captureVars>>

DropPayload ==
    /\ Keeps("drop_payload")
    /\ spool' = spool \ {Body(Candidate)}
    /\ Goto(Keeper, "drop_confirmed")
    /\ UNCHANGED <<queue, emergency, expires, clock, faults, captureVars>>

\* A storage call of the cleanup raises.
DropFails ==
    /\ proc[Keeper].pc \in {"inspect", "revoke", "drop_result", "drop_payload"}
    /\ Faulty
    /\ Goto(Keeper, "drop_failed")
    /\ UNCHANGED <<queue, spool, emergency, expires, clock, captureVars>>

RecordCleanup ==
    /\ proc[Keeper].pc \in {"drop_failed", "drop_confirmed"}
    /\ intent' = [intent EXCEPT ![Candidate].cleanup = IF Keeps("drop_failed") THEN "FAILED"
                                                       ELSE "CONFIRMED"]
    /\ keeperRest
    /\ UNCHANGED <<queue, spool, emergency, expires, clock, faults, receipt, accepts>>

-----------------------------------------------------------------------------
\* The process dies, or an exception ends the operation with the candidate waiting.
KeeperFails ==
    /\ ~Keeps("rest")
    /\ Faulty
    /\ keeperRest
    /\ UNCHANGED <<queue, spool, emergency, expires, clock, captureVars>>

KeeperOnward ==
    \/ WriteBody \/ Authenticate \/ Enqueue \/ ConfirmQueued \/ Secure \/ Commit
    \/ RecoverMark \/ RecoverCleanup
    \/ Lose \/ ExpireIntent \/ Inspect \/ Revoke \/ DropResult \/ DropPayload \/ RecordCleanup

KeeperStep ==
    \/ \E c \in Candidates, now \in Now : Accept(c, now) \/ Reconcile(c, now)
    \/ KeeperOnward
    \/ EnqueueEmergency \/ DropFails \/ KeeperFails
=============================================================================
