----------------------------- MODULE QueueStore -----------------------------
(***************************************************************************)
(* The durable stores that intake and organisation share: the processing   *)
(* queue (src/ei/queue.py), the encrypted body spool (src/ei/spool.py) and *)
(* the emergency envelopes, together with transition_queue_item, the one   *)
(* routine that every process changes a queue item's state with.           *)
(*                                                                         *)
(* One step of a process is one critical section under one store's lock,   *)
(* or one lock-free read.  Between two steps any other process may run,    *)
(* and the process itself may die.                                         *)
(***************************************************************************)
EXTENDS Integers, FiniteSets

CONSTANTS
    Candidates,   \* one per (capture, content): the pending id, and with it the queue id
    Workers,      \* processes running drain_queue (the CLI takes no common lock around it)
    Keeper,       \* the process holding the capture lock
    YesVerdicts,  \* the distinct validated changesets inference may produce
    Horizon,      \* the last instant told apart; later deadlines fall on it
    LeaseTime, CooldownTime, RetryTime,
    MaxFaults     \* bound: failures and process deaths that are explored

ASSUME TimeAssumption ==
    /\ Horizon \in Nat \ {0}
    /\ LeaseTime \in Nat \ {0} /\ CooldownTime \in Nat \ {0} /\ RetryTime \in Nat \ {0}
    /\ MaxFaults \in Nat
ASSUME ProcessAssumption == Keeper \notin Workers /\ "nobody" \notin Workers
ASSUME VerdictAssumption ==
    YesVerdicts \cap {"NO", "none", "payload"} = {} /\ YesVerdicts # {}

VARIABLES
    queue,      \* the queue file of each candidate
    spool,      \* the encrypted bodies on disk: <<c, "payload">> and <<c, verdict>>
    emergency,  \* candidates with an envelope in the emergency spool
    expires,    \* expires_at of each candidate's payload, fixed when it is first accepted
    clock,      \* the current instant
    faults,     \* failures so far
    proc        \* the local state of every process

storeVars == <<queue, spool, emergency, expires, clock, faults, proc>>

Procs == Workers \cup {Keeper}
Verdicts == YesVerdicts \cup {"NO"}
Time == 0 .. Horizon
NoTime == -1
After(t, d) == IF t + d > Horizon THEN Horizon ELSE t + d

-----------------------------------------------------------------------------
(* Queue states.  DEFERRED_QUOTA and FAILED are read-compatibility aliases *)
(* that from_dict and transition_queue_item turn into the states below.    *)

Decided == {"NO_DISCARDED", "DONE"}
Leased == {"IN_PROGRESS", "YES_CURATING"}
Claimable == {"READY", "DEFERRED", "FAILED_RETRYABLE"}
Stopped == {"FAILED_NEEDS_ATTENTION", "QUARANTINED"}
QueueState == Decided \cup Leased \cup Claimable \cup Stopped

\* _ALLOWED_TRANSITIONS, with the same-state transition every check admits.
Allowed(s, t) ==
    \/ s = t
    \/ s \in {"READY", "DEFERRED", "IN_PROGRESS"}
         /\ t \in {"IN_PROGRESS", "YES_CURATING", "NO_DISCARDED", "FAILED_RETRYABLE"} \cup Stopped
    \/ s \in {"READY", "IN_PROGRESS", "FAILED_RETRYABLE", "YES_CURATING"} /\ t = "DEFERRED"
    \/ s \in {"IN_PROGRESS", "FAILED_RETRYABLE", "FAILED_NEEDS_ATTENTION", "YES_CURATING"}
         /\ t = "READY"
    \/ s \in {"IN_PROGRESS", "YES_CURATING"} /\ t = "DONE"
    \/ s = "FAILED_RETRYABLE" /\ t \in {"IN_PROGRESS"} \cup Stopped
    \/ s = "YES_CURATING" /\ t \in {"FAILED_RETRYABLE"} \cup Stopped
    \/ s = "FAILED_NEEDS_ATTENTION" /\ t = "QUARANTINED"

\* A queue file: what of QueueItem the control flow reads.  The fields that never
\* change after enqueue (ids, hashes, classification) are the candidate itself.
QueueItem ==
    [state: QueueState \cup {"NOT_FOUND"}, attempts: Nat,
     owner: Workers \cup {"nobody"}, lease: Time \cup {NoTime}, eligible: Time \cup {NoTime},
     payload: BOOLEAN, result: Verdicts \cup {"none"}]

NotFound ==
    [state |-> "NOT_FOUND", attempts |-> 0, owner |-> "nobody", lease |-> NoTime,
     eligible |-> NoTime, payload |-> FALSE, result |-> "none"]

\* The item enqueue_receipt stores.
FreshItem == [NotFound EXCEPT !.state = "READY", !.payload = TRUE]

HasRefs(item) == item.payload \/ item.result # "none"
IsDecided(c) == queue[c].state \in Decided

-----------------------------------------------------------------------------
(* The local state of a process: where it is, the instant its run froze as *)
(* "now", the candidate it works on with the copy of the item it last read *)
(* and the attempts its own claim counted, the verdict it holds, the       *)
(* target of the transition it is about to make, the instant of that       *)
(* transition and where it goes after it.                                  *)

RestState(m) ==
    [pc |-> "rest", moment |-> m, cand |-> "none", item |-> NotFound,
     tries |-> 0, verdict |-> "none", target |-> "NOT_FOUND", at |-> NoTime, ret |-> "rest"]

At(p, label) == proc[p].pc = label
Becomes(p, local) == proc' = [proc EXCEPT ![p] = local]
Rest(p) == Becomes(p, RestState(proc[p].moment))
Goto(p, label) == Becomes(p, [proc[p] EXCEPT !.pc = label])
Faulty == faults < MaxFaults /\ faults' = faults + 1

\* The new eligibility instant transition_queue_item stores.  "due" is the caller's
\* next_eligible_at, NoTime when it passes none.
NextEligible(cur, target, due, now) ==
    CASE target \in Decided /\ ~HasRefs(cur) -> NoTime
      [] target \in Decided /\ HasRefs(cur) ->
           IF due # NoTime THEN due
           ELSE IF cur.eligible # NoTime THEN cur.eligible ELSE After(now, CooldownTime)
      [] target \notin Decided /\ due # NoTime -> due
      [] target \in Claimable /\ due = NoTime -> cur.eligible
      [] OTHER -> NoTime

\* The queue file transition_queue_item writes.  The lease survives only in the two
\* leased states, and nothing relates the caller to the lease's owner.
Transitioned(cur, target, due, now) ==
    [cur EXCEPT !.state = target,
                !.eligible = NextEligible(cur, target, due, now),
                !.owner = IF target \in Leased THEN cur.owner ELSE "nobody",
                !.lease = IF target \in Leased THEN cur.lease ELSE NoTime]

-----------------------------------------------------------------------------
(* A transition to DONE or NO_DISCARDED: the state first, then for each of *)
(* the two bodies its deletion under the spool lock and the clearing of    *)
(* its reference under the queue lock again.  A same-state transition of a *)
(* decided item is the retry of that cleanup.                              *)

\* Mutant: references are cleared and no body is deleted.
ProceedWithoutDeleting(p, item, at) ==
    LET next == IF item.payload THEN "clear_payload"
                ELSE IF item.result # "none" THEN "clear_result" ELSE proc[p].ret IN
    IF next = "rest" THEN Rest(p)
    ELSE Becomes(p, [proc[p] EXCEPT !.pc = next, !.item = item, !.at = at])

\* The cleanup goes on with the references the item still has, then returns.
Proceed(p, item, at) ==
    LET next == IF item.payload THEN "delete_payload"
                ELSE IF item.result # "none" THEN "delete_result" ELSE proc[p].ret IN
    IF next = "rest" THEN Rest(p)
    ELSE Becomes(p, [proc[p] EXCEPT !.pc = next, !.item = item, !.at = at])

\* The terminal transition itself, refused unless both the caller's copy and the
\* stored item allow the target.
MarkDecided(p, due, now, refused) ==
    LET c == proc[p].cand
        target == proc[p].target
        new == Transitioned(queue[c], target, due, now) IN
    /\ At(p, "mark")
    /\ IF Allowed(proc[p].item.state, target) /\ Allowed(queue[c].state, target)
       THEN /\ queue' = [queue EXCEPT ![c] = new]
            /\ Proceed(p, new, now)
       ELSE /\ IF refused = "rest" THEN Rest(p) ELSE Goto(p, refused)
            /\ UNCHANGED queue
    /\ UNCHANGED <<spool, emergency, expires, clock, faults>>

\* delete_spool of the payload: idempotent when the body is already gone.
DeletePayload(p) ==
    /\ At(p, "delete_payload")
    /\ spool' = spool \ {<<proc[p].cand, "payload">>}
    /\ Goto(p, "clear_payload")
    /\ UNCHANGED <<queue, emergency, expires, clock, faults>>

\* The reference is cleared only in the item as it now is, in the same decided state.
ClearPayload(p) ==
    LET c == proc[p].cand
        due == IF queue[c].result # "none" THEN After(proc[p].at, CooldownTime) ELSE NoTime
        new == IF queue[c].payload
               THEN [queue[c] EXCEPT !.payload = FALSE, !.eligible = due] ELSE queue[c] IN
    /\ At(p, "clear_payload")
    /\ queue[c].state = proc[p].target
    /\ queue' = [queue EXCEPT ![c] = new]
    /\ Proceed(p, new, proc[p].at)
    /\ UNCHANGED <<spool, emergency, expires, clock, faults>>

DeleteResult(p) ==
    /\ At(p, "delete_result")
    /\ spool' = spool \ {<<proc[p].cand, proc[p].item.result>>}
    /\ Goto(p, "clear_result")
    /\ UNCHANGED <<queue, emergency, expires, clock, faults>>

ClearResult(p) ==
    LET c == proc[p].cand
        due == IF queue[c].payload THEN After(proc[p].at, CooldownTime) ELSE NoTime
        new == IF queue[c].result = proc[p].item.result
               THEN [queue[c] EXCEPT !.result = "none", !.eligible = due] ELSE queue[c] IN
    /\ At(p, "clear_result")
    /\ queue[c].state = proc[p].target
    /\ queue[c].result \in {proc[p].item.result, "none"}
    /\ queue' = [queue EXCEPT ![c] = new]
    /\ Proceed(p, new, proc[p].at)
    /\ UNCHANGED <<spool, emergency, expires, clock, faults>>

Cleanup(p) == DeletePayload(p) \/ ClearPayload(p) \/ DeleteResult(p) \/ ClearResult(p)

-----------------------------------------------------------------------------
Tick ==
    /\ clock < Horizon
    /\ clock' = clock + 1
    /\ UNCHANGED <<queue, spool, emergency, expires, faults, proc>>
=============================================================================
