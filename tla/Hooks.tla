------------------------------- MODULE Hooks -------------------------------
(***************************************************************************)
(* What the host calls during a session: the hook at the end of a turn     *)
(* (src/ei/hook_entry.py), which must register the turn and answer within  *)
(* its deadline whatever happens, and the agent's own captures             *)
(* (src/ei/capture.py), of which a session may make only so many.          *)
(*                                                                         *)
(* A capture becomes a pending intent when the installation supplies a     *)
(* trusted namespace and an event of the journal when it does not; an      *)
(* idempotency key stands for the observation.  One session is modelled.   *)
(***************************************************************************)
EXTENDS Integers, FiniteSets

CONSTANTS
    Agents, Keys,      \* callers of record_agent_observation, observations
    Turns,             \* turns that end
    MaxPerSession,     \* capture_max_per_session
    MaxFaults          \* bound: failures, overruns, deaths, changes of the namespace

VARIABLES
    named,      \* trusted_capture_identity gives an identity
    events,     \* capture events of the journal, by key
    intent,     \* intents of the pending store, by key
    receipts,   \* keys whose receipt is SECURED
    lock,       \* the capture lock
    agent,      \* the running calls
    target,     \* the receipt of each turn in the capture ledger
    unknown,    \* turns that have UNKNOWN receipts, each under a key of its own
    scoped,     \* turns whose host has an adapter that proves where they worked
    binding,    \* turns the close-out can cover
    hook,       \* the hook process of each turn, whether it has an identity, its answer
    faults

vars == <<named, events, intent, receipts, lock, agent, target, unknown, scoped, binding, hook, faults>>
captureState == <<named, events, intent, receipts, lock, agent>>
hookState == <<target, unknown, scoped, binding, hook>>

Free == "free"
Idle == [pc |-> "idle", key |-> CHOOSE k \in Keys : TRUE, trusted |-> FALSE]

Init ==
    /\ named \in BOOLEAN
    /\ events = [k \in Keys |-> 0]
    /\ intent = [k \in Keys |-> "none"]
    /\ receipts = {} /\ lock = Free
    /\ agent = [a \in Agents |-> Idle]
    /\ target = [t \in Turns |-> "none"]
    /\ unknown = {}
    /\ scoped \in SUBSET Turns
    /\ binding = {}
    /\ hook = [t \in Turns |-> [pc |-> "idle", identity |-> FALSE, answer |-> "none"]]
    /\ faults = 0

Fault == faults < MaxFaults /\ faults' = faults + 1
At(a, pc) == agent[a].pc = pc
Becomes(a, v) == agent' = [agent EXCEPT ![a] = v]
Goto(a, pc) == agent' = [agent EXCEPT ![a].pc = pc]

-----------------------------------------------------------------------------
(* record_agent_observation.                                               *)

\* The observation is validated and its identity taken before the lock is waited for.
record_agent_observation(a, k) ==
    /\ At(a, "idle")
    /\ Becomes(a, [pc |-> "acquire", key |-> k, trusted |-> named])
    /\ UNCHANGED <<named, events, intent, receipts, lock, hookState, faults>>

Acquire(a) ==
    /\ At(a, "acquire") /\ lock = Free
    /\ lock' = a
    /\ Goto(a, "record")
    /\ UNCHANGED <<named, events, intent, receipts, hookState, faults>>

Captured == {k \in Keys : events[k] > 0 \/ intent[k] # "none"}

\* Mutant: only the journal is counted.
AdmissionByJournal(k) ==
    intent[k] # "none" \/ Cardinality({q \in Keys : events[q] > 0}) < MaxPerSession

\* The session's keys are counted over both stores; a key that is there is not new.
Admission(k) == intent[k] # "none" \/ Cardinality(Captured) < MaxPerSession

Return(a) == lock' = Free /\ Becomes(a, Idle)

\* IDEMPOTENT_REPLAY: the receipt is brought up to date after the lock is given back.
ReplayEvent(a) ==
    /\ At(a, "record") /\ events[agent[a].key] > 0
    /\ lock' = Free /\ Goto(a, "associate")
    /\ UNCHANGED <<named, events, intent, receipts, hookState, faults>>

\* _accept_candidate_locked saves the intent before the body; an intent that is there is
\* completed.
ReserveIntent(a) ==
    LET k == agent[a].key IN
    /\ At(a, "record") /\ events[k] = 0 /\ agent[a].trusted /\ Admission(k)
    /\ intent' = [intent EXCEPT ![k] = IF @ = "none" THEN "reserved" ELSE @]
    /\ Goto(a, "complete")
    /\ UNCHANGED <<named, events, receipts, lock, hookState, faults>>

CompleteIntent(a) ==
    LET k == agent[a].key IN
    /\ At(a, "complete")
    /\ intent' = [intent EXCEPT ![k] = "secured"]
    /\ receipts' = receipts \cup {k}
    /\ Return(a)
    /\ UNCHANGED <<named, events, hookState, faults>>

\* Without an identity the observation becomes an event, unless an intent has its key
\* (PENDING_ALREADY_RESERVED).  No receipt is claimed for it.
AppendEvent(a) ==
    LET k == agent[a].key IN
    /\ At(a, "record") /\ events[k] = 0 /\ ~agent[a].trusted /\ Admission(k)
    /\ events' = IF intent[k] = "none" THEN [events EXCEPT ![k] = @ + 1] ELSE events
    /\ Return(a)
    /\ UNCHANGED <<named, intent, receipts, hookState, faults>>

\* SESSION_CAPTURE_LIMIT.
Refuse(a) ==
    /\ At(a, "record") /\ events[agent[a].key] = 0 /\ ~Admission(agent[a].key)
    /\ Return(a)
    /\ UNCHANGED <<named, events, intent, receipts, hookState, faults>>

\* _associate_receipt takes the lock anew; without an identity there is nothing to do.
_associate_receipt(a) ==
    /\ At(a, "associate") /\ lock = Free
    /\ receipts' = IF agent[a].trusted THEN receipts \cup {agent[a].key} ELSE receipts
    /\ Becomes(a, Idle)
    /\ UNCHANGED <<named, events, intent, lock, hookState, faults>>

\* The budget ends, the storage fails or the process dies: the lock is given back (by its
\* next claimant, after a death), and what was written stays.
CaptureFails(a) ==
    /\ ~At(a, "idle") /\ Fault
    /\ lock' = IF lock = a THEN Free ELSE lock
    /\ Becomes(a, Idle)
    /\ UNCHANGED <<named, events, intent, receipts, hookState>>

NamespaceChanges ==
    /\ Fault
    /\ named' = ~named
    /\ UNCHANGED <<events, intent, receipts, lock, agent, hookState>>

-----------------------------------------------------------------------------
(* handle_normalized_hook for the end of a turn.                           *)

Answer(t, status) == hook' = [hook EXCEPT ![t].pc = "done", ![t].answer = status]
Step(t, from, to) == hook[t].pc = from /\ hook' = [hook EXCEPT ![t].pc = to]
Called(t) == hook' = [hook EXCEPT ![t] = [pc |-> "receipt", identity |-> named, answer |-> "none"]]

\* The host calls the hook, once more if it likes.  The turn has an identity if the
\* installation supplies a trusted namespace at this moment.
run_hook(t) ==
    /\ hook[t].pc = "idle" /\ Called(t)
    /\ UNCHANGED <<captureState, target, unknown, scoped, binding, faults>>

CallAgain(t) ==
    /\ hook[t].pc = "done" /\ Fault /\ Called(t)
    /\ UNCHANGED <<captureState, target, unknown, scoped, binding>>

_write_receipt(t) ==
    /\ Step(t, "receipt", "target")
    /\ UNCHANGED <<captureState, target, unknown, scoped, binding, faults>>

\* register_target, under the capture lock: a receipt that is there is merged and stays
\* what it is; a turn without an identity gets an UNKNOWN receipt under a random key.
RegisterTarget(t) ==
    /\ lock = Free
    /\ Step(t, "target", "scope")
    /\ IF hook[t].identity
       THEN target' = [target EXCEPT ![t] = IF @ = "none" THEN "WAITING" ELSE @] /\ UNCHANGED unknown
       ELSE unknown' = unknown \cup {t} /\ UNCHANGED target
    /\ UNCHANGED <<captureState, scoped, binding, faults>>

\* register_adapter_target leaves the turn unbound when it has no identity, when the
\* namespace is another by now, or when no adapter of its host proves where it worked.
ProveScope(t) ==
    /\ Step(t, "scope", IF hook[t].identity /\ named /\ t \in scoped THEN "bind" ELSE "queue")
    /\ UNCHANGED <<captureState, target, unknown, scoped, binding, faults>>

\* Under the capture lock, and only of a usable receipt.  Whether it binds or not, the hook
\* goes on.
register_adapter_target(t) ==
    /\ lock = Free
    /\ Step(t, "bind", "queue")
    /\ binding' = IF target[t] = "WAITING" THEN binding \cup {t} ELSE binding
    /\ UNCHANGED <<captureState, target, unknown, scoped, faults>>

\* A capture that covers the turn expires undecided (_record_loss_locked).
ReceiptLost(t) ==
    /\ target[t] = "WAITING" /\ Fault
    /\ target' = [target EXCEPT ![t] = "UNAVAILABLE"]
    /\ UNCHANGED <<captureState, unknown, scoped, binding, hook>>

\* The queue line is the one thing the hook may lose and still say ok.
_write_turn_receipt(t) ==
    /\ hook[t].pc = "queue"
    /\ Answer(t, "ok")
    /\ UNCHANGED <<captureState, target, unknown, scoped, binding, faults>>

\* fail_open_result: any failure, and the deadline between any two steps, is answered with
\* "continue".
FailOpen(t) ==
    /\ hook[t].pc \notin {"idle", "done"} /\ Fault
    /\ Answer(t, "failopen")
    /\ UNCHANGED <<captureState, target, unknown, scoped, binding>>

\* A hook that waits for the capture lock gives up when its deadline comes.
LockTimeout(t) ==
    /\ hook[t].pc \in {"target", "bind"} /\ lock # Free
    /\ Answer(t, "failopen")
    /\ UNCHANGED <<captureState, target, unknown, scoped, binding, faults>>

-----------------------------------------------------------------------------
Handle(t) ==
    \/ _write_receipt(t) \/ RegisterTarget(t) \/ ProveScope(t) \/ register_adapter_target(t)
    \/ _write_turn_receipt(t) \/ LockTimeout(t)

Record(a) ==
    \/ Acquire(a) \/ ReplayEvent(a) \/ ReserveIntent(a) \/ CompleteIntent(a)
    \/ AppendEvent(a) \/ Refuse(a) \/ _associate_receipt(a)

Next ==
    \/ \E a \in Agents : \/ \E k \in Keys : record_agent_observation(a, k)
                         \/ Record(a) \/ CaptureFails(a)
    \/ NamespaceChanges
    \/ \E t \in Turns : run_hook(t) \/ CallAgain(t) \/ Handle(t) \/ FailOpen(t) \/ ReceiptLost(t)

Spec == Init /\ [][Next]_vars

\* A hook process that was started is not suspended for good.
Fairness == \A t \in Turns : WF_vars(Handle(t))
FairSpec == Spec /\ Fairness

-----------------------------------------------------------------------------
\* A session has no more captures than its limit, over both routes and whatever part of a
\* capture was done when its process died.
SessionLimit == Cardinality(Captured) <= MaxPerSession

\* An observation is captured once: as one event or one intent, although the namespace may
\* come or go between two calls (_record_agent_locked).
CapturedOnce ==
    \A k \in Keys : events[k] + (IF intent[k] = "none" THEN 0 ELSE 1) <= 1

\* "ok" tells the host that the turn is on record in the ledger, under its key or, without an
\* identity, as unknown.  It does not tell that the close-out can cover it: the binding is made
\* only of a recorded turn whose scope was proven, and made of each such turn when nothing
\* failed and the namespace stayed (_handle_normalized_hook ignores what
\* register_adapter_target returns).
Registered(t) == IF hook[t].identity THEN target[t] # "none" ELSE t \in unknown
OkIsRegistered ==
    /\ \A t \in Turns : hook[t].answer = "ok" => Registered(t)
    /\ \A t \in binding : t \in scoped /\ target[t] # "none"
    /\ \A t \in scoped : hook[t].answer = "ok" /\ named /\ faults = 0 => t \in binding

\* The host is always answered: no agent's lock and no failure keeps a hook from it.
Answered(t) == hook[t].pc \in {"idle", "done"}
=============================================================================
