----------------------------- MODULE Organizer -----------------------------
(***************************************************************************)
(* The one organizer of an installation: the hold that decides when the    *)
(* provider may be called (organizer_recovery.py), the router and the      *)
(* budget ledger a call passes (inference/router.py, inference/budget.py), *)
(* the provider's own authentication latch (inference/cli_subscription.py) *)
(* and the drains that make the calls (maintainer.py).                     *)
(*                                                                         *)
(* OrganizerRecovery.run keeps the lock of the hold across the provider    *)
(* call, so one operation is under way at a time and `op' describes it.    *)
(* The process may die between any two of its durable effects, or an error *)
(* may leave run there, with the same files behind.                        *)
(***************************************************************************)
EXTENDS Naturals, Sequences

CONSTANTS
    Workers,         \* processes that may drain the queue
    Candidates,      \* the queue items offered to the organizer
    SettledLocally,  \* those that decide_inheritance settles without the provider
    Configs,         \* fingerprints of the organizer's configuration
    Enabled,         \* the configurations in which the provider is enabled
    Backoff,         \* next_retry's delays, in ticks
    MalformedLimit,  \* curation_max_attempts
    DayLength,       \* ticks in one day of the ledger
    Reserve,         \* the tokens one attempt reserves
    PerRun, PerDay, PerCandidate, RetryLimit,    \* BudgetPolicy
    MaxUse,          \* the most tokens a call may report
    MaxRetryAfter,   \* the longest delay a provider may ask for
    MaxClock, MaxRequests                        \* bounds of the model

ASSUME BackoffAssumption ==
    /\ Backoff \in Seq(Nat \ {0}) /\ Len(Backoff) > 0
    /\ \A i, j \in 1..Len(Backoff) : i <= j => Backoff[i] <= Backoff[j]
ASSUME LimitAssumption ==
    /\ MalformedLimit \in Nat \ {0} /\ DayLength \in Nat \ {0} /\ Reserve \in Nat
    /\ PerRun \in Nat /\ PerDay \in Nat /\ PerCandidate \in Nat /\ RetryLimit \in Nat
    /\ MaxUse \in Nat /\ MaxRetryAfter \in Nat /\ MaxClock \in Nat /\ MaxRequests \in Nat
ASSUME ConfigAssumption ==
    /\ "none" \notin Configs \cup Workers \cup Candidates
    /\ Enabled \subseteq Configs /\ SettledLocally \subseteq Candidates

VARIABLES
    clock,     \* the wall clock, in ticks
    config,    \* the configuration on disk
    status,    \* of each worker: "idle", "starting", "draining"
    moment,    \* `now' of the drain, taken when it started
    fp,        \* the fingerprint of the configuration the drain loaded
    hold,      \* organizer-<hash>.json
    latch,     \* provider-state.json says AUTH_DISABLED
    entries, candidates, runs, attempts,   \* inference-budget.json
    stage,     \* how far the operation that has the lock of the hold has come
    op,        \* whose it is, for which candidate, and the hold it found
    bill,      \* the day of its reservation and what the provider reported
    result,    \* what it came to
    deadline,  \* when the provider asked to be called again, 0 if it did not
    asked,     \* history: resume requests accepted
    heldCalls, \* history: provider calls made while the hold needed action
    streak,    \* history: calls since the hold was last released
    lastAt,    \* history: the moment of the last of them
    calls,     \* history: calls of each candidate on each day
    spent      \* history: tokens used on each day, each call up to its reservation

ledger == <<entries, candidates, runs, attempts>>
drains == <<status, moment, fp>>
operation == <<stage, op, bill, result, deadline>>
releases == <<streak, lastAt>>
usage == <<heldCalls, calls, spent>>
history == <<asked, releases, usage>>
vars == <<clock, config, drains, hold, latch, ledger, operation, history>>

Days == 0..(MaxClock \div DayLength)
Today == clock \div DayLength
NoConfig == "none"
Fingerprints == Configs \cup {NoConfig}
Reasons == {"READY", "PROVIDER_INTERRUPTED", "AUTH_FAILED", "MALFORMED_RESPONSE",
            "PROVIDER_FAILED", "CONFIG_CHANGED_RETRY"}
Results == {"none", "semantic", "local", "refused", "auth", "malformed", "failed"}
Stages == {"none", "recovering", "repair", "gate", "reserved", "calling", "called", "answered"}

Hold == [attempts : Nat, malformed : Nat, needs_action : BOOLEAN, reason : Reasons, due : Nat,
         fingerprint : Fingerprints, request : Fingerprints, consumed : BOOLEAN]

\* A hold without a fault; a deadline of None is due 0.
Ready(reason, fingerprint) ==
    [attempts |-> 0, malformed |-> 0, needs_action |-> FALSE, reason |-> reason, due |-> 0,
     fingerprint |-> fingerprint, request |-> NoConfig, consumed |-> FALSE]

Op == [worker : Workers \cup {"none"}, candidate : Candidates \cup {"none"},
       retry : BOOLEAN, previous : Hold]
Bill == [day : Days, reported : Nat, known : BOOLEAN]
NoOp == [worker |-> "none", candidate |-> "none", retry |-> FALSE,
         previous |-> Ready("READY", NoConfig)]
NoBill == [day |-> 0, reported |-> 0, known |-> FALSE]
Unlocked == stage = "none"
Holder(w) == op.worker = w

Larger(m, n) == IF m > n THEN m ELSE n
Smaller(m, n) == IF m < n THEN m ELSE n
\* next_retry: the last delay repeats.
Delay(n) == Backoff[Smaller(n, Len(Backoff))]

-----------------------------------------------------------------------------
(* The hold.                                                               *)

Changed(w) == hold.fingerprint # NoConfig /\ fp[w] # hold.fingerprint

\* Only an authentication hold, or one whose permission was used up, can be resumed.
Resumable(h) == h.reason = "AUTH_FAILED" \/ h.consumed

\* Mutant: a hold that can be resumed lets drains through without a request.
PermitsUnasked(w) == /\ fp[w] \in Enabled
                     /\ fp[w] = hold.fingerprint
                     /\ Resumable(hold)

\* A held organizer lets one drain through for each request that matches its binding.
Permits(w) == /\ hold.request # NoConfig
              /\ fp[w] \in Enabled
              /\ fp[w] = hold.fingerprint
              /\ Resumable(hold)

\* Mutant: a used permission leaves no mark that lets the hold be resumed.
InterruptedUnconsumed(w) ==
    [attempts |-> hold.attempts + 1, malformed |-> hold.malformed,
     needs_action |-> hold.needs_action, reason |-> "PROVIDER_INTERRUPTED",
     due |-> moment[w] + Delay(hold.attempts + 1), fingerprint |-> hold.fingerprint,
     request |-> IF hold.needs_action THEN NoConfig ELSE hold.request,
     consumed |-> hold.consumed]

\* Mutant: the deadline is only written once the result is known.
InterruptedWithoutCooldown(w) ==
    [attempts |-> hold.attempts + 1, malformed |-> hold.malformed,
     needs_action |-> hold.needs_action, reason |-> "PROVIDER_INTERRUPTED",
     due |-> hold.due, fingerprint |-> hold.fingerprint,
     request |-> IF hold.needs_action THEN NoConfig ELSE hold.request,
     consumed |-> hold.consumed \/ hold.needs_action]

\* The cooldown that is on disk before the provider is invoked.
Interrupted(w) ==
    [attempts |-> hold.attempts + 1, malformed |-> hold.malformed,
     needs_action |-> hold.needs_action, reason |-> "PROVIDER_INTERRUPTED",
     due |-> moment[w] + Delay(hold.attempts + 1), fingerprint |-> hold.fingerprint,
     request |-> IF hold.needs_action THEN NoConfig ELSE hold.request,
     consumed |-> hold.consumed \/ hold.needs_action]

\* A verdict clears everything but the binding.
Cleared == Ready("READY", hold.fingerprint)

\* Mutant: a release keeps the permission of the old configuration.
ReleasedKeepingRequest(w) ==
    [Ready("CONFIG_CHANGED_RETRY", fp[w]) EXCEPT !.request = hold.request]

\* A changed configuration clears the hold and binds it to the new one.
Released(w) == Ready("CONFIG_CHANGED_RETRY", fp[w])

Reason == CASE result = "auth" -> "AUTH_FAILED"
            [] result = "malformed" -> "MALFORMED_RESPONSE"
            [] OTHER -> "PROVIDER_FAILED"

Malformed == hold.malformed + IF result = "malformed" THEN 1 ELSE 0
NeedsAction == op.retry \/ result = "auth" \/ Malformed >= MalformedLimit

Failed(w) ==
    [attempts |-> hold.attempts, malformed |-> Malformed, needs_action |-> NeedsAction,
     reason |-> Reason, due |-> Larger(moment[w] + Delay(hold.attempts), deadline),
     fingerprint |-> hold.fingerprint, request |-> hold.request,
     consumed |-> hold.consumed /\ NeedsAction]

-----------------------------------------------------------------------------
(* The ledger.                                                             *)

\* A counter of another day counts as a new one.
CandidateTokens(c) == IF candidates[c].day = Today THEN candidates[c].tokens ELSE 0

\* Mutant: the attempt cap is off by one.
AdmitsOneMore(w, c) == /\ attempts[c][Today] <= RetryLimit
                       /\ runs[w] + Reserve <= PerRun
                       /\ entries[Today] + Reserve <= PerDay
                       /\ CandidateTokens(c) + Reserve <= PerCandidate

\* consume: the attempt cap, then the caps of the run, the day and the candidate.
Admits(w, c) == /\ attempts[c][Today] < RetryLimit
                /\ runs[w] + Reserve <= PerRun
                /\ entries[Today] + Reserve <= PerDay
                /\ CandidateTokens(c) + Reserve <= PerCandidate

Charge(w, c) ==
    /\ attempts' = [attempts EXCEPT ![c][Today] = @ + 1]
    /\ runs' = [runs EXCEPT ![w] = @ + Reserve]
    /\ entries' = [entries EXCEPT ![Today] = @ + Reserve]
    /\ candidates' = [candidates EXCEPT ![c] =
                        [day |-> Today, tokens |-> CandidateTokens(c) + Reserve]]

\* Mutant: usage that is not known is settled as reported.
PaidAsReported == bill.reported

\* Unknown usage is never evidence that the call was cheaper than its reservation.
Paid == IF bill.known THEN bill.reported ELSE Larger(bill.reported, Reserve)

Corrected(n) == (n + Paid) - Reserve

\* settle: the entry has its own day, the candidate's counter may have moved on.
Adjust(w, c) ==
    /\ runs' = [runs EXCEPT ![w] = Corrected(@)]
    /\ entries' = [entries EXCEPT ![bill.day] = Corrected(@)]
    /\ candidates' = IF candidates[c].day = bill.day
                     THEN [candidates EXCEPT ![c] = [day |-> bill.day,
                                                     tokens |-> Corrected(@.tokens)]]
                     ELSE candidates
    /\ UNCHANGED attempts

-----------------------------------------------------------------------------
(* drain_queue up to its first claim.                                      *)

\* The operation ends and the lock is free.
Unlock == /\ stage' = "none" /\ op' = NoOp /\ bill' = NoBill
          /\ result' = "none" /\ deadline' = 0
Forgotten == streak' = 0 /\ lastAt' = 0

Start(w) ==
    /\ status[w] = "idle"
    /\ status' = [status EXCEPT ![w] = "starting"]
    /\ moment' = [moment EXCEPT ![w] = clock]
    /\ fp' = [fp EXCEPT ![w] = config]
    /\ UNCHANGED <<clock, config, hold, latch, ledger, operation, history>>

\* recover without evidence of a change: a first fingerprint is only a baseline.
Baseline(w) ==
    /\ status[w] = "starting" /\ Unlocked /\ ~Changed(w)
    /\ hold' = [hold EXCEPT !.fingerprint = fp[w]]
    /\ status' = [status EXCEPT ![w] = "draining"]
    /\ UNCHANGED <<clock, config, moment, fp, latch, ledger, operation, history>>

\* recover on a changed configuration: first the provider's latch ...
BeginRecover(w) ==
    /\ status[w] = "starting" /\ Unlocked /\ Changed(w)
    /\ latch' = FALSE
    /\ stage' = "recovering"
    /\ op' = [NoOp EXCEPT !.worker = w]
    /\ UNCHANGED <<clock, config, drains, hold, ledger, bill, result, deadline, history>>

\* ... then the hold.
EndRecover(w) ==
    /\ stage = "recovering" /\ Holder(w)
    /\ hold' = Released(w)
    /\ Unlock
    /\ Forgotten
    /\ status' = [status EXCEPT ![w] = "draining"]
    /\ UNCHANGED <<clock, config, moment, fp, latch, ledger, asked, usage>>

\* A process ends; no later drain has its run id.
Leave(w) ==
    /\ status' = [status EXCEPT ![w] = "idle"]
    /\ moment' = [moment EXCEPT ![w] = 0]
    /\ fp' = [fp EXCEPT ![w] = NoConfig]
    /\ runs' = [runs EXCEPT ![w] = 0]

Stop(w) ==
    /\ status[w] = "draining" /\ ~Holder(w)
    /\ Leave(w)
    /\ UNCHANGED <<clock, config, hold, latch, entries, candidates, attempts, operation, history>>

-----------------------------------------------------------------------------
(* OrganizerRecovery.run, and in it the gate and the router.               *)

\* The hold lets the drain through and is made an interruption before anything is tried.
Enter(w, c) ==
    /\ status[w] = "draining" /\ Unlocked
    /\ hold.needs_action => Permits(w)
    /\ hold.due <= moment[w]
    /\ hold' = Interrupted(w)
    /\ stage' = IF hold.needs_action THEN "repair" ELSE "gate"
    /\ op' = [worker |-> w, candidate |-> c, retry |-> hold.needs_action, previous |-> hold]
    /\ UNCHANGED <<clock, config, drains, latch, ledger, bill, result, deadline, history>>

\* A permitted retry opens the provider's own latch.
Repair(w) ==
    /\ stage = "repair" /\ Holder(w)
    /\ latch' = FALSE
    /\ stage' = "gate"
    /\ UNCHANGED <<clock, config, drains, hold, ledger, op, bill, result, deadline, history>>

\* The operation comes to r without another effect.
Conclude(r) ==
    /\ stage' = "answered" /\ result' = r
    /\ UNCHANGED <<clock, config, drains, hold, latch, ledger, op, bill, history>>

\* decide_inheritance: privacy and an empty claim are settled without the provider.
JudgeLocally(w) ==
    /\ stage = "gate" /\ Holder(w) /\ op.candidate \in SettledLocally
    /\ Conclude("local") /\ UNCHANGED deadline

\* No time is left, or the ledger cannot be read or written: nothing is reserved.
GiveUp(w) ==
    /\ stage = "gate" /\ Holder(w)
    /\ Conclude("failed") /\ UNCHANGED deadline

Admit(w) ==
    /\ stage = "gate" /\ Holder(w) /\ op.candidate \notin SettledLocally
    /\ Admits(w, op.candidate)
    /\ Charge(w, op.candidate)
    /\ stage' = "reserved"
    /\ bill' = [day |-> Today, reported |-> 0, known |-> FALSE]
    /\ UNCHANGED <<clock, config, drains, hold, latch, op, result, deadline, history>>

Refuse(w) ==
    /\ stage = "gate" /\ Holder(w) /\ op.candidate \notin SettledLocally
    /\ ~Admits(w, op.candidate)
    /\ Conclude("refused") /\ UNCHANGED deadline

\* The deadline passed while the reservation was made; the reservation stays.
Expire(w) ==
    /\ stage = "reserved" /\ Holder(w)
    /\ Conclude("failed") /\ UNCHANGED deadline

\* The provider answers without being run: disabled, latched, or the request does not fit.
Decline(w) ==
    /\ stage = "reserved" /\ Holder(w)
    /\ stage' = "called"
    /\ result' \in IF fp[w] \in Enabled /\ latch THEN {"auth", "failed"} ELSE {"failed"}
    /\ \E reported \in IF fp[w] \in Enabled THEN 0..MaxUse ELSE {0} :
          bill' = [bill EXCEPT !.reported = reported]
    /\ UNCHANGED <<clock, config, drains, hold, latch, ledger, op, deadline, history>>

Call(w) ==
    /\ stage = "reserved" /\ Holder(w)
    /\ fp[w] \in Enabled /\ ~latch
    /\ stage' = "calling"
    /\ heldCalls' = heldCalls + IF hold.needs_action THEN 1 ELSE 0
    /\ streak' = streak + 1 /\ lastAt' = moment[w]
    /\ calls' = [calls EXCEPT ![op.candidate][bill.day] = @ + 1]
    /\ UNCHANGED <<clock, config, drains, hold, latch, ledger, op, bill, result, deadline, asked, spent>>

\* What comes back, what it used, what of that is reported, and when to come again.
Answer(w) ==
    /\ stage = "calling" /\ Holder(w)
    /\ \E r \in {"semantic", "auth", "malformed", "failed"}, used, reported \in 0..MaxUse,
          known \in BOOLEAN, after \in 0..MaxRetryAfter :
        /\ known => r \in {"semantic", "malformed"} /\ reported = used
        /\ after > 0 => r = "failed"
        /\ result' = r
        /\ bill' = [day |-> bill.day, reported |-> reported, known |-> known]
        /\ deadline' = IF after = 0 THEN 0 ELSE clock + after
        /\ latch' = (r = "auth")
        /\ spent' = [spent EXCEPT ![bill.day] = @ + Smaller(used, Reserve)]
    /\ stage' = "called"
    /\ UNCHANGED <<clock, config, drains, hold, ledger, op, asked, releases, heldCalls, calls>>

Settle(w) ==
    /\ stage = "called" /\ Holder(w)
    /\ Adjust(w, op.candidate)
    /\ stage' = "answered"
    /\ UNCHANGED <<clock, config, drains, hold, latch, op, bill, result, deadline, history>>

\* The ledger cannot be written: the answer is dropped, the reservation stays.
Unsettled(w) ==
    /\ stage = "called" /\ Holder(w)
    /\ Conclude("failed") /\ deadline' = 0

\* run restores the hold after a refusal the router vouches for ...
Restore(w) ==
    /\ stage = "answered" /\ Holder(w) /\ result = "refused"
    /\ hold' = op.previous
    /\ Unlock
    /\ UNCHANGED <<clock, config, drains, latch, ledger, history>>

\* ... clears it after a verdict ...
Clear(w) ==
    /\ stage = "answered" /\ Holder(w) /\ result \in {"semantic", "local"}
    /\ hold' = Cleared
    /\ Unlock
    /\ Forgotten
    /\ UNCHANGED <<clock, config, drains, latch, ledger, asked, usage>>

\* ... and records a failure.
Fail(w) ==
    /\ stage = "answered" /\ Holder(w) /\ result \in {"auth", "malformed", "failed"}
    /\ hold' = Failed(w)
    /\ Unlock
    /\ UNCHANGED <<clock, config, drains, latch, ledger, history>>

-----------------------------------------------------------------------------
(* The operator, the clock and the end of a process.                       *)

\* ei resume-organizer: one permission for the configuration on disk.
RequestRetry ==
    /\ Unlocked
    /\ config \in Enabled
    /\ hold.fingerprint \in {NoConfig, config}
    /\ hold.request = NoConfig
    /\ hold.needs_action /\ Resumable(hold)
    /\ asked < MaxRequests
    /\ hold' = [hold EXCEPT !.request = config, !.fingerprint = config]
    /\ asked' = asked + 1
    /\ UNCHANGED <<clock, config, drains, latch, ledger, operation, releases, usage>>

ChangeConfig ==
    /\ \E f \in Configs : config' = f
    /\ UNCHANGED <<clock, drains, hold, latch, ledger, operation, history>>

Tick ==
    /\ clock < MaxClock
    /\ clock' = clock + 1
    /\ UNCHANGED <<config, drains, hold, latch, ledger, operation, history>>

\* An OSError, the TimeoutError of a spent operation budget among them, leaves run: the
\* drain goes on with its next candidate.
Abort(w) ==
    /\ stage \notin {"none", "recovering"} /\ Holder(w)
    /\ Unlock
    /\ UNCHANGED <<clock, config, drains, hold, latch, ledger, history>>

\* The process ends, and its lock with it.
Crash(w) ==
    /\ status[w] # "idle"
    /\ Leave(w)
    /\ IF Holder(w) THEN Unlock ELSE UNCHANGED operation
    /\ UNCHANGED <<clock, config, hold, latch, entries, candidates, attempts, history>>

Recover(w) == Baseline(w) \/ BeginRecover(w) \/ EndRecover(w)
Generate(w) ==
    \/ Admit(w) \/ Refuse(w) \/ Expire(w) \/ Decline(w) \/ Call(w) \/ Answer(w)
    \/ Settle(w) \/ Unsettled(w)
Run(w) ==
    \/ \E c \in Candidates : Enter(w, c)
    \/ Repair(w) \/ JudgeLocally(w) \/ GiveUp(w) \/ Generate(w)
    \/ Restore(w) \/ Clear(w) \/ Fail(w) \/ Abort(w)

Next == \/ \E w \in Workers : Start(w) \/ Recover(w) \/ Run(w) \/ Stop(w) \/ Crash(w)
        \/ RequestRetry \/ ChangeConfig \/ Tick

Init ==
    /\ clock = 0 /\ config \in Configs
    /\ status = [w \in Workers |-> "idle"]
    /\ moment = [w \in Workers |-> 0] /\ fp = [w \in Workers |-> NoConfig]
    /\ hold = Ready("READY", NoConfig) /\ latch = FALSE
    /\ entries = [d \in Days |-> 0]
    /\ candidates = [c \in Candidates |-> [day |-> 0, tokens |-> 0]]
    /\ attempts = [c \in Candidates |-> [d \in Days |-> 0]]
    /\ runs = [w \in Workers |-> 0]
    /\ stage = "none" /\ op = NoOp /\ bill = NoBill /\ result = "none" /\ deadline = 0
    /\ asked = 0 /\ heldCalls = 0 /\ streak = 0 /\ lastAt = 0
    /\ calls = [c \in Candidates |-> [d \in Days |-> 0]]
    /\ spent = [d \in Days |-> 0]

Spec == Init /\ [][Next]_vars

-----------------------------------------------------------------------------
(* What the organizer promises.                                            *)

\* Every state has its type; in particular no counter of the ledger falls below zero when a
\* settlement corrects it, and the hold has no fields but the ones _read accepts.
TypeOK ==
    /\ clock \in 0..MaxClock /\ config \in Configs
    /\ status \in [Workers -> {"idle", "starting", "draining"}]
    /\ moment \in [Workers -> Nat] /\ fp \in [Workers -> Fingerprints]
    /\ hold \in Hold /\ latch \in BOOLEAN
    /\ entries \in [Days -> Nat] /\ runs \in [Workers -> Nat]
    /\ candidates \in [Candidates -> [day : Days, tokens : Nat]]
    /\ attempts \in [Candidates -> [Days -> Nat]]
    /\ stage \in Stages /\ op \in Op /\ bill \in Bill /\ result \in Results /\ deadline \in Nat
    /\ asked \in Nat /\ heldCalls \in Nat /\ streak \in Nat
    /\ lastAt \in Nat
    /\ calls \in [Candidates -> [Days -> Nat]] /\ spent \in [Days -> Nat]

\* While the hold needs action the provider is called at most once for each accepted
\* `resume-organizer', however often drains die between the permission and the result.
HeldCallsAreAsked == heldCalls <= asked

\* A pending permission is bound to the configuration the hold is bound to: _read refuses any
\* other file, and with it every later drain and every attempt to resume.
HoldReadable == hold.request # NoConfig => hold.request = hold.fingerprint

\* A hold that blocks drains while the provider's own latch is shut can be resumed by the
\* operator: drains are not let through and nothing else opens the latch.
LatchIsResumable == Unlocked /\ hold.needs_action /\ latch => Resumable(hold)

\* No candidate is sent to the provider more than retry_limit times on one day of the ledger,
\* across drains, restarts, crashes between reservation and call, and midnight.
CallsAreCounted == \A c \in Candidates, d \in Days : calls[c][d] <= RetryLimit

\* The ledger's entry of a day never falls below the tokens used on it, each call counted up
\* to its reservation: a call that crashed, or did not report its usage, stays charged.
SpendIsCharged == \A d \in Days : spent[d] <= entries[d]

Calling == stage = "reserved" /\ stage' = "calling"

\* Between two calls without a release lies the delay next_retry prescribes for that many
\* calls, by the times of the drains that make them, also when every one of them crashes.
CallsAreSpaced == [][Calling /\ streak > 0 => moment[op.worker] >= lastAt + Delay(streak)]_vars
=============================================================================
