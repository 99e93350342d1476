-------------------------- MODULE OrganizerProofs --------------------------
(***************************************************************************)
(* The properties of Organizer for any number of workers, candidates and   *)
(* configurations, any delays and any limits.                              *)
(***************************************************************************)
EXTENDS Organizer, TLAPS

-----------------------------------------------------------------------------
(* The inductive invariant.                                                *)

\* The stages of run; in the first three, or once the budget refused, nothing was called.
Asking == {"repair", "gate", "reserved", "calling", "called", "answered"}
Uncalled == stage \in {"repair", "gate", "reserved"} \/ (stage = "answered" /\ result = "refused")

\* An operation belongs to a worker that is alive, and its label tells what it is.
OpOK ==
    /\ stage = "none" => op = NoOp /\ result = "none"
    /\ stage # "none" => op.worker \in Workers /\ status[op.worker] # "idle"
    /\ stage = "recovering" => op.retry = FALSE
    /\ stage \in Asking => op.candidate \in Candidates
    /\ result = "refused" => stage = "answered"

\* A hold that needs no action has no permission pending and room for malformed answers;
\* a permission has the binding of the hold.
Sound(h) ==
    /\ ~h.needs_action => h.request = NoConfig /\ h.malformed < MalformedLimit
    /\ h.request # NoConfig => h.request = h.fingerprint

\* A hold that needs action can be resumed while the latch is shut.
HoldOK ==
    /\ Sound(hold)
    /\ hold.needs_action /\ latch => Resumable(hold)
    /\ result = "malformed" => ~latch

\* What run has made of the hold it found.
RunOK ==
    stage \in Asking =>
        /\ op.retry = hold.needs_action
        /\ op.retry => hold.consumed
        /\ hold.request = NoConfig
        /\ hold.attempts = op.previous.attempts + 1
        /\ hold.due = moment[op.worker] + Delay(hold.attempts)
        /\ Sound(op.previous) /\ op.previous.needs_action = op.retry
        /\ op.retry => Resumable(op.previous) /\ op.previous.request # NoConfig
        /\ op.previous.due <= moment[op.worker]

\* Every accepted request is pending, in use or spent.
Pending == IF hold.request # NoConfig THEN 1 ELSE 0
Granted == IF op.retry /\ Uncalled THEN 1 ELSE 0
CreditOK == heldCalls + Pending + Granted <= asked

\* The deadline of hold h keeps its distance to the last call.
Spaced(h) == streak > 0 => h.due >= lastAt + Delay(streak) /\ h.attempts >= streak
SpaceOK == Spaced(hold) /\ (Uncalled => Spaced(op.previous))

\* Calls are covered by attempts, and the one that may still be made by its reservation.
Reserved(c, d) == IF stage = "reserved" /\ op.candidate = c /\ bill.day = d THEN 1 ELSE 0
AttemptsOK ==
    \A c \in Candidates, d \in Days :
        calls[c][d] + Reserved(c, d) <= attempts[c][d] /\ attempts[c][d] <= RetryLimit

\* A reservation stays in all the counters until it is settled.
Charged(d) == IF stage \in {"reserved", "calling"} /\ bill.day = d THEN Reserve ELSE 0
LedgerOK ==
    /\ \A d \in Days : spent[d] + Charged(d) <= entries[d]
    /\ stage = "reserved" => bill.known = FALSE
    /\ stage = "called" => spent[bill.day] + Reserve <= entries[bill.day] + Paid
    /\ stage \in {"reserved", "calling", "called"} =>
          runs[op.worker] >= Reserve /\ candidates[op.candidate].tokens >= Reserve

IInv ==
    TypeOK /\ OpOK /\ HoldOK /\ RunOK /\ CreditOK /\ SpaceOK /\ AttemptsOK /\ LedgerOK

-----------------------------------------------------------------------------
(* Types.                                                                  *)

\* The delays are positive and do not decrease.
LEMMA DelayFacts ==
    /\ \A n \in Nat \ {0} : Delay(n) \in Nat \ {0}
    /\ \A m, n \in Nat \ {0} : m <= n => Delay(m) <= Delay(n)
<1>1. \A n \in Nat \ {0} : Smaller(n, Len(Backoff)) \in 1..Len(Backoff)
  BY BackoffAssumption DEF Smaller
<1>2. \A m, n \in Nat \ {0} : m <= n => Smaller(m, Len(Backoff)) <= Smaller(n, Len(Backoff))
  BY BackoffAssumption DEF Smaller
<1>3. \A i \in 1..Len(Backoff) : Backoff[i] \in Nat \ {0}
  BY BackoffAssumption
<1> QED
  BY <1>1, <1>2, <1>3, BackoffAssumption DEF Delay

\* The ledger's day is one of its days.
LEMMA TodayType == TypeOK => Today \in Days
<1>1. ASSUME NEW x \in Nat, NEW y \in Nat, NEW k \in Nat, k # 0, x <= y
      PROVE  x \div k \in 0..(y \div k)
  <2>1. /\ x \div k \in Nat /\ y \div k \in Nat
        /\ k * (x \div k) <= x
        /\ y < k * (y \div k) + k
    BY <1>1
  <2>2. ASSUME NEW p \in Nat, NEW q \in Nat, k * p < k * q + k
        PROVE  p <= q
    <3>1. SUFFICES ASSUME p > q PROVE FALSE
      OBVIOUS
    <3>2. PICK d \in Nat : p = q + 1 + d
      <4>1. p - q - 1 \in Nat /\ p = q + 1 + (p - q - 1)
        BY <3>1
      <4> QED
        BY <4>1
    <3>3. k * p = k * q + k + k * d /\ k * d \in Nat /\ k * q \in Nat
      BY <3>2
    <3> QED
      BY <3>3, <2>2
  <2>3. k * (x \div k) < k * (y \div k) + k
    BY <2>1, <1>1
  <2>4. x \div k <= y \div k
    BY <2>1, <2>2, <2>3
  <2> QED
    BY <2>1, <2>4
<1>2. ASSUME TypeOK
      PROVE  /\ clock \in Nat /\ MaxClock \in Nat /\ clock <= MaxClock
             /\ DayLength \in Nat /\ DayLength # 0
  BY <1>2, LimitAssumption DEF TypeOK
<1> QED
  BY <1>1, <1>2, Zenon DEF Today, Days

\* A record with fields of the right types is a hold.
LEMMA HoldFields ==
    ASSUME NEW a \in Nat, NEW m \in Nat, NEW n \in BOOLEAN, NEW r \in Reasons, NEW d \in Nat,
           NEW f \in Fingerprints, NEW q \in Fingerprints, NEW u \in BOOLEAN
    PROVE  [attempts |-> a, malformed |-> m, needs_action |-> n, reason |-> r, due |-> d,
            fingerprint |-> f, request |-> q, consumed |-> u] \in Hold
  BY Zenon DEF Hold

\* The fields of a hold have their types.
LEMMA HoldTypes ==
    ASSUME NEW h \in Hold
    PROVE  /\ h.attempts \in Nat /\ h.malformed \in Nat /\ h.needs_action \in BOOLEAN
           /\ h.reason \in Reasons /\ h.due \in Nat /\ h.fingerprint \in Fingerprints
           /\ h.request \in Fingerprints /\ h.consumed \in BOOLEAN
  BY DEF Hold

\* A hold without a fault is a hold.
LEMMA ReadyType ==
    ASSUME NEW r \in Reasons, NEW f \in Fingerprints
    PROVE  Ready(r, f) \in Hold
<1>1. 0 \in Nat /\ FALSE \in BOOLEAN /\ NoConfig \in Fingerprints
  BY DEF Fingerprints
<1> QED
  BY <1>1, HoldFields, Zenon DEF Ready

\* The operation that nobody runs.
LEMMA NoOpType == NoOp \in Op /\ NoOp.worker = "none" /\ NoOp.retry = FALSE
<1>1. Ready("READY", NoConfig) \in Hold
  BY ReadyType DEF Reasons, Fingerprints
<1> QED
  BY <1>1, Zenon DEF NoOp, Op

\* The bill of an operation that reserved nothing.
LEMMA NoBillType == NoBill \in Bill
<1>1. 0 \in Days
  BY LimitAssumption DEF Days
<1> QED
  BY <1>1, Zenon DEF NoBill, Bill

\* A record with fields of the right types is an operation.
LEMMA OpFields ==
    ASSUME NEW w \in Workers \cup {"none"}, NEW c \in Candidates \cup {"none"}, NEW r \in BOOLEAN,
           NEW h \in Hold
    PROVE  [worker |-> w, candidate |-> c, retry |-> r, previous |-> h] \in Op
  BY Zenon DEF Op

\* The fields of an operation have their types.
LEMMA OpTypes ==
    ASSUME NEW o \in Op
    PROVE  /\ o.worker \in Workers \cup {"none"} /\ o.candidate \in Candidates \cup {"none"}
           /\ o.retry \in BOOLEAN /\ o.previous \in Hold
  BY DEF Op

\* A record with fields of the right types is a bill.
LEMMA BillFields ==
    ASSUME NEW d \in Days, NEW n \in Nat, NEW k \in BOOLEAN
    PROVE  [day |-> d, reported |-> n, known |-> k] \in Bill
  BY Zenon DEF Bill

\* The end of an operation.
LEMMA UnlockType ==
    ASSUME Unlock
    PROVE  /\ stage' \in Stages /\ op' \in Op /\ bill' \in Bill /\ result' \in Results
           /\ deadline' \in Nat /\ OpOK'
  BY NoOpType, NoBillType DEF Unlock, Stages, Results, OpOK, Asking

-----------------------------------------------------------------------------
(* Every action preserves the invariant.                                   *)

\* The facts about types that the steps below need.
LEMMA Facts ==
    ASSUME TypeOK
    PROVE  /\ Today \in Days
           /\ hold.attempts \in Nat /\ hold.malformed \in Nat /\ hold.needs_action \in BOOLEAN
           /\ hold.reason \in Reasons /\ hold.due \in Nat /\ hold.fingerprint \in Fingerprints
           /\ hold.request \in Fingerprints /\ hold.consumed \in BOOLEAN
           /\ op.worker \in Workers \cup {"none"} /\ op.candidate \in Candidates \cup {"none"}
           /\ op.retry \in BOOLEAN /\ op.previous \in Hold
           /\ bill.day \in Days /\ bill.reported \in Nat /\ bill.known \in BOOLEAN
<1>1. hold \in Hold /\ op \in Op /\ bill \in Bill
  BY DEF TypeOK
<1>2. bill.day \in Days /\ bill.reported \in Nat /\ bill.known \in BOOLEAN
  BY <1>1 DEF Bill
<1> QED
  BY <1>1, <1>2, TodayType, HoldTypes, OpTypes

\* An operation keeps its invariants when only the clock, the configuration and workers that
\* do not have the lock move.
LEMMA Frame ==
    ASSUME IInv, UNCHANGED <<hold, latch, entries, candidates, attempts, operation, history>>,
           stage # "none" => /\ moment'[op.worker] = moment[op.worker]
                             /\ runs'[op.worker] = runs[op.worker]
                             /\ status'[op.worker] # "idle",
           TypeOK'
    PROVE  IInv'
<1> USE DEF IInv, operation, history, usage, releases
<1>1. OpOK'
  BY DEF OpOK, Asking
<1>2. HoldOK'
  BY DEF HoldOK, Sound, Resumable
<1>3. RunOK'
  BY DEF RunOK, Asking, Sound, Resumable, Delay, OpOK
<1>4. CreditOK'
  BY DEF CreditOK, Pending, Granted, Uncalled
<1>5. SpaceOK'
  BY DEF SpaceOK, Spaced, Uncalled, Delay
<1>6. AttemptsOK'
  BY DEF AttemptsOK, Reserved
<1>7. LedgerOK'
  BY DEF LedgerOK, Charged, Paid
<1> QED
  BY <1>1, <1>2, <1>3, <1>4, <1>5, <1>6, <1>7

\* drain_queue starts: its worker has no operation.
LEMMA StepStart ==
    ASSUME IInv, NEW w \in Workers, Start(w)
    PROVE  IInv'
<1> USE DEF Start, drains, ledger, operation, history, usage, releases
<1>1. TypeOK'
  BY LimitAssumption DEF IInv, TypeOK, Fingerprints
<1>2. stage # "none" => op.worker # w /\ op.worker \in Workers
  BY DEF IInv, OpOK
<1>3. stage # "none" => /\ moment'[op.worker] = moment[op.worker]
                        /\ runs'[op.worker] = runs[op.worker]
                        /\ status'[op.worker] # "idle"
  BY <1>2 DEF IInv, TypeOK, OpOK
<1> QED
  BY <1>1, <1>3, Frame

\* The configuration file changes, or time passes.
LEMMA StepOutside ==
    ASSUME IInv, ChangeConfig \/ Tick
    PROVE  IInv'
<1> USE DEF ChangeConfig, Tick, drains, ledger, operation, history, usage, releases
<1>1. TypeOK'
  BY LimitAssumption DEF IInv, TypeOK
<1>2. stage # "none" => /\ moment'[op.worker] = moment[op.worker]
                        /\ runs'[op.worker] = runs[op.worker]
                        /\ status'[op.worker] # "idle"
  BY DEF IInv, OpOK
<1> QED
  BY <1>1, <1>2, Frame

\* A drain ends between two operations.
LEMMA StepStop ==
    ASSUME IInv, NEW w \in Workers, Stop(w)
    PROVE  IInv'
<1> USE DEF Stop, Leave, operation, history, usage, releases
<1>1. TypeOK'
  BY DEF IInv, TypeOK, Fingerprints
<1>2. stage # "none" => /\ moment'[op.worker] = moment[op.worker]
                        /\ runs'[op.worker] = runs[op.worker]
                        /\ status'[op.worker] # "idle"
  BY DEF IInv, TypeOK, OpOK, Holder
<1> QED
  BY <1>1, <1>2, Frame

\* An operation that ends leaves the ledger's obligations behind.
LEMMA Ending ==
    ASSUME IInv, Unlock, UNCHANGED <<latch, entries, candidates, attempts, calls, spent>>,
           TypeOK', Sound(hold)', hold'.needs_action /\ latch => Resumable(hold'),
           CreditOK', Spaced(hold)'
    PROVE  IInv'
<1> USE DEF IInv, Unlock
<1>1. OpOK'
  BY UnlockType
<1>2. HoldOK'
  BY DEF HoldOK, Resumable
<1>3. RunOK'
  BY DEF RunOK, Asking
<1>4. SpaceOK'
  BY DEF SpaceOK, Uncalled
<1>5. AttemptsOK'
  <2>1. ASSUME NEW c \in Candidates, NEW d \in Days
        PROVE  calls[c][d] <= attempts[c][d] /\ attempts[c][d] <= RetryLimit
    BY LimitAssumption DEF TypeOK, AttemptsOK, Reserved
  <2>2. ASSUME NEW c \in Candidates, NEW d \in Days
        PROVE  calls[c][d] \in Nat
    BY DEF TypeOK
  <2> QED
    BY <2>1, <2>2 DEF AttemptsOK, Reserved
<1>6. LedgerOK'
  <2>1. ASSUME NEW d \in Days
        PROVE  spent[d] <= entries[d] /\ spent[d] \in Nat
    BY LimitAssumption DEF TypeOK, LedgerOK, Charged
  <2> QED
    BY <2>1 DEF LedgerOK, Charged
<1> QED
  BY <1>1, <1>2, <1>3, <1>4, <1>5, <1>6

\* A lock that is let go with the hold as it is.
LEMMA Letting ==
    ASSUME IInv, Unlock,
           UNCHANGED <<hold, latch, entries, candidates, attempts, history>>, TypeOK'
    PROVE  IInv'
<1> USE DEF IInv, history, usage, releases
<1>1. Sound(hold)' /\ (hold'.needs_action /\ latch => Resumable(hold'))
  BY DEF HoldOK, Sound, Resumable
<1>2. Pending' = Pending /\ Pending \in Nat /\ Granted' = 0 /\ Granted \in Nat
  BY NoOpType DEF Pending, Granted, Unlock
<1>3. CreditOK'
  BY <1>2 DEF CreditOK, TypeOK
<1>4. Spaced(hold)'
  BY DEF SpaceOK, Spaced, Delay
<1> QED
  BY <1>1, <1>3, <1>4, Ending

\* A process dies: its operation, if it has one, ends where it is.
LEMMA StepCrash ==
    ASSUME IInv, NEW w \in Workers, Crash(w)
    PROVE  IInv'
<1> USE DEF Crash, Leave
<1>1. CASE Holder(w)
  <2>1. Unlock
    BY <1>1
  <2>2. TypeOK'
    BY <2>1, UnlockType DEF IInv, TypeOK, Fingerprints, history, usage, releases
  <2> QED
    BY <2>1, <2>2, Letting
<1>2. CASE ~Holder(w)
  <2>1. UNCHANGED operation
    BY <1>2
  <2>2. TypeOK'
    BY <2>1 DEF IInv, TypeOK, Fingerprints, history, usage, releases, operation
  <2>3. stage # "none" => /\ moment'[op.worker] = moment[op.worker]
                          /\ runs'[op.worker] = runs[op.worker]
                          /\ status'[op.worker] # "idle"
    BY <1>2 DEF IInv, TypeOK, OpOK, Holder
  <2> QED
    BY <2>1, <2>2, <2>3, Frame
<1> QED
  BY <1>1, <1>2

\* An error leaves run: only the lock is let go.
LEMMA StepAbort ==
    ASSUME IInv, NEW w \in Workers, Abort(w)
    PROVE  IInv'
<1> USE DEF Abort, drains, ledger
<1>1. TypeOK'
  BY UnlockType DEF IInv, TypeOK, history, usage, releases
<1> QED
  BY <1>1, Letting

\* recover binds a hold without a binding; a permission keeps its own.
LEMMA StepBaseline ==
    ASSUME IInv, NEW w \in Workers, Baseline(w)
    PROVE  IInv'
<1> USE DEF Baseline, Unlocked, ledger
<1>0. TypeOK /\ hold \in Hold
  BY DEF IInv, TypeOK
<1>1. hold' = [attempts |-> hold.attempts, malformed |-> hold.malformed,
               needs_action |-> hold.needs_action, reason |-> hold.reason, due |-> hold.due,
               fingerprint |-> fp[w], request |-> hold.request, consumed |-> hold.consumed]
  BY <1>0 DEF Hold
<1>2. /\ hold.attempts \in Nat /\ hold.malformed \in Nat /\ hold.needs_action \in BOOLEAN
      /\ hold.reason \in Reasons /\ hold.due \in Nat /\ fp[w] \in Fingerprints
      /\ hold.request \in Fingerprints /\ hold.consumed \in BOOLEAN
  BY <1>0, Facts DEF TypeOK
<1>3. hold' \in Hold
  <2>1. [attempts |-> hold.attempts, malformed |-> hold.malformed,
         needs_action |-> hold.needs_action, reason |-> hold.reason, due |-> hold.due,
         fingerprint |-> fp[w], request |-> hold.request, consumed |-> hold.consumed] \in Hold
    BY <1>2, HoldFields, Zenon
  <2> QED
    BY <1>1, <2>1
<1>4. TypeOK'
  BY <1>0, <1>3 DEF TypeOK, operation, history, usage, releases
<1> USE DEF operation, history, usage, releases
<1>5. hold.fingerprint # NoConfig => fp[w] = hold.fingerprint
  BY DEF Changed
<1>6. Sound(hold)'
  BY <1>1, <1>5 DEF IInv, HoldOK, Sound
<1>7. OpOK' /\ RunOK'
  BY DEF IInv, OpOK, RunOK, Asking
<1>8. HoldOK'
  BY <1>1, <1>6 DEF IInv, HoldOK, Resumable
<1>9. CreditOK'
  BY <1>1 DEF IInv, CreditOK, Pending, Granted, Uncalled
<1>10. SpaceOK'
  BY <1>1 DEF IInv, SpaceOK, Spaced, Uncalled, Delay
<1>11. AttemptsOK'
  BY DEF IInv, AttemptsOK, Reserved
<1>12. LedgerOK'
  BY DEF IInv, LedgerOK, Charged, Paid
<1> QED
  BY <1>4, <1>7, <1>8, <1>9, <1>10, <1>11, <1>12 DEF IInv

\* recover opens the latch.
LEMMA StepBeginRecover ==
    ASSUME IInv, NEW w \in Workers, BeginRecover(w)
    PROVE  IInv'
<1> USE DEF BeginRecover, Unlocked, drains, ledger, history, usage, releases
<1>1. op' = [worker |-> w, candidate |-> "none", retry |-> FALSE,
             previous |-> Ready("READY", NoConfig)]
  BY DEF NoOp
<1>2. Ready("READY", NoConfig) \in Hold
  BY ReadyType DEF Reasons, Fingerprints
<1>3. op' \in Op
  <2>1. w \in Workers \cup {"none"} /\ "none" \in Candidates \cup {"none"} /\ FALSE \in BOOLEAN
    OBVIOUS
  <2>2. [worker |-> w, candidate |-> "none", retry |-> FALSE,
         previous |-> Ready("READY", NoConfig)] \in Op
    BY <1>2, <2>1, OpFields, Zenon
  <2> QED
    BY <1>1, <2>2
<1>4. TypeOK'
  BY <1>3 DEF IInv, TypeOK, Stages
<1>5. op'.worker = w /\ op'.retry = FALSE
  BY <1>1
<1>6. OpOK' /\ RunOK'
  BY <1>5 DEF IInv, OpOK, RunOK, Asking
<1>7. HoldOK'
  BY DEF IInv, HoldOK, Sound, Resumable
<1>8. Pending' = Pending /\ Granted' = 0 /\ Granted = 0
  BY <1>5, NoOpType DEF Pending, Granted, IInv, OpOK
<1>9. CreditOK'
  BY <1>8 DEF IInv, CreditOK
<1>10. SpaceOK'
  BY DEF IInv, SpaceOK, Spaced, Uncalled, Delay
<1>11. AttemptsOK'
  BY DEF IInv, AttemptsOK, Reserved
<1>12. LedgerOK'
  BY DEF IInv, LedgerOK, Charged, Paid
<1> QED
  BY <1>4, <1>6, <1>7, <1>9, <1>10, <1>11, <1>12 DEF IInv

\* recover releases the hold: no permission survives the configuration it was for.
LEMMA StepEndRecover ==
    ASSUME IInv, NEW w \in Workers, EndRecover(w)
    PROVE  IInv'
<1> USE DEF EndRecover, ledger, usage
<1>1. fp[w] \in Fingerprints /\ "CONFIG_CHANGED_RETRY" \in Reasons
  BY DEF IInv, TypeOK, Reasons
<1>2. hold' \in Hold
  BY <1>1, ReadyType DEF Released
<1>3. TypeOK'
  BY <1>2, UnlockType DEF IInv, TypeOK, Forgotten
<1>4. hold'.needs_action = FALSE /\ hold'.request = NoConfig /\ hold'.malformed = 0
  BY DEF Released, Ready
<1>5. Sound(hold)'
  BY <1>4, LimitAssumption DEF Sound
<1>6. Pending' = 0 /\ Granted' = 0 /\ Pending \in Nat /\ Granted \in Nat
  BY <1>4, NoOpType DEF Pending, Granted, Unlock
<1>7. CreditOK'
  BY <1>6 DEF IInv, CreditOK, TypeOK
<1>8. Spaced(hold)'
  BY DEF Spaced, Forgotten
<1> QED
  BY <1>3, <1>4, <1>5, <1>7, <1>8, Ending

\* An operation that concludes keeps its reservation, if it has one.
LEMMA Concluding ==
    ASSUME IInv, NEW r \in Results, Conclude(r), stage \in Asking, deadline' \in Nat,
           r = "malformed" => ~latch,
           r = "refused" => Uncalled, r # "none"
    PROVE  IInv'
<1> USE DEF Conclude, drains, ledger, history, usage, releases
<1>1. TypeOK'
  BY DEF IInv, TypeOK, Stages
<1>2. OpOK'
  BY DEF IInv, OpOK, Asking
<1>3. HoldOK'
  BY DEF IInv, HoldOK, Sound, Resumable
<1>4. RunOK'
  BY DEF IInv, RunOK, Asking, Sound, Resumable, Delay
<1>5. Uncalled' => Uncalled
  BY DEF Uncalled
<1>6. CreditOK'
  <2>1. Pending' = Pending /\ Pending \in Nat /\ Granted \in Nat
    BY DEF Pending, Granted
  <2>2. Granted' = Granted \/ Granted' = 0
    BY <1>5 DEF Granted
  <2> QED
    BY <2>1, <2>2 DEF IInv, CreditOK, TypeOK
<1>7. SpaceOK'
  BY <1>5 DEF IInv, SpaceOK, Spaced, Delay
<1>8. AttemptsOK'
  <2>1. ASSUME NEW c \in Candidates, NEW d \in Days
        PROVE  calls[c][d] <= attempts[c][d] /\ attempts[c][d] <= RetryLimit /\ calls[c][d] \in Nat
    BY LimitAssumption DEF IInv, TypeOK, AttemptsOK, Reserved
  <2> QED
    BY <2>1 DEF AttemptsOK, Reserved
<1>9. LedgerOK'
  <2>1. ASSUME NEW d \in Days
        PROVE  spent[d] <= entries[d] /\ spent[d] \in Nat
    BY LimitAssumption DEF IInv, TypeOK, LedgerOK, Charged
  <2> QED
    BY <2>1 DEF LedgerOK, Charged
<1> QED
  BY <1>1, <1>2, <1>3, <1>4, <1>6, <1>7, <1>8, <1>9 DEF IInv

\* The results that come without a call.
LEMMA StepConclude ==
    ASSUME IInv, NEW w \in Workers,
           JudgeLocally(w) \/ GiveUp(w) \/ Refuse(w) \/ Expire(w) \/ Unsettled(w)
    PROVE  IInv'
<1>1. deadline \in Nat
  BY DEF IInv, TypeOK
<1>2. CASE JudgeLocally(w)
  BY <1>1, <1>2, Concluding DEF JudgeLocally, Asking, Results
<1>3. CASE GiveUp(w)
  BY <1>1, <1>3, Concluding DEF GiveUp, Asking, Results
<1>4. CASE Refuse(w)
  BY <1>1, <1>4, Concluding DEF Refuse, Asking, Results, Uncalled
<1>5. CASE Expire(w)
  BY <1>1, <1>5, Concluding DEF Expire, Asking, Results
<1>6. CASE Unsettled(w)
  BY <1>6, Concluding DEF Unsettled, Asking, Results
<1> QED
  BY <1>2, <1>3, <1>4, <1>5, <1>6

\* run writes the interruption: a pending permission becomes the operation's.
LEMMA StepEnter ==
    ASSUME IInv, NEW w \in Workers, NEW c \in Candidates, Enter(w, c)
    PROVE  IInv'
<1> USE DEF Unlocked, drains, ledger, history, usage, releases
<1>0. TypeOK /\ hold \in Hold /\ moment[w] \in Nat /\ status[w] = "draining"
  BY DEF IInv, TypeOK, Enter
<1>1. /\ hold.attempts + 1 \in Nat \ {0} /\ hold.malformed \in Nat /\ hold.needs_action \in BOOLEAN
      /\ hold.fingerprint \in Fingerprints /\ NoConfig \in Fingerprints
      /\ hold.request \in Fingerprints /\ hold.consumed \in BOOLEAN
      /\ hold.due \in Nat /\ hold.attempts \in Nat
  BY <1>0, Facts DEF Fingerprints
<1> DEFINE due == moment[w] + Delay(hold.attempts + 1)
           request == IF hold.needs_action THEN NoConfig ELSE hold.request
           used == hold.consumed \/ hold.needs_action
           held == hold.needs_action
<1>2. Delay(hold.attempts + 1) \in Nat \ {0} /\ due \in Nat /\ due > moment[w]
  BY <1>0, <1>1, DelayFacts
<1>3. request \in Fingerprints /\ used \in BOOLEAN /\ held \in BOOLEAN
  BY <1>1
<1>4. hold' = [attempts |-> hold.attempts + 1, malformed |-> hold.malformed,
               needs_action |-> held, reason |-> "PROVIDER_INTERRUPTED", due |-> due,
               fingerprint |-> hold.fingerprint, request |-> request, consumed |-> used]
  BY DEF Enter, Interrupted
<1>5. /\ request = NoConfig /\ (held => used)
      /\ held => Resumable(hold) /\ hold.request # NoConfig
  BY DEF IInv, HoldOK, Sound, Enter, Permits
<1> HIDE DEF due, request, used
<1>6. hold' \in Hold
  <2>1. "PROVIDER_INTERRUPTED" \in Reasons /\ hold.attempts + 1 \in Nat
    BY <1>1 DEF Reasons
  <2> QED
    BY <1>1, <1>2, <1>3, <1>4, <2>1, HoldFields, Zenon
<1>7. op' = [worker |-> w, candidate |-> c, retry |-> held, previous |-> hold]
  BY DEF Enter
<1>8. op' \in Op
  <2>1. w \in Workers \cup {"none"} /\ c \in Candidates \cup {"none"}
    OBVIOUS
  <2> QED
    BY <1>0, <1>3, <1>7, <2>1, OpFields, Zenon
<1>9. stage' \in {"repair", "gate"} /\ stage' \in Stages
  BY DEF Enter, Stages
<1>10. TypeOK'
  BY <1>0, <1>6, <1>8, <1>9 DEF TypeOK, Enter
<1>11. /\ op'.worker = w /\ op'.candidate = c /\ op'.retry = held /\ op'.previous = hold
       /\ hold'.attempts = hold.attempts + 1 /\ hold'.malformed = hold.malformed
       /\ hold'.needs_action = held /\ hold'.due = due /\ hold'.request = NoConfig
       /\ hold'.consumed = used
  BY <1>4, <1>5, <1>7
<1>12. OpOK'
  BY <1>0, <1>9, <1>11 DEF IInv, OpOK, Asking, Enter
<1>13. HoldOK'
  BY <1>5, <1>11 DEF IInv, HoldOK, Sound, Resumable, Enter
<1>14. RunOK'
  <2>1. hold'.due = moment'[op'.worker] + Delay(hold'.attempts)
    BY <1>11 DEF due, Enter
  <2>2. Sound(hold) /\ hold.due <= moment[w]
    BY DEF IInv, HoldOK, Enter
  <2>3. Sound(op.previous)' /\ (op'.retry => Resumable(op'.previous))
    BY <1>5, <1>11, <2>2 DEF Sound
  <2> QED
    BY <1>5, <1>11, <2>1, <2>2, <2>3 DEF RunOK, Enter, Delay, Resumable
<1>15. CreditOK'
  <2>1. Granted = 0
    BY NoOpType DEF Granted, IInv, OpOK, Enter
  <2>2. Pending' = 0 /\ (Granted' = IF held THEN 1 ELSE 0)
    BY <1>9, <1>11 DEF Pending, Granted, Uncalled
  <2>3. (held => Pending = 1) /\ Pending \in Nat
    BY <1>5 DEF Pending
  <2> QED
    BY <2>1, <2>2, <2>3, <1>0 DEF IInv, CreditOK, TypeOK, Enter
<1>16. SpaceOK'
  <2>1. Spaced(hold) /\ hold.due <= moment[w]
    BY DEF IInv, SpaceOK, Enter
  <2>2. streak > 0 => Delay(streak) \in Nat
    BY <1>0, DelayFacts DEF TypeOK
  <2>3. Spaced(hold)'
    <3>1. streak > 0 => due >= lastAt + Delay(streak) /\ hold.attempts + 1 >= streak
      BY <1>0, <1>1, <1>2, <2>1, <2>2 DEF Spaced, TypeOK
    <3> QED
      BY <1>11, <3>1 DEF Spaced, Enter, Delay
  <2>4. Spaced(op.previous)'
    BY <1>11, <2>1 DEF Spaced, Enter, Delay
  <2> QED
    BY <2>3, <2>4 DEF SpaceOK
<1>17. AttemptsOK'
  BY <1>9 DEF IInv, AttemptsOK, Reserved, Enter
<1>18. LedgerOK'
  BY <1>9 DEF IInv, LedgerOK, Charged, Enter
<1> QED
  BY <1>10, <1>12, <1>13, <1>14, <1>15, <1>16, <1>17, <1>18 DEF IInv

\* run opens the latch for a permitted retry.
LEMMA StepRepair ==
    ASSUME IInv, NEW w \in Workers, Repair(w)
    PROVE  IInv'
<1> USE DEF Repair, drains, ledger, history, usage, releases
<1>1. TypeOK'
  BY DEF IInv, TypeOK, Stages
<1>2. OpOK' /\ HoldOK'
  BY DEF IInv, OpOK, HoldOK, Asking, Sound
<1>3. RunOK'
  BY DEF IInv, RunOK, Asking, Sound, Resumable, Delay
<1>4. CreditOK'
  BY DEF IInv, CreditOK, Pending, Granted, Uncalled
<1>5. SpaceOK'
  BY DEF IInv, SpaceOK, Spaced, Uncalled, Delay
<1>6. AttemptsOK' /\ LedgerOK'
  BY DEF IInv, AttemptsOK, Reserved, LedgerOK, Charged
<1> QED
  BY <1>1, <1>2, <1>3, <1>4, <1>5, <1>6 DEF IInv

\* consume: the attempt and the reservation are charged together.
LEMMA StepAdmit ==
    ASSUME IInv, NEW w \in Workers, Admit(w)
    PROVE  IInv'
<1> USE DEF drains, ledger, history, usage, releases
<1> DEFINE c == op.candidate
<1>0. /\ TypeOK /\ Today \in Days /\ Reserve \in Nat /\ RetryLimit \in Nat
      /\ stage = "gate" /\ op.worker = w /\ attempts[c][Today] < RetryLimit
      /\ UNCHANGED <<clock, config, status, moment, fp, hold, latch, op, result, deadline,
                     asked, streak, lastAt, heldCalls, calls, spent>>
  BY TodayType, LimitAssumption DEF IInv, Admit, Holder, Admits
<1>1. c \in Candidates
  BY <1>0 DEF IInv, OpOK, Asking
<1>2. bill' = [day |-> Today, reported |-> 0, known |-> FALSE] /\ stage' = "reserved"
  BY DEF Admit
<1>3. /\ attempts' = [attempts EXCEPT ![c][Today] = @ + 1]
      /\ runs' = [runs EXCEPT ![w] = @ + Reserve]
      /\ entries' = [entries EXCEPT ![Today] = @ + Reserve]
      /\ candidates' = [candidates EXCEPT ![c] =
                          [day |-> Today, tokens |-> CandidateTokens(c) + Reserve]]
  BY DEF Admit, Charge
<1>4. CandidateTokens(c) \in Nat
  BY <1>0, <1>1 DEF CandidateTokens, TypeOK
<1> HIDE DEF c
<1>5. attempts' \in [Candidates -> [Days -> Nat]]
  BY <1>0, <1>1, <1>3 DEF TypeOK
<1>6. \A k \in Candidates, d \in Days :
          attempts'[k][d] = attempts[k][d] + IF k = c /\ d = Today THEN 1 ELSE 0
  BY <1>0, <1>1, <1>3 DEF TypeOK
<1>7. TypeOK'
  <2>1. bill' \in Bill
    <3>1. [day |-> Today, reported |-> 0, known |-> FALSE] \in Bill
      BY <1>0, BillFields
    <3> QED
      BY <1>2, <3>1
  <2>2. [day |-> Today, tokens |-> CandidateTokens(c) + Reserve] \in [day : Days, tokens : Nat]
    BY <1>0, <1>4
  <2>3. candidates' \in [Candidates -> [day : Days, tokens : Nat]]
    BY <1>0, <1>3, <2>2 DEF TypeOK
  <2>4. runs' \in [Workers -> Nat] /\ entries' \in [Days -> Nat]
    BY <1>0, <1>3 DEF TypeOK
  <2> QED
    BY <1>0, <1>2, <1>5, <2>1, <2>3, <2>4 DEF TypeOK, Stages
<1>8. OpOK' /\ HoldOK'
  BY <1>0, <1>2 DEF IInv, OpOK, HoldOK, Asking, Sound, Resumable
<1>9. RunOK'
  BY <1>0, <1>2 DEF IInv, RunOK, Asking, Sound, Resumable, Delay
<1>10. CreditOK'
  BY <1>0, <1>2 DEF IInv, CreditOK, Pending, Granted, Uncalled
<1>11. SpaceOK'
  BY <1>0, <1>2 DEF IInv, SpaceOK, Spaced, Uncalled, Delay
<1>12. AttemptsOK'
  <2> SUFFICES ASSUME NEW k \in Candidates, NEW d \in Days
               PROVE  /\ calls'[k][d] + Reserved(k, d)' <= attempts'[k][d]
                      /\ attempts'[k][d] <= RetryLimit
    BY DEF AttemptsOK
  <2>1. calls[k][d] <= attempts[k][d] /\ attempts[k][d] <= RetryLimit
    BY <1>0 DEF IInv, AttemptsOK, Reserved, TypeOK
  <2>2. calls[k][d] \in Nat /\ attempts[k][d] \in Nat
    BY <1>0 DEF TypeOK
  <2>3. CASE k = c /\ d = Today
    <3>1. attempts'[k][d] = attempts[k][d] + 1
      BY <1>0, <1>6, <2>3 DEF TypeOK
    <3>2. Reserved(k, d)' = 1
      BY <1>0, <1>2, <2>3 DEF Reserved, c
    <3> QED
      BY <1>0, <2>1, <2>2, <2>3, <3>1, <3>2
  <2>4. CASE ~(k = c /\ d = Today)
    <3>1. attempts'[k][d] = attempts[k][d]
      BY <1>0, <1>6, <2>4 DEF TypeOK
    <3>2. Reserved(k, d)' = 0
      BY <1>0, <1>2, <2>4 DEF Reserved, c
    <3> QED
      BY <1>0, <2>1, <2>2, <3>1, <3>2
  <2> QED
    BY <2>3, <2>4
<1>13. LedgerOK'
  <2>1. ASSUME NEW d \in Days
        PROVE  spent'[d] + Charged(d)' <= entries'[d]
    <3>1. spent[d] <= entries[d] /\ spent[d] \in Nat /\ entries[d] \in Nat
      BY <1>0 DEF IInv, LedgerOK, Charged, TypeOK
    <3>2. CASE d = Today
      BY <1>0, <1>2, <1>3, <3>1, <3>2 DEF TypeOK, Charged
    <3>3. CASE d # Today
      BY <1>0, <1>2, <1>3, <3>1, <3>3 DEF TypeOK, Charged
    <3> QED
      BY <3>2, <3>3
  <2>2. runs'[op.worker] >= Reserve
    BY <1>0, <1>3 DEF TypeOK
  <2>3. candidates'[c].tokens >= Reserve
    BY <1>0, <1>1, <1>3, <1>4 DEF TypeOK
  <2> QED
    BY <1>0, <1>2, <2>1, <2>2, <2>3 DEF LedgerOK, c
<1> QED
  BY <1>7, <1>8, <1>9, <1>10, <1>11, <1>12, <1>13 DEF IInv

\* The provider refuses without a call: its usage is not known, so the reservation is paid.
LEMMA StepDecline ==
    ASSUME IInv, NEW w \in Workers, Decline(w)
    PROVE  IInv'
<1> USE DEF drains, ledger, history, usage, releases
<1>0. TypeOK
  BY DEF IInv
<1>1. PICK reported \in Nat : bill' = [bill EXCEPT !.reported = reported]
  BY LimitAssumption DEF Decline
<1>2. /\ stage = "reserved" /\ stage' = "called" /\ result' \in {"auth", "failed"}
      /\ UNCHANGED <<clock, config, status, moment, fp, hold, latch, entries, candidates, runs,
                     attempts, op, deadline, asked, streak, lastAt, heldCalls, calls, spent>>
  BY DEF Decline
<1>3. /\ bill.day \in Days /\ bill.known \in BOOLEAN /\ Reserve \in Nat
      /\ bill' = [day |-> bill.day, reported |-> reported, known |-> bill.known]
  BY <1>0, <1>1, Facts, LimitAssumption DEF TypeOK, Bill
<1>4. bill' \in Bill /\ bill'.day = bill.day /\ bill'.known = bill.known /\ bill'.reported = reported
  <2>1. [day |-> bill.day, reported |-> reported, known |-> bill.known] \in Bill
    BY <1>3, BillFields, Zenon
  <2> QED
    BY <1>3, <2>1
<1>5. TypeOK'
  BY <1>0, <1>2, <1>4 DEF TypeOK, Stages, Results
<1>6. OpOK' /\ HoldOK'
  BY <1>2 DEF IInv, OpOK, HoldOK, Asking, Sound, Resumable
<1>7. RunOK'
  BY <1>2 DEF IInv, RunOK, Asking, Sound, Resumable, Delay
<1>8. ~Uncalled'
  BY <1>2 DEF Uncalled
<1>9. CreditOK'
  <2>1. Pending' = Pending /\ Pending \in Nat /\ Granted \in Nat /\ Granted' = 0
    BY <1>2, <1>8 DEF Pending, Granted
  <2> QED
    BY <1>2, <2>1 DEF IInv, CreditOK, TypeOK
<1>10. SpaceOK'
  BY <1>2, <1>8 DEF IInv, SpaceOK, Spaced, Delay
<1>11. AttemptsOK'
  <2>1. ASSUME NEW k \in Candidates, NEW d \in Days
        PROVE  calls[k][d] <= attempts[k][d] /\ attempts[k][d] <= RetryLimit /\ calls[k][d] \in Nat
    BY <1>0, LimitAssumption DEF IInv, TypeOK, AttemptsOK, Reserved
  <2> QED
    BY <1>2, <2>1 DEF AttemptsOK, Reserved
<1>12. LedgerOK'
  <2>1. ASSUME NEW d \in Days
        PROVE  spent[d] <= entries[d] /\ spent[d] \in Nat /\ entries[d] \in Nat
    BY <1>0, LimitAssumption DEF IInv, TypeOK, LedgerOK, Charged
  <2>2. Paid' >= Reserve /\ Paid' \in Nat
    <3>1. bill'.known = FALSE
      BY <1>2, <1>4 DEF IInv, LedgerOK
    <3> QED
      BY <1>3, <1>4, <3>1 DEF Paid, Larger
  <2> QED
    BY <1>2, <1>3, <1>4, <2>1, <2>2 DEF IInv, LedgerOK, Charged
<1> QED
  BY <1>5, <1>6, <1>7, <1>9, <1>10, <1>11, <1>12 DEF IInv

\* The call uses up the permission and the attempt.
LEMMA StepCall ==
    ASSUME IInv, NEW w \in Workers, Call(w)
    PROVE  IInv'
<1> USE DEF drains, ledger
<1> DEFINE c == op.candidate
           d0 == bill.day
<1>0. /\ TypeOK /\ stage = "reserved" /\ op.worker = w /\ stage' = "calling"
      /\ d0 \in Days /\ hold.needs_action \in BOOLEAN /\ hold.attempts \in Nat
      /\ op.retry \in BOOLEAN /\ op.previous.attempts \in Nat
      /\ UNCHANGED <<clock, config, status, moment, fp, hold, latch, entries, candidates, runs,
                     attempts, op, bill, result, deadline, asked, spent>>
  BY Facts, HoldTypes DEF IInv, Call, Holder
<1>1. /\ heldCalls' = heldCalls + IF hold.needs_action THEN 1 ELSE 0
      /\ streak' = streak + 1 /\ lastAt' = moment[w]
      /\ calls' = [calls EXCEPT ![c][d0] = @ + 1]
  BY DEF Call
<1>2. /\ c \in Candidates /\ op.retry = hold.needs_action
      /\ hold.attempts = op.previous.attempts + 1
      /\ hold.due = moment[w] + Delay(hold.attempts)
  BY <1>0 DEF IInv, OpOK, RunOK, Asking
<1> HIDE DEF c, d0
<1>3. \A k \in Candidates, d \in Days :
          calls'[k][d] = calls[k][d] + IF k = c /\ d = d0 THEN 1 ELSE 0
  BY <1>0, <1>1, <1>2 DEF TypeOK
<1>4. TypeOK'
  <2>1. calls' \in [Candidates -> [Days -> Nat]]
    BY <1>0, <1>1, <1>2 DEF TypeOK
  <2>2. heldCalls' \in Nat /\ streak' \in Nat /\ lastAt' \in Nat
    BY <1>0, <1>1 DEF TypeOK
  <2> QED
    BY <1>0, <2>1, <2>2 DEF TypeOK, Stages
<1>5. OpOK' /\ HoldOK'
  BY <1>0 DEF IInv, OpOK, HoldOK, Asking, Sound, Resumable
<1>6. RunOK'
  BY <1>0 DEF IInv, RunOK, Asking, Sound, Resumable, Delay
<1>7. ~Uncalled' /\ Uncalled
  BY <1>0 DEF Uncalled
<1>8. CreditOK'
  <2>1. Pending' = Pending /\ Pending \in Nat /\ Granted' = 0
        /\ Granted = IF hold.needs_action THEN 1 ELSE 0
    BY <1>0, <1>2, <1>7 DEF Pending, Granted
  <2>2. CASE hold.needs_action
    BY <1>0, <1>1, <2>1, <2>2 DEF IInv, CreditOK, TypeOK
  <2>3. CASE ~hold.needs_action
    BY <1>0, <1>1, <2>1, <2>3 DEF IInv, CreditOK, TypeOK
  <2> QED
    BY <2>2, <2>3
<1>9. SpaceOK'
  <2>1. hold.attempts >= streak + 1
    BY <1>0, <1>2, <1>7 DEF IInv, SpaceOK, Spaced, TypeOK
  <2>2. Delay(streak + 1) <= Delay(hold.attempts) /\ Delay(streak + 1) \in Nat
        /\ Delay(hold.attempts) \in Nat
    BY <1>0, <2>1, DelayFacts DEF TypeOK
  <2>3. hold.due >= moment[w] + Delay(streak + 1)
    BY <1>0, <1>2, <2>2 DEF TypeOK
  <2>4. Spaced(hold)'
    BY <1>0, <1>1, <2>1, <2>3 DEF Spaced, Delay
  <2> QED
    BY <1>7, <2>4 DEF SpaceOK
<1>10. AttemptsOK'
  <2> SUFFICES ASSUME NEW k \in Candidates, NEW d \in Days
               PROVE  /\ calls'[k][d] + Reserved(k, d)' <= attempts[k][d]
                      /\ attempts[k][d] <= RetryLimit
    BY <1>0 DEF AttemptsOK
  <2>1. calls[k][d] + Reserved(k, d) <= attempts[k][d] /\ attempts[k][d] <= RetryLimit
    BY DEF IInv, AttemptsOK
  <2>2. calls[k][d] \in Nat /\ Reserved(k, d)' = 0
    BY <1>0 DEF TypeOK, Reserved
  <2>3. Reserved(k, d) = IF k = c /\ d = d0 THEN 1 ELSE 0
    BY <1>0 DEF Reserved, c, d0
  <2>4. calls'[k][d] = calls[k][d] + Reserved(k, d) /\ calls'[k][d] \in Nat
    BY <1>3, <2>2, <2>3
  <2> QED
    BY <2>1, <2>2, <2>4
<1>11. LedgerOK'
  BY <1>0 DEF IInv, LedgerOK, Charged
<1> QED
  BY <1>4, <1>5, <1>6, <1>8, <1>9, <1>10, <1>11 DEF IInv

\* What was used is covered by the reservation and, once settled, by what is paid.
LEMMA StepAnswer ==
    ASSUME IInv, NEW w \in Workers, Answer(w)
    PROVE  IInv'
<1>1. PICK r \in {"semantic", "auth", "malformed", "failed"}, used, reported \in 0..MaxUse,
           known \in BOOLEAN, after \in 0..MaxRetryAfter :
        /\ known => r \in {"semantic", "malformed"} /\ reported = used
        /\ after > 0 => r = "failed"
        /\ result' = r
        /\ bill' = [day |-> bill.day, reported |-> reported, known |-> known]
        /\ deadline' = IF after = 0 THEN 0 ELSE clock + after
        /\ latch' = (r = "auth")
        /\ spent' = [spent EXCEPT ![bill.day] = @ + Smaller(used, Reserve)]
  BY Zenon DEF Answer
<1> USE DEF drains, ledger, releases
<1> DEFINE d0 == bill.day
<1>0. /\ TypeOK /\ stage = "calling" /\ op.worker = w /\ stage' = "called"
      /\ d0 \in Days /\ Reserve \in Nat /\ op.retry \in BOOLEAN
      /\ UNCHANGED <<clock, config, status, moment, fp, hold, entries, candidates, runs,
                     attempts, op, asked, streak, lastAt, heldCalls, calls>>
  BY Facts, LimitAssumption DEF IInv, Answer, Holder
<1> DEFINE n == Smaller(used, Reserve)
<1>2. /\ used \in Nat /\ reported \in Nat /\ n \in Nat /\ n <= used /\ n <= Reserve
      /\ deadline' \in Nat
  BY <1>0, <1>1, LimitAssumption DEF Smaller, TypeOK
<1>3. bill'.day = d0 /\ bill'.known = known /\ bill'.reported = reported /\ bill' \in Bill
  <2>1. [day |-> d0, reported |-> reported, known |-> known] \in Bill
    BY <1>0, <1>2, BillFields, Zenon
  <2> QED
    BY <1>1, <2>1
<1>4. /\ spent' \in [Days -> Nat] /\ spent'[d0] = spent[d0] + n
      /\ \A d \in Days : d # d0 => spent'[d] = spent[d]
  BY <1>0, <1>1, <1>2 DEF TypeOK
<1>5. Paid' \in Nat /\ n <= Paid'
  BY <1>0, <1>1, <1>2, <1>3 DEF Paid, Larger
<1>6. result' \in {"semantic", "auth", "malformed", "failed"} /\ latch' \in BOOLEAN
      /\ (result' = "malformed" => ~latch')
  BY <1>1
<1> HIDE DEF d0, n
<1>7. TypeOK'
  BY <1>0, <1>2, <1>3, <1>4, <1>6 DEF TypeOK, Stages, Results
<1>8. OpOK'
  BY <1>0, <1>6 DEF IInv, OpOK, Asking
<1>9. RunOK'
  BY <1>0 DEF IInv, RunOK, Asking, Sound, Resumable, Delay
<1>10. HoldOK'
  <2>1. hold.needs_action => hold.consumed
    BY <1>0 DEF IInv, RunOK, Asking
  <2> QED
    BY <1>0, <1>6, <2>1 DEF IInv, HoldOK, Sound, Resumable
<1>11. ~Uncalled'
  BY <1>0 DEF Uncalled
<1>12. CreditOK'
  <2>1. Pending' = Pending /\ Pending \in Nat /\ Granted' = 0 /\ Granted \in Nat
    BY <1>0, <1>11 DEF Pending, Granted
  <2> QED
    BY <1>0, <2>1 DEF IInv, CreditOK, TypeOK
<1>13. SpaceOK'
  BY <1>0, <1>11 DEF IInv, SpaceOK, Spaced, Delay
<1>14. AttemptsOK'
  BY <1>0 DEF IInv, AttemptsOK, Reserved
<1>15. LedgerOK'
  <2>1. ASSUME NEW d \in Days
        PROVE  spent'[d] + Charged(d)' <= entries[d]
    <3>1. spent[d] + Charged(d) <= entries[d] /\ spent[d] \in Nat /\ entries[d] \in Nat
      BY <1>0 DEF IInv, LedgerOK, TypeOK
    <3>2. Charged(d)' = 0 /\ (d = d0 => Charged(d) = Reserve) /\ Charged(d) \in Nat
      BY <1>0 DEF Charged, d0
    <3> QED
      BY <1>0, <1>2, <1>4, <3>1, <3>2
  <2>2. spent'[d0] + Reserve <= entries[d0] + Paid'
    <3>1. spent[d0] + Reserve <= entries[d0] /\ spent[d0] \in Nat /\ entries[d0] \in Nat
      BY <1>0 DEF IInv, LedgerOK, Charged, TypeOK, d0
    <3> QED
      BY <1>0, <1>2, <1>4, <1>5, <3>1
  <2> QED
    BY <1>0, <1>3, <2>1, <2>2 DEF IInv, LedgerOK
<1> QED
  BY <1>7, <1>8, <1>9, <1>10, <1>12, <1>13, <1>14, <1>15 DEF IInv

\* settle: no counter falls below what it must cover.
LEMMA StepSettle ==
    ASSUME IInv, NEW w \in Workers, Settle(w)
    PROVE  IInv'
<1> USE DEF drains, history, usage, releases
<1> DEFINE c == op.candidate
           d0 == bill.day
<1>0. /\ TypeOK /\ stage = "called" /\ op.worker = w /\ stage' = "answered"
      /\ d0 \in Days /\ Reserve \in Nat /\ Paid \in Nat
      /\ UNCHANGED <<clock, config, status, moment, fp, hold, latch, attempts, op, bill, result,
                     deadline, asked, streak, lastAt, heldCalls, calls, spent>>
  BY Facts, LimitAssumption DEF IInv, Settle, Holder, Adjust, Paid, Larger
<1>1. /\ runs' = [runs EXCEPT ![w] = (@ + Paid) - Reserve]
      /\ entries' = [entries EXCEPT ![d0] = (@ + Paid) - Reserve]
      /\ candidates' = IF candidates[c].day = d0
                       THEN [candidates EXCEPT ![c] =
                               [day |-> d0, tokens |-> (@.tokens + Paid) - Reserve]]
                       ELSE candidates
  BY DEF Settle, Adjust, Corrected
<1>2. /\ c \in Candidates /\ runs[w] >= Reserve /\ candidates[c].tokens >= Reserve
      /\ spent[d0] + Reserve <= entries[d0] + Paid
      /\ result # "refused"
  BY <1>0 DEF IInv, OpOK, LedgerOK, Asking
<1>3. /\ runs[w] \in Nat /\ candidates[c].tokens \in Nat /\ entries[d0] \in Nat
      /\ spent[d0] \in Nat
  BY <1>0, <1>2 DEF TypeOK
<1> HIDE DEF c, d0
<1>4. /\ (runs[w] + Paid) - Reserve \in Nat
      /\ (entries[d0] + Paid) - Reserve \in Nat
      /\ (entries[d0] + Paid) - Reserve >= spent[d0]
      /\ (candidates[c].tokens + Paid) - Reserve \in Nat
  BY <1>0, <1>2, <1>3
<1>5. TypeOK'
  <2>1. runs' \in [Workers -> Nat] /\ entries' \in [Days -> Nat]
    BY <1>0, <1>1, <1>4 DEF TypeOK
  <2>2. [day |-> d0, tokens |-> (candidates[c].tokens + Paid) - Reserve]
            \in [day : Days, tokens : Nat]
    BY <1>0, <1>4
  <2>3. candidates' \in [Candidates -> [day : Days, tokens : Nat]]
    BY <1>0, <1>1, <2>2 DEF TypeOK
  <2> QED
    BY <1>0, <2>1, <2>3 DEF TypeOK, Stages
<1>6. OpOK' /\ HoldOK'
  BY <1>0 DEF IInv, OpOK, HoldOK, Asking, Sound, Resumable
<1>7. RunOK'
  BY <1>0 DEF IInv, RunOK, Asking, Sound, Resumable, Delay
<1>8. ~Uncalled'
  BY <1>0, <1>2 DEF Uncalled
<1>9. CreditOK'
  <2>1. Pending' = Pending /\ Pending \in Nat /\ Granted' = 0 /\ Granted \in Nat
    BY <1>0, <1>8 DEF Pending, Granted
  <2> QED
    BY <1>0, <2>1 DEF IInv, CreditOK, TypeOK
<1>10. SpaceOK'
  BY <1>0, <1>8 DEF IInv, SpaceOK, Spaced, Delay
<1>11. AttemptsOK'
  BY <1>0 DEF IInv, AttemptsOK, Reserved
<1>12. LedgerOK'
  <2>1. ASSUME NEW d \in Days
        PROVE  spent[d] + Charged(d)' <= entries'[d]
    <3>1. spent[d] <= entries[d] /\ spent[d] \in Nat
      BY <1>0 DEF IInv, LedgerOK, Charged, TypeOK
    <3>2. Charged(d)' = 0
      BY <1>0 DEF Charged
    <3> QED
      BY <1>0, <1>1, <1>4, <3>1, <3>2 DEF TypeOK
  <2> QED
    BY <1>0, <2>1 DEF LedgerOK
<1> QED
  BY <1>5, <1>6, <1>7, <1>9, <1>10, <1>11, <1>12 DEF IInv

\* A refusal gives the permission back, which was not used.
LEMMA StepRestore ==
    ASSUME IInv, NEW w \in Workers, Restore(w)
    PROVE  IInv'
<1> USE DEF Restore, drains, ledger, history, usage, releases
<1>0. /\ TypeOK /\ op.previous \in Hold /\ op.retry \in BOOLEAN /\ Uncalled /\ stage \in Asking
  BY Facts DEF IInv, Uncalled, Asking
<1>1. TypeOK'
  BY <1>0, UnlockType DEF TypeOK
<1>2. /\ Sound(op.previous) /\ op.previous.needs_action = op.retry
      /\ op.retry => Resumable(op.previous) /\ op.previous.request # NoConfig
  BY <1>0 DEF IInv, RunOK
<1>3. Sound(hold)' /\ (hold'.needs_action /\ latch => Resumable(hold'))
  BY <1>2 DEF Sound
<1>4. /\ Pending' = Granted \/ Pending' = 0
      /\ Granted \in Nat /\ Granted' = 0 /\ Pending \in Nat
  BY <1>0, <1>2, NoOpType DEF Pending, Granted, Sound, Unlock
<1>5. CreditOK'
  BY <1>0, <1>4 DEF IInv, CreditOK, TypeOK
<1>6. Spaced(hold)'
  BY <1>0 DEF IInv, SpaceOK, Spaced, Delay
<1> QED
  BY <1>1, <1>3, <1>5, <1>6, Ending

\* A verdict clears the hold.
LEMMA StepClear ==
    ASSUME IInv, NEW w \in Workers, Clear(w)
    PROVE  IInv'
<1> USE DEF Clear, drains, ledger, usage
<1>1. hold.fingerprint \in Fingerprints /\ "READY" \in Reasons
  BY Facts DEF IInv, Reasons
<1>2. hold' \in Hold
  BY <1>1, ReadyType DEF Cleared
<1>3. TypeOK'
  BY <1>2, UnlockType DEF IInv, TypeOK, Forgotten
<1>4. hold'.needs_action = FALSE /\ hold'.request = NoConfig /\ hold'.malformed = 0
  BY DEF Cleared, Ready
<1>5. Sound(hold)'
  BY <1>4, LimitAssumption DEF Sound
<1>6. Pending' = 0 /\ Granted' = 0 /\ Pending \in Nat /\ Granted \in Nat
  BY <1>4, NoOpType DEF Pending, Granted, Unlock
<1>7. CreditOK'
  BY <1>6 DEF IInv, CreditOK, TypeOK
<1>8. Spaced(hold)'
  BY DEF Spaced, Forgotten
<1> QED
  BY <1>3, <1>4, <1>5, <1>7, <1>8, Ending

\* A failure: the deadline only moves on, and a shut latch stays resumable.
LEMMA StepFail ==
    ASSUME IInv, NEW w \in Workers, Fail(w)
    PROVE  IInv'
<1> USE DEF drains, ledger, history, usage, releases
<1>0. /\ TypeOK /\ stage = "answered" /\ op.worker = w /\ moment[w] \in Nat
      /\ result \in {"auth", "malformed", "failed"} /\ Unlock /\ MalformedLimit \in Nat
      /\ UNCHANGED <<clock, config, status, moment, fp, latch, entries, candidates, runs, attempts,
                     asked, streak, lastAt, heldCalls, calls, spent>>
  BY LimitAssumption DEF IInv, TypeOK, Fail, Holder
<1>1. /\ hold.attempts \in Nat /\ hold.malformed \in Nat /\ hold.needs_action \in BOOLEAN
      /\ hold.fingerprint \in Fingerprints /\ hold.request \in Fingerprints
      /\ hold.consumed \in BOOLEAN /\ op.retry \in BOOLEAN /\ deadline \in Nat
      /\ op.previous.attempts \in Nat
  BY <1>0, Facts, HoldTypes DEF TypeOK
<1>2. /\ op.retry = hold.needs_action /\ (op.retry => hold.consumed) /\ hold.request = NoConfig
      /\ hold.attempts = op.previous.attempts + 1
      /\ hold.due = moment[w] + Delay(hold.attempts)
  BY <1>0 DEF IInv, RunOK, Asking
<1>3. Delay(hold.attempts) \in Nat
  BY <1>1, <1>2, DelayFacts
<1> DEFINE due == Larger(moment[w] + Delay(hold.attempts), deadline)
           used == hold.consumed /\ NeedsAction
<1>4. due \in Nat /\ due >= hold.due
  BY <1>0, <1>1, <1>2, <1>3 DEF Larger
<1>5. Malformed \in Nat /\ (result # "malformed" => Malformed = hold.malformed)
  BY <1>1 DEF Malformed
<1>6. NeedsAction \in BOOLEAN /\ used \in BOOLEAN
  BY DEF NeedsAction
<1>7. Reason \in Reasons /\ (result = "auth" => Reason = "AUTH_FAILED")
  BY <1>0 DEF Reason, Reasons
<1>8. hold' = [attempts |-> hold.attempts, malformed |-> Malformed, needs_action |-> NeedsAction,
               reason |-> Reason, due |-> due, fingerprint |-> hold.fingerprint,
               request |-> hold.request, consumed |-> used]
  BY DEF Fail, Failed
<1> HIDE DEF due, used
<1>9. hold' \in Hold
  <2>1. [attempts |-> hold.attempts, malformed |-> Malformed, needs_action |-> NeedsAction,
         reason |-> Reason, due |-> due, fingerprint |-> hold.fingerprint,
         request |-> hold.request, consumed |-> used] \in Hold
    BY <1>1, <1>4, <1>5, <1>6, <1>7, HoldFields, Zenon
  <2> QED
    BY <1>8, <2>1
<1>10. /\ hold'.attempts = hold.attempts /\ hold'.malformed = Malformed
       /\ hold'.needs_action = NeedsAction /\ hold'.reason = Reason /\ hold'.due = due
       /\ hold'.request = NoConfig /\ hold'.consumed = used
  BY <1>2, <1>8
<1>11. TypeOK'
  BY <1>0, <1>9, UnlockType DEF TypeOK
<1>12. Sound(hold)'
  <2>1. ~NeedsAction => Malformed < MalformedLimit
    BY <1>0, <1>5 DEF NeedsAction
  <2> QED
    BY <1>10, <2>1 DEF Sound
<1>13. hold'.needs_action /\ latch => Resumable(hold')
  <2> SUFFICES ASSUME NeedsAction, latch, result # "auth"
               PROVE  used
    BY <1>7, <1>10 DEF Resumable
  <2>1. result # "malformed"
    BY DEF IInv, HoldOK
  <2>2. op.retry
    <3>1. SUFFICES ASSUME ~op.retry PROVE FALSE
      BY <1>1
    <3>2. hold.malformed < MalformedLimit
      BY <1>2, <3>1 DEF IInv, HoldOK, Sound
    <3>3. Malformed >= MalformedLimit
      BY <3>1 DEF NeedsAction
    <3> QED
      BY <1>0, <1>1, <1>5, <2>1, <3>2, <3>3
  <2> QED
    BY <1>2, <2>2 DEF used
<1>14. CreditOK'
  <2>1. Pending' = 0 /\ Granted' = 0 /\ Pending \in Nat /\ Granted \in Nat
    BY <1>0, <1>10, NoOpType DEF Pending, Granted, Unlock
  <2> QED
    BY <1>0, <2>1 DEF IInv, CreditOK, TypeOK
<1>15. Spaced(hold)'
  <2>1. streak > 0 => Delay(streak) \in Nat
    BY <1>0, DelayFacts DEF TypeOK
  <2>2. streak > 0 => due >= lastAt + Delay(streak) /\ hold.attempts >= streak
    BY <1>0, <1>1, <1>2, <1>3, <1>4, <2>1 DEF IInv, SpaceOK, Spaced, TypeOK
  <2> QED
    BY <1>0, <1>10, <2>2 DEF Spaced, Delay
<1> QED
  BY <1>0, <1>11, <1>12, <1>13, <1>14, <1>15, Ending

\* ei resume-organizer adds one permission.
LEMMA StepRequestRetry ==
    ASSUME IInv, RequestRetry
    PROVE  IInv'
<1> USE DEF drains, ledger, operation, usage, releases
<1>0. /\ TypeOK /\ hold \in Hold /\ stage = "none" /\ config \in Fingerprints /\ config # NoConfig
      /\ hold.needs_action /\ Resumable(hold) /\ hold.request = NoConfig /\ asked' = asked + 1
      /\ UNCHANGED <<clock, config, status, moment, fp, latch, entries, candidates, runs, attempts,
                     stage, op, bill, result, deadline, streak, lastAt, heldCalls, calls, spent>>
  BY ConfigAssumption DEF IInv, TypeOK, RequestRetry, Unlocked, Fingerprints, NoConfig
<1>1. /\ hold.attempts \in Nat /\ hold.malformed \in Nat /\ hold.needs_action \in BOOLEAN
      /\ hold.reason \in Reasons /\ hold.due \in Nat /\ hold.consumed \in BOOLEAN
  BY <1>0, Facts
<1>2. hold' = [attempts |-> hold.attempts, malformed |-> hold.malformed,
               needs_action |-> hold.needs_action, reason |-> hold.reason, due |-> hold.due,
               fingerprint |-> config, request |-> config, consumed |-> hold.consumed]
  BY <1>0 DEF RequestRetry, Hold
<1>3. hold' \in Hold
  <2>1. [attempts |-> hold.attempts, malformed |-> hold.malformed,
         needs_action |-> hold.needs_action, reason |-> hold.reason, due |-> hold.due,
         fingerprint |-> config, request |-> config, consumed |-> hold.consumed] \in Hold
    BY <1>0, <1>1, HoldFields, Zenon
  <2> QED
    BY <1>2, <2>1
<1>4. TypeOK'
  BY <1>0, <1>3 DEF TypeOK
<1>5. /\ hold'.attempts = hold.attempts /\ hold'.needs_action = hold.needs_action
      /\ hold'.reason = hold.reason /\ hold'.due = hold.due /\ hold'.fingerprint = config
      /\ hold'.request = config /\ hold'.consumed = hold.consumed
  BY <1>2
<1>6. OpOK' /\ RunOK'
  BY <1>0 DEF IInv, OpOK, RunOK, Asking
<1>7. HoldOK'
  BY <1>0, <1>5 DEF IInv, HoldOK, Sound, Resumable
<1>8. CreditOK'
  <2>1. Pending' = 1 /\ Pending = 0 /\ Granted' = Granted /\ Granted \in Nat
    BY <1>0, <1>5 DEF Pending, Granted, Uncalled
  <2> QED
    BY <1>0, <2>1 DEF IInv, CreditOK, TypeOK
<1>9. SpaceOK'
  BY <1>0, <1>5 DEF IInv, SpaceOK, Spaced, Uncalled, Delay
<1>10. AttemptsOK'
  BY <1>0 DEF IInv, AttemptsOK, Reserved
<1>11. LedgerOK'
  BY <1>0 DEF IInv, LedgerOK, Charged, Paid
<1> QED
  BY <1>4, <1>6, <1>7, <1>8, <1>9, <1>10, <1>11 DEF IInv

-----------------------------------------------------------------------------
(* The theorems.                                                           *)

\* The invariant holds at first.
LEMMA Initially == Init => IInv
<1> SUFFICES ASSUME Init PROVE IInv
  OBVIOUS
<1>1. 0 \in Days /\ 0 \in 0..MaxClock
  BY LimitAssumption DEF Days
<1> USE DEF Init
<1>2. hold \in Hold /\ hold.needs_action = FALSE /\ hold.request = NoConfig /\ hold.malformed = 0
  BY ReadyType DEF Reasons, Fingerprints, Ready
<1>3. TypeOK
  <2>1. candidates \in [Candidates -> [day : Days, tokens : Nat]]
    BY <1>1
  <2>2. /\ attempts \in [Candidates -> [Days -> Nat]] /\ calls \in [Candidates -> [Days -> Nat]]
        /\ entries \in [Days -> Nat] /\ spent \in [Days -> Nat]
    OBVIOUS
  <2>3. /\ stage \in Stages /\ result \in Results /\ op \in Op /\ bill \in Bill
    BY NoOpType, NoBillType DEF Stages, Results
  <2> QED
    BY <1>1, <1>2, <2>1, <2>2, <2>3 DEF TypeOK, Fingerprints
<1>4. OpOK /\ RunOK
  BY DEF OpOK, RunOK, Asking
<1>5. HoldOK
  BY <1>2, LimitAssumption DEF HoldOK, Sound
<1>6. CreditOK
  BY <1>2, NoOpType DEF CreditOK, Pending, Granted
<1>7. SpaceOK
  BY DEF SpaceOK, Spaced
<1>8. AttemptsOK
  BY LimitAssumption DEF AttemptsOK, Reserved
<1>9. LedgerOK
  BY DEF LedgerOK, Charged
<1> QED
  BY <1>3, <1>4, <1>5, <1>6, <1>7, <1>8, <1>9 DEF IInv

\* Every step preserves the invariant.
LEMMA Preserved == IInv /\ [Next]_vars => IInv'
<1> SUFFICES ASSUME IInv, [Next]_vars PROVE IInv'
  OBVIOUS
<1>1. ASSUME NEW w \in Workers, Start(w) \/ Recover(w) \/ Run(w) \/ Stop(w) \/ Crash(w)
      PROVE  IInv'
  <2>1. CASE Start(w) \/ Stop(w) \/ Crash(w)
    BY <2>1, StepStart, StepStop, StepCrash
  <2>2. CASE Recover(w)
    BY <2>2, StepBaseline, StepBeginRecover, StepEndRecover DEF Recover
  <2>3. CASE \E c \in Candidates : Enter(w, c)
    BY <2>3, StepEnter
  <2>4. CASE \/ Repair(w) \/ JudgeLocally(w) \/ GiveUp(w)
             \/ Restore(w) \/ Clear(w) \/ Fail(w) \/ Abort(w)
    BY <2>4, StepRepair, StepConclude, StepRestore, StepClear, StepFail, StepAbort
  <2>5. CASE Generate(w)
    BY <2>5, StepAdmit, StepConclude, StepDecline, StepCall, StepAnswer, StepSettle DEF Generate
  <2> QED
    BY <1>1, <2>1, <2>2, <2>3, <2>4, <2>5 DEF Run
<1>2. CASE RequestRetry \/ ChangeConfig \/ Tick
  BY <1>2, StepRequestRetry, StepOutside
<1>3. CASE UNCHANGED vars
  <2> USE <1>3 DEF vars, drains, ledger, operation, history, usage, releases
  <2>1. TypeOK'
    BY DEF IInv, TypeOK
  <2>2. stage # "none" => /\ moment'[op.worker] = moment[op.worker]
                          /\ runs'[op.worker] = runs[op.worker]
                          /\ status'[op.worker] # "idle"
    BY DEF IInv, OpOK
  <2> QED
    BY <2>1, <2>2, Frame
<1> QED
  BY <1>1, <1>2, <1>3 DEF Next

\* The invariant holds in every state the drains of an installation reach.
THEOREM Invariant == Spec => []IInv
  BY Initially, Preserved, PTL DEF Spec

\* Types, and with them that no settlement takes a counter of the ledger below zero, for
\* every policy and every use a provider reports.
THEOREM TypesHold == Spec => []TypeOK
<1>1. IInv => TypeOK
  BY DEF IInv
<1> QED
  BY <1>1, Invariant, PTL

\* However many workers drain, die and change configuration, the calls made while the hold
\* needs action do not outnumber the accepted resume requests.
THEOREM RequestsBoundHeldCalls == Spec => []HeldCallsAreAsked
<1>1. IInv => HeldCallsAreAsked
  <2> SUFFICES ASSUME IInv PROVE HeldCallsAreAsked
    OBVIOUS
  <2>1. Pending \in Nat /\ Granted \in Nat /\ heldCalls \in Nat /\ asked \in Nat
    BY DEF Pending, Granted, IInv, TypeOK
  <2>2. heldCalls + Pending + Granted <= asked
    BY DEF IInv, CreditOK
  <2> QED
    BY <2>1, <2>2 DEF HeldCallsAreAsked
<1> QED
  BY <1>1, Invariant, PTL

\* No sequence of drains leaves a hold on disk that _read refuses.
THEOREM HoldStaysReadable == Spec => []HoldReadable
<1>1. IInv => HoldReadable
  BY DEF IInv, HoldOK, Sound, HoldReadable
<1> QED
  BY <1>1, Invariant, PTL

\* The hold and the provider's latch never shut each other in.
THEOREM LatchStaysResumable == Spec => []LatchIsResumable
<1>1. IInv => LatchIsResumable
  BY DEF IInv, HoldOK, LatchIsResumable
<1> QED
  BY <1>1, Invariant, PTL

\* The attempt cap of a candidate and a day holds for every retry limit and day length.
THEOREM CallsStayCounted == Spec => []CallsAreCounted
<1>1. IInv => CallsAreCounted
  <2> SUFFICES ASSUME IInv, NEW c \in Candidates, NEW d \in Days
               PROVE  calls[c][d] <= RetryLimit
    BY DEF CallsAreCounted
  <2>1. /\ calls[c][d] \in Nat /\ attempts[c][d] \in Nat /\ Reserved(c, d) \in Nat
    BY DEF IInv, TypeOK, Reserved
  <2>2. calls[c][d] + Reserved(c, d) <= attempts[c][d] /\ attempts[c][d] <= RetryLimit
    BY DEF IInv, AttemptsOK
  <2> QED
    BY <2>1, <2>2, LimitAssumption
<1> QED
  BY <1>1, Invariant, PTL

\* The day's entry covers what was used, whatever is reserved, reported, lost or settled.
THEOREM SpendStaysCharged == Spec => []SpendIsCharged
<1>1. IInv => SpendIsCharged
  <2> SUFFICES ASSUME IInv, NEW d \in Days
               PROVE  spent[d] <= entries[d]
    BY DEF SpendIsCharged
  <2>1. spent[d] \in Nat /\ entries[d] \in Nat /\ Charged(d) \in Nat
    BY LimitAssumption DEF IInv, TypeOK, Charged
  <2>2. spent[d] + Charged(d) <= entries[d]
    BY DEF IInv, LedgerOK
  <2> QED
    BY <2>1, <2>2
<1> QED
  BY <1>1, Invariant, PTL

\* Two calls without a release between them keep the distance of next_retry, for all delays.
THEOREM CallsStaySpaced == Spec => CallsAreSpaced
<1>1. IInv /\ [Next]_vars =>
        [Calling /\ streak > 0 => moment[op.worker] >= lastAt + Delay(streak)]_vars
  <2> SUFFICES ASSUME IInv, Calling, streak > 0
               PROVE  moment[op.worker] >= lastAt + Delay(streak)
    OBVIOUS
  <2>1. /\ op.worker \in Workers /\ op.previous.due <= moment[op.worker]
        /\ op.previous.due >= lastAt + Delay(streak)
    BY DEF IInv, OpOK, RunOK, SpaceOK, Spaced, Uncalled, Asking, Calling
  <2>2. /\ op.previous.due \in Nat /\ moment[op.worker] \in Nat
        /\ lastAt \in Nat /\ Delay(streak) \in Nat
    BY <2>1, Facts, HoldTypes, DelayFacts DEF IInv, TypeOK
  <2> QED
    BY <2>1, <2>2
<1> QED
  BY <1>1, Invariant, PTL DEF Spec, CallsAreSpaced
=============================================================================
