--------------------------- MODULE PipelineProofs ---------------------------
(***************************************************************************)
(* The invariants of Pipeline and its refinement of Custody, proved for    *)
(* any number of candidates, captures, workers and verdicts and any bounds.*)
(***************************************************************************)
EXTENDS Pipeline, TLAPS

-----------------------------------------------------------------------------
(* The inductive invariant: what the stores say of each other, and what    *)
(* each process may rely on wherever it is, however stale its copies are.  *)

\* The body is in the spool, or is no longer needed.
Accounted(c) == IsDecided(c) \/ Lost(c) \/ Body(c) \in spool

\* Verdict v is the one and only verdict on candidate c: attached to its item, or already
\* carried out.
Bound(c, v) ==
    \/ queue[c].result = v
    \/ v \in YesVerdicts /\ queue[c].state = "DONE" /\ <<c, v>> \in journal
    \/ v = "NO" /\ queue[c].state = "NO_DISCARDED"

\* Items and envelopes exist only for accounted bodies, and evidence only for items.
BodyOK ==
    /\ \A c \in Candidates :
         /\ queue[c].state = "NOT_FOUND" => queue[c] = NotFound
         /\ queue[c].state # "NOT_FOUND" \/ c \in emergency => Accounted(c)
         /\ Secured(c) => queue[c].state # "NOT_FOUND"
    /\ \A k \in Captures : receipt[k].state = "WAITING" => receipt[k].candidates = {}

\* The journal and the decided items agree with the attached result.
JournalOK ==
    \A c \in Candidates :
        /\ \A u, v \in YesVerdicts : <<c, u>> \in journal /\ <<c, v>> \in journal => u = v
        /\ \A v \in YesVerdicts : <<c, v>> \in journal => Bound(c, v)
        /\ queue[c].state = "DONE" =>
             \E v \in YesVerdicts : <<c, v>> \in journal /\ queue[c].result \in {v, "none"}
        /\ queue[c].state = "NO_DISCARDED" => queue[c].result \in {"NO", "none"}

StoresOK == StoreTypeOK /\ BodyOK /\ LedgerBeforeIntent /\ JournalOK

\* A process that deletes bodies or clears references does so for a decision that is
\* already stored; one about to settle a failure never has a decision as its target.
TransitionOK(r) ==
    /\ r.pc # "rest" => r.cand \in Candidates
    /\ r.pc \in CleanupLabels => r.target \in Decided /\ queue[r.cand].state = r.target
    /\ r.pc = "mark" =>
         /\ r.target \in Decided
         /\ r.item.state \in Decided => queue[r.cand].state = r.target
    /\ r.pc \in {"settle", "handle"} => r.target \in Claimable \cup Stopped

\* Before its terminal transition a worker works on an item it read undecided.
Undecided == {"read", "infer", "save", "attach", "curate", "apply"}

\* What a worker holds is the item's verdict, however stale the worker is; until it has
\* attached one, the item it claimed had none.
WorkerOK(r) ==
    /\ r \in ProcState /\ r.pc \in WorkerLabels /\ r.ret = "rest"
    /\ TransitionOK(r)
    /\ r.pc # "rest" /\ r.item.result # "none" => Bound(r.cand, r.item.result)
    /\ r.pc \in Undecided => r.item.state \notin Decided
    /\ r.pc \in {"infer", "save", "attach"} => r.item.result = "none"
    /\ r.pc \in {"save", "attach"} => r.verdict \in Verdicts
    /\ r.pc \in {"curate", "apply"} => r.verdict \in YesVerdicts /\ Bound(r.cand, r.verdict)
    /\ r.pc = "mark" /\ r.item.state \notin Decided =>
         \/ r.target = "DONE" /\ r.verdict \in YesVerdicts /\ <<r.cand, r.verdict>> \in journal
         \/ r.target = "NO_DISCARDED" /\ Bound(r.cand, "NO")

\* The keeper acknowledges only accounted bodies, and destroys only lost ones.
KeeperOK(r) ==
    /\ r \in ProcState /\ r.pc \in KeeperLabels
    /\ TransitionOK(r)
    /\ r.pc = "mark" => r.item.state \in Decided
    /\ r.pc \in {"enqueue", "secure", "commit"} => Accounted(r.cand)
    /\ r.pc \in {"secure", "commit", "mark"} => queue[r.cand].state # "NOT_FOUND"
    /\ r.pc = "write" => ~Lost(r.cand)
    /\ r.pc \in LossLabels => Lost(r.cand)
    /\ r.pc = "commit" => Lost(r.cand) \/ Secured(r.cand)

IInv ==
    /\ StoresOK
    /\ proc \in [Procs -> ProcState]
    /\ \A w \in Workers : WorkerOK(proc[w])
    /\ KeeperOK(proc[Keeper])

\* A step of Custody under the refinement mapping, or none.
CustodyStep == C!CNext \/ UNCHANGED <<Held, Evidence, journal, Outcome>>

\* What a step may do to the stores: everything a process relies on stays true, an
\* attached result stays attached until the decision, and Custody sees one of its own
\* steps or none.
StoreStep ==
    /\ \A c \in Candidates :
         /\ IsDecided(c) => queue'[c].state = queue[c].state
         /\ queue[c].state # "NOT_FOUND" => queue'[c].state # "NOT_FOUND"
         /\ \A v \in Verdicts : Bound(c, v) => Bound(c, v)'
         /\ \A v \in YesVerdicts : <<c, v>> \in journal => <<c, v>> \in journal'
         /\ Lost(c) => Lost(c)'
         /\ Accounted(c) => Accounted(c)'
         /\ queue[c].result # "none" /\ ~IsDecided(c) => queue'[c].result = queue[c].result
    /\ CustodyStep

\* What is proved of every step.
Safe == IInv' /\ StoreStep

-----------------------------------------------------------------------------
(* Types.                                                                  *)

\* The updates of a local state that the actions make keep it a local state.
LEMMA LocalUpdates ==
    ASSUME NEW r \in ProcState
    PROVE  /\ \A l \in WorkerLabels \cup KeeperLabels :
                [r EXCEPT !.pc = l] \in ProcState
           /\ \A l \in WorkerLabels \cup KeeperLabels, t \in QueueState \cup {"NOT_FOUND"} :
                [r EXCEPT !.pc = l, !.target = t] \in ProcState
           /\ \A l \in WorkerLabels \cup KeeperLabels, v \in Verdicts \cup {"none"} :
                [r EXCEPT !.pc = l, !.verdict = v] \in ProcState
           /\ \A l \in WorkerLabels \cup KeeperLabels, v \in Verdicts \cup {"none"},
                 t \in QueueState \cup {"NOT_FOUND"} :
                [r EXCEPT !.pc = l, !.verdict = v, !.target = t] \in ProcState
           /\ \A l \in WorkerLabels \cup KeeperLabels, i \in QueueItem :
                [r EXCEPT !.pc = l, !.item = i] \in ProcState
           /\ \A l \in WorkerLabels \cup KeeperLabels, i \in QueueItem,
                 t \in QueueState \cup {"NOT_FOUND"} :
                [r EXCEPT !.pc = l, !.item = i, !.target = t] \in ProcState
           /\ \A l \in WorkerLabels \cup KeeperLabels, i \in QueueItem, a \in Time \cup {NoTime} :
                [r EXCEPT !.pc = l, !.item = i, !.at = a] \in ProcState
           /\ \A l \in WorkerLabels \cup KeeperLabels, c \in Candidates \cup {"none"} :
                [r EXCEPT !.pc = l, !.cand = c] \in ProcState
           /\ \A l \in WorkerLabels \cup KeeperLabels, c \in Candidates \cup {"none"}, i \in QueueItem,
                 n \in Nat :
                [r EXCEPT !.pc = l, !.cand = c, !.item = i, !.tries = n] \in ProcState
           /\ \A l \in WorkerLabels \cup KeeperLabels, c \in Candidates \cup {"none"},
                 i \in QueueItem, t \in QueueState \cup {"NOT_FOUND"} :
                [r EXCEPT !.pc = l, !.cand = c, !.item = i, !.target = t] \in ProcState
           /\ \A l \in WorkerLabels \cup KeeperLabels, c \in Candidates \cup {"none"},
                 i \in QueueItem, t \in QueueState \cup {"NOT_FOUND"}, e \in {"rest", "secure"} :
                [r EXCEPT !.pc = l, !.cand = c, !.item = i, !.target = t, !.ret = e] \in ProcState
<1>1. \A l \in WorkerLabels \cup KeeperLabels :
        [r EXCEPT !.pc = l] \in ProcState
  BY Zenon DEF ProcState
<1>2. \A l \in WorkerLabels \cup KeeperLabels, t \in QueueState \cup {"NOT_FOUND"} :
        [r EXCEPT !.pc = l, !.target = t] \in ProcState
  BY Zenon DEF ProcState
<1>3. \A l \in WorkerLabels \cup KeeperLabels, v \in Verdicts \cup {"none"} :
        [r EXCEPT !.pc = l, !.verdict = v] \in ProcState
  BY Zenon DEF ProcState
<1>4. \A l \in WorkerLabels \cup KeeperLabels, v \in Verdicts \cup {"none"},
         t \in QueueState \cup {"NOT_FOUND"} :
        [r EXCEPT !.pc = l, !.verdict = v, !.target = t] \in ProcState
  BY Zenon DEF ProcState
<1>5. \A l \in WorkerLabels \cup KeeperLabels, i \in QueueItem :
        [r EXCEPT !.pc = l, !.item = i] \in ProcState
  BY Zenon DEF ProcState
<1>6. \A l \in WorkerLabels \cup KeeperLabels, i \in QueueItem, t \in QueueState \cup {"NOT_FOUND"} :
        [r EXCEPT !.pc = l, !.item = i, !.target = t] \in ProcState
  BY Zenon DEF ProcState
<1>7. \A l \in WorkerLabels \cup KeeperLabels, i \in QueueItem, a \in Time \cup {NoTime} :
        [r EXCEPT !.pc = l, !.item = i, !.at = a] \in ProcState
  BY Zenon DEF ProcState
<1>8. \A l \in WorkerLabels \cup KeeperLabels, c \in Candidates \cup {"none"} :
        [r EXCEPT !.pc = l, !.cand = c] \in ProcState
  BY Zenon DEF ProcState
<1>9. \A l \in WorkerLabels \cup KeeperLabels, c \in Candidates \cup {"none"}, i \in QueueItem, n \in Nat :
        [r EXCEPT !.pc = l, !.cand = c, !.item = i, !.tries = n] \in ProcState
  BY Zenon DEF ProcState
<1>10. \A l \in WorkerLabels \cup KeeperLabels, c \in Candidates \cup {"none"}, i \in QueueItem,
          t \in QueueState \cup {"NOT_FOUND"} :
        [r EXCEPT !.pc = l, !.cand = c, !.item = i, !.target = t] \in ProcState
  BY Zenon DEF ProcState
<1>11. \A l \in WorkerLabels \cup KeeperLabels, c \in Candidates \cup {"none"}, i \in QueueItem,
          t \in QueueState \cup {"NOT_FOUND"}, e \in {"rest", "secure"} :
        [r EXCEPT !.pc = l, !.cand = c, !.item = i, !.target = t, !.ret = e] \in ProcState
  BY Zenon DEF ProcState
<1> QED BY Zenon, <1>1, <1>2, <1>3, <1>4, <1>5, <1>6, <1>7, <1>8, <1>9, <1>10, <1>11

\* The updates of a queue file keep it a queue file.
LEMMA ItemUpdates ==
    ASSUME NEW i \in QueueItem
    PROVE  /\ \A s \in QueueState \cup {"NOT_FOUND"}, n \in Nat, o \in Workers \cup {"nobody"},
                 l \in Time \cup {NoTime} :
                [i EXCEPT !.state = s, !.attempts = n, !.owner = o, !.lease = l] \in QueueItem
           /\ \A s \in QueueState \cup {"NOT_FOUND"}, e \in Time \cup {NoTime},
                 o \in Workers \cup {"nobody"}, l \in Time \cup {NoTime} :
                [i EXCEPT !.state = s, !.eligible = e, !.owner = o, !.lease = l] \in QueueItem
           /\ \A s \in QueueState \cup {"NOT_FOUND"}, b \in BOOLEAN :
                [i EXCEPT !.state = s, !.payload = b] \in QueueItem
           /\ \A b \in BOOLEAN, e \in Time \cup {NoTime} :
                [i EXCEPT !.payload = b, !.eligible = e] \in QueueItem
           /\ \A v \in Verdicts \cup {"none"}, e \in Time \cup {NoTime} :
                [i EXCEPT !.result = v, !.eligible = e] \in QueueItem
           /\ \A v \in Verdicts \cup {"none"} :
                [i EXCEPT !.result = v] \in QueueItem
<1>1. \A s \in QueueState \cup {"NOT_FOUND"}, n \in Nat, o \in Workers \cup {"nobody"},
         l \in Time \cup {NoTime} :
        [i EXCEPT !.state = s, !.attempts = n, !.owner = o, !.lease = l] \in QueueItem
  BY Zenon DEF QueueItem
<1>2. \A s \in QueueState \cup {"NOT_FOUND"}, e \in Time \cup {NoTime},
         o \in Workers \cup {"nobody"}, l \in Time \cup {NoTime} :
        [i EXCEPT !.state = s, !.eligible = e, !.owner = o, !.lease = l] \in QueueItem
  BY Zenon DEF QueueItem
<1>3. \A s \in QueueState \cup {"NOT_FOUND"}, b \in BOOLEAN :
        [i EXCEPT !.state = s, !.payload = b] \in QueueItem
  BY Zenon DEF QueueItem
<1>4. \A b \in BOOLEAN, e \in Time \cup {NoTime} :
        [i EXCEPT !.payload = b, !.eligible = e] \in QueueItem
  BY Zenon DEF QueueItem
<1>5. \A v \in Verdicts \cup {"none"}, e \in Time \cup {NoTime} :
        [i EXCEPT !.result = v, !.eligible = e] \in QueueItem
  BY Zenon DEF QueueItem
<1>6. \A v \in Verdicts \cup {"none"} :
        [i EXCEPT !.result = v] \in QueueItem
  BY Zenon DEF QueueItem
<1> QED BY Zenon, <1>1, <1>2, <1>3, <1>4, <1>5, <1>6

\* The constant items and the resting state are well typed.
LEMMA StatesType ==
   /\ NotFound \in QueueItem
   /\ FreshItem \in QueueItem
   /\ \A m \in Time : RestState(m) \in ProcState
<1>1. NotFound \in QueueItem BY DEF NotFound, QueueItem
<1>2. "READY" \in QueueState \cup {"NOT_FOUND"} BY DEF QueueState, Claimable
<1>3. FreshItem \in QueueItem BY <1>1, <1>2, ItemUpdates DEF FreshItem
<1>4. \A m \in Time : RestState(m) \in ProcState BY <1>1 DEF RestState, ProcState, WorkerLabels
<1> QED BY <1>1, <1>3, <1>4

\* Deadlines stay within the horizon.
LEMMA AfterType == \A t \in Time, d \in Nat : After(t, d) \in Time
  BY TimeAssumption DEF After, Time

\* transition_queue_item writes a well-typed item that changes neither the result nor the
\* payload, and drops the lease outside the leased states.
LEMMA TransitionedType ==
    ASSUME NEW cur \in QueueItem, NEW target \in QueueState \cup {"NOT_FOUND"}, NEW due \in Time \cup {NoTime},
           NEW now \in Time
    PROVE  /\ Transitioned(cur, target, due, now) \in QueueItem
           /\ Transitioned(cur, target, due, now).state = target
           /\ Transitioned(cur, target, due, now).result = cur.result
           /\ Transitioned(cur, target, due, now).payload = cur.payload
           /\ target \notin Leased => /\ Transitioned(cur, target, due, now).owner = "nobody"
                                     /\ Transitioned(cur, target, due, now).lease = NoTime
<1> DEFINE e == NextEligible(cur, target, due, now)
           o == IF target \in Leased THEN cur.owner ELSE "nobody"
           l == IF target \in Leased THEN cur.lease ELSE NoTime
<1>1. e \in Time \cup {NoTime}
  <2>1. cur.eligible \in Time \cup {NoTime} BY DEF QueueItem
  <2>2. After(now, CooldownTime) \in Time BY TimeAssumption, AfterType
  <2> QED BY <2>1, <2>2 DEF NextEligible
<1>2. o \in Workers \cup {"nobody"} /\ l \in Time \cup {NoTime}
  BY DEF QueueItem
<1>3. Transitioned(cur, target, due, now) =
        [cur EXCEPT !.state = target, !.eligible = e, !.owner = o, !.lease = l]
  BY DEF Transitioned
<1>4. target \notin Leased => o = "nobody" /\ l = NoTime
  OBVIOUS
<1> HIDE DEF e, o, l
<1>5. Transitioned(cur, target, due, now) \in QueueItem
  <2>2. \A s \in QueueState \cup {"NOT_FOUND"}, e1 \in Time \cup {NoTime},
           o1 \in Workers \cup {"nobody"}, l1 \in Time \cup {NoTime} :
                [cur EXCEPT !.state = s, !.eligible = e1, !.owner = o1, !.lease = l1] \in QueueItem
    BY ItemUpdates
  <2>3. [cur EXCEPT !.state = target, !.eligible = e, !.owner = o, !.lease = l] \in QueueItem
    BY <1>1, <1>2, <2>2
  <2> QED BY <1>3, <2>3
<1>6. cur = [state |-> cur.state, attempts |-> cur.attempts, owner |-> cur.owner, lease |-> cur.lease,
             eligible |-> cur.eligible, payload |-> cur.payload, result |-> cur.result]
  BY DEF QueueItem
<1> QED BY <1>3, <1>4, <1>5, <1>6

-----------------------------------------------------------------------------
(* Processes that do not move, and the composition of a step.              *)

\* What a worker relies on survives any step of another process.
LEMMA WorkerStable ==
    ASSUME NEW v \in Workers, WorkerOK(proc[v]), StoreStep, proc'[v] = proc[v]
    PROVE  WorkerOK(proc[v])'
<1> DEFINE r == proc[v]
<1>0. r' = r OBVIOUS
<1>1. r \in ProcState BY DEF WorkerOK
<1>2. r.pc # "rest" => r.cand \in Candidates BY DEF WorkerOK, TransitionOK
<1>3. r.item.result # "none" => r.item.result \in Verdicts BY <1>1 DEF ProcState, QueueItem
<1>4. "NO" \in Verdicts BY DEF Verdicts
<1>5. YesVerdicts \subseteq Verdicts BY DEF Verdicts
<1>6. \A c \in Candidates : IsDecided(c) => queue'[c].state = queue[c].state BY DEF StoreStep
<1>7. \A c \in Candidates, u \in Verdicts : Bound(c, u) => Bound(c, u)' BY DEF StoreStep
<1>8. \A c \in Candidates, u \in YesVerdicts : <<c, u>> \in journal => <<c, u>> \in journal' BY DEF StoreStep
<1>9. TransitionOK(r)'
  BY <1>0, <1>1, <1>2, <1>6 DEF WorkerOK, TransitionOK, IsDecided, CleanupLabels, Decided
<1>10. r.pc # "rest" /\ r.item.result # "none" => Bound(r.cand, r.item.result)'
  BY <1>0, <1>1, <1>2, <1>3, <1>7 DEF WorkerOK
<1>11. r.pc \in {"curate", "apply"} => r.verdict \in YesVerdicts /\ Bound(r.cand, r.verdict)'
  BY <1>0, <1>1, <1>2, <1>5, <1>7 DEF WorkerOK
<1>12. r.pc = "mark" /\ r.item.state \notin Decided =>
         \/ r.target = "DONE" /\ r.verdict \in YesVerdicts /\ <<r.cand, r.verdict>> \in journal'
         \/ r.target = "NO_DISCARDED" /\ Bound(r.cand, "NO")'
  BY <1>0, <1>1, <1>2, <1>4, <1>7, <1>8 DEF WorkerOK
<1> QED BY <1>0, <1>1, <1>9, <1>10, <1>11, <1>12 DEF WorkerOK

\* What the keeper relies on survives any step of a worker.
LEMMA KeeperStable ==
    ASSUME KeeperOK(proc[Keeper]), StoreStep, proc'[Keeper] = proc[Keeper], receipt' = receipt
    PROVE  KeeperOK(proc[Keeper])'
<1> DEFINE r == proc[Keeper]
<1>0. r' = r OBVIOUS
<1>1. r \in ProcState BY DEF KeeperOK
<1>2. r.pc # "rest" => r.cand \in Candidates BY DEF KeeperOK, TransitionOK
<1>3. \A c \in Candidates : /\ IsDecided(c) => queue'[c].state = queue[c].state
                            /\ queue[c].state # "NOT_FOUND" => queue'[c].state # "NOT_FOUND"
                            /\ Lost(c) => Lost(c)'
                            /\ Accounted(c) => Accounted(c)'
  BY DEF StoreStep
<1>4. TransitionOK(r)'
  BY <1>0, <1>1, <1>2, <1>3 DEF KeeperOK, TransitionOK, IsDecided, CleanupLabels, Decided
<1>5. r.pc \in {"enqueue", "secure", "commit"} => Accounted(r.cand)'
  BY <1>0, <1>2, <1>3 DEF KeeperOK
<1>6. r.pc \in {"secure", "commit", "mark"} => queue'[r.cand].state # "NOT_FOUND"
  BY <1>0, <1>2, <1>3 DEF KeeperOK
<1>7. r.pc = "write" => ~Lost(r.cand)'
  BY <1>0 DEF KeeperOK, Lost
<1>8. r.pc \in LossLabels => Lost(r.cand)'
  BY <1>0, <1>2, <1>3 DEF KeeperOK, LossLabels
<1>9. r.pc = "commit" => Lost(r.cand)' \/ Secured(r.cand)'
  BY <1>0 DEF KeeperOK, Lost, Secured
<1> QED BY <1>0, <1>1, <1>4, <1>5, <1>6, <1>7, <1>8, <1>9 DEF KeeperOK

\* A step of a worker that respects the stores and its own obligations keeps IInv.
LEMMA WorkerComposes ==
    ASSUME IInv, NEW w \in Workers, proc' = [proc EXCEPT ![w] = proc'[w]], receipt' = receipt,
           StoreStep, StoresOK', WorkerOK(proc[w])'
    PROVE  Safe
<1>1. proc'[w] \in ProcState BY DEF WorkerOK
<1>2. proc \in [Procs -> ProcState] BY DEF IInv
<1>3. w \in Procs BY DEF Procs
<1>4. proc' \in [Procs -> ProcState] BY <1>1, <1>2, <1>3
<1>5. \A v \in Workers : WorkerOK(proc[v])'
  <2> TAKE v \in Workers
  <2>1. CASE v = w BY <2>1
  <2>2. CASE v # w
    <3>1. proc'[v] = proc[v] BY <2>2, <1>2 DEF Procs
    <3>2. WorkerOK(proc[v]) BY DEF IInv
    <3> QED BY <3>1, <3>2, WorkerStable
  <2> QED BY <2>1, <2>2
<1>6. KeeperOK(proc[Keeper])'
  <2>1. proc'[Keeper] = proc[Keeper] BY ProcessAssumption, <1>2 DEF Procs
  <2>2. KeeperOK(proc[Keeper]) BY DEF IInv
  <2> QED BY <2>1, <2>2, KeeperStable
<1> QED BY <1>4, <1>5, <1>6 DEF IInv, Safe

\* A step of the keeper that respects the stores and its own obligations keeps IInv.
LEMMA KeeperComposes ==
    ASSUME IInv, proc' = [proc EXCEPT ![Keeper] = proc'[Keeper]],
           StoreStep, StoresOK', KeeperOK(proc[Keeper])'
    PROVE  Safe
<1>1. proc'[Keeper] \in ProcState BY DEF KeeperOK
<1>2. proc \in [Procs -> ProcState] BY DEF IInv
<1>3. Keeper \in Procs BY DEF Procs
<1>4. proc' \in [Procs -> ProcState] BY <1>1, <1>2, <1>3
<1>5. \A v \in Workers : WorkerOK(proc[v])'
  <2> TAKE v \in Workers
  <2>1. v # Keeper BY ProcessAssumption
  <2>2. proc'[v] = proc[v] BY <2>1, <1>2 DEF Procs
  <2>3. WorkerOK(proc[v]) BY DEF IInv
  <2> QED BY <2>2, <2>3, WorkerStable
<1> QED BY <1>4, <1>5 DEF IInv, Safe

-----------------------------------------------------------------------------
(* Changes of the stores.                                                  *)

\* The stores are as they were, so everything a process relies on is.
LEMMA SameStores ==
    ASSUME UNCHANGED <<queue, spool, journal, receipt>>
    PROVE  StoreStep
<1>1. CustodyStep
  BY DEF CustodyStep, Held, Evidence, Outcome, Lost, Secured, IsDecided, Body
<1> QED BY <1>1 DEF StoreStep, Bound, Accounted, Lost, IsDecided, Body

\* One queue file changes: a decision stays, bound verdicts stay bound, and a new decision is
\* backed by the journal.
LEMMA QueueChange ==
    ASSUME StoresOK, NEW c \in Candidates,
           queue' = [queue EXCEPT ![c] = queue'[c]], queue'[c] \in QueueItem,
           queue'[c].state \notin Leased => queue'[c].owner = "nobody" /\ queue'[c].lease = NoTime,
           UNCHANGED <<spool, expires, clock, journal, captureVars>>,
           emergency' \subseteq emergency, faults' \in 0 .. MaxFaults,
           queue'[c].state # "NOT_FOUND",
           Accounted(c),
           IsDecided(c) => queue'[c].state = queue[c].state,
           queue[c].result # "none" /\ ~IsDecided(c) => queue'[c].result = queue[c].result,
           \A v \in Verdicts : Bound(c, v) => Bound(c, v)',
           queue'[c].state = "DONE" =>
             \E v \in YesVerdicts : <<c, v>> \in journal /\ queue'[c].result \in {v, "none"},
           queue'[c].state = "NO_DISCARDED" => queue'[c].result \in {"NO", "none"}
    PROVE  StoreStep /\ StoresOK'
<1>1. queue \in [Candidates -> QueueItem] BY DEF StoresOK, StoreTypeOK
<1>2. \A d \in Candidates : d # c => queue'[d] = queue[d] BY <1>1
<1>3. StoreTypeOK'
  <2>1. queue' \in [Candidates -> QueueItem] BY <1>1
  <2>2. \A d \in Candidates :
         queue'[d].state \notin Leased => queue'[d].owner = "nobody" /\ queue'[d].lease = NoTime
    BY <1>2 DEF StoresOK, StoreTypeOK
  <2> QED BY <2>1, <2>2 DEF StoresOK, StoreTypeOK, captureVars
<1>4. \A d \in Candidates : (IsDecided(d) => queue'[d].state = queue[d].state)
  BY <1>2
<1>5. \A d \in Candidates : queue[d].state # "NOT_FOUND" => queue'[d].state # "NOT_FOUND"
  BY <1>2
<1>6. \A d \in Candidates, v \in Verdicts : Bound(d, v) => Bound(d, v)'
  BY <1>2 DEF Bound
<1>7. \A d \in Candidates : Lost(d)' = Lost(d) /\ Secured(d)' = Secured(d)
  BY DEF Lost, Secured, captureVars
<1>8. \A d \in Candidates : Accounted(d) => Accounted(d)'
  BY <1>4, <1>7 DEF Accounted, IsDecided, Body
<1>9. StoreStep
  <2>1. \A d \in Candidates :
          queue[d].result # "none" /\ ~IsDecided(d) => queue'[d].result = queue[d].result
    BY <1>2
  <2>2. CustodyStep
    <3>1. Held' = Held /\ Evidence' = Evidence /\ journal' = journal
      BY <1>7 DEF Held, Evidence, Body
    <3>2. CASE Outcome' = Outcome BY <3>1, <3>2 DEF CustodyStep
    <3>3. CASE Outcome' # Outcome
      <4>1. ~IsDecided(c) /\ IsDecided(c)'
        <5>1. \A d \in Candidates : d # c => Outcome'[d] = Outcome[d]
          BY <1>2 DEF Outcome, IsDecided
        <5>2. Outcome'[c] # Outcome[c] BY <3>3, <5>1 DEF Outcome
        <5> QED BY <5>2 DEF Outcome, IsDecided
      <4>2. Outcome[c] = "none" BY <4>1 DEF Outcome
      <4>3. Outcome' = [Outcome EXCEPT ![c] = queue'[c].state]
        BY <1>2, <4>1 DEF Outcome, IsDecided
      <4>4. queue'[c].state \in {"NO_DISCARDED", "DONE"} BY <4>1 DEF IsDecided, Decided
      <4>5. queue'[c].state = "DONE" <=> \E v \in YesVerdicts : <<c, v>> \in journal
        <5>1. ASSUME NEW v \in YesVerdicts, <<c, v>> \in journal, queue'[c].state = "NO_DISCARDED"
              PROVE  FALSE
          <6>1. Bound(c, v) BY <5>1 DEF StoresOK, JournalOK
          <6>2. Bound(c, v)' BY <1>6, <6>1 DEF Verdicts
          <6> QED BY <5>1, <6>2, VerdictAssumption DEF Bound
        <5> QED BY <4>4, <5>1
      <4>6. C!Decide(c, queue'[c].state) BY <3>1, <4>2, <4>3, <4>5 DEF C!Decide
      <4> QED BY <4>4, <4>6 DEF CustodyStep, C!CNext
    <3> QED BY <3>2, <3>3
  <2> QED BY <1>4, <1>5, <1>6, <1>7, <1>8, <2>1, <2>2 DEF StoreStep
<1>10. BodyOK'
  <2>1. \A d \in Candidates : queue'[d].state = "NOT_FOUND" => queue'[d] = NotFound
    BY <1>2 DEF StoresOK, BodyOK
  <2>2. \A d \in Candidates : queue'[d].state # "NOT_FOUND" \/ d \in emergency' => Accounted(d)'
    BY <1>2, <1>8 DEF StoresOK, BodyOK
  <2>3. \A d \in Candidates : Secured(d)' => queue'[d].state # "NOT_FOUND"
    BY <1>5, <1>7 DEF StoresOK, BodyOK
  <2> QED BY <2>1, <2>2, <2>3 DEF StoresOK, BodyOK, captureVars
<1>11. LedgerBeforeIntent'
  BY <1>5, <1>7 DEF StoresOK, LedgerBeforeIntent, captureVars
<1>12. JournalOK'
  <2>1. \A d \in Candidates, v \in YesVerdicts : <<d, v>> \in journal => Bound(d, v)'
    BY <1>6 DEF StoresOK, JournalOK, Verdicts
  <2>2. \A d \in Candidates : queue'[d].state = "DONE" =>
             \E v \in YesVerdicts : <<d, v>> \in journal /\ queue'[d].result \in {v, "none"}
    BY <1>2 DEF StoresOK, JournalOK
  <2>3. \A d \in Candidates : queue'[d].state = "NO_DISCARDED" => queue'[d].result \in {"NO", "none"}
    BY <1>2 DEF StoresOK, JournalOK
  <2> QED BY <2>1, <2>2, <2>3 DEF StoresOK, JournalOK
<1> QED BY <1>3, <1>9, <1>10, <1>11, <1>12 DEF StoresOK

\* One body is written or deleted at most: a payload is written only before a loss, and a
\* body is deleted only after a decision or a loss.
SpoolStep ==
    \/ spool' = spool
    \/ \E c \in Candidates : spool' = spool \cup {Body(c)} /\ ~Lost(c)
    \/ \E c \in Candidates, v \in Verdicts : spool' = spool \cup {<<c, v>>}
    \/ \E c \in Candidates, x \in Verdicts \cup {"none", "payload"} :
         spool' = spool \ {<<c, x>>} /\ (IsDecided(c) \/ Lost(c))

\* The spool changes by one justified write or deletion.
LEMMA SpoolChange ==
    ASSUME StoresOK, UNCHANGED <<queue, expires, journal, captureVars>>,
           spool' \subseteq Candidates \X (Verdicts \cup {"payload"}),
           SpoolStep,
           emergency' \subseteq emergency, clock' \in Time, faults' \in 0 .. MaxFaults
    PROVE  StoreStep /\ StoresOK'
<1>1. \A d \in Candidates : /\ Lost(d)' = Lost(d) /\ Secured(d)' = Secured(d)
                            /\ IsDecided(d)' = IsDecided(d)
  BY DEF Lost, Secured, IsDecided, captureVars
<1>2. \A d \in Candidates, v \in Verdicts : Bound(d, v)' = Bound(d, v)
  BY DEF Bound
<1>3. \A d \in Candidates : Accounted(d) => Accounted(d)'
  BY <1>1 DEF Accounted, SpoolStep, Body
<1>4. StoreStep
  <2>1. Evidence' = Evidence /\ journal' = journal /\ Outcome' = Outcome
    BY <1>1 DEF Evidence, Outcome
  <2>2. CustodyStep
    <3>1. CASE Held' = Held BY <2>1, <3>1 DEF CustodyStep
    <3>2. ASSUME NEW c \in Candidates, NEW x, spool' = spool \cup {<<c, x>>}, ~Lost(c), Held' # Held
          PROVE  CustodyStep
      <4>1. x = "payload" BY <3>2 DEF Held, Body
      <4>2. Held' = Held \cup {c} BY <3>2, <4>1 DEF Held, Body
      <4>3. Evidence[c] # "lost" BY <3>2 DEF Evidence
      <4>4. C!Take(c) BY <2>1, <4>2, <4>3 DEF C!Take
      <4> QED BY <4>4 DEF CustodyStep, C!CNext
    <3>3. ASSUME NEW c \in Candidates, NEW x, spool' = spool \ {<<c, x>>}, IsDecided(c) \/ Lost(c), Held' # Held
          PROVE  CustodyStep
      <4>1. x = "payload" BY <3>3 DEF Held, Body
      <4>2. Held' = Held \ {c} BY <3>3, <4>1 DEF Held, Body
      <4>3. Outcome[c] # "none" \/ Evidence[c] = "lost" BY <3>3 DEF Evidence, Outcome, IsDecided, Decided
      <4>4. C!Drop(c) BY <2>1, <4>2, <4>3 DEF C!Drop
      <4> QED BY <4>4 DEF CustodyStep, C!CNext
    <3>4. ASSUME NEW c \in Candidates, NEW x \in Verdicts, spool' = spool \cup {<<c, x>>}
          PROVE  Held' = Held
      BY <3>4, VerdictAssumption DEF Held, Body, Verdicts
    <3>5. spool' = spool => Held' = Held BY DEF Held
    <3> QED BY <3>1, <3>2, <3>3, <3>4, <3>5 DEF SpoolStep, Body
  <2> QED BY <1>1, <1>2, <1>3, <2>2 DEF StoreStep
<1>5. StoreTypeOK' BY DEF StoresOK, StoreTypeOK, captureVars
<1>6. BodyOK' BY <1>1, <1>3 DEF StoresOK, BodyOK, captureVars
<1>7. LedgerBeforeIntent' BY <1>1 DEF StoresOK, LedgerBeforeIntent, captureVars
<1>8. JournalOK' BY <1>2 DEF StoresOK, JournalOK, Verdicts
<1> QED BY <1>4, <1>5, <1>6, <1>7, <1>8 DEF StoresOK

\* The verdict bound to a candidate is applied; no other one has been.
LEMMA JournalChange ==
    ASSUME StoresOK, NEW c \in Candidates, NEW v \in YesVerdicts, Bound(c, v),
           journal' = journal \cup {<<c, v>>},
           UNCHANGED <<queue, spool, emergency, expires, clock, faults, captureVars>>
    PROVE  StoreStep /\ StoresOK'
<1>1. \A d \in Candidates : /\ Lost(d)' = Lost(d) /\ Secured(d)' = Secured(d)
                            /\ IsDecided(d)' = IsDecided(d)
                            /\ Accounted(d)' = Accounted(d)
  BY DEF Lost, Secured, IsDecided, Accounted, Body, captureVars
<1>2. \A d \in Candidates, u \in Verdicts : Bound(d, u) => Bound(d, u)'
  BY DEF Bound
<1>3. \A u \in YesVerdicts : <<c, u>> \in journal => u = v
  <2> TAKE u \in YesVerdicts
  <2> HAVE <<c, u>> \in journal
  <2>1. Bound(c, u) BY DEF StoresOK, JournalOK
  <2>2. u # "NO" /\ v # "NO" /\ u # "none" /\ v # "none" BY VerdictAssumption
  <2>3. CASE queue[c].state = "DONE"
    <3>1. PICK x \in YesVerdicts : <<c, x>> \in journal /\ queue[c].result \in {x, "none"}
      BY <2>3 DEF StoresOK, JournalOK
    <3>2. x = u BY <3>1 DEF StoresOK, JournalOK
    <3>3. <<c, v>> \in journal \/ queue[c].result = v BY <2>2, <2>3 DEF Bound
    <3>4. v = x BY <3>1, <3>3, <2>2 DEF StoresOK, JournalOK
    <3> QED BY <3>2, <3>4
  <2>4. CASE queue[c].state # "DONE"
    BY <2>1, <2>2, <2>4 DEF Bound
  <2> QED BY <2>3, <2>4
<1>8. StoreStep
  <2>1. Held' = Held /\ Evidence' = Evidence /\ Outcome' = Outcome
    BY <1>1 DEF Held, Evidence, Outcome, Body
  <2>2. Outcome[c] # "NO_DISCARDED"
    <3>1. ASSUME queue[c].state = "NO_DISCARDED" PROVE FALSE
      <4>1. queue[c].result \in {"NO", "none"} BY <3>1 DEF StoresOK, JournalOK
      <4> QED BY <3>1, <4>1, VerdictAssumption DEF Bound
    <3> QED BY <3>1 DEF Outcome
  <2>3. C!Apply(c, v) BY <1>3, <2>1, <2>2 DEF C!Apply
  <2>4. CustodyStep BY <2>3 DEF CustodyStep, C!CNext
  <2> QED BY <1>1, <1>2, <2>4 DEF StoreStep
<1>4. StoreTypeOK' BY DEF StoresOK, StoreTypeOK, captureVars
<1>5. BodyOK' BY <1>1 DEF StoresOK, BodyOK, captureVars
<1>6. LedgerBeforeIntent' BY <1>1 DEF StoresOK, LedgerBeforeIntent, captureVars
<1>7. JournalOK'
  <2>2. \A d \in Candidates, u, x \in YesVerdicts :
          <<d, u>> \in journal' /\ <<d, x>> \in journal' => u = x
    <3> TAKE d \in Candidates, u, x \in YesVerdicts
    <3>1. CASE d = c BY <1>3, <3>1
    <3>2. CASE d # c BY <3>2 DEF StoresOK, JournalOK
    <3> QED BY <3>1, <3>2
  <2>3. \A d \in Candidates, u \in YesVerdicts : <<d, u>> \in journal' => Bound(d, u)'
    BY <1>2 DEF StoresOK, JournalOK, Verdicts
  <2>4. \A d \in Candidates : queue[d].state = "DONE" =>
             \E u \in YesVerdicts : <<d, u>> \in journal' /\ queue[d].result \in {u, "none"}
    BY DEF StoresOK, JournalOK
  <2>5. \A d \in Candidates : queue[d].state = "NO_DISCARDED" => queue[d].result \in {"NO", "none"}
    BY DEF StoresOK, JournalOK
  <2> QED BY <2>2, <2>3, <2>4, <2>5 DEF JournalOK
<1> QED BY <1>4, <1>5, <1>6, <1>7, <1>8 DEF StoresOK

-----------------------------------------------------------------------------
(* The steps of a worker.                                                  *)

\* What IInv says of a worker, unpacked.
LEMMA WorkerFacts ==
    ASSUME IInv, NEW w \in Workers
    PROVE  /\ StoresOK /\ WorkerOK(proc[w]) /\ proc[w] \in ProcState /\ w \in Procs
           /\ proc \in [Procs -> ProcState] /\ queue \in [Candidates -> QueueItem]
           /\ clock \in Time /\ faults \in 0 .. MaxFaults
           /\ proc[w].pc # "rest" => proc[w].cand \in Candidates
BY DEF IInv, StoresOK, StoreTypeOK, WorkerOK, TransitionOK, Procs

\* A process at rest relies on nothing.
LEMMA RestOK == \A m \in Time : WorkerOK(RestState(m))' /\ KeeperOK(RestState(m))'
<1> TAKE m \in Time
<1>1. RestState(m) \in ProcState BY StatesType
<1>2. TransitionOK(RestState(m))'
  BY DEF TransitionOK, RestState, CleanupLabels
<1>3. WorkerOK(RestState(m))'
  BY <1>1, <1>2 DEF WorkerOK, RestState, WorkerLabels, Undecided
<1>4. KeeperOK(RestState(m))'
  BY <1>1, <1>2 DEF KeeperOK, RestState, KeeperLabels, LossLabels
<1> QED BY <1>3, <1>4

\* The failure counter stays within its bound.
LEMMA Faults == faults \in 0 .. MaxFaults /\ Faulty => faults' \in 0 .. MaxFaults
BY TimeAssumption DEF Faulty

\* A step of a worker that leaves the stores as they are.
LEMMA LocalStep ==
    ASSUME IInv, NEW w \in Workers, proc' = [proc EXCEPT ![w] = proc'[w]],
           UNCHANGED <<queue, spool, emergency, expires, clock, journal, captureVars>>,
           faults' \in 0 .. MaxFaults, WorkerOK(proc[w])'
    PROVE  Safe
<1>1. StoreStep /\ StoresOK'
  <2>1. StoresOK BY DEF IInv
  <2>2. SpoolStep BY DEF SpoolStep
  <2> QED BY <2>1, <2>2, SpoolChange DEF StoresOK, StoreTypeOK
<1> QED BY <1>1, WorkerComposes DEF captureVars

\* A worker that comes to rest.
LEMMA WorkerRests ==
    ASSUME IInv, NEW w \in Workers, Rest(w)
    PROVE  proc' = [proc EXCEPT ![w] = proc'[w]] /\ WorkerOK(proc[w])'
<1>1. proc' = [proc EXCEPT ![w] = RestState(proc[w].moment)] BY DEF Rest, Becomes
<1>2. proc \in [Procs -> ProcState] /\ w \in Procs BY WorkerFacts
<1>3. proc[w].moment \in Time BY WorkerFacts DEF ProcState
<1>4. proc'[w] = RestState(proc[w].moment) BY <1>1, <1>2
<1>5. proc' = [proc EXCEPT ![w] = proc'[w]] BY <1>1, <1>4
<1> QED BY <1>3, <1>4, <1>5, RestOK

\* A worker that goes to the exception handler.
LEMMA WorkerFails ==
    ASSUME IInv, NEW w \in Workers, proc[w].pc # "rest", Goto(w, "failed"), StoreStep
    PROVE  proc' = [proc EXCEPT ![w] = proc'[w]] /\ WorkerOK(proc[w])'
<1> DEFINE r == proc[w]
<1>1. proc' = [proc EXCEPT ![w] = [r EXCEPT !.pc = "failed"]] BY DEF Goto, Becomes
<1>2. proc \in [Procs -> ProcState] /\ w \in Procs /\ r \in ProcState /\ r.cand \in Candidates /\ WorkerOK(r)
  BY WorkerFacts
<1>4. proc'[w] = [r EXCEPT !.pc = "failed"] BY <1>1, <1>2
<1>5. proc' = [proc EXCEPT ![w] = proc'[w]] BY <1>1, <1>4
<1>6. [r EXCEPT !.pc = "failed"] \in ProcState
  <2>1. "failed" \in WorkerLabels \cup KeeperLabels BY DEF WorkerLabels
  <2> QED BY <1>2, <2>1, LocalUpdates
<1>7. proc'[w].item.result # "none" => Bound(proc[w].cand, proc[w].item.result)'
  <2>1. r.item.result # "none" => r.item.result \in Verdicts BY <1>2 DEF ProcState, QueueItem
  <2>2. r.item.result # "none" => Bound(r.cand, r.item.result) BY <1>2 DEF WorkerOK
  <2>3. \A c \in Candidates, v \in Verdicts : Bound(c, v) => Bound(c, v)' BY DEF StoreStep
  <2>4. proc'[w].cand = r.cand /\ proc'[w].item = r.item BY <1>2, <1>4 DEF ProcState
  <2> QED BY <1>2, <2>1, <2>2, <2>3, <2>4
<1>8. WorkerOK(proc[w])'
  BY <1>2, <1>4, <1>6, <1>7 DEF WorkerOK, TransitionOK, WorkerLabels, CleanupLabels, Undecided, ProcState
<1> QED BY <1>5, <1>8

\* A new run of drain_queue keeps IInv.
LEMMA BeginRunOK ==
    ASSUME IInv, NEW w \in Workers, BeginRun(w), UNCHANGED captureVars
    PROVE  Safe
<1>1. proc' = [proc EXCEPT ![w] = RestState(clock)] BY DEF BeginRun, Becomes
<1>2. proc \in [Procs -> ProcState] /\ w \in Procs /\ clock \in Time BY WorkerFacts
<1>3. proc'[w] = RestState(clock) BY <1>1, <1>2
<1>4. proc' = [proc EXCEPT ![w] = proc'[w]] BY <1>1, <1>3
<1>5. WorkerOK(proc[w])' BY <1>2, <1>3, RestOK
<1>6. faults' \in 0 .. MaxFaults BY WorkerFacts DEF BeginRun
<1> QED BY <1>4, <1>5, <1>6, LocalStep DEF BeginRun

\* An absent item whose body is accounted for is stored.
LEMMA FreshChange ==
    ASSUME StoresOK, NEW c \in Candidates, queue[c].state = "NOT_FOUND", Accounted(c),
           queue' = [queue EXCEPT ![c] = FreshItem],
           UNCHANGED <<spool, expires, clock, journal, captureVars>>,
           emergency' \subseteq emergency, faults' \in 0 .. MaxFaults
    PROVE  StoreStep /\ StoresOK'
<1>1. queue \in [Candidates -> QueueItem] BY DEF StoresOK, StoreTypeOK
<1>2. queue'[c] = FreshItem BY <1>1
<1>3. FreshItem \in QueueItem BY StatesType
<1>4. /\ FreshItem.state = "READY" /\ FreshItem.owner = "nobody" /\ FreshItem.lease = NoTime
      /\ FreshItem.result = "none"
  BY DEF FreshItem, NotFound
<1>5. queue[c].result = "none" BY DEF StoresOK, BodyOK, NotFound
<1>6. \A v \in Verdicts : ~Bound(c, v)
  BY <1>5, VerdictAssumption DEF Bound, Verdicts
<1>7. ~IsDecided(c) BY DEF IsDecided, Decided
<1> QED BY <1>2, <1>3, <1>4, <1>5, <1>6, <1>7, QueueChange

\* An item that is not decided changes and stays undecided, with its result.
LEMMA OpenChange ==
    ASSUME StoresOK, NEW c \in Candidates,
           queue' = [queue EXCEPT ![c] = queue'[c]], queue'[c] \in QueueItem,
           queue'[c].state \notin Leased => queue'[c].owner = "nobody" /\ queue'[c].lease = NoTime,
           queue[c].state \notin Decided \cup {"NOT_FOUND"},
           queue'[c].state \notin Decided \cup {"NOT_FOUND"}, queue'[c].result = queue[c].result,
           UNCHANGED <<spool, emergency, expires, clock, journal, captureVars>>,
           faults' \in 0 .. MaxFaults
    PROVE  StoreStep /\ StoresOK'
<1>1. Accounted(c) BY DEF StoresOK, BodyOK
<1>2. ~IsDecided(c) BY DEF IsDecided
<1>3. \A v \in Verdicts : Bound(c, v) => Bound(c, v)' BY DEF Bound, Decided
<1>4. queue'[c].state # "DONE" /\ queue'[c].state # "NO_DISCARDED" /\ queue'[c].state # "NOT_FOUND" BY DEF Decided
<1> QED BY <1>1, <1>2, <1>3, <1>4, QueueChange

\* recover_emergency_spool, interrupted or not, keeps IInv.
LEMMA EnvelopeOK ==
    ASSUME IInv, NEW w \in Workers, NEW c \in Candidates, UNCHANGED captureVars,
           RecoverEnvelope(w, c) \/ RecoverEnvelopeDies(w, c) \/ ExpireEnvelope(w, c)
    PROVE  Safe
<1>1. /\ StoresOK /\ WorkerOK(proc[w]) /\ faults \in 0 .. MaxFaults BY WorkerFacts
<1>2. c \in emergency /\ proc' = proc /\ emergency' \subseteq emergency
      /\ UNCHANGED <<spool, expires, clock, journal, captureVars>>
  BY DEF RecoverEnvelope, RecoverEnvelopeDies, ExpireEnvelope
<1>3. faults' \in 0 .. MaxFaults
  BY <1>1, Faults DEF RecoverEnvelope, RecoverEnvelopeDies, ExpireEnvelope
<1>4. \/ queue' = queue
      \/ queue[c].state = "NOT_FOUND" /\ queue' = [queue EXCEPT ![c] = FreshItem]
  BY DEF RecoverEnvelope, RecoverEnvelopeDies, ExpireEnvelope
<1>5. Accounted(c) BY <1>1, <1>2 DEF StoresOK, BodyOK
<1>6. StoreStep /\ StoresOK'
  <2>1. CASE queue' = queue
    <3>1. SpoolStep BY <1>2 DEF SpoolStep
    <3>2. clock' \in Time /\ spool' \subseteq Candidates \X (Verdicts \cup {"payload"})
      BY <1>1, <1>2 DEF StoresOK, StoreTypeOK
    <3> QED BY <2>1, <1>1, <1>2, <1>3, <3>1, <3>2, SpoolChange
  <2>2. CASE queue[c].state = "NOT_FOUND" /\ queue' = [queue EXCEPT ![c] = FreshItem]
    BY <2>2, <1>1, <1>2, <1>3, <1>5, FreshChange
  <2> QED BY <1>4, <2>1, <2>2
<1>7. proc'[w] = proc[w] /\ proc' = [proc EXCEPT ![w] = proc'[w]]
  BY <1>2 DEF IInv
<1>8. WorkerOK(proc[w])' BY <1>1, <1>6, <1>7, WorkerStable
<1> QED BY <1>2, <1>6, <1>7, <1>8, WorkerComposes DEF captureVars

\* claim_queue_item keeps IInv.
LEMMA ClaimOK ==
    ASSUME IInv, NEW w \in Workers, NEW c \in Candidates, UNCHANGED captureVars, Claim(w, c)
    PROVE  Safe
<1> DEFINE r == proc[w]
           claimed == [queue[c] EXCEPT !.state = "IN_PROGRESS", !.attempts = queue[c].attempts + 1,
                                       !.owner = w, !.lease = After(r.moment, LeaseTime)]
<1>1. /\ StoresOK /\ WorkerOK(r) /\ faults \in 0 .. MaxFaults /\ r \in ProcState /\ w \in Procs
      /\ proc \in [Procs -> ProcState] /\ queue \in [Candidates -> QueueItem]
  BY WorkerFacts
<1>2. r.moment \in Time /\ queue[c] \in QueueItem /\ queue[c].attempts \in Nat
  BY <1>1 DEF ProcState, QueueItem
<1>3. claimed \in QueueItem
  <2>1. "IN_PROGRESS" \in QueueState \cup {"NOT_FOUND"} BY DEF QueueState, Leased
  <2>2. After(r.moment, LeaseTime) \in Time \cup {NoTime} BY <1>2, AfterType, TimeAssumption
  <2>3. w \in Workers \cup {"nobody"} /\ queue[c].attempts + 1 \in Nat BY <1>2
  <2> QED BY <1>2, <2>1, <2>2, <2>3, ItemUpdates
<1>4. claimed.state = "IN_PROGRESS" /\ claimed.result = queue[c].result BY <1>2 DEF QueueItem
<1>5. queue' = [queue EXCEPT ![c] = claimed] /\ queue[c].state \in Claimable \cup Leased
  BY DEF Claim, Eligible
<1>6. proc' = [proc EXCEPT ![w] = [r EXCEPT !.pc = "read", !.cand = c, !.item = claimed,
                                             !.tries = claimed.attempts]]
  BY DEF Claim, Becomes
<1>7. UNCHANGED <<spool, emergency, clock, expires, journal, faults>> BY DEF Claim
<1> HIDE DEF claimed
<1>8. queue'[c] = claimed BY <1>1, <1>5
<1>9. StoreStep /\ StoresOK'
  <2>1. claimed.state \notin Decided \cup {"NOT_FOUND"} /\ claimed.state \in Leased
    BY <1>4 DEF Decided, Leased
  <2>2. queue[c].state \notin Decided \cup {"NOT_FOUND"} BY <1>5 DEF Decided, Claimable, Leased
  <2> QED BY <1>1, <1>3, <1>4, <1>5, <1>7, <1>8, <2>1, <2>2, OpenChange
<1>10. proc'[w] = [r EXCEPT !.pc = "read", !.cand = c, !.item = claimed, !.tries = claimed.attempts]
  BY <1>1, <1>6
<1>11. proc'[w] \in ProcState
  <2>1. "read" \in WorkerLabels \cup KeeperLabels BY DEF WorkerLabels
  <2>2. \A l \in WorkerLabels \cup KeeperLabels, d \in Candidates \cup {"none"}, i \in QueueItem,
           n \in Nat :
          [r EXCEPT !.pc = l, !.cand = d, !.item = i, !.tries = n] \in ProcState
    BY <1>1, LocalUpdates
  <2>3. claimed.attempts \in Nat BY <1>3 DEF QueueItem
  <2>4. [r EXCEPT !.pc = "read", !.cand = c, !.item = claimed, !.tries = claimed.attempts] \in ProcState
    BY <1>3, <2>1, <2>2, <2>3
  <2> QED BY <1>10, <2>4
<1>12. Bound(c, proc[w].item.result)'
  BY <1>1, <1>8, <1>10 DEF Bound, ProcState
<1>13. WorkerOK(proc[w])'
  BY <1>1, <1>4, <1>10, <1>11, <1>12
     DEF WorkerOK, TransitionOK, WorkerLabels, CleanupLabels, Undecided, Decided, ProcState
<1> QED BY <1>6, <1>9, <1>10, <1>13, WorkerComposes DEF captureVars

\* The retried cleanup of a decided item keeps IInv.
LEMMA ClaimCleanupOK ==
    ASSUME IInv, NEW w \in Workers, NEW c \in Candidates, UNCHANGED captureVars, ClaimCleanup(w, c)
    PROVE  Safe
<1> DEFINE r == proc[w]
           local == [r EXCEPT !.pc = "mark", !.cand = c, !.item = queue[c], !.target = queue[c].state]
<1>1. /\ WorkerOK(r) /\ r \in ProcState /\ w \in Procs /\ faults \in 0 .. MaxFaults
      /\ proc \in [Procs -> ProcState] /\ queue[c] \in QueueItem
  BY WorkerFacts
<1>2. proc' = [proc EXCEPT ![w] = local] /\ IsDecided(c)
      /\ UNCHANGED <<queue, spool, emergency, clock, expires, journal, faults>>
  BY DEF ClaimCleanup, Becomes
<1>3. proc'[w] = local BY <1>1, <1>2
<1>4. local \in ProcState
  <2>1. "mark" \in WorkerLabels \cup KeeperLabels BY DEF WorkerLabels
  <2>2. queue[c].state \in QueueState \cup {"NOT_FOUND"} BY <1>1 DEF QueueItem
  <2> QED BY <1>1, <2>1, <2>2, LocalUpdates
<1>5. queue[c].result # "none" => Bound(c, queue[c].result)' BY <1>2 DEF Bound
<1>6. WorkerOK(proc[w])'
  BY <1>1, <1>2, <1>3, <1>4, <1>5
     DEF WorkerOK, TransitionOK, WorkerLabels, CleanupLabels, Undecided, IsDecided, ProcState
<1> QED BY <1>1, <1>2, <1>3, <1>6, LocalStep

\* An exception or the death of a worker keeps IInv.
LEMMA LocalOK ==
    ASSUME IInv, NEW w \in Workers, UNCHANGED captureVars,
           Raise(w) \/ WorkerDies(w)
    PROVE  Safe
<1>1. UNCHANGED <<queue, spool, emergency, expires, clock, journal>> /\ faults' \in 0 .. MaxFaults
  BY WorkerFacts, Faults DEF Raise, WorkerDies
<1>2. StoreStep BY <1>1, SameStores DEF captureVars
<1>3. CASE Raise(w)
  <2>1. proc[w].pc # "rest" /\ Goto(w, "failed") BY <1>3 DEF Raise, Working
  <2> QED BY <1>1, <1>2, <2>1, WorkerFails, LocalStep
<1>4. CASE WorkerDies(w)
  BY <1>1, <1>4, WorkerRests, LocalStep DEF WorkerDies
<1> QED BY <1>3, <1>4

\* What the worker read before is still bound after a step that keeps its copy.
LEMMA CopyBound ==
    ASSUME IInv, NEW w \in Workers, proc[w].pc # "rest", StoreStep,
           proc'[w].cand = proc[w].cand, proc'[w].item = proc[w].item
    PROVE  proc'[w].item.result # "none" => Bound(proc[w].cand, proc[w].item.result)'
<1> DEFINE r == proc[w]
<1>1. r \in ProcState /\ r.cand \in Candidates /\ WorkerOK(r) BY WorkerFacts
<1>2. r.item.result # "none" => r.item.result \in Verdicts BY <1>1 DEF ProcState, QueueItem
<1>3. r.item.result # "none" => Bound(r.cand, r.item.result) BY <1>1 DEF WorkerOK
<1>4. \A c \in Candidates, v \in Verdicts : Bound(c, v) => Bound(c, v)' BY DEF StoreStep
<1> QED BY <1>1, <1>2, <1>3, <1>4

\* A worker about to record a deferral or a failure never aims at a decision.
LEMMA WorkerTargets ==
    ASSUME IInv, NEW w \in Workers, proc[w].pc # "rest", StoreStep,
           NEW l \in {"settle", "handle"}, NEW n,
           \E t \in {"DEFERRED"} \cup FailureTargets(n) :
             Becomes(w, [proc[w] EXCEPT !.pc = l, !.target = t])
    PROVE  proc' = [proc EXCEPT ![w] = proc'[w]] /\ WorkerOK(proc[w])'
<1> DEFINE r == proc[w]
<1>1. proc \in [Procs -> ProcState] /\ w \in Procs /\ r \in ProcState /\ r.cand \in Candidates /\ WorkerOK(r)
  BY WorkerFacts
<1>2. PICK t \in {"DEFERRED"} \cup FailureTargets(n) :
        proc' = [proc EXCEPT ![w] = [r EXCEPT !.pc = l, !.target = t]]
  BY DEF Becomes
<1>3. t \in Claimable \cup Stopped BY DEF FailureTargets, Claimable, Stopped
<1>4. proc'[w] = [r EXCEPT !.pc = l, !.target = t] BY <1>1, <1>2
<1>5. proc'[w] \in ProcState
  <2>1. l \in WorkerLabels \cup KeeperLabels BY DEF WorkerLabels
  <2>2. t \in QueueState \cup {"NOT_FOUND"} BY <1>3 DEF QueueState
  <2>3. [r EXCEPT !.pc = l, !.target = t] \in ProcState BY <1>1, <2>1, <2>2, LocalUpdates
  <2> QED BY <1>4, <2>3
<1>6. /\ proc'[w].pc = l /\ proc'[w].target = t /\ proc'[w].cand = r.cand /\ proc'[w].item = r.item
      /\ proc'[w].ret = r.ret
  BY <1>1, <1>4 DEF ProcState
<1>7. proc'[w].item.result # "none" => Bound(proc[w].cand, proc[w].item.result)'
  BY <1>6, CopyBound
<1>8. WorkerOK(proc[w])'
  BY <1>1, <1>3, <1>5, <1>6, <1>7
     DEF WorkerOK, TransitionOK, WorkerLabels, CleanupLabels, Undecided
<1> QED BY <1>2, <1>4, <1>8

\* The exception handler keeps IInv.
LEMMA HandleFailureOK ==
    ASSUME IInv, NEW w \in Workers, UNCHANGED captureVars, HandleFailure(w)
    PROVE  Safe
<1>1. UNCHANGED <<queue, spool, emergency, expires, clock, journal, faults>> /\ proc[w].pc # "rest"
  BY DEF HandleFailure, At
<1>2. StoreStep BY <1>1, SameStores DEF captureVars
<1>3. faults' \in 0 .. MaxFaults BY <1>1, WorkerFacts
<1>4. CASE IsDecided(proc[w].cand)
  BY <1>1, <1>3, <1>4, WorkerRests, LocalStep DEF HandleFailure
<1>5. CASE ~IsDecided(proc[w].cand)
  <2>1. \E t \in {"DEFERRED"} \cup FailureTargets(proc[w].tries) :
          Becomes(w, [proc[w] EXCEPT !.pc = "handle", !.target = t])
    BY <1>5 DEF HandleFailure
  <2> QED BY <1>1, <1>2, <1>3, <2>1, WorkerTargets, LocalStep
<1> QED BY <1>4, <1>5

\* Inference keeps IInv.
LEMMA InferOK ==
    ASSUME IInv, NEW w \in Workers, UNCHANGED captureVars, Infer(w)
    PROVE  Safe
<1> DEFINE r == proc[w]
<1>1. UNCHANGED <<queue, spool, emergency, expires, clock, journal, faults>> /\ r.pc = "infer"
  BY DEF Infer, At
<1>2. StoreStep BY <1>1, SameStores DEF captureVars
<1>3. faults' \in 0 .. MaxFaults BY <1>1, WorkerFacts
<1>4. CASE \E v \in Verdicts : Becomes(w, [r EXCEPT !.pc = "save", !.verdict = v])
  <2>1. proc \in [Procs -> ProcState] /\ w \in Procs /\ r \in ProcState /\ r.cand \in Candidates /\ WorkerOK(r)
    BY <1>1, WorkerFacts
  <2>2. PICK v \in Verdicts : proc' = [proc EXCEPT ![w] = [r EXCEPT !.pc = "save", !.verdict = v]]
    BY <1>4 DEF Becomes
  <2>3. proc'[w] = [r EXCEPT !.pc = "save", !.verdict = v] BY <2>1, <2>2
  <2>4. proc'[w] \in ProcState
    <3>1. "save" \in WorkerLabels \cup KeeperLabels BY DEF WorkerLabels
    <3>2. [r EXCEPT !.pc = "save", !.verdict = v] \in ProcState BY <2>1, <3>1, LocalUpdates
    <3> QED BY <2>3, <3>2
  <2>5. /\ proc'[w].pc = "save" /\ proc'[w].verdict = v /\ proc'[w].cand = r.cand
        /\ proc'[w].item = r.item /\ proc'[w].ret = r.ret
    BY <2>1, <2>3 DEF ProcState
  <2>6. r.item.result = "none" /\ r.item.state \notin Decided /\ r.ret = "rest"
    BY <1>1, <2>1 DEF WorkerOK, Undecided
  <2>7. WorkerOK(proc[w])'
    BY <2>1, <2>4, <2>5, <2>6 DEF WorkerOK, TransitionOK, WorkerLabels, CleanupLabels, Undecided
  <2> QED BY <1>1, <1>3, <2>2, <2>3, <2>7, LocalStep
<1>5. CASE \E t \in {"DEFERRED"} \cup FailureTargets(r.item.attempts) :
            Becomes(w, [r EXCEPT !.pc = "settle", !.target = t])
  BY <1>1, <1>2, <1>3, <1>5, WorkerTargets, LocalStep
<1> QED BY <1>4, <1>5 DEF Infer

\* Reading the candidate and replaying an attached verdict keeps IInv.
LEMMA ReadCandidateOK ==
    ASSUME IInv, NEW w \in Workers, UNCHANGED captureVars, ReadCandidate(w)
    PROVE  Safe
<1> DEFINE r == proc[w]
<1>1. UNCHANGED <<queue, spool, emergency, expires, clock, journal, faults>> /\ r.pc = "read"
  BY DEF ReadCandidate, At
<1>2. StoreStep BY <1>1, SameStores DEF captureVars
<1>3. faults' \in 0 .. MaxFaults BY <1>1, WorkerFacts
<1>4. proc \in [Procs -> ProcState] /\ w \in Procs /\ r \in ProcState /\ r.cand \in Candidates /\ WorkerOK(r)
  BY <1>1, WorkerFacts
<1>5. r.item.state \notin Decided /\ r.ret = "rest" BY <1>1, <1>4 DEF WorkerOK, Undecided
<1>6. CASE Goto(w, "failed")
  BY <1>1, <1>2, <1>3, <1>6, WorkerFails, LocalStep
<1>7. CASE r.item.result = "none" /\ Goto(w, "infer")
  <2>1. proc' = [proc EXCEPT ![w] = [r EXCEPT !.pc = "infer"]] BY <1>7 DEF Goto, Becomes
  <2>2. proc'[w] = [r EXCEPT !.pc = "infer"] BY <1>4, <2>1
  <2>3. proc'[w] \in ProcState
    <3>1. "infer" \in WorkerLabels \cup KeeperLabels BY DEF WorkerLabels
    <3>2. [r EXCEPT !.pc = "infer"] \in ProcState BY <1>4, <3>1, LocalUpdates
    <3> QED BY <2>2, <3>2
  <2>4. proc'[w].pc = "infer" /\ proc'[w].cand = r.cand /\ proc'[w].item = r.item /\ proc'[w].ret = r.ret
    BY <1>4, <2>2 DEF ProcState
  <2>5. WorkerOK(proc[w])'
    BY <1>4, <1>5, <1>7, <2>3, <2>4 DEF WorkerOK, TransitionOK, WorkerLabels, CleanupLabels, Undecided
  <2> QED BY <1>1, <1>3, <2>1, <2>2, <2>5, LocalStep
<1>8. CASE r.item.result = "NO"
           /\ Becomes(w, [r EXCEPT !.pc = "mark", !.verdict = "NO", !.target = "NO_DISCARDED"])
  <2> DEFINE local == [r EXCEPT !.pc = "mark", !.verdict = "NO", !.target = "NO_DISCARDED"]
  <2>1. proc' = [proc EXCEPT ![w] = local] BY <1>8 DEF Becomes
  <2>2. proc'[w] = local BY <1>4, <2>1
  <2>3. proc'[w] \in ProcState
    <3>1. "mark" \in WorkerLabels \cup KeeperLabels BY DEF WorkerLabels
    <3>2. "NO" \in Verdicts \cup {"none"} /\ "NO_DISCARDED" \in QueueState \cup {"NOT_FOUND"}
      BY DEF Verdicts, QueueState, Decided
    <3>3. local \in ProcState BY <1>4, <3>1, <3>2, LocalUpdates
    <3> QED BY <2>2, <3>3
  <2>4. /\ proc'[w].pc = "mark" /\ proc'[w].cand = r.cand /\ proc'[w].item = r.item
        /\ proc'[w].ret = r.ret /\ proc'[w].target = "NO_DISCARDED"
    BY <1>4, <2>2 DEF ProcState
  <2>5. Bound(proc[w].cand, "NO")' /\ Bound(proc[w].cand, proc[w].item.result)'
    BY <1>1, <1>2, <1>8, <2>4, CopyBound
  <2>6. WorkerOK(proc[w])'
    BY <1>4, <1>5, <2>3, <2>4, <2>5
       DEF WorkerOK, TransitionOK, WorkerLabels, CleanupLabels, Undecided, Decided
  <2> QED BY <1>1, <1>3, <2>1, <2>2, <2>6, LocalStep
<1>9. CASE r.item.result \in YesVerdicts
           /\ Becomes(w, [r EXCEPT !.pc = "apply", !.verdict = r.item.result])
  <2> DEFINE local == [r EXCEPT !.pc = "apply", !.verdict = r.item.result]
  <2>1. proc' = [proc EXCEPT ![w] = local] BY <1>9 DEF Becomes
  <2>2. proc'[w] = local BY <1>4, <2>1
  <2>3. proc'[w] \in ProcState
    <3>1. "apply" \in WorkerLabels \cup KeeperLabels BY DEF WorkerLabels
    <3>2. r.item.result \in Verdicts \cup {"none"} BY <1>9 DEF Verdicts
    <3>3. local \in ProcState BY <1>4, <3>1, <3>2, LocalUpdates
    <3> QED BY <2>2, <3>3
  <2>4. /\ proc'[w].pc = "apply" /\ proc'[w].cand = r.cand /\ proc'[w].item = r.item
        /\ proc'[w].ret = r.ret /\ proc'[w].verdict = r.item.result
    BY <1>4, <2>2 DEF ProcState
  <2>5. r.item.result # "none" BY <1>9, VerdictAssumption
  <2>6. Bound(proc[w].cand, proc[w].item.result)' BY <1>1, <1>2, <2>4, <2>5, CopyBound
  <2>7. Bound(proc[w].cand, proc[w].verdict)' BY <2>4, <2>6
  <2>8. WorkerOK(proc[w])'
    BY <1>4, <1>5, <1>9, <2>3, <2>4, <2>6, <2>7
       DEF WorkerOK, TransitionOK, WorkerLabels, CleanupLabels, Undecided
  <2> QED BY <1>1, <1>3, <2>1, <2>2, <2>8, LocalStep
<1> QED BY <1>6, <1>7, <1>8, <1>9 DEF ReadCandidate

\* save_validated_result keeps IInv.
LEMMA SaveResultOK ==
    ASSUME IInv, NEW w \in Workers, UNCHANGED captureVars, SaveResult(w)
    PROVE  Safe
<1> DEFINE r == proc[w]
           saved == <<r.cand, r.verdict>>
<1>1. UNCHANGED <<queue, emergency, expires, clock, journal, faults>> /\ r.pc = "save"
  BY DEF SaveResult, At
<1>2. /\ proc \in [Procs -> ProcState] /\ w \in Procs /\ r \in ProcState /\ r.cand \in Candidates
      /\ WorkerOK(r) /\ StoresOK
  BY <1>1, WorkerFacts
<1>3. r.verdict \in Verdicts /\ r.item.result = "none" /\ r.item.state \notin Decided /\ r.ret = "rest"
  BY <1>1, <1>2 DEF WorkerOK, Undecided
<1>4. CASE saved \in spool /\ Goto(w, "failed") /\ UNCHANGED spool
  <2>1. StoreStep BY <1>1, <1>4, SameStores DEF captureVars
  <2>2. faults' \in 0 .. MaxFaults BY <1>1, WorkerFacts
  <2> QED BY <1>1, <1>4, <2>1, <2>2, WorkerFails, LocalStep
<1>5. CASE spool' = spool \cup {saved} /\ Goto(w, "attach")
  <2>1. proc' = [proc EXCEPT ![w] = [r EXCEPT !.pc = "attach"]] BY <1>5 DEF Goto, Becomes
  <2>2. proc'[w] = [r EXCEPT !.pc = "attach"] BY <1>2, <2>1
  <2>3. proc'[w] \in ProcState
    <3>1. "attach" \in WorkerLabels \cup KeeperLabels BY DEF WorkerLabels
    <3>2. [r EXCEPT !.pc = "attach"] \in ProcState BY <1>2, <3>1, LocalUpdates
    <3> QED BY <2>2, <3>2
  <2>4. /\ proc'[w].pc = "attach" /\ proc'[w].cand = r.cand /\ proc'[w].item = r.item
        /\ proc'[w].ret = r.ret /\ proc'[w].verdict = r.verdict
    BY <1>2, <2>2 DEF ProcState
  <2>5. WorkerOK(proc[w])'
    BY <1>2, <1>3, <2>3, <2>4 DEF WorkerOK, TransitionOK, WorkerLabels, CleanupLabels, Undecided
  <2>6. StoreStep /\ StoresOK'
    <3>1. spool' \subseteq Candidates \X (Verdicts \cup {"payload"})
      BY <1>2, <1>3, <1>5 DEF StoresOK, StoreTypeOK
    <3>2. SpoolStep BY <1>2, <1>3, <1>5 DEF SpoolStep
    <3>3. clock' \in Time /\ faults' \in 0 .. MaxFaults BY <1>1, <1>2 DEF StoresOK, StoreTypeOK
    <3> QED BY <1>1, <1>2, <3>1, <3>2, <3>3, SpoolChange
  <2> QED BY <2>1, <2>2, <2>5, <2>6, WorkerComposes DEF captureVars
<1> QED BY <1>4, <1>5 DEF SaveResult

\* attach_validated_result keeps IInv: the compared copy had no result, so none is replaced.
LEMMA AttachResultOK ==
    ASSUME IInv, NEW w \in Workers, UNCHANGED captureVars, AttachResult(w)
    PROVE  Safe
<1> DEFINE r == proc[w]
           c == r.cand
           new == [queue[c] EXCEPT !.result = r.verdict]
<1>1. UNCHANGED <<spool, emergency, expires, clock, journal, faults>> /\ r.pc = "attach"
  BY DEF AttachResult, At
<1>2. /\ proc \in [Procs -> ProcState] /\ w \in Procs /\ r \in ProcState /\ c \in Candidates
      /\ WorkerOK(r) /\ StoresOK /\ queue \in [Candidates -> QueueItem] /\ faults \in 0 .. MaxFaults
  BY <1>1, WorkerFacts
<1>3. r.verdict \in Verdicts /\ r.item.result = "none" /\ r.item.state \notin Decided /\ r.ret = "rest"
  BY <1>1, <1>2 DEF WorkerOK, Undecided
<1>4. CASE ~(queue[c] = r.item /\ queue[c].state = "IN_PROGRESS")
  <2>1. Goto(w, "failed") /\ UNCHANGED queue BY <1>4 DEF AttachResult
  <2>2. StoreStep BY <1>1, <2>1, SameStores DEF captureVars
  <2> QED BY <1>1, <1>2, <2>1, <2>2, WorkerFails, LocalStep
<1>5. CASE queue[c] = r.item /\ queue[c].state = "IN_PROGRESS"
  <2>1. queue' = [queue EXCEPT ![c] = new] BY <1>5 DEF AttachResult
  <2>2. new \in QueueItem BY <1>2, <1>3, ItemUpdates
  <2>3. /\ new.state = "IN_PROGRESS" /\ new.result = r.verdict
        /\ new.owner = queue[c].owner /\ new.lease = queue[c].lease
    BY <1>2, <1>5 DEF QueueItem
  <2>4. queue'[c] = new BY <1>2, <2>1
  <2>5. StoreStep /\ StoresOK'
    <3>1. Accounted(c) BY <1>2, <1>5 DEF StoresOK, BodyOK
    <3>2. \A v \in Verdicts : ~Bound(c, v)
      BY <1>3, <1>5, VerdictAssumption DEF Bound, Verdicts
    <3>3. ~IsDecided(c) BY <1>5 DEF IsDecided, Decided
    <3>4. new.state \in Leased BY <2>3 DEF Leased
    <3>5. queue[c].result = "none" BY <1>3, <1>5
    <3> HIDE DEF c, new
    <3> QED BY <1>1, <1>2, <2>1, <2>2, <2>3, <2>4, <3>1, <3>2, <3>3, <3>4, <3>5, QueueChange
  <2>6. CASE r.verdict = "NO"
    <3> DEFINE local == [r EXCEPT !.pc = "mark", !.item = new, !.target = "NO_DISCARDED"]
    <3>1. proc' = [proc EXCEPT ![w] = local] BY <1>5, <2>6 DEF AttachResult, Becomes
    <3>2. proc'[w] = local BY <1>2, <3>1
    <3>3. proc'[w] \in ProcState
      <4>1. "mark" \in WorkerLabels \cup KeeperLabels /\ "NO_DISCARDED" \in QueueState \cup {"NOT_FOUND"}
        BY DEF WorkerLabels, QueueState, Decided
      <4> HIDE DEF new
      <4>2. local \in ProcState BY <1>2, <2>2, <4>1, LocalUpdates
      <4> QED BY <3>2, <4>2
    <3>4. /\ proc'[w].pc = "mark" /\ proc'[w].cand = r.cand /\ proc'[w].item = new
          /\ proc'[w].ret = r.ret /\ proc'[w].target = "NO_DISCARDED"
      BY <1>2, <3>2 DEF ProcState
    <3>5. Bound(proc[w].cand, "NO")' /\ Bound(proc[w].cand, proc[w].item.result)'
      BY <2>3, <2>4, <2>6, <3>4 DEF Bound
    <3>6. WorkerOK(proc[w])'
      <4> HIDE DEF new
      <4> QED BY <1>2, <1>3, <2>3, <3>3, <3>4, <3>5
            DEF WorkerOK, TransitionOK, WorkerLabels, CleanupLabels, Undecided, Decided
    <3> QED BY <2>5, <3>1, <3>2, <3>6, WorkerComposes DEF captureVars
  <2>7. CASE r.verdict # "NO"
    <3> DEFINE local == [r EXCEPT !.pc = "curate", !.item = new]
    <3>1. proc' = [proc EXCEPT ![w] = local] BY <1>5, <2>7 DEF AttachResult, Becomes
    <3>2. proc'[w] = local BY <1>2, <3>1
    <3>3. proc'[w] \in ProcState
      <4>1. "curate" \in WorkerLabels \cup KeeperLabels BY DEF WorkerLabels
      <4> HIDE DEF new
      <4>2. local \in ProcState BY <1>2, <2>2, <4>1, LocalUpdates
      <4> QED BY <3>2, <4>2
    <3>4. /\ proc'[w].pc = "curate" /\ proc'[w].cand = r.cand /\ proc'[w].item = new
          /\ proc'[w].ret = r.ret /\ proc'[w].verdict = r.verdict /\ r.verdict \in YesVerdicts
      BY <1>2, <1>3, <2>7, <3>2 DEF ProcState, Verdicts
    <3>5. Bound(proc[w].cand, proc[w].verdict)' /\ Bound(proc[w].cand, proc[w].item.result)'
      BY <2>3, <2>4, <3>4 DEF Bound
    <3>6. WorkerOK(proc[w])'
      <4> HIDE DEF new
      <4> QED BY <1>2, <1>3, <2>3, <3>3, <3>4, <3>5
            DEF WorkerOK, TransitionOK, WorkerLabels, CleanupLabels, Undecided, Decided
    <3> QED BY <2>5, <3>1, <3>2, <3>6, WorkerComposes DEF captureVars
  <2> QED BY <2>6, <2>7
<1> QED BY <1>4, <1>5

\* An admitted transition to a state that is no decision leaves an undecided item.
LEMMA OpenTransition ==
    ASSUME StoresOK, NEW c \in Candidates, NEW target \in Claimable \cup Stopped \cup {"YES_CURATING"},
           NEW due \in Time \cup {NoTime}, NEW now \in Time,
           Allowed(queue[c].state, target) \/ queue[c].state = "QUARANTINED",
           queue' = [queue EXCEPT ![c] = Transitioned(queue[c], target, due, now)],
           UNCHANGED <<spool, emergency, expires, clock, journal, captureVars>>,
           faults' \in 0 .. MaxFaults
    PROVE  /\ StoreStep /\ StoresOK'
           /\ queue'[c] \in QueueItem /\ queue'[c].state = target /\ queue'[c].result = queue[c].result
<1> DEFINE new == Transitioned(queue[c], target, due, now)
<1>1. queue \in [Candidates -> QueueItem] BY DEF StoresOK, StoreTypeOK
<1>2. target \in QueueState \cup {"NOT_FOUND"} BY DEF QueueState, Leased
<1>3. /\ new \in QueueItem /\ new.state = target /\ new.result = queue[c].result
      /\ target \notin Leased => new.owner = "nobody" /\ new.lease = NoTime
  <2>1. queue[c] \in QueueItem BY <1>1
  <2>2. new \in QueueItem BY <1>2, <2>1, TransitionedType
  <2>3. new.state = target BY <1>2, <2>1, TransitionedType
  <2>4. new.result = queue[c].result BY <2>1 DEF Transitioned, QueueItem
  <2>5. target \notin Leased => new.owner = "nobody" /\ new.lease = NoTime
    BY <2>1 DEF Transitioned, QueueItem
  <2> QED BY <2>2, <2>3, <2>4, <2>5
<1>4. queue[c].state \notin Decided \cup {"NOT_FOUND"}
  BY DEF Allowed, Decided, Claimable, Stopped
<1>5. target \notin Decided \cup {"NOT_FOUND"} BY DEF Decided, Claimable, Stopped
<1> HIDE DEF new
<1>6. queue' = [queue EXCEPT ![c] = new] BY DEF new
<1>7. queue'[c] = new BY <1>1, <1>6
<1> QED BY <1>3, <1>4, <1>5, <1>6, <1>7, OpenChange

\* The transition to YES_CURATING keeps IInv.
LEMMA StartCuratingOK ==
    ASSUME IInv, NEW w \in Workers, UNCHANGED captureVars, StartCurating(w)
    PROVE  Safe
<1> DEFINE r == proc[w]
           c == r.cand
           new == Transitioned(queue[c], "YES_CURATING", NoTime, clock)
           local == [r EXCEPT !.pc = "apply", !.item = new]
<1>1. UNCHANGED <<spool, emergency, expires, clock, journal, faults>> /\ r.pc = "curate"
  BY DEF StartCurating, At
<1>2. /\ proc \in [Procs -> ProcState] /\ w \in Procs /\ r \in ProcState /\ c \in Candidates
      /\ WorkerOK(r) /\ StoresOK /\ queue \in [Candidates -> QueueItem] /\ faults \in 0 .. MaxFaults
      /\ clock \in Time
  BY <1>1, WorkerFacts
<1>3. r.verdict \in YesVerdicts /\ Bound(c, r.verdict) /\ r.ret = "rest"
  BY <1>1, <1>2 DEF WorkerOK
<1>4. CASE ~(Allowed(r.item.state, "YES_CURATING") /\ Allowed(queue[c].state, "YES_CURATING"))
  <2>1. Goto(w, "failed") /\ UNCHANGED queue BY <1>4 DEF StartCurating
  <2>2. StoreStep BY <1>1, <2>1, SameStores DEF captureVars
  <2> QED BY <1>1, <1>2, <2>1, <2>2, WorkerFails, LocalStep
<1>5. CASE Allowed(r.item.state, "YES_CURATING") /\ Allowed(queue[c].state, "YES_CURATING")
  <2>1. queue' = [queue EXCEPT ![c] = new] /\ proc' = [proc EXCEPT ![w] = local]
    BY <1>5 DEF StartCurating, Becomes
  <2> HIDE DEF c
  <2>2. /\ StoreStep /\ StoresOK'
        /\ queue'[c] \in QueueItem /\ queue'[c].state = "YES_CURATING" /\ queue'[c].result = queue[c].result
    BY <1>1, <1>2, <1>5, <2>1, OpenTransition
  <2>3. queue'[c] = new BY <1>2, <2>1
  <2>4. new \in QueueItem /\ new.state = "YES_CURATING" /\ new.result = queue[c].result BY <2>2, <2>3
  <2> HIDE DEF new
  <2>5. proc'[w] = local BY <1>2, <2>1
  <2>6. proc'[w] \in ProcState
    <3>1. "apply" \in WorkerLabels \cup KeeperLabels BY DEF WorkerLabels
    <3>2. local \in ProcState BY <1>2, <2>4, <3>1, LocalUpdates
    <3> QED BY <2>5, <3>2
  <2>7. /\ proc'[w].pc = "apply" /\ proc'[w].cand = c /\ proc'[w].item = new
        /\ proc'[w].ret = r.ret /\ proc'[w].verdict = r.verdict
    BY <1>2, <2>5 DEF ProcState, c
  <2>8. Bound(proc[w].cand, proc[w].item.result)'
    BY <2>3, <2>7 DEF Bound
  <2>9. Bound(proc[w].cand, proc[w].verdict)'
    <3>1. \A d \in Candidates, v \in Verdicts : Bound(d, v) => Bound(d, v)' BY <2>2 DEF StoreStep
    <3>2. r.verdict \in Verdicts BY <1>3 DEF Verdicts
    <3> QED BY <1>2, <1>3, <2>7, <3>1, <3>2
  <2>10. WorkerOK(proc[w])'
    BY <1>2, <1>3, <2>4, <2>6, <2>7, <2>8, <2>9
       DEF WorkerOK, TransitionOK, WorkerLabels, CleanupLabels, Undecided, Decided
  <2> QED BY <2>1, <2>2, <2>5, <2>10, WorkerComposes DEF captureVars
<1> QED BY <1>4, <1>5

\* apply_changeset keeps IInv: the verdict applied is the one bound to the candidate.
LEMMA ApplyChangesetOK ==
    ASSUME IInv, NEW w \in Workers, UNCHANGED captureVars, ApplyChangeset(w)
    PROVE  Safe
<1> DEFINE r == proc[w]
<1>1. UNCHANGED <<queue, spool, emergency, expires, clock>> /\ r.pc = "apply"
  BY DEF ApplyChangeset, At
<1>2. /\ proc \in [Procs -> ProcState] /\ w \in Procs /\ r \in ProcState /\ r.cand \in Candidates
      /\ WorkerOK(r) /\ StoresOK /\ faults \in 0 .. MaxFaults
  BY <1>1, WorkerFacts
<1>3. r.verdict \in YesVerdicts /\ Bound(r.cand, r.verdict) /\ r.ret = "rest" /\ r.item.state \notin Decided
  BY <1>1, <1>2 DEF WorkerOK, Undecided
<1>4. CASE Faulty /\ UNCHANGED journal
           /\ \E t \in {"DEFERRED"} \cup FailureTargets(r.item.attempts) :
                Becomes(w, [r EXCEPT !.pc = "settle", !.target = t])
  <2>1. StoreStep BY <1>1, <1>4, SameStores DEF captureVars
  <2>2. faults' \in 0 .. MaxFaults BY <1>2, <1>4, Faults
  <2> QED BY <1>1, <1>4, <2>1, <2>2, WorkerTargets, LocalStep
<1>5. CASE /\ journal' = journal \cup {<<r.cand, r.verdict>>} /\ UNCHANGED faults
           /\ Becomes(w, [r EXCEPT !.pc = "mark", !.target = "DONE"])
  <2> DEFINE local == [r EXCEPT !.pc = "mark", !.target = "DONE"]
  <2>1. proc' = [proc EXCEPT ![w] = local] BY <1>5 DEF Becomes
  <2>2. proc'[w] = local BY <1>2, <2>1
  <2>3. StoreStep /\ StoresOK' BY <1>1, <1>2, <1>3, <1>5, JournalChange
  <2>4. proc'[w] \in ProcState
    <3>1. "mark" \in WorkerLabels \cup KeeperLabels /\ "DONE" \in QueueState \cup {"NOT_FOUND"}
      BY DEF WorkerLabels, QueueState, Decided
    <3>2. local \in ProcState BY <1>2, <3>1, LocalUpdates
    <3> QED BY <2>2, <3>2
  <2>5. /\ proc'[w].pc = "mark" /\ proc'[w].cand = r.cand /\ proc'[w].item = r.item
        /\ proc'[w].ret = r.ret /\ proc'[w].target = "DONE" /\ proc'[w].verdict = r.verdict
    BY <1>2, <2>2 DEF ProcState
  <2>6. proc'[w].item.result # "none" => Bound(proc[w].cand, proc[w].item.result)'
    BY <1>1, <2>3, <2>5, CopyBound
  <2>7. <<proc'[w].cand, proc'[w].verdict>> \in journal' BY <1>5, <2>5
  <2>8. WorkerOK(proc[w])'
    BY <1>2, <1>3, <2>4, <2>5, <2>6, <2>7
       DEF WorkerOK, TransitionOK, WorkerLabels, CleanupLabels, Undecided, Decided
  <2> QED BY <2>1, <2>2, <2>3, <2>8, WorkerComposes DEF captureVars
<1> QED BY <1>4, <1>5 DEF ApplyChangeset

\* Recording a deferral or failure keeps IInv, even on an item another worker holds.
LEMMA SettleOK ==
    ASSUME IInv, NEW w \in Workers, UNCHANGED captureVars, Settle(w) \/ HandlerSettle(w)
    PROVE  Safe
<1> DEFINE r == proc[w]
           c == r.cand
           target == r.target
           due == RetryDue(w)
<1>1. UNCHANGED <<spool, emergency, expires, clock, journal, faults>> /\ r.pc \in {"settle", "handle"}
  BY DEF Settle, HandlerSettle, At
<1>2. /\ proc \in [Procs -> ProcState] /\ w \in Procs /\ r \in ProcState /\ c \in Candidates
      /\ WorkerOK(r) /\ StoresOK /\ queue \in [Candidates -> QueueItem] /\ faults \in 0 .. MaxFaults
      /\ clock \in Time
  BY <1>1, WorkerFacts
<1>3. target \in Claimable \cup Stopped BY <1>1, <1>2 DEF WorkerOK, TransitionOK
<1>4. CASE Allowed(r.item.state, target) /\ Allowed(queue[c].state, target)
  <2>1. Rest(w) /\ queue' = [queue EXCEPT ![c] = Transitioned(queue[c], target, due, r.moment)]
    BY <1>4 DEF Settle, HandlerSettle, SettleAs
  <2>2. r.moment \in Time BY <1>2 DEF ProcState
  <2>3. due \in Time \cup {NoTime} BY <2>2, AfterType, TimeAssumption DEF RetryDue
  <2> HIDE DEF c, target, due
  <2>4. StoreStep /\ StoresOK' BY <1>1, <1>2, <1>3, <1>4, <2>1, <2>2, <2>3, OpenTransition
  <2> QED BY <2>1, <2>4, WorkerRests, WorkerComposes DEF captureVars
<1>5. CASE ~(Allowed(r.item.state, target) /\ Allowed(queue[c].state, target))
  <2>1. UNCHANGED queue /\ (Rest(w) \/ Goto(w, "failed"))
    BY <1>5 DEF Settle, HandlerSettle, SettleAs
  <2>2. StoreStep BY <1>1, <2>1, SameStores DEF captureVars
  <2>3. CASE Rest(w) BY <1>1, <1>2, <2>1, <2>3, WorkerRests, LocalStep
  <2>4. CASE Goto(w, "failed") BY <1>1, <1>2, <2>1, <2>2, <2>4, WorkerFails, LocalStep
  <2> QED BY <2>1, <2>3, <2>4
<1> QED BY <1>4, <1>5

\* A decision that is justified is stored; a decision stored before stays.
LEMMA DecidedChange ==
    ASSUME StoresOK, NEW c \in Candidates, NEW target \in Decided,
           NEW due \in Time \cup {NoTime}, NEW now \in Time,
           Allowed(queue[c].state, target),
           \/ queue[c].state = target
           \/ target = "DONE" /\ \E v \in YesVerdicts : <<c, v>> \in journal
           \/ target = "NO_DISCARDED" /\ Bound(c, "NO"),
           queue' = [queue EXCEPT ![c] = Transitioned(queue[c], target, due, now)],
           UNCHANGED <<spool, emergency, expires, clock, faults, journal, captureVars>>
    PROVE  /\ StoreStep /\ StoresOK'
           /\ queue'[c] \in QueueItem /\ queue'[c].state = target
           /\ queue'[c] = Transitioned(queue[c], target, due, now)
<1> DEFINE new == Transitioned(queue[c], target, due, now)
<1>1. queue \in [Candidates -> QueueItem] BY DEF StoresOK, StoreTypeOK
<1>2. target \in QueueState \cup {"NOT_FOUND"} /\ target \notin Leased /\ target # "NOT_FOUND"
  BY DEF QueueState, Leased, Decided
<1>3. /\ new \in QueueItem /\ new.state = target /\ new.result = queue[c].result
      /\ new.owner = "nobody" /\ new.lease = NoTime
  <2>1. queue[c] \in QueueItem BY <1>1
  <2>2. new \in QueueItem BY <1>2, <2>1, TransitionedType
  <2>3. new.state = target /\ new.result = queue[c].result BY <2>1 DEF Transitioned, QueueItem
  <2>4. new.owner = "nobody" /\ new.lease = NoTime BY <1>2, <2>1 DEF Transitioned, QueueItem
  <2> QED BY <2>2, <2>3, <2>4
<1> HIDE DEF new
<1>4. queue' = [queue EXCEPT ![c] = new] BY DEF new
<1>5. queue'[c] = new BY <1>1, <1>4
<1>6. IsDecided(c) => queue[c].state = target
  BY DEF IsDecided, Allowed, Decided, Claimable, Stopped
<1>7. queue[c].state # "NOT_FOUND" BY <1>2 DEF Allowed, Stopped
<1>8. Accounted(c) BY <1>7 DEF StoresOK, BodyOK
<1>9. \A v \in Verdicts : Bound(c, v) => Bound(c, v)'
  BY <1>3, <1>5, <1>6 DEF Bound, IsDecided, Decided
<1>10. target = "DONE" => \E v \in YesVerdicts : <<c, v>> \in journal /\ queue[c].result \in {v, "none"}
  <2> HAVE target = "DONE"
  <2>1. CASE queue[c].state = target BY <2>1 DEF StoresOK, JournalOK
  <2>2. CASE queue[c].state # target
    <3>1. PICK v \in YesVerdicts : <<c, v>> \in journal BY <2>2
    <3>2. Bound(c, v) BY <3>1 DEF StoresOK, JournalOK
    <3>3. queue[c].result = v
      BY <2>2, <3>2, VerdictAssumption DEF Bound
    <3> QED BY <3>1, <3>3
  <2> QED BY <2>1, <2>2
<1>11. target = "NO_DISCARDED" => queue[c].result \in {"NO", "none"}
  BY DEF StoresOK, JournalOK, Bound
<1>12. faults' \in 0 .. MaxFaults BY DEF StoresOK, StoreTypeOK
<1>13. StoreStep /\ StoresOK'
  BY <1>2, <1>3, <1>4, <1>5, <1>6, <1>8, <1>9, <1>10, <1>11, <1>12, QueueChange
<1> QED BY <1>3, <1>5, <1>13 DEF new

\* References are cleared in a decided item only, which changes nothing anyone relies on.
LEMMA ClearChange ==
    ASSUME StoresOK, NEW c \in Candidates, queue[c].state \in Decided,
           queue' = [queue EXCEPT ![c] = queue'[c]], queue'[c] \in QueueItem,
           queue'[c].state = queue[c].state, queue'[c].owner = queue[c].owner,
           queue'[c].lease = queue[c].lease, queue'[c].result \in {queue[c].result, "none"},
           UNCHANGED <<spool, emergency, expires, clock, faults, journal, captureVars>>
    PROVE  StoreStep /\ StoresOK'
<1>1. queue[c].state \notin Leased /\ queue[c].state # "NOT_FOUND" BY DEF Decided, Leased
<1>2. queue[c].owner = "nobody" /\ queue[c].lease = NoTime BY <1>1 DEF StoresOK, StoreTypeOK
<1>3. Accounted(c) BY DEF Accounted, IsDecided
<1>4. queue[c].state = "DONE" =>
        \E v \in YesVerdicts : <<c, v>> \in journal /\ queue[c].result \in {v, "none"}
  BY DEF StoresOK, JournalOK
<1>5. queue[c].state = "NO_DISCARDED" => queue[c].result \in {"NO", "none"}
  BY DEF StoresOK, JournalOK
<1>6. \A v \in Verdicts : Bound(c, v) => Bound(c, v)'
  <2> TAKE v \in Verdicts
  <2> HAVE Bound(c, v)
  <2>1. v # "none" BY VerdictAssumption DEF Verdicts
  <2>2. CASE queue[c].state = "DONE"
    BY <1>4, <2>1, <2>2 DEF Bound
  <2>3. CASE queue[c].state = "NO_DISCARDED"
    BY <1>5, <2>1, <2>3 DEF Bound
  <2> QED BY <2>2, <2>3 DEF Decided
<1>7. queue'[c].state = "DONE" =>
        \E v \in YesVerdicts : <<c, v>> \in journal /\ queue'[c].result \in {v, "none"}
  BY <1>4
<1>8. queue'[c].state = "NO_DISCARDED" => queue'[c].result \in {"NO", "none"} BY <1>5
<1>9. faults' \in 0 .. MaxFaults BY DEF StoresOK, StoreTypeOK
<1>10. IsDecided(c) BY DEF IsDecided
<1> QED BY <1>1, <1>2, <1>3, <1>6, <1>7, <1>8, <1>9, <1>10, QueueChange

\* The steps of the cleanup, whoever runs it: the decision is stored, so the bodies may go.
LEMMA CleanupStores ==
    ASSUME StoresOK, proc \in [Procs -> ProcState], NEW p \in Procs, TransitionOK(proc[p]),
           Cleanup(p), UNCHANGED <<journal, captureVars>>
    PROVE  /\ StoreStep /\ StoresOK'
           /\ proc[p].pc # "rest" /\ proc[p].cand \in Candidates /\ proc[p].target \in Decided
           /\ queue'[proc[p].cand] \in QueueItem /\ queue'[proc[p].cand].state = proc[p].target
           /\ \/ \E l \in CleanupLabels : Goto(p, l)
              \/ \E a \in Time \cup {NoTime} : Proceed(p, queue'[proc[p].cand], a)
<1> DEFINE r == proc[p]
           c == r.cand
<1>1. r \in ProcState /\ queue \in [Candidates -> QueueItem] BY DEF StoresOK, StoreTypeOK
<1>2. r.pc \in CleanupLabels
  BY DEF Cleanup, DeletePayload, ClearPayload, DeleteResult, ClearResult, At, CleanupLabels
<1>3. r.pc # "rest" /\ c \in Candidates /\ r.target \in Decided /\ queue[c].state = r.target
  BY <1>2 DEF TransitionOK, CleanupLabels
<1>4. r.at \in Time \cup {NoTime} BY <1>1 DEF ProcState
<1>5. queue[c] \in QueueItem BY <1>1, <1>3
<1>6. clock \in Time /\ faults \in 0 .. MaxFaults
      /\ spool \subseteq Candidates \X (Verdicts \cup {"payload"})
  BY DEF StoresOK, StoreTypeOK
<1>7. ASSUME NEW x \in Verdicts \cup {"none", "payload"}, spool' = spool \ {<<c, x>>},
             UNCHANGED <<queue, emergency, expires, clock, faults>>
      PROVE  StoreStep /\ StoresOK'
  <2>1. SpoolStep BY <1>3, <1>7 DEF SpoolStep, IsDecided
  <2>2. spool' \subseteq Candidates \X (Verdicts \cup {"payload"}) BY <1>6, <1>7
  <2> QED BY <1>6, <1>7, <2>1, <2>2, SpoolChange
<1>8. CASE DeletePayload(p) \/ DeleteResult(p)
  <2>1. \E l \in CleanupLabels : Goto(p, l) BY <1>8 DEF DeletePayload, DeleteResult, CleanupLabels
  <2>2. UNCHANGED <<queue, emergency, expires, clock, faults>> BY <1>8 DEF DeletePayload, DeleteResult
  <2>3. \E x \in Verdicts \cup {"none", "payload"} : spool' = spool \ {<<c, x>>}
    <3>1. r.item.result \in Verdicts \cup {"none", "payload"} BY <1>1 DEF ProcState, QueueItem
    <3> QED BY <1>8, <3>1 DEF DeletePayload, DeleteResult
  <2>4. StoreStep /\ StoresOK' BY <1>7, <2>2, <2>3
  <2> QED BY <1>3, <1>5, <2>1, <2>2, <2>4
<1>9. After(r.at, CooldownTime) \in Time BY <1>4, TimeAssumption DEF After, Time, NoTime
<1>10. CASE ClearPayload(p)
  <2> DEFINE due == IF queue[c].result # "none" THEN After(r.at, CooldownTime) ELSE NoTime
             new == IF queue[c].payload
                    THEN [queue[c] EXCEPT !.payload = FALSE, !.eligible = due] ELSE queue[c]
  <2>1. queue' = [queue EXCEPT ![c] = new] /\ Proceed(p, new, r.at)
        /\ UNCHANGED <<spool, emergency, expires, clock, faults>>
    BY <1>10 DEF ClearPayload
  <2>2. due \in Time \cup {NoTime} BY <1>9
  <2> HIDE DEF due
  <2>3. new \in QueueItem BY <1>5, <2>2, ItemUpdates
  <2>4. /\ new.state = queue[c].state /\ new.result = queue[c].result
        /\ new.owner = queue[c].owner /\ new.lease = queue[c].lease
    BY <1>5 DEF QueueItem
  <2> HIDE DEF new, c
  <2>5. queue'[c] = new BY <1>1, <1>3, <2>1
  <2>6. StoreStep /\ StoresOK' BY <1>3, <2>1, <2>3, <2>4, <2>5, ClearChange
  <2>7. \E a \in Time \cup {NoTime} : Proceed(p, queue'[c], a) BY <1>4, <2>1, <2>5
  <2> QED BY <1>3, <2>3, <2>4, <2>5, <2>6, <2>7 DEF c
<1>11. CASE ClearResult(p)
  <2> DEFINE due == IF queue[c].payload THEN After(r.at, CooldownTime) ELSE NoTime
             new == IF queue[c].result = r.item.result
                    THEN [queue[c] EXCEPT !.result = "none", !.eligible = due] ELSE queue[c]
  <2>1. queue' = [queue EXCEPT ![c] = new] /\ Proceed(p, new, r.at)
        /\ UNCHANGED <<spool, emergency, expires, clock, faults>>
    BY <1>11 DEF ClearResult
  <2>2. due \in Time \cup {NoTime} BY <1>9
  <2> HIDE DEF due
  <2>3. new \in QueueItem BY <1>5, <2>2, ItemUpdates
  <2>4. /\ new.state = queue[c].state /\ new.result \in {queue[c].result, "none"}
        /\ new.owner = queue[c].owner /\ new.lease = queue[c].lease
    BY <1>5 DEF QueueItem
  <2> HIDE DEF new, c
  <2>5. queue'[c] = new BY <1>1, <1>3, <2>1
  <2>6. StoreStep /\ StoresOK' BY <1>3, <2>1, <2>3, <2>4, <2>5, ClearChange
  <2>7. \E a \in Time \cup {NoTime} : Proceed(p, queue'[c], a) BY <1>4, <2>1, <2>5
  <2> QED BY <1>3, <2>3, <2>4, <2>5, <2>6, <2>7 DEF c
<1> QED BY <1>8, <1>10, <1>11 DEF Cleanup

\* A worker goes on with the cleanup of the item it just stored, or rests.
LEMMA WorkerProceeds ==
    ASSUME IInv, NEW w \in Workers, proc[w].pc # "rest", proc[w].target \in Decided,
           queue'[proc[w].cand] \in QueueItem, queue'[proc[w].cand].state = proc[w].target,
           NEW a \in Time \cup {NoTime}, Proceed(w, queue'[proc[w].cand], a)
    PROVE  proc' = [proc EXCEPT ![w] = proc'[w]] /\ WorkerOK(proc[w])'
<1> DEFINE r == proc[w]
           c == r.cand
           item == queue'[c]
<1>1. proc \in [Procs -> ProcState] /\ w \in Procs /\ r \in ProcState /\ c \in Candidates /\ WorkerOK(r)
  BY WorkerFacts
<1>2. r.ret = "rest" BY <1>1 DEF WorkerOK
<1>3. CASE Rest(w) BY <1>3, WorkerRests
<1>4. ASSUME NEW l \in {"delete_payload", "delete_result"},
             Becomes(w, [r EXCEPT !.pc = l, !.item = item, !.at = a])
      PROVE  proc' = [proc EXCEPT ![w] = proc'[w]] /\ WorkerOK(proc[w])'
  <2> HIDE DEF item
  <2>1. proc' = [proc EXCEPT ![w] = [r EXCEPT !.pc = l, !.item = item, !.at = a]] BY <1>4 DEF Becomes
  <2>2. proc'[w] = [r EXCEPT !.pc = l, !.item = item, !.at = a] BY <1>1, <2>1
  <2>3. proc'[w] \in ProcState
    <3>1. l \in WorkerLabels \cup KeeperLabels BY DEF WorkerLabels, CleanupLabels
    <3>2. item \in QueueItem BY DEF item
    <3>3. [r EXCEPT !.pc = l, !.item = item, !.at = a] \in ProcState BY <1>1, <3>1, <3>2, LocalUpdates
    <3> QED BY <2>2, <3>3
  <2>4. /\ proc'[w].pc = l /\ proc'[w].cand = c /\ proc'[w].item = item
        /\ proc'[w].ret = r.ret /\ proc'[w].target = r.target
    BY <1>1, <2>2 DEF ProcState
  <2>5. Bound(proc[w].cand, proc[w].item.result)' BY <2>4 DEF Bound, item
  <2>6. queue'[proc'[w].cand].state = proc'[w].target BY <2>4
  <2>7. WorkerOK(proc[w])'
    BY <1>1, <1>2, <2>3, <2>4, <2>5, <2>6
       DEF WorkerOK, TransitionOK, WorkerLabels, CleanupLabels, Undecided
  <2> QED BY <2>1, <2>2, <2>7
<1>5. \/ Rest(w)
      \/ \E l \in {"delete_payload", "delete_result"} : Becomes(w, [r EXCEPT !.pc = l, !.item = item, !.at = a])
  BY <1>2 DEF Proceed
<1> QED BY <1>3, <1>4, <1>5

\* The cleanup steps of a worker keep IInv.
LEMMA CleanUpOK ==
    ASSUME IInv, NEW w \in Workers, UNCHANGED captureVars, CleanUp(w)
    PROVE  Safe
<1> DEFINE r == proc[w]
<1>1. proc \in [Procs -> ProcState] /\ w \in Procs /\ r \in ProcState /\ WorkerOK(r) /\ StoresOK
  BY WorkerFacts
<1>2. /\ StoreStep /\ StoresOK'
      /\ r.pc # "rest" /\ r.cand \in Candidates /\ r.target \in Decided
      /\ queue'[r.cand] \in QueueItem /\ queue'[r.cand].state = r.target
      /\ \/ \E l \in CleanupLabels : Goto(w, l)
         \/ \E a \in Time \cup {NoTime} : Proceed(w, queue'[r.cand], a)
  BY <1>1, CleanupStores DEF CleanUp, WorkerOK
<1>3. CASE \E a \in Time \cup {NoTime} : Proceed(w, queue'[r.cand], a)
  <2>1. proc' = [proc EXCEPT ![w] = proc'[w]] /\ WorkerOK(proc[w])' BY <1>2, <1>3, WorkerProceeds
  <2> QED BY <1>2, <2>1, WorkerComposes DEF captureVars
<1>4. CASE \E l \in CleanupLabels : Goto(w, l)
  <2>1. PICK l \in CleanupLabels : proc' = [proc EXCEPT ![w] = [r EXCEPT !.pc = l]]
    BY <1>4 DEF Goto, Becomes
  <2>2. proc'[w] = [r EXCEPT !.pc = l] BY <1>1, <2>1
  <2>3. proc'[w] \in ProcState
    <3>1. l \in WorkerLabels \cup KeeperLabels BY DEF WorkerLabels
    <3>2. [r EXCEPT !.pc = l] \in ProcState BY <1>1, <3>1, LocalUpdates
    <3> QED BY <2>2, <3>2
  <2>4. /\ proc'[w].pc = l /\ proc'[w].cand = r.cand /\ proc'[w].item = r.item
        /\ proc'[w].ret = r.ret /\ proc'[w].target = r.target
    BY <1>1, <2>2 DEF ProcState
  <2>5. proc'[w].item.result # "none" => Bound(proc[w].cand, proc[w].item.result)'
    BY <1>2, <2>4, CopyBound
  <2>6. queue'[proc'[w].cand].state = proc'[w].target BY <1>2, <2>4
  <2>7. WorkerOK(proc[w])'
    BY <1>1, <1>2, <2>3, <2>4, <2>5, <2>6
       DEF WorkerOK, TransitionOK, WorkerLabels, CleanupLabels, Undecided
  <2> QED BY <1>2, <2>1, <2>2, <2>7, WorkerComposes DEF captureVars
<1> QED BY <1>2, <1>3, <1>4

\* The terminal transition of a worker keeps IInv.
LEMMA MarkOutcomeOK ==
    ASSUME IInv, NEW w \in Workers, UNCHANGED captureVars, MarkOutcome(w)
    PROVE  Safe
<1> DEFINE r == proc[w]
           c == r.cand
           target == r.target
           retry == r.item.state \in Decided
           due == IF retry THEN After(r.moment, CooldownTime) ELSE NoTime
           now == IF r.verdict = "NO" THEN clock ELSE r.moment
           new == Transitioned(queue[c], target, due, now)
<1>1. UNCHANGED <<spool, emergency, expires, clock, journal, faults>> /\ r.pc = "mark"
  BY DEF MarkOutcome, MarkDecided, At
<1>2. /\ proc \in [Procs -> ProcState] /\ w \in Procs /\ r \in ProcState /\ c \in Candidates
      /\ WorkerOK(r) /\ StoresOK /\ queue \in [Candidates -> QueueItem] /\ faults \in 0 .. MaxFaults
      /\ clock \in Time
  BY <1>1, WorkerFacts
<1>3. target \in Decided BY <1>1, <1>2 DEF WorkerOK, TransitionOK
<1>4. CASE Allowed(r.item.state, target) /\ Allowed(queue[c].state, target)
  <2>1. queue' = [queue EXCEPT ![c] = new] /\ Proceed(w, new, now)
    BY <1>4 DEF MarkOutcome, MarkDecided
  <2>2. r.moment \in Time BY <1>2 DEF ProcState
  <2>3. due \in Time \cup {NoTime} /\ now \in Time BY <1>2, <2>2, AfterType, TimeAssumption
  <2>4. \/ queue[c].state = target
        \/ target = "DONE" /\ \E v \in YesVerdicts : <<c, v>> \in journal
        \/ target = "NO_DISCARDED" /\ Bound(c, "NO")
    BY <1>1, <1>2 DEF WorkerOK, TransitionOK
  <2> HIDE DEF c, target, due, now
  <2>5. /\ StoreStep /\ StoresOK' /\ queue'[c] \in QueueItem /\ queue'[c].state = target
        /\ queue'[c] = new
    BY <1>1, <1>2, <1>3, <1>4, <2>1, <2>3, <2>4, DecidedChange
  <2>6. proc' = [proc EXCEPT ![w] = proc'[w]] /\ WorkerOK(proc[w])'
    <3>1. Proceed(w, queue'[r.cand], now) BY <2>1, <2>5 DEF c
    <3>2. now \in Time \cup {NoTime} BY <2>3
    <3> QED BY <1>1, <1>3, <2>5, <3>1, <3>2, WorkerProceeds DEF c, target
  <2> QED BY <2>5, <2>6, WorkerComposes DEF captureVars
<1>5. CASE ~(Allowed(r.item.state, target) /\ Allowed(queue[c].state, target))
  <2>1. UNCHANGED queue /\ (Rest(w) \/ Goto(w, "failed"))
    BY <1>5 DEF MarkOutcome, MarkDecided
  <2>2. StoreStep BY <1>1, <2>1, SameStores DEF captureVars
  <2>3. CASE Rest(w) BY <1>1, <1>2, <2>1, <2>3, WorkerRests, LocalStep
  <2>4. CASE Goto(w, "failed") BY <1>1, <1>2, <2>1, <2>2, <2>4, WorkerFails, LocalStep
  <2> QED BY <2>1, <2>3, <2>4
<1> QED BY <1>4, <1>5

-----------------------------------------------------------------------------
(* The steps of the keeper.                                                *)

\* What IInv says of the keeper, unpacked.
LEMMA KeeperFacts ==
    ASSUME IInv
    PROVE  /\ StoresOK /\ KeeperOK(proc[Keeper]) /\ proc[Keeper] \in ProcState /\ Keeper \in Procs
           /\ proc \in [Procs -> ProcState] /\ queue \in [Candidates -> QueueItem]
           /\ clock \in Time /\ faults \in 0 .. MaxFaults
           /\ spool \subseteq Candidates \X (Verdicts \cup {"payload"})
           /\ intent \in [Candidates -> Intent] /\ receipt \in [Captures -> Receipt]
           /\ expires \in [Candidates -> Time] /\ accepts \in [Candidates -> 0 .. MaxAccepts]
           /\ proc[Keeper].pc # "rest" => Candidate \in Candidates
BY DEF IInv, StoresOK, StoreTypeOK, KeeperOK, TransitionOK, Procs, Candidate

\* The updates of an intent keep it an intent.
LEMMA IntentUpdates ==
    ASSUME NEW i \in Intent
    PROVE  /\ \A p \in {"NONE", "PREPARED", "COMMITTED", "EXPIRED"} : [i EXCEPT !.phase = p] \in Intent
           /\ \A b \in BOOLEAN : [i EXCEPT !.queued = b] \in Intent
           /\ \A f \in {"NONE", "FAILED", "CONFIRMED"} : [i EXCEPT !.cleanup = f] \in Intent
<1>1. \A p \in {"NONE", "PREPARED", "COMMITTED", "EXPIRED"} : [i EXCEPT !.phase = p] \in Intent
  BY Zenon DEF Intent
<1>2. \A b \in BOOLEAN : [i EXCEPT !.queued = b] \in Intent
  BY Zenon DEF Intent
<1>3. \A f \in {"NONE", "FAILED", "CONFIRMED"} : [i EXCEPT !.cleanup = f] \in Intent
  BY Zenon DEF Intent
<1> QED BY Zenon, <1>1, <1>2, <1>3

\* The keeper comes to rest.
LEMMA KeeperRests ==
    ASSUME IInv, keeperRest
    PROVE  proc' = [proc EXCEPT ![Keeper] = proc'[Keeper]] /\ KeeperOK(proc[Keeper])'
<1>1. proc' = [proc EXCEPT ![Keeper] = RestState(0)] BY DEF keeperRest, Becomes
<1>2. proc \in [Procs -> ProcState] /\ Keeper \in Procs BY KeeperFacts
<1>3. 0 \in Time BY TimeAssumption DEF Time
<1>4. proc'[Keeper] = RestState(0) BY <1>1, <1>2
<1> QED BY <1>1, <1>3, <1>4, RestOK

\* The keeper goes to a label, with everything the label requires.
LEMMA KeeperGoes ==
    ASSUME IInv, proc[Keeper].pc # "rest",
           NEW l \in KeeperLabels \ (CleanupLabels \cup {"rest", "mark"}), Goto(Keeper, l),
           l \in {"enqueue", "secure", "commit"} => Accounted(proc[Keeper].cand)',
           l \in {"secure", "commit"} => queue'[proc[Keeper].cand].state # "NOT_FOUND",
           l # "write",
           l \in LossLabels => Lost(proc[Keeper].cand)',
           l = "commit" => Lost(proc[Keeper].cand)' \/ Secured(proc[Keeper].cand)'
    PROVE  proc' = [proc EXCEPT ![Keeper] = proc'[Keeper]] /\ KeeperOK(proc[Keeper])'
<1> DEFINE r == proc[Keeper]
<1>1. proc' = [proc EXCEPT ![Keeper] = [r EXCEPT !.pc = l]] BY DEF Goto, Becomes
<1>2. proc \in [Procs -> ProcState] /\ Keeper \in Procs /\ r \in ProcState /\ r.cand \in Candidates
  BY KeeperFacts DEF Candidate
<1>3. proc'[Keeper] = [r EXCEPT !.pc = l] BY <1>1, <1>2
<1>4. proc'[Keeper] \in ProcState
  <2>1. [r EXCEPT !.pc = l] \in ProcState BY <1>2, LocalUpdates
  <2> QED BY <1>3, <2>1
<1>5. proc'[Keeper].pc = l /\ proc'[Keeper].cand = r.cand BY <1>2, <1>3 DEF ProcState
<1>6. l # "settle" /\ l # "handle" BY DEF KeeperLabels, LossLabels, CleanupLabels
<1>7. TransitionOK(proc[Keeper])' BY <1>2, <1>5, <1>6 DEF TransitionOK
<1>8. KeeperOK(proc[Keeper])' BY <1>4, <1>5, <1>7 DEF KeeperOK
<1> QED BY <1>1, <1>3, <1>8

\* The intents may change as long as they do not run ahead of the ledger.
LEMMA IntentChange ==
    ASSUME StoresOK, UNCHANGED <<queue, spool, emergency, clock, faults, journal, receipt>>,
           intent' \in [Candidates -> Intent], expires' \in [Candidates -> Time],
           accepts' \in [Candidates -> 0 .. MaxAccepts], LedgerBeforeIntent'
    PROVE  StoreStep /\ StoresOK'
<1>1. \A d \in Candidates : /\ Lost(d)' = Lost(d) /\ Secured(d)' = Secured(d)
                            /\ IsDecided(d)' = IsDecided(d) /\ Accounted(d)' = Accounted(d)
  BY DEF Lost, Secured, IsDecided, Accounted, Body
<1>2. \A d \in Candidates, v \in Verdicts : Bound(d, v)' = Bound(d, v) BY DEF Bound
<1>3. StoreStep BY SameStores
<1>4. StoreTypeOK' BY DEF StoresOK, StoreTypeOK
<1>5. BodyOK' BY <1>1 DEF StoresOK, BodyOK
<1>6. JournalOK' BY <1>2 DEF StoresOK, JournalOK, Verdicts
<1> QED BY <1>3, <1>4, <1>5, <1>6 DEF StoresOK

\* A receipt gathers candidates that have queue items, until it records the loss.
LEMMA ReceiptChange ==
    ASSUME StoresOK, UNCHANGED <<queue, spool, emergency, expires, clock, faults, journal, intent, accepts>>,
           NEW k \in Captures, receipt' = [receipt EXCEPT ![k] = receipt'[k]], receipt'[k] \in Receipt,
           receipt'[k].state # "WAITING", receipt[k].state = "EXPIRED" => receipt'[k].state = "EXPIRED",
           receipt[k].candidates \subseteq receipt'[k].candidates,
           receipt'[k].state = "SECURED" =>
             \E c \in Candidates : /\ CaptureOf[c] = k /\ Accounted(c) /\ ~Lost(c)
                                   /\ receipt'[k].candidates = receipt[k].candidates \cup {c},
           receipt'[k].state = "SECURED" =>
             \A c \in Candidates : CaptureOf[c] = k /\ c \in receipt'[k].candidates =>
                                    queue[c].state # "NOT_FOUND"
    PROVE  StoreStep /\ StoresOK'
<1>1. receipt \in [Captures -> Receipt] BY DEF StoresOK, StoreTypeOK
<1>2. \A j \in Captures : j # k => receipt'[j] = receipt[j] BY <1>1
<1>3. \A d \in Candidates : CaptureOf[d] \in Captures BY CaptureAssumption
<1>4. \A d \in Candidates : Lost(d) => Lost(d)' BY <1>2, <1>3 DEF Lost
<1>5. \A d \in Candidates : Secured(d) => Lost(d)' \/ Secured(d)'
  <2> TAKE d \in Candidates
  <2> HAVE Secured(d)
  <2>1. CASE CaptureOf[d] = k
    <3>1. receipt'[k].state \in {"SECURED", "EXPIRED"} BY DEF Receipt
    <3> QED BY <2>1, <3>1 DEF Secured, Lost
  <2>2. CASE CaptureOf[d] # k BY <2>2, <1>2, <1>3 DEF Secured
  <2> QED BY <2>1, <2>2
<1>6. \A d \in Candidates : Secured(d)' => queue[d].state # "NOT_FOUND"
  <2> TAKE d \in Candidates
  <2> HAVE Secured(d)'
  <2>1. CASE CaptureOf[d] = k BY <2>1 DEF Secured
  <2>2. CASE CaptureOf[d] # k
    <3>1. Secured(d) BY <2>2, <1>2, <1>3 DEF Secured
    <3> QED BY <3>1 DEF StoresOK, BodyOK
  <2> QED BY <2>1, <2>2
<1>7. \A d \in Candidates : IsDecided(d)' = IsDecided(d) BY DEF IsDecided
<1>8. \A d \in Candidates : Accounted(d) => Accounted(d)'
  BY <1>4, <1>7 DEF Accounted, Body
<1>9. \A d \in Candidates, v \in Verdicts : Bound(d, v)' = Bound(d, v) BY DEF Bound
<1>10. StoreStep
  <2>1. Held' = Held /\ journal' = journal /\ Outcome' = Outcome
    BY <1>7 DEF Held, Outcome, Body
  <2>2. CustodyStep
    <3>1. CASE receipt'[k].state = "EXPIRED"
      <4> DEFINE K == {d \in Candidates : CaptureOf[d] = k}
      <4>1. Evidence' = [d \in Candidates |-> IF d \in K THEN "lost" ELSE Evidence[d]]
        BY <1>2, <1>3, <3>1 DEF Evidence, Lost, Secured
      <4>2. C!Lose(K) BY <2>1, <4>1 DEF C!Lose
      <4> QED BY <4>2 DEF CustodyStep, C!CNext
    <3>2. CASE receipt'[k].state = "SECURED"
      <4>1. PICK c \in Candidates : /\ CaptureOf[c] = k /\ Accounted(c) /\ ~Lost(c)
                                    /\ receipt'[k].candidates = receipt[k].candidates \cup {c}
        BY <3>2
      <4>2. receipt[k].state = "WAITING" => receipt[k].candidates = {} BY DEF StoresOK, BodyOK
      <4>3. receipt[k].state \in {"WAITING", "SECURED"} BY <1>1, <3>2 DEF Receipt
      <4>4. Evidence' = [Evidence EXCEPT ![c] = "secured"]
        BY <1>2, <1>3, <3>2, <4>1, <4>2, <4>3 DEF Evidence, Lost, Secured
      <4>5. Evidence[c] # "lost" BY <4>1 DEF Evidence
      <4>6. c \in Held \/ Outcome[c] # "none" BY <4>1 DEF Held, Outcome, Accounted, IsDecided, Decided
      <4>7. C!Secure(c) BY <2>1, <4>4, <4>5, <4>6 DEF C!Secure
      <4> QED BY <4>7 DEF CustodyStep, C!CNext
    <3> QED BY <3>1, <3>2 DEF Receipt
  <2> QED BY <1>4, <1>8, <1>9, <2>2 DEF StoreStep
<1>11. receipt' \in [Captures -> Receipt] BY <1>1
<1>12. StoreTypeOK' BY <1>11 DEF StoresOK, StoreTypeOK
<1>13. BodyOK' BY <1>2, <1>6, <1>8 DEF StoresOK, BodyOK
<1>14. LedgerBeforeIntent' BY <1>4, <1>5 DEF StoresOK, LedgerBeforeIntent
<1>15. JournalOK' BY <1>9 DEF StoresOK, JournalOK, Verdicts
<1> QED BY <1>10, <1>12, <1>13, <1>14, <1>15 DEF StoresOK

\* A keeper that starts an operation.
LEMMA KeeperStarts ==
    ASSUME IInv, NEW c \in Candidates, NEW now \in Time,
           NEW l \in {"write", "authenticate", "lose"}, Start(c, now, l), l = "write" => ~Lost(c)'
    PROVE  proc' = [proc EXCEPT ![Keeper] = proc'[Keeper]] /\ KeeperOK(proc[Keeper])'
<1> DEFINE local == [RestState(now) EXCEPT !.pc = l, !.cand = c]
<1>1. proc' = [proc EXCEPT ![Keeper] = local] BY DEF Start, Becomes
<1>2. proc \in [Procs -> ProcState] /\ Keeper \in Procs BY KeeperFacts
<1>3. proc'[Keeper] = local BY <1>1, <1>2
<1>4. local \in ProcState
  <2>1. RestState(now) \in ProcState BY StatesType
  <2>2. l \in WorkerLabels \cup KeeperLabels BY DEF KeeperLabels
  <2> QED BY <2>1, <2>2, LocalUpdates
<1>5. proc'[Keeper].pc = l /\ proc'[Keeper].cand = c BY <1>3 DEF RestState
<1>6. TransitionOK(proc[Keeper])' BY <1>5 DEF TransitionOK, CleanupLabels
<1>7. KeeperOK(proc[Keeper])'
  BY <1>3, <1>4, <1>5, <1>6 DEF KeeperOK, KeeperLabels, LossLabels
<1> QED BY <1>1, <1>3, <1>7

\* A keeper that finds the item decided.
LEMMA KeeperRecovers ==
    ASSUME IInv, NEW c \in Candidates, NEW now \in Time, IsDecided(c), RecoverTerminal(c, now),
           UNCHANGED queue
    PROVE  proc' = [proc EXCEPT ![Keeper] = proc'[Keeper]] /\ KeeperOK(proc[Keeper])'
<1> DEFINE l == IF HasRefs(queue[c]) THEN "mark" ELSE "secure"
           local == [RestState(now) EXCEPT !.pc = l, !.cand = c, !.item = queue[c],
                                           !.target = queue[c].state, !.ret = "secure"]
<1>1. proc' = [proc EXCEPT ![Keeper] = local] BY DEF RecoverTerminal, Becomes
<1>2. proc \in [Procs -> ProcState] /\ Keeper \in Procs /\ queue[c] \in QueueItem BY KeeperFacts
<1>3. proc'[Keeper] = local BY <1>1, <1>2
<1>4. l \in {"mark", "secure"} OBVIOUS
<1> HIDE DEF l
<1>5. local \in ProcState
  <2>1. RestState(now) \in ProcState BY StatesType
  <2>2. l \in WorkerLabels \cup KeeperLabels BY <1>4 DEF KeeperLabels
  <2>3. queue[c].state \in QueueState \cup {"NOT_FOUND"} BY <1>2 DEF QueueItem
  <2> QED BY <1>2, <2>1, <2>2, <2>3, LocalUpdates
<1>6. /\ proc'[Keeper].pc = l /\ proc'[Keeper].cand = c /\ proc'[Keeper].target = queue[c].state
      /\ proc'[Keeper].item = queue[c]
  BY <1>3 DEF RestState
<1>7. queue[c].state \in Decided /\ queue[c].state # "NOT_FOUND" BY DEF IsDecided, Decided
<1>8. TransitionOK(proc[Keeper])' BY <1>4, <1>6, <1>7 DEF TransitionOK, CleanupLabels
<1>9. Accounted(proc[Keeper].cand)' BY <1>6, <1>7 DEF Accounted, IsDecided
<1>10. KeeperOK(proc[Keeper])'
  BY <1>3, <1>4, <1>5, <1>6, <1>7, <1>8, <1>9 DEF KeeperOK, KeeperLabels, LossLabels
<1> QED BY <1>1, <1>3, <1>10

\* The beginning of reconcile_pending keeps IInv.
LEMMA ReconcileOK ==
    ASSUME IInv, NEW c \in Candidates, NEW now \in Now, Reconcile(c, now), UNCHANGED journal
    PROVE  Safe
<1>1. UNCHANGED <<queue, spool, emergency, expires, clock, faults, journal, captureVars>> BY DEF Reconcile
<1>2. now \in Time BY DEF Now
<1>3. StoreStep /\ StoresOK'
  <2>1. SpoolStep BY <1>1 DEF SpoolStep
  <2> QED BY <1>1, <2>1, KeeperFacts, SpoolChange
<1>4. proc' = [proc EXCEPT ![Keeper] = proc'[Keeper]] /\ KeeperOK(proc[Keeper])'
  <2>1. CASE TerminalRecorded(c)
    BY <1>1, <1>2, <2>1, KeeperRecovers DEF Reconcile, TerminalRecorded
  <2>2. CASE ~TerminalRecorded(c)
    <3>1. Start(c, now, "lose") \/ Start(c, now, "authenticate") BY <2>2 DEF Reconcile
    <3> QED BY <1>2, <3>1, KeeperStarts
  <2> QED BY <2>1, <2>2
<1> QED BY <1>3, <1>4, KeeperComposes

\* The beginning of accept_candidate keeps IInv.
LEMMA AcceptOK ==
    ASSUME IInv, NEW c \in Candidates, NEW now \in Now, Accept(c, now), UNCHANGED journal
    PROVE  Safe
<1>1. UNCHANGED <<queue, spool, emergency, clock, faults, journal, receipt>> BY DEF Accept
<1>2. now \in Time BY DEF Now
<1>3. ~Lost(c)' BY <1>1 DEF Accept, Lost
<1>4. accepts' \in [Candidates -> 0 .. MaxAccepts]
  <2>1. accepts[c] + 1 \in 0 .. MaxAccepts
    BY KeeperFacts, CaptureAssumption DEF Accept
  <2> QED BY <2>1, KeeperFacts DEF Accept
<1>5. CASE intent[c] = NoIntent
  <2>1. intent' = [intent EXCEPT ![c].phase = "PREPARED"] /\ expires' = [expires EXCEPT ![c] = now + TTL]
        /\ now + TTL <= Horizon /\ Start(c, now, "write")
    BY <1>5 DEF Accept
  <2>2. expires' \in [Candidates -> Time]
    <3>1. now + TTL \in Time BY <1>2, <2>1, TimeAssumption, CaptureAssumption DEF Time
    <3> QED BY <2>1, <3>1, KeeperFacts
  <2>3. [intent[c] EXCEPT !.phase = "PREPARED"] \in Intent
    <3>1. intent[c] \in Intent BY KeeperFacts
    <3> QED BY <3>1, IntentUpdates
  <2>4. intent' \in [Candidates -> Intent] BY <2>1, <2>3, KeeperFacts
  <2>5. LedgerBeforeIntent'
    <3>1. \A d \in Candidates : d # c => intent'[d] = intent[d] BY <2>1, KeeperFacts
    <3>2. intent'[c].phase = "PREPARED" BY <1>5, <2>1, KeeperFacts DEF NoIntent
    <3>3. \A d \in Candidates : Lost(d)' = Lost(d) /\ Secured(d)' = Secured(d)
      BY <1>1 DEF Lost, Secured
    <3>4. LedgerBeforeIntent BY KeeperFacts DEF StoresOK
    <3> QED BY <1>1, <3>1, <3>2, <3>3, <3>4 DEF LedgerBeforeIntent
  <2>6. StoreStep /\ StoresOK' BY <1>1, <1>4, <2>2, <2>4, <2>5, KeeperFacts, IntentChange
  <2> QED BY <1>2, <1>3, <2>1, <2>6, KeeperStarts, KeeperComposes
<1>6. CASE intent[c] # NoIntent
  <2>1. UNCHANGED <<intent, expires>> BY <1>6 DEF Accept
  <2>2. LedgerBeforeIntent'
    <3>1. LedgerBeforeIntent BY KeeperFacts DEF StoresOK
    <3> QED BY <1>1, <2>1, <3>1 DEF LedgerBeforeIntent, Lost, Secured
  <2>3. StoreStep /\ StoresOK' BY <1>1, <1>4, <2>1, <2>2, KeeperFacts, IntentChange
  <2>4. proc' = [proc EXCEPT ![Keeper] = proc'[Keeper]] /\ KeeperOK(proc[Keeper])'
    <3>1. CASE TerminalRecorded(c)
      BY <1>1, <1>2, <1>6, <3>1, KeeperRecovers DEF Accept, TerminalRecorded
    <3>2. CASE ~TerminalRecorded(c)
      <4>1. Start(c, now, "lose") \/ Start(c, now, "write") BY <1>6, <3>2 DEF Accept
      <4> QED BY <1>2, <1>3, <4>1, KeeperStarts
    <3> QED BY <3>1, <3>2
  <2> QED BY <2>3, <2>4, KeeperComposes
<1> QED BY <1>5, <1>6

\* An intent changes in a field other than its phase, or gets a phase the ledger backs.
LEMMA IntentStep ==
    ASSUME StoresOK, UNCHANGED <<queue, spool, emergency, expires, clock, faults, journal, receipt, accepts>>,
           NEW c \in Candidates, intent' = [intent EXCEPT ![c] = intent'[c]], intent'[c] \in Intent,
           \/ intent'[c].phase = intent[c].phase
           \/ intent'[c].phase = "COMMITTED" /\ (Lost(c) \/ (Secured(c) /\ queue[c].state # "NOT_FOUND"))
           \/ intent'[c].phase = "EXPIRED" /\ Lost(c)
    PROVE  StoreStep /\ StoresOK'
<1>1. /\ intent \in [Candidates -> Intent] /\ expires \in [Candidates -> Time]
      /\ accepts \in [Candidates -> 0 .. MaxAccepts] /\ LedgerBeforeIntent
  BY DEF StoresOK, StoreTypeOK
<1>2. intent' \in [Candidates -> Intent] BY <1>1
<1>3. \A d \in Candidates : d # c => intent'[d] = intent[d] BY <1>1
<1>4. \A d \in Candidates : Lost(d)' = Lost(d) /\ Secured(d)' = Secured(d) BY DEF Lost, Secured
<1>5. LedgerBeforeIntent' BY <1>1, <1>3, <1>4 DEF LedgerBeforeIntent
<1> QED BY <1>1, <1>2, <1>5, IntentChange

\* The steps that only write the intent file keep IInv.
LEMMA IntentFieldsOK ==
    ASSUME IInv, UNCHANGED journal, Authenticate \/ Commit \/ ExpireIntent \/ RecordCleanup
    PROVE  Safe
<1> DEFINE r == proc[Keeper]
           c == Candidate
<1>1. UNCHANGED <<queue, spool, emergency, expires, clock, faults, journal, receipt, accepts>>
      /\ r.pc # "rest"
  BY DEF Authenticate, Commit, ExpireIntent, RecordCleanup, Keeps, At
<1>2. /\ StoresOK /\ KeeperOK(r) /\ r \in ProcState /\ c \in Candidates
      /\ intent \in [Candidates -> Intent]
  BY <1>1, KeeperFacts
<1>3. intent[c] \in Intent /\ r.cand = c BY <1>2 DEF Candidate
<1>4. \A d \in Candidates : Lost(d)' = Lost(d) BY <1>1 DEF Lost
<1>5. CASE UNCHANGED intent /\ keeperRest
  <2>1. intent' = [intent EXCEPT ![c] = intent'[c]] BY <1>2, <1>5
  <2> HIDE DEF c
  <2>2. StoreStep /\ StoresOK' BY <1>1, <1>2, <1>3, <1>5, <2>1, IntentStep
  <2> QED BY <1>5, <2>2, KeeperRests, KeeperComposes
<1>6. CASE Keeps("authenticate") /\ Body(c) \in spool /\ Goto(Keeper, "enqueue")
           /\ intent' = [intent EXCEPT ![c].queued = TRUE]
  <2>1. [intent[c] EXCEPT !.queued = TRUE] \in Intent BY <1>3, IntentUpdates
  <2>2. intent'[c] = [intent[c] EXCEPT !.queued = TRUE] BY <1>2, <1>6
  <2>3. intent'[c].phase = intent[c].phase BY <1>3, <2>2 DEF Intent
  <2>4. intent' = [intent EXCEPT ![c] = intent'[c]] BY <1>2, <1>6, <2>2
  <2>5. StoreStep /\ StoresOK'
    <3> HIDE DEF c
    <3> QED BY <1>1, <1>2, <2>1, <2>2, <2>3, <2>4, IntentStep
  <2>6. proc'[Keeper].cand = r.cand
    <3>1. proc' = [proc EXCEPT ![Keeper] = [r EXCEPT !.pc = "enqueue"]] BY <1>6 DEF Goto, Becomes
    <3>2. proc'[Keeper] = [r EXCEPT !.pc = "enqueue"] BY <3>1, KeeperFacts
    <3> QED BY <1>2, <3>2 DEF ProcState
  <2>7. Accounted(proc[Keeper].cand)'
    BY <1>1, <1>3, <1>6, <2>6 DEF Accounted, Body
  <2>8. "enqueue" \in KeeperLabels \ (CleanupLabels \cup {"rest", "mark"}) /\ "enqueue" \notin LossLabels
    BY DEF KeeperLabels, CleanupLabels, LossLabels
  <2> QED BY <1>1, <1>6, <2>5, <2>7, <2>8, KeeperGoes, KeeperComposes
<1>7. CASE Keeps("commit") /\ keeperRest /\ intent' = [intent EXCEPT ![c].phase = "COMMITTED"]
  <2>1. [intent[c] EXCEPT !.phase = "COMMITTED"] \in Intent BY <1>3, IntentUpdates
  <2>2. intent'[c] = [intent[c] EXCEPT !.phase = "COMMITTED"] BY <1>2, <1>7
  <2>3. intent'[c].phase = "COMMITTED" BY <1>3, <2>2 DEF Intent
  <2>4. intent' = [intent EXCEPT ![c] = intent'[c]] BY <1>2, <1>7, <2>2
  <2>5. Lost(c) \/ (Secured(c) /\ queue[c].state # "NOT_FOUND")
    BY <1>2, <1>3, <1>7 DEF KeeperOK, Keeps, At
  <2> HIDE DEF c
  <2>6. StoreStep /\ StoresOK' BY <1>1, <1>2, <2>1, <2>2, <2>3, <2>4, <2>5, IntentStep
  <2> QED BY <1>7, <2>6, KeeperRests, KeeperComposes
<1>8. CASE Keeps("expire") /\ Goto(Keeper, "inspect") /\ intent' = [intent EXCEPT ![c].phase = "EXPIRED"]
  <2>1. [intent[c] EXCEPT !.phase = "EXPIRED"] \in Intent BY <1>3, IntentUpdates
  <2>2. intent'[c] = [intent[c] EXCEPT !.phase = "EXPIRED"] BY <1>2, <1>8
  <2>3. intent'[c].phase = "EXPIRED" BY <1>3, <2>2 DEF Intent
  <2>4. intent' = [intent EXCEPT ![c] = intent'[c]] BY <1>2, <1>8, <2>2
  <2>5. Lost(c)
    BY <1>2, <1>3, <1>8 DEF KeeperOK, Keeps, At, LossLabels
  <2>6. StoreStep /\ StoresOK'
    <3> HIDE DEF c
    <3> QED BY <1>1, <1>2, <2>1, <2>2, <2>3, <2>4, <2>5, IntentStep
  <2>7. proc'[Keeper].cand = r.cand
    <3>1. proc' = [proc EXCEPT ![Keeper] = [r EXCEPT !.pc = "inspect"]] BY <1>8 DEF Goto, Becomes
    <3>2. proc'[Keeper] = [r EXCEPT !.pc = "inspect"] BY <3>1, KeeperFacts
    <3> QED BY <1>2, <3>2 DEF ProcState
  <2>8. Lost(proc[Keeper].cand)' BY <1>2, <1>3, <1>4, <2>5, <2>7
  <2>9. "inspect" \in KeeperLabels \ (CleanupLabels \cup {"rest", "mark"})
    BY DEF KeeperLabels, CleanupLabels, LossLabels
  <2> QED BY <1>1, <1>8, <2>6, <2>8, <2>9, KeeperGoes, KeeperComposes
<1>9. CASE RecordCleanup
  <2> DEFINE f == IF Keeps("drop_failed") THEN "FAILED" ELSE "CONFIRMED"
  <2>0. keeperRest /\ intent' = [intent EXCEPT ![c].cleanup = f] BY <1>9 DEF RecordCleanup
  <2>1. [intent[c] EXCEPT !.cleanup = f] \in Intent
    <3>1. f \in {"NONE", "FAILED", "CONFIRMED"} OBVIOUS
    <3> HIDE DEF f
    <3> QED BY <1>3, <3>1, IntentUpdates
  <2> HIDE DEF f
  <2>2. intent'[c] = [intent[c] EXCEPT !.cleanup = f] BY <1>2, <2>0
  <2>3. intent'[c].phase = intent[c].phase BY <1>3, <2>2 DEF Intent
  <2>4. intent' = [intent EXCEPT ![c] = intent'[c]] BY <1>2, <2>0, <2>2
  <2> HIDE DEF c
  <2>5. StoreStep /\ StoresOK' BY <1>1, <1>2, <2>1, <2>2, <2>3, <2>4, IntentStep
  <2> QED BY <2>0, <2>5, KeeperRests, KeeperComposes
<1> QED BY <1>5, <1>6, <1>7, <1>8, <1>9 DEF Authenticate, Commit, ExpireIntent

\* Writing the body, and deleting bodies after a loss, keeps IInv.
LEMMA SpoolStepsOK ==
    ASSUME IInv, UNCHANGED journal, WriteBody \/ DropResult \/ DropPayload
    PROVE  Safe
<1> DEFINE r == proc[Keeper]
           c == Candidate
<1>1. UNCHANGED <<queue, emergency, expires, clock, faults, journal, captureVars>> /\ r.pc # "rest"
  BY DEF WriteBody, DropResult, DropPayload, Keeps, At
<1>2. /\ StoresOK /\ KeeperOK(r) /\ r \in ProcState /\ c \in Candidates /\ r.cand = c
      /\ clock \in Time /\ faults \in 0 .. MaxFaults
      /\ spool \subseteq Candidates \X (Verdicts \cup {"payload"})
  BY <1>1, KeeperFacts DEF Candidate
<1>3. \A d \in Candidates : Lost(d)' = Lost(d) BY <1>1 DEF Lost, captureVars
<1>4. ASSUME NEW l \in KeeperLabels, Goto(Keeper, l) PROVE proc'[Keeper].cand = r.cand
  <2>1. proc' = [proc EXCEPT ![Keeper] = [r EXCEPT !.pc = l]] BY <1>4 DEF Goto, Becomes
  <2>2. proc'[Keeper] = [r EXCEPT !.pc = l] BY <2>1, KeeperFacts
  <2> QED BY <1>2, <2>2 DEF ProcState
<1>5. CASE WriteBody
  <2>1. spool' = spool \cup {Body(c)} /\ Goto(Keeper, "authenticate") BY <1>5 DEF WriteBody
  <2>2. spool' \subseteq Candidates \X (Verdicts \cup {"payload"}) BY <1>2, <2>1 DEF Body
  <2>3. SpoolStep
    <3>1. ~Lost(c) BY <1>2, <1>5 DEF KeeperOK, WriteBody, Keeps, At
    <3> QED BY <1>2, <2>1, <3>1 DEF SpoolStep
  <2>4. StoreStep /\ StoresOK' BY <1>1, <1>2, <2>2, <2>3, SpoolChange
  <2>5. "authenticate" \in KeeperLabels \ (CleanupLabels \cup {"rest", "mark"}) /\ "authenticate" \notin LossLabels
    BY DEF KeeperLabels, CleanupLabels, LossLabels
  <2> QED BY <1>1, <2>1, <2>4, <2>5, KeeperGoes, KeeperComposes
<1>6. ASSUME NEW x \in Verdicts \cup {"none", "payload"}, spool' = spool \ {<<c, x>>}, Lost(c)
      PROVE  StoreStep /\ StoresOK'
  <2>1. SpoolStep BY <1>2, <1>6 DEF SpoolStep
  <2>2. spool' \subseteq Candidates \X (Verdicts \cup {"payload"}) BY <1>2, <1>6
  <2> QED BY <1>1, <1>2, <2>1, <2>2, SpoolChange
<1>7. CASE DropResult \/ DropPayload
  <2>1. Lost(c) BY <1>2, <1>7 DEF KeeperOK, DropResult, DropPayload, Keeps, At, LossLabels
  <2>2. \E x \in Verdicts \cup {"none", "payload"} : spool' = spool \ {<<c, x>>}
    <3>1. r.item.result \in Verdicts \cup {"none", "payload"} BY <1>2 DEF ProcState, QueueItem
    <3> QED BY <1>7, <3>1 DEF DropResult, DropPayload, Body
  <2>3. StoreStep /\ StoresOK' BY <1>6, <2>1, <2>2
  <2>4. PICK l \in {"drop_payload", "drop_confirmed"} : Goto(Keeper, l) BY <1>7 DEF DropResult, DropPayload
  <2>5. l \in KeeperLabels \ (CleanupLabels \cup {"rest", "mark"}) /\ l \notin {"enqueue", "secure", "commit", "write"}
    BY DEF KeeperLabels, CleanupLabels, LossLabels
  <2>6. Lost(proc[Keeper].cand)' BY <1>2, <1>3, <1>4, <2>1, <2>4, <2>5
  <2> QED BY <1>1, <2>3, <2>4, <2>5, <2>6, KeeperGoes, KeeperComposes
<1> QED BY <1>5, <1>7

\* Recording a secured or lost candidate in the ledger keeps IInv.
LEMMA ReceiptStepsOK ==
    ASSUME IInv, UNCHANGED journal, Secure \/ Lose
    PROVE  Safe
<1> DEFINE r == proc[Keeper]
           c == Candidate
           k == CaptureOf[c]
<1>1. UNCHANGED <<queue, spool, emergency, expires, clock, faults, journal, intent, accepts>> /\ r.pc # "rest"
  BY DEF Secure, Lose, Keeps, At
<1>2. /\ StoresOK /\ KeeperOK(r) /\ r \in ProcState /\ c \in Candidates /\ r.cand = c
      /\ receipt \in [Captures -> Receipt]
  BY <1>1, KeeperFacts DEF Candidate
<1>3. k \in Captures /\ receipt[k] \in Receipt BY <1>2, CaptureAssumption
<1>4. receipt[k].candidates \subseteq Candidates /\ receipt[k].state \in {"WAITING", "SECURED", "EXPIRED"}
  BY <1>3 DEF Receipt
<1>5. ASSUME NEW l \in KeeperLabels, Goto(Keeper, l) PROVE proc'[Keeper].cand = r.cand
  <2>1. proc' = [proc EXCEPT ![Keeper] = [r EXCEPT !.pc = l]] BY <1>5 DEF Goto, Becomes
  <2>2. proc'[Keeper] = [r EXCEPT !.pc = l] BY <2>1, KeeperFacts
  <2> QED BY <1>2, <2>2 DEF ProcState
<1>6. CASE Secure /\ Lost(c)
  <2>1. keeperRest /\ UNCHANGED receipt BY <1>6 DEF Secure
  <2>2. StoreStep /\ StoresOK'
    <3>1. SpoolStep BY <1>1 DEF SpoolStep
    <3> QED BY <1>1, <2>1, <3>1, KeeperFacts, SpoolChange DEF captureVars
  <2> QED BY <2>1, <2>2, KeeperRests, KeeperComposes
<1>7. CASE Secure /\ ~Lost(c)
  <2> DEFINE new == Merged(receipt[k], [state |-> "SECURED", candidates |-> {c}])
  <2>1. Goto(Keeper, "commit") /\ receipt' = [receipt EXCEPT ![k] = new] BY <1>7 DEF Secure
  <2>2. receipt[k].state # "EXPIRED" BY <1>7 DEF Lost
  <2>3. new.state = "SECURED" /\ new.candidates = receipt[k].candidates \cup {c} /\ new \in Receipt
    BY <1>2, <1>4, <2>2 DEF Merged, Receipt
  <2> HIDE DEF new
  <2>4. receipt'[k] = new BY <1>2, <1>3, <2>1
  <2>5. queue[c].state # "NOT_FOUND" /\ Accounted(c) BY <1>2, <1>7 DEF KeeperOK, Secure, Keeps, At
  <2>6. \A d \in Candidates : CaptureOf[d] = k /\ d \in new.candidates => queue[d].state # "NOT_FOUND"
    <3> SUFFICES ASSUME NEW d \in Candidates, CaptureOf[d] = k, d \in new.candidates
                 PROVE  queue[d].state # "NOT_FOUND"
      OBVIOUS
    <3>1. CASE d = c BY <2>5, <3>1
    <3>2. CASE d # c
      <4>1. d \in receipt[k].candidates BY <2>3, <3>2
      <4>2. receipt[k].state = "SECURED" BY <1>2, <1>3, <1>4, <2>2, <4>1 DEF StoresOK, BodyOK
      <4>3. Secured(d) BY <4>1, <4>2 DEF Secured
      <4> QED BY <1>2, <4>3 DEF StoresOK, BodyOK
    <3> QED BY <3>1, <3>2
  <2>7. StoreStep /\ StoresOK'
    <3>1. \E d \in Candidates : /\ CaptureOf[d] = k /\ Accounted(d) /\ ~Lost(d)
                                /\ new.candidates = receipt[k].candidates \cup {d}
      BY <1>2, <1>7, <2>3, <2>5
    <3> HIDE DEF k
    <3> QED BY <1>1, <1>2, <1>3, <2>1, <2>2, <2>3, <2>4, <2>6, <3>1, ReceiptChange
  <2>8. "commit" \in KeeperLabels \ (CleanupLabels \cup {"rest", "mark"}) /\ "commit" \notin LossLabels
    BY DEF KeeperLabels, CleanupLabels, LossLabels
  <2>9. proc'[Keeper].cand = c BY <1>2, <1>5, <2>1, <2>8
  <2>10. Secured(proc[Keeper].cand)' BY <2>3, <2>4, <2>9 DEF Secured
  <2>11. Accounted(proc[Keeper].cand)'
    <3>1. \A d \in Candidates : Accounted(d) => Accounted(d)' BY <2>7 DEF StoreStep
    <3> QED BY <1>2, <2>5, <2>9, <3>1
  <2>12. queue'[proc[Keeper].cand].state # "NOT_FOUND" BY <1>1, <1>2, <2>5
  <2> QED BY <1>1, <2>1, <2>7, <2>8, <2>10, <2>11, <2>12, KeeperGoes, KeeperComposes
<1>8. CASE Lose
  <2> DEFINE new == Merged(receipt[k], [state |-> "EXPIRED", candidates |-> {}])
  <2>1. Goto(Keeper, "expire") /\ receipt' = [receipt EXCEPT ![k] = new] BY <1>8 DEF Lose
  <2>2. new.state = "EXPIRED" /\ new.candidates = receipt[k].candidates /\ new \in Receipt
    BY <1>4 DEF Merged, Receipt
  <2> HIDE DEF new
  <2>3. receipt'[k] = new BY <1>2, <1>3, <2>1
  <2>4. StoreStep /\ StoresOK'
    <3> HIDE DEF k
    <3> QED BY <1>1, <1>2, <1>3, <2>1, <2>2, <2>3, ReceiptChange
  <2>5. "expire" \in KeeperLabels \ (CleanupLabels \cup {"rest", "mark"})
    BY DEF KeeperLabels, CleanupLabels, LossLabels
  <2>6. proc'[Keeper].cand = c BY <1>2, <1>5, <2>1, <2>5
  <2>7. Lost(proc[Keeper].cand)' BY <2>2, <2>3, <2>6 DEF Lost
  <2> QED BY <1>1, <2>1, <2>4, <2>5, <2>7, KeeperGoes, KeeperComposes
<1> QED BY <1>6, <1>7, <1>8

\* enqueue_receipt, its emergency path and its confirmation keep IInv.
LEMMA EnqueueOK ==
    ASSUME IInv, UNCHANGED journal, Enqueue \/ EnqueueEmergency \/ ConfirmQueued
    PROVE  Safe
<1> DEFINE r == proc[Keeper]
           c == Candidate
<1>1. UNCHANGED <<spool, expires, clock, journal, captureVars>> /\ r.pc = "enqueue"
  BY DEF Enqueue, EnqueueEmergency, ConfirmQueued, Keeps, At
<1>2. /\ StoresOK /\ KeeperOK(r) /\ r \in ProcState /\ c \in Candidates /\ r.cand = c
      /\ faults \in 0 .. MaxFaults /\ proc \in [Procs -> ProcState]
  BY <1>1, KeeperFacts DEF Candidate
<1>3. Accounted(c) BY <1>1, <1>2 DEF KeeperOK
<1>4. CASE Enqueue
  <2>1. /\ queue[c].state = "NOT_FOUND" /\ queue' = [queue EXCEPT ![c] = FreshItem]
        /\ emergency' = emergency /\ faults' = faults /\ proc' = proc
    BY <1>4 DEF Enqueue
  <2> HIDE DEF c
  <2>2. StoreStep /\ StoresOK' BY <1>1, <1>2, <1>3, <2>1, FreshChange
  <2>3. KeeperOK(proc[Keeper])' BY <1>1, <1>2, <2>1, <2>2, KeeperStable DEF captureVars
  <2>4. proc' = [proc EXCEPT ![Keeper] = proc'[Keeper]] BY <1>2, <2>1
  <2> QED BY <2>2, <2>3, <2>4, KeeperComposes
<1>5. CASE EnqueueEmergency
  <2>1. queue' = queue /\ keeperRest /\ emergency' = emergency \cup {c} /\ Faulty
    BY <1>5 DEF EnqueueEmergency
  <2>2. \A d \in Candidates : /\ Lost(d)' = Lost(d) /\ Secured(d)' = Secured(d)
                              /\ IsDecided(d)' = IsDecided(d) /\ Accounted(d)' = Accounted(d)
    BY <1>1, <2>1 DEF Lost, Secured, IsDecided, Accounted, Body, captureVars
  <2>3. \A d \in Candidates, v \in Verdicts : Bound(d, v)' = Bound(d, v) BY <1>1, <2>1 DEF Bound
  <2>4. StoreStep BY <1>1, <2>1, SameStores DEF captureVars
  <2>5. faults' \in 0 .. MaxFaults BY <1>2, <2>1, Faults
  <2>6. StoreTypeOK' BY <1>1, <1>2, <2>1, <2>5 DEF StoresOK, StoreTypeOK, captureVars
  <2>7. BodyOK' BY <1>1, <1>2, <1>3, <2>1, <2>2 DEF StoresOK, BodyOK, captureVars
  <2>8. LedgerBeforeIntent' BY <1>1, <1>2, <2>1, <2>2 DEF StoresOK, LedgerBeforeIntent, captureVars
  <2>9. JournalOK' BY <1>1, <1>2, <2>1, <2>3 DEF StoresOK, JournalOK, Verdicts
  <2> QED BY <2>1, <2>4, <2>6, <2>7, <2>8, <2>9, KeeperRests, KeeperComposes DEF StoresOK
<1>6. CASE ConfirmQueued
  <2>1. UNCHANGED <<queue, emergency, faults>> /\ queue[c].state # "NOT_FOUND"
        /\ (keeperRest \/ Goto(Keeper, "secure"))
    BY <1>6 DEF ConfirmQueued
  <2>2. StoreStep /\ StoresOK'
    <3>1. SpoolStep BY <1>1 DEF SpoolStep
    <3> QED BY <1>1, <2>1, <3>1, KeeperFacts, SpoolChange
  <2>3. CASE keeperRest BY <2>2, <2>3, KeeperRests, KeeperComposes
  <2>4. CASE Goto(Keeper, "secure")
    <3>1. proc' = [proc EXCEPT ![Keeper] = [r EXCEPT !.pc = "secure"]] BY <2>4 DEF Goto, Becomes
    <3>2. proc'[Keeper] = [r EXCEPT !.pc = "secure"] BY <3>1, KeeperFacts
    <3>3. proc'[Keeper].cand = c BY <1>2, <3>2 DEF ProcState
    <3>4. Accounted(proc[Keeper].cand)'
      <4>1. \A d \in Candidates : Accounted(d) => Accounted(d)' BY <2>2 DEF StoreStep
      <4> QED BY <1>2, <1>3, <3>3, <4>1
    <3>5. "secure" \in KeeperLabels \ (CleanupLabels \cup {"rest", "mark"}) /\ "secure" \notin LossLabels
      BY DEF KeeperLabels, CleanupLabels, LossLabels
    <3>6. queue'[proc[Keeper].cand].state # "NOT_FOUND" BY <1>2, <2>1
    <3> QED BY <1>1, <2>2, <2>4, <3>4, <3>5, <3>6, KeeperGoes, KeeperComposes
  <2> QED BY <2>1, <2>3, <2>4
<1> QED BY <1>4, <1>5, <1>6

\* The keeper comes to rest after a cleanup.
LEMMA KeeperRestsAt ==
    ASSUME IInv, Rest(Keeper)
    PROVE  proc' = [proc EXCEPT ![Keeper] = proc'[Keeper]] /\ KeeperOK(proc[Keeper])'
<1>1. proc' = [proc EXCEPT ![Keeper] = RestState(proc[Keeper].moment)] BY DEF Rest, Becomes
<1>2. proc \in [Procs -> ProcState] /\ Keeper \in Procs BY KeeperFacts
<1>3. proc[Keeper].moment \in Time BY KeeperFacts DEF ProcState
<1>4. proc'[Keeper] = RestState(proc[Keeper].moment) BY <1>1, <1>2
<1> QED BY <1>1, <1>3, <1>4, RestOK

\* A failing cleanup or the death of the keeper keeps IInv.
LEMMA KeeperFailsOK ==
    ASSUME IInv, UNCHANGED journal, DropFails \/ KeeperFails
    PROVE  Safe
<1> DEFINE r == proc[Keeper]
<1>1. UNCHANGED <<queue, spool, emergency, expires, clock, journal, captureVars>> /\ Faulty /\ r.pc # "rest"
  BY DEF DropFails, KeeperFails, Keeps, At
<1>2. /\ StoresOK /\ KeeperOK(r) /\ r \in ProcState /\ faults \in 0 .. MaxFaults /\ r.cand \in Candidates
  BY <1>1, KeeperFacts DEF Candidate
<1>3. StoreStep /\ StoresOK'
  <2>1. faults' \in 0 .. MaxFaults BY <1>1, <1>2, Faults
  <2>2. SpoolStep BY <1>1 DEF SpoolStep
  <2> QED BY <1>1, <2>1, <2>2, KeeperFacts, SpoolChange
<1>4. CASE KeeperFails BY <1>3, <1>4, KeeperRests, KeeperComposes DEF KeeperFails
<1>5. CASE DropFails
  <2>1. Goto(Keeper, "drop_failed") /\ r.pc \in LossLabels BY <1>5 DEF DropFails, LossLabels
  <2>2. proc' = [proc EXCEPT ![Keeper] = [r EXCEPT !.pc = "drop_failed"]] BY <2>1 DEF Goto, Becomes
  <2>3. proc'[Keeper] = [r EXCEPT !.pc = "drop_failed"] BY <2>2, KeeperFacts
  <2>4. proc'[Keeper].cand = r.cand BY <1>2, <2>3 DEF ProcState
  <2>5. Lost(r.cand) BY <1>2, <2>1 DEF KeeperOK
  <2>6. Lost(proc[Keeper].cand)'
    <3>1. \A d \in Candidates : Lost(d) => Lost(d)' BY <1>3 DEF StoreStep
    <3> QED BY <1>2, <2>4, <2>5, <3>1
  <2>7. "drop_failed" \in KeeperLabels \ (CleanupLabels \cup {"rest", "mark"})
    BY DEF KeeperLabels, CleanupLabels, LossLabels
  <2> QED BY <1>1, <1>3, <2>1, <2>6, <2>7, KeeperGoes, KeeperComposes
<1> QED BY <1>4, <1>5

\* The keeper goes on with a loss, with a copy of the item it has just read or written.
LEMMA KeeperInspects ==
    ASSUME IInv, NEW l \in {"drop_payload", "drop_result", "revoke"}, NEW item \in QueueItem,
           Becomes(Keeper, [proc[Keeper] EXCEPT !.pc = l, !.item = item]),
           proc[Keeper].pc \in LossLabels, receipt' = receipt
    PROVE  proc' = [proc EXCEPT ![Keeper] = proc'[Keeper]] /\ KeeperOK(proc[Keeper])'
<1> DEFINE r == proc[Keeper]
           local == [r EXCEPT !.pc = l, !.item = item]
<1>1. proc' = [proc EXCEPT ![Keeper] = local] BY DEF Becomes
<1>2. r.pc # "rest" BY DEF LossLabels
<1>3. /\ proc \in [Procs -> ProcState] /\ Keeper \in Procs /\ r \in ProcState /\ r.cand \in Candidates
      /\ KeeperOK(r)
  BY <1>2, KeeperFacts DEF Candidate
<1>4. proc'[Keeper] = local BY <1>1, <1>3
<1>5. proc'[Keeper] \in ProcState
  <2>1. l \in WorkerLabels \cup KeeperLabels BY DEF KeeperLabels, LossLabels
  <2>2. local \in ProcState BY <1>3, <2>1, LocalUpdates
  <2> QED BY <1>4, <2>2
<1>6. proc'[Keeper].pc = l /\ proc'[Keeper].cand = r.cand BY <1>3, <1>4 DEF ProcState
<1>7. Lost(proc[Keeper].cand)'
  <2>1. Lost(r.cand) BY <1>3 DEF KeeperOK
  <2> QED BY <1>6, <2>1 DEF Lost
<1>8. TransitionOK(proc[Keeper])' BY <1>3, <1>6 DEF TransitionOK, CleanupLabels
<1>9. KeeperOK(proc[Keeper])'
  BY <1>5, <1>6, <1>7, <1>8 DEF KeeperOK, KeeperLabels, LossLabels
<1> QED BY <1>1, <1>4, <1>9

\* Reading the queue item of a lost candidate keeps IInv.
LEMMA InspectOK ==
    ASSUME IInv, UNCHANGED journal, Inspect
    PROVE  Safe
<1> DEFINE r == proc[Keeper]
           c == Candidate
<1>1. UNCHANGED <<queue, spool, emergency, expires, clock, faults, journal, captureVars>>
      /\ r.pc \in LossLabels /\ r.pc # "rest"
  BY DEF Inspect, Keeps, At, LossLabels
<1>2. c \in Candidates /\ queue[c] \in QueueItem BY <1>1, KeeperFacts
<1>3. StoreStep /\ StoresOK'
  <2>1. SpoolStep BY <1>1 DEF SpoolStep
  <2> QED BY <1>1, <2>1, KeeperFacts, SpoolChange
<1>4. \E l \in {"drop_payload", "drop_result", "revoke"} :
        Becomes(Keeper, [proc[Keeper] EXCEPT !.pc = l, !.item = queue[c]])
  BY DEF Inspect
<1> QED BY <1>1, <1>2, <1>3, <1>4, KeeperInspects, KeeperComposes DEF captureVars

\* Withdrawing the queue item of a lost candidate keeps IInv.
LEMMA RevokeOK ==
    ASSUME IInv, UNCHANGED journal, Revoke
    PROVE  Safe
<1> DEFINE r == proc[Keeper]
           c == Candidate
           new == Transitioned(queue[c], "FAILED_NEEDS_ATTENTION", NoTime, r.moment)
<1>1. UNCHANGED <<spool, emergency, expires, clock, faults, journal, captureVars>>
      /\ r.pc \in LossLabels /\ r.pc # "rest"
  BY DEF Revoke, Keeps, At, LossLabels
<1>2. /\ StoresOK /\ KeeperOK(r) /\ r \in ProcState /\ faults \in 0 .. MaxFaults /\ c \in Candidates
      /\ r.cand = c /\ queue \in [Candidates -> QueueItem]
  BY <1>1, KeeperFacts DEF Candidate
<1>3. CASE Revocable(r.item) /\ Revocable(queue[c])
  <2>1. queue' = [queue EXCEPT ![c] = new]
        /\ \E l \in {"drop_payload", "drop_result", "revoke"} :
             Becomes(Keeper, [proc[Keeper] EXCEPT !.pc = l, !.item = new])
    BY <1>3 DEF Revoke
  <2>2. r.moment \in Time BY <1>2 DEF ProcState
  <2>3. "FAILED_NEEDS_ATTENTION" \in Claimable \cup Stopped \cup {"YES_CURATING"} BY DEF Stopped
  <2>4. Allowed(queue[c].state, "FAILED_NEEDS_ATTENTION") \/ queue[c].state = "QUARANTINED"
    BY <1>3 DEF Revocable
  <2> HIDE DEF c
  <2>5. StoreStep /\ StoresOK' /\ queue'[c] \in QueueItem
    BY <1>1, <1>2, <2>1, <2>2, <2>3, <2>4, OpenTransition
  <2>6. new \in QueueItem BY <1>2, <2>1, <2>5
  <2> HIDE DEF new
  <2> QED BY <1>1, <2>1, <2>5, <2>6, KeeperInspects, KeeperComposes DEF captureVars
<1>4. CASE ~(Revocable(r.item) /\ Revocable(queue[c]))
  <2>1. UNCHANGED queue /\ Goto(Keeper, "drop_failed") BY <1>4 DEF Revoke
  <2>2. StoreStep /\ StoresOK'
    <3>1. SpoolStep BY <1>1 DEF SpoolStep
    <3> QED BY <1>1, <2>1, <3>1, KeeperFacts, SpoolChange
  <2>3. proc' = [proc EXCEPT ![Keeper] = [r EXCEPT !.pc = "drop_failed"]] BY <2>1 DEF Goto, Becomes
  <2>4. proc'[Keeper] = [r EXCEPT !.pc = "drop_failed"] BY <2>3, KeeperFacts
  <2>5. proc'[Keeper].cand = r.cand BY <1>2, <2>4 DEF ProcState
  <2>6. Lost(proc[Keeper].cand)'
    <3>1. Lost(r.cand) BY <1>1, <1>2 DEF KeeperOK
    <3> QED BY <1>1, <2>5, <3>1 DEF Lost, captureVars
  <2>7. "drop_failed" \in KeeperLabels \ (CleanupLabels \cup {"rest", "mark"})
    BY DEF KeeperLabels, CleanupLabels, LossLabels
  <2> QED BY <1>1, <2>1, <2>2, <2>6, <2>7, KeeperGoes, KeeperComposes
<1> QED BY <1>3, <1>4

\* The keeper goes on with the cleanup of the item it just stored, acknowledges or rests.
LEMMA KeeperProceeds ==
    ASSUME IInv, proc[Keeper].pc # "rest", proc[Keeper].target \in Decided,
           queue'[proc[Keeper].cand] \in QueueItem,
           queue'[proc[Keeper].cand].state = proc[Keeper].target,
           NEW a \in Time \cup {NoTime}, Proceed(Keeper, queue'[proc[Keeper].cand], a)
    PROVE  proc' = [proc EXCEPT ![Keeper] = proc'[Keeper]] /\ KeeperOK(proc[Keeper])'
<1> DEFINE r == proc[Keeper]
           c == r.cand
           item == queue'[c]
<1>1. /\ proc \in [Procs -> ProcState] /\ Keeper \in Procs /\ r \in ProcState /\ c \in Candidates
      /\ KeeperOK(r)
  BY KeeperFacts DEF Candidate
<1>2. r.ret \in {"rest", "secure"} BY <1>1 DEF ProcState
<1>3. CASE Rest(Keeper) BY <1>3, KeeperRestsAt
<1>4. ASSUME NEW l \in {"delete_payload", "delete_result", "secure"},
             Becomes(Keeper, [r EXCEPT !.pc = l, !.item = item, !.at = a])
      PROVE  proc' = [proc EXCEPT ![Keeper] = proc'[Keeper]] /\ KeeperOK(proc[Keeper])'
  <2> HIDE DEF item
  <2>1. proc' = [proc EXCEPT ![Keeper] = [r EXCEPT !.pc = l, !.item = item, !.at = a]] BY <1>4 DEF Becomes
  <2>2. proc'[Keeper] = [r EXCEPT !.pc = l, !.item = item, !.at = a] BY <1>1, <2>1
  <2>3. proc'[Keeper] \in ProcState
    <3>1. l \in WorkerLabels \cup KeeperLabels BY DEF WorkerLabels, KeeperLabels, CleanupLabels
    <3>2. item \in QueueItem BY DEF item
    <3>3. [r EXCEPT !.pc = l, !.item = item, !.at = a] \in ProcState BY <1>1, <3>1, <3>2, LocalUpdates
    <3> QED BY <2>2, <3>3
  <2>4. proc'[Keeper].pc = l /\ proc'[Keeper].cand = c /\ proc'[Keeper].target = r.target
    BY <1>1, <2>2 DEF ProcState
  <2>5. queue'[proc'[Keeper].cand].state = proc'[Keeper].target BY <2>4
  <2>6. TransitionOK(proc[Keeper])' BY <1>1, <2>4, <2>5 DEF TransitionOK, CleanupLabels
  <2>7. Accounted(proc[Keeper].cand)' BY <2>4, <2>5 DEF Accounted, IsDecided
  <2>8. queue'[proc'[Keeper].cand].state # "NOT_FOUND" BY <2>4, <2>5 DEF Decided
  <2>9. KeeperOK(proc[Keeper])'
    BY <1>1, <2>3, <2>4, <2>6, <2>7, <2>8 DEF KeeperOK, KeeperLabels, LossLabels, CleanupLabels
  <2> QED BY <2>1, <2>2, <2>9
<1>5. \/ Rest(Keeper)
      \/ \E l \in {"delete_payload", "delete_result", "secure"} :
           Becomes(Keeper, [r EXCEPT !.pc = l, !.item = item, !.at = a])
  BY <1>2 DEF Proceed
<1> QED BY <1>3, <1>4, <1>5

\* The cleanup steps of the keeper keep IInv.
LEMMA RecoverCleanupOK ==
    ASSUME IInv, UNCHANGED journal, RecoverCleanup
    PROVE  Safe
<1> DEFINE r == proc[Keeper]
<1>1. /\ proc \in [Procs -> ProcState] /\ Keeper \in Procs /\ r \in ProcState /\ KeeperOK(r) /\ StoresOK
  BY KeeperFacts
<1>2. /\ StoreStep /\ StoresOK'
      /\ r.pc # "rest" /\ r.cand \in Candidates /\ r.target \in Decided
      /\ queue'[r.cand] \in QueueItem /\ queue'[r.cand].state = r.target
      /\ \/ \E l \in CleanupLabels : Goto(Keeper, l)
         \/ \E a \in Time \cup {NoTime} : Proceed(Keeper, queue'[r.cand], a)
  BY <1>1, CleanupStores DEF RecoverCleanup, KeeperOK
<1>3. CASE \E a \in Time \cup {NoTime} : Proceed(Keeper, queue'[r.cand], a)
  <2>1. proc' = [proc EXCEPT ![Keeper] = proc'[Keeper]] /\ KeeperOK(proc[Keeper])'
    BY <1>2, <1>3, KeeperProceeds
  <2> QED BY <1>2, <2>1, KeeperComposes
<1>4. CASE \E l \in CleanupLabels : Goto(Keeper, l)
  <2>1. PICK l \in CleanupLabels : proc' = [proc EXCEPT ![Keeper] = [r EXCEPT !.pc = l]]
    BY <1>4 DEF Goto, Becomes
  <2>2. proc'[Keeper] = [r EXCEPT !.pc = l] BY <1>1, <2>1
  <2>3. proc'[Keeper] \in ProcState
    <3>1. l \in WorkerLabels \cup KeeperLabels BY DEF WorkerLabels
    <3>2. [r EXCEPT !.pc = l] \in ProcState BY <1>1, <3>1, LocalUpdates
    <3> QED BY <2>2, <3>2
  <2>4. proc'[Keeper].pc = l /\ proc'[Keeper].cand = r.cand /\ proc'[Keeper].target = r.target
    BY <1>1, <2>2 DEF ProcState
  <2>5. queue'[proc'[Keeper].cand].state = proc'[Keeper].target BY <1>2, <2>4
  <2>6. TransitionOK(proc[Keeper])' BY <1>2, <2>4, <2>5 DEF TransitionOK, CleanupLabels
  <2>7. KeeperOK(proc[Keeper])'
    BY <1>1, <2>3, <2>4, <2>6 DEF KeeperOK, KeeperLabels, LossLabels, CleanupLabels
  <2> QED BY <1>2, <2>1, <2>2, <2>7, KeeperComposes
<1> QED BY <1>2, <1>3, <1>4

\* The repeated terminal transition of _recover_terminal keeps IInv.
LEMMA RecoverMarkOK ==
    ASSUME IInv, UNCHANGED journal, RecoverMark
    PROVE  Safe
<1> DEFINE r == proc[Keeper]
           c == r.cand
           target == r.target
           due == After(r.moment, CooldownTime)
           now == r.moment
           new == Transitioned(queue[c], target, due, now)
<1>1. UNCHANGED <<spool, emergency, expires, clock, journal, faults, captureVars>> /\ r.pc = "mark"
  BY DEF RecoverMark, MarkDecided, At
<1>2. /\ proc \in [Procs -> ProcState] /\ r \in ProcState /\ c \in Candidates
      /\ KeeperOK(r) /\ StoresOK /\ queue \in [Candidates -> QueueItem] /\ faults \in 0 .. MaxFaults
  BY <1>1, KeeperFacts DEF Candidate
<1>3. target \in Decided /\ queue[c].state = target BY <1>1, <1>2 DEF KeeperOK, TransitionOK
<1>4. CASE Allowed(r.item.state, target) /\ Allowed(queue[c].state, target)
  <2>1. queue' = [queue EXCEPT ![c] = new] /\ Proceed(Keeper, new, now)
    BY <1>4 DEF RecoverMark, MarkDecided
  <2>2. now \in Time BY <1>2 DEF ProcState
  <2>3. due \in Time \cup {NoTime} BY <2>2, AfterType, TimeAssumption
  <2> HIDE DEF c, target, due, now
  <2>4. /\ StoreStep /\ StoresOK' /\ queue'[c] \in QueueItem /\ queue'[c].state = target
        /\ queue'[c] = new
    BY <1>1, <1>2, <1>3, <1>4, <2>1, <2>2, <2>3, DecidedChange
  <2>5. proc' = [proc EXCEPT ![Keeper] = proc'[Keeper]] /\ KeeperOK(proc[Keeper])'
    <3>1. Proceed(Keeper, queue'[r.cand], now) BY <2>1, <2>4 DEF c
    <3>2. now \in Time \cup {NoTime} BY <2>2
    <3> QED BY <1>1, <1>3, <2>4, <3>1, <3>2, KeeperProceeds DEF c, target
  <2> QED BY <2>4, <2>5, KeeperComposes
<1>5. CASE ~(Allowed(r.item.state, target) /\ Allowed(queue[c].state, target))
  <2>1. UNCHANGED queue /\ Rest(Keeper) BY <1>5 DEF RecoverMark, MarkDecided
  <2>2. StoreStep /\ StoresOK'
    <3>1. SpoolStep BY <1>1 DEF SpoolStep
    <3> QED BY <1>1, <2>1, <3>1, KeeperFacts, SpoolChange
  <2> QED BY <2>1, <2>2, KeeperRestsAt, KeeperComposes
<1> QED BY <1>4, <1>5

\* The passing of time keeps IInv.
LEMMA PassOK ==
    ASSUME IInv, Pass
    PROVE  Safe
<1>1. UNCHANGED <<queue, spool, emergency, expires, faults, proc, journal, captureVars>> BY DEF Pass, Tick
<1>2. clock' \in Time BY KeeperFacts, TimeAssumption DEF Pass, Tick, Time
<1>3. StoreStep /\ StoresOK'
  <2>1. SpoolStep BY <1>1 DEF SpoolStep
  <2> QED BY <1>1, <1>2, <2>1, KeeperFacts, SpoolChange
<1>4. KeeperOK(proc[Keeper])' BY <1>1, <1>3, KeeperFacts, KeeperStable DEF captureVars
<1>5. proc' = [proc EXCEPT ![Keeper] = proc'[Keeper]] BY <1>1, KeeperFacts
<1> QED BY <1>3, <1>4, <1>5, KeeperComposes

-----------------------------------------------------------------------------
(* The whole specification.                                                *)

\* IInv holds initially.
LEMMA InitOK == Init => IInv
<1> SUFFICES ASSUME Init PROVE IInv
  OBVIOUS
<1>1. StoreTypeOK
  <2>1. NotFound \in QueueItem BY StatesType
  <2>2. NoIntent \in Intent BY DEF NoIntent, Intent
  <2>3. NoReceipt \in Receipt BY DEF NoReceipt, Receipt
  <2>4. NotFound.owner = "nobody" /\ NotFound.lease = NoTime BY DEF NotFound
  <2> QED BY <2>1, <2>2, <2>3, <2>4, TimeAssumption, CaptureAssumption DEF Init, StoreTypeOK, Time
<1>2. \A d \in Candidates : queue[d] = NotFound /\ NotFound.state = "NOT_FOUND" BY DEF Init, NotFound
<1>3. \A d \in Candidates : ~Lost(d) /\ ~Secured(d)
  BY CaptureAssumption DEF Init, Lost, Secured, NoReceipt
<1>4. BodyOK BY <1>2, <1>3 DEF Init, BodyOK, NoReceipt
<1>5. LedgerBeforeIntent BY DEF Init, LedgerBeforeIntent, NoIntent
<1>6. JournalOK BY <1>2 DEF Init, JournalOK
<1>7. \A p \in Procs : proc[p] = RestState(0) BY DEF Init
<1>8. 0 \in Time BY TimeAssumption DEF Time
<1>9. RestState(0) \in ProcState BY <1>8, StatesType
<1>10. TransitionOK(RestState(0)) BY DEF TransitionOK, RestState, CleanupLabels
<1>11. WorkerOK(RestState(0)) BY <1>9, <1>10 DEF WorkerOK, RestState, WorkerLabels, Undecided
<1>12. KeeperOK(RestState(0)) BY <1>9, <1>10 DEF KeeperOK, RestState, KeeperLabels, LossLabels
<1>13. proc \in [Procs -> ProcState] BY <1>9 DEF Init
<1> QED BY <1>1, <1>4, <1>5, <1>6, <1>7, <1>11, <1>12, <1>13 DEF IInv, StoresOK, Procs

\* Every step of a worker keeps IInv and respects the stores.
LEMMA WorkOK ==
    ASSUME IInv, NEW w \in Workers, Work(w)
    PROVE  Safe
<1>1. WorkerStep(w) /\ UNCHANGED captureVars BY DEF Work
<1>2. CASE BeginRun(w) BY <1>1, <1>2, BeginRunOK
<1>3. ASSUME NEW c \in Candidates,
             \/ RecoverEnvelope(w, c) \/ RecoverEnvelopeDies(w, c) \/ ExpireEnvelope(w, c)
             \/ Claim(w, c) \/ ClaimCleanup(w, c)
      PROVE  Safe
  BY <1>1, <1>3, EnvelopeOK, ClaimOK, ClaimCleanupOK
<1>4. CASE ReadCandidate(w) BY <1>1, <1>4, ReadCandidateOK
<1>5. CASE Infer(w) BY <1>1, <1>5, InferOK
<1>6. CASE SaveResult(w) BY <1>1, <1>6, SaveResultOK
<1>7. CASE AttachResult(w) BY <1>1, <1>7, AttachResultOK
<1>8. CASE StartCurating(w) BY <1>1, <1>8, StartCuratingOK
<1>9. CASE ApplyChangeset(w) BY <1>1, <1>9, ApplyChangesetOK
<1>10. CASE Settle(w) \/ HandlerSettle(w) BY <1>1, <1>10, SettleOK
<1>11. CASE MarkOutcome(w) BY <1>1, <1>11, MarkOutcomeOK
<1>12. CASE CleanUp(w) BY <1>1, <1>12, CleanUpOK
<1>13. CASE Raise(w) \/ WorkerDies(w) BY <1>1, <1>13, LocalOK
<1>14. CASE HandleFailure(w) BY <1>1, <1>14, HandleFailureOK
<1> QED BY <1>1, <1>2, <1>3, <1>4, <1>5, <1>6, <1>7, <1>8, <1>9, <1>10, <1>11, <1>12, <1>13, <1>14
       DEF WorkerStep

\* Every step of the keeper keeps IInv and respects the stores.
LEMMA KeepOK ==
    ASSUME IInv, Keep
    PROVE  Safe
<1>1. KeeperStep /\ UNCHANGED journal BY DEF Keep
<1>2. ASSUME NEW c \in Candidates, NEW now \in Now, Accept(c, now) \/ Reconcile(c, now)
      PROVE  Safe
  BY <1>1, <1>2, AcceptOK, ReconcileOK
<1>3. CASE WriteBody \/ DropResult \/ DropPayload BY <1>1, <1>3, SpoolStepsOK
<1>4. CASE Authenticate \/ Commit \/ ExpireIntent \/ RecordCleanup BY <1>1, <1>4, IntentFieldsOK
<1>5. CASE Enqueue \/ EnqueueEmergency \/ ConfirmQueued BY <1>1, <1>5, EnqueueOK
<1>6. CASE Secure \/ Lose BY <1>1, <1>6, ReceiptStepsOK
<1>7. CASE RecoverMark BY <1>1, <1>7, RecoverMarkOK
<1>8. CASE RecoverCleanup BY <1>1, <1>8, RecoverCleanupOK
<1>9. CASE Inspect BY <1>1, <1>9, InspectOK
<1>10. CASE Revoke BY <1>1, <1>10, RevokeOK
<1>11. CASE DropFails \/ KeeperFails BY <1>1, <1>11, KeeperFailsOK
<1> QED BY <1>1, <1>2, <1>3, <1>4, <1>5, <1>6, <1>7, <1>8, <1>9, <1>10, <1>11
       DEF KeeperStep, KeeperOnward

\* A stuttering step keeps IInv.
LEMMA StutterOK ==
    ASSUME IInv, UNCHANGED vars
    PROVE  Safe
<1>1. IInv'
  BY DEF IInv, StoresOK, StoreTypeOK, BodyOK, LedgerBeforeIntent, JournalOK, WorkerOK, KeeperOK,
         TransitionOK, Bound, Accounted, Lost, Secured, IsDecided, Body, vars, storeVars, captureVars
<1>2. StoreStep BY SameStores DEF vars, storeVars, captureVars
<1> QED BY <1>1, <1>2 DEF Safe

\* Every step keeps IInv and respects the stores.
LEMMA NextOK ==
    ASSUME IInv, [Next]_vars
    PROVE  Safe
<1>1. ASSUME NEW w \in Workers, Work(w) PROVE Safe BY <1>1, WorkOK
<1>2. CASE Keep BY <1>2, KeepOK
<1>3. CASE Pass BY <1>3, PassOK
<1>4. CASE UNCHANGED vars BY <1>4, StutterOK
<1> QED BY <1>1, <1>2, <1>3, <1>4 DEF Next

-----------------------------------------------------------------------------
(* The theorems.                                                           *)

\* IInv is an invariant: it holds initially and every step of every process keeps it.
THEOREM Inductive == Spec => []IInv
<1>1. Init => IInv BY InitOK
<1>2. IInv /\ [Next]_vars => IInv' BY NextOK DEF Safe
<1> QED BY <1>1, <1>2, PTL DEF Spec

\* The stores and all local states stay well typed, and leases exist in leased states only.
THEOREM TypeCorrect == Spec => []TypeOK
<1>1. IInv => TypeOK BY DEF IInv, StoresOK, TypeOK
<1> QED BY <1>1, Inductive, PTL

\* Every candidate that is acknowledged or queued has its body, a decision or a recorded
\* loss, whatever the interleaving of accepts, drains, crashes and cleanups.
THEOREM CustodyOfBodies == Spec => []BodyCustody
<1>1. IInv => BodyCustody
  BY DEF IInv, StoresOK, BodyOK, BodyCustody, Accounted, Secured, Lost
<1> QED BY <1>1, Inductive, PTL

\* The intent files never claim more than the ledger has on record.
THEOREM LedgerFirst == Spec => []LedgerBeforeIntent
<1>1. IInv => LedgerBeforeIntent BY DEF IInv, StoresOK
<1> QED BY <1>1, Inductive, PTL

\* At most one validated changeset per candidate is applied, and the recorded outcome
\* agrees with the journal, however many workers hold the candidate at once.
THEOREM SingleVerdict == Spec => []OneVerdict
<1>1. IInv => OneVerdict
  <2> SUFFICES ASSUME IInv, NEW c \in Candidates
               PROVE  /\ \A u, v \in YesVerdicts : <<c, u>> \in journal /\ <<c, v>> \in journal => u = v
                      /\ queue[c].state = "DONE" => \E v \in YesVerdicts : <<c, v>> \in journal
                      /\ queue[c].state = "NO_DISCARDED" => \A v \in YesVerdicts : <<c, v>> \notin journal
    BY DEF OneVerdict
  <2>1. JournalOK BY DEF IInv, StoresOK
  <2>2. ASSUME NEW v \in YesVerdicts, <<c, v>> \in journal, queue[c].state = "NO_DISCARDED"
        PROVE  FALSE
    <3>1. Bound(c, v) /\ queue[c].result \in {"NO", "none"} BY <2>1, <2>2 DEF JournalOK
    <3> QED BY <2>2, <3>1, VerdictAssumption DEF Bound
  <2> QED BY <2>1, <2>2 DEF JournalOK
<1> QED BY <1>1, Inductive, PTL

\* A validated result is never exchanged, and is detached only from a decided item.
THEOREM ResultStands == Spec => AttachedResultStands
<1> DEFINE A == \A c \in Candidates : queue[c].result # "none" =>
                  \/ queue'[c].result = queue[c].result
                  \/ queue'[c].result = "none" /\ IsDecided(c)
<1>1. IInv /\ [Next]_vars => [A]_vars
  <2> SUFFICES ASSUME IInv, [Next]_vars, NEW c \in Candidates, queue[c].result # "none", IsDecided(c)
               PROVE  queue'[c].result \in {queue[c].result, "none"}
    BY NextOK DEF Safe, StoreStep
  <2>1. StoresOK /\ StoresOK' /\ StoreStep BY NextOK DEF Safe, IInv
  <2>2. queue'[c].state = queue[c].state BY <2>1 DEF StoreStep
  <2>3. CASE queue[c].state = "NO_DISCARDED"
    BY <2>1, <2>2, <2>3 DEF StoresOK, JournalOK
  <2>4. CASE queue[c].state = "DONE"
    <3>1. PICK u \in YesVerdicts : <<c, u>> \in journal /\ queue[c].result \in {u, "none"}
      BY <2>1, <2>4 DEF StoresOK, JournalOK
    <3>2. PICK v \in YesVerdicts : <<c, v>> \in journal' /\ queue'[c].result \in {v, "none"}
      BY <2>1, <2>2, <2>4 DEF StoresOK, JournalOK
    <3>3. <<c, u>> \in journal' BY <2>1, <3>1 DEF StoreStep
    <3>4. u = v BY <2>1, <3>2, <3>3 DEF StoresOK, JournalOK
    <3> QED BY <3>1, <3>2, <3>4
  <2> QED BY <2>3, <2>4 DEF IsDecided, Decided
<1> QED BY <1>1, Inductive, PTL DEF Spec, AttachedResultStands

\* The pipeline implements Custody: every step of every process is one step of Custody, or
\* leaves its four variables as they are.
THEOREM Refinement == Spec => ImplementsCustody
<1>1. Init => C!CInit
  <2> SUFFICES ASSUME Init PROVE C!CInit
    OBVIOUS
  <2>1. \A c \in Candidates : ~Lost(c) /\ ~Secured(c)
    BY CaptureAssumption DEF Init, Lost, Secured, NoReceipt
  <2>2. \A c \in Candidates : ~IsDecided(c) BY DEF Init, IsDecided, NotFound, Decided
  <2>3. Held = {} BY DEF Init, Held
  <2> QED BY <2>1, <2>2, <2>3 DEF C!CInit, Evidence, Outcome, Init
<1>2. IInv /\ [Next]_vars => [C!CNext]_(C!custodyVars)
  BY NextOK DEF Safe, StoreStep, CustodyStep, C!custodyVars
<1> QED BY <1>1, <1>2, Inductive, PTL DEF Spec, ImplementsCustody, C!CSpec
=============================================================================
