-------------------------------- MODULE Team --------------------------------
(***************************************************************************)
(* Handing knowledge to the team: a frozen decision is appended to the     *)
(* shared store when it can be reached and put into the machine's          *)
(* encrypted outbox when it cannot (src/ei/team_routing.py), the outbox is *)
(* drained by the machine's maintenance (src/ei/team_outbox.py), and every *)
(* recall and maintenance refreshes a local projection of the store        *)
(* (src/ei/team_projection.py, src/ei/team_store.py).                      *)
(*                                                                         *)
(* An event's id, time and key derive from the frozen decision, so the     *)
(* event of a decision is the decision itself.                             *)
(***************************************************************************)
EXTENDS Integers, FiniteSets

CONSTANTS
    Machines, Events,  \* machines of the team, frozen decisions
    Owner,             \* [Events -> Machines]: the machine that took the decision
    Readers,           \* refreshing processes -> the machine whose cache they refresh
    MaxFaults          \* bound: outages, failed writes, deaths, expiries, rebindings

VARIABLES
    online,     \* the shared root can be reached
    bound,      \* machines whose settings name the store of the decisions
    store,      \* events in the shared store
    partial,    \* .partial files being written in the shared store, by route and event
    leftover,   \* a .partial file whose writer is gone is there
    receipt,    \* status of the outbox receipt of an event
    ref,        \* events whose receipt holds a spool reference
    spool,      \* ciphertext of the outbox: none, there, expired, collected
    prepared,   \* the frozen decisions
    deliver,    \* deliver_prepared_team_routing: position, by event
    result,     \* and what it last reported
    drain,      \* drain_team_outbox: position and event, by machine
    reader,     \* refresh_team_projection: what a process has read
    cache,      \* the machine's projection
    faults

vars == <<online, bound, store, partial, leftover, receipt, ref, spool, prepared, deliver, result, drain, reader, cache, faults>>
shared == <<online, bound, store, partial, leftover>>
outbox == <<receipt, ref, spool>>
tasks == <<prepared, deliver, result>>
views == <<reader, cache>>

Idle == [pc |-> "idle"]
NoRead == [pc |-> "idle", seen |-> {}, known |-> {}]

Init ==
    /\ online \in BOOLEAN /\ bound = Machines
    /\ store = {} /\ partial = {} /\ leftover = FALSE
    /\ receipt = [e \in Events |-> "none"] /\ ref = {} /\ spool = [e \in Events |-> "none"]
    /\ prepared = [e \in Events |-> "none"]
    /\ deliver = [e \in Events |-> "idle"] /\ result = [e \in Events |-> "none"]
    /\ drain = [m \in Machines |-> Idle]
    /\ reader = [r \in DOMAIN Readers |-> NoRead] /\ cache = [m \in Machines |-> {}]
    /\ faults = 0

Fault == faults < MaxFaults /\ faults' = faults + 1

-----------------------------------------------------------------------------
(* The spool of the machine's ciphertexts and the shared store.            *)

\* Whoever reads a ciphertext whose time is over deletes it.
read_spool(e) == spool' = IF spool[e] = "expired" THEN [spool EXCEPT ![e] = "collected"] ELSE spool

\* gc_expired_spool: every maintenance deletes what has expired, delivered or not.
gc_expired_spool(e) ==
    /\ spool[e] = "expired"
    /\ spool' = [spool EXCEPT ![e] = "collected"]
    /\ UNCHANGED <<shared, receipt, ref, tasks, drain, views, faults>>

\* inspect_team_store: the root is there, with a valid manifest and only its members.
inspect_team_store == online

\* scan_team_events keeps the valid events and reports everything else as an issue.
scan_team_events == [events |-> IF inspect_team_store THEN store ELSE {},
                     issues |-> ~inspect_team_store \/ partial # {} \/ leftover]

\* append_team_event first finds the event there, or writes its partial file ...
FoundOrPartial(route, e, there, written) ==
    IF e \in store THEN there /\ UNCHANGED partial
                   ELSE partial' = partial \cup {<<route, e>>} /\ written

\* ... and renames it, unless the event has appeared meanwhile; the partial file is gone.
Publish(route, e) == store' = store \cup {e} /\ partial' = partial \ {<<route, e>>}

\* A process that dies, runs out of budget or loses the root in between leaves its file.
Abandon(route, e) ==
    /\ partial' = partial \ {<<route, e>>}
    /\ leftover' = (leftover \/ <<route, e>> \in partial)

-----------------------------------------------------------------------------
(* deliver_prepared_team_routing.                                          *)

\* decide_team_routing: a disabled team, a classification or a text that may not leave the
\* machine, the provider's answer and a payload that is not valid, in this order.
decide_team_routing(may, answer, valid) ==
    CASE ~may -> "NOT_ELIGIBLE"
      [] may /\ answer # "ELIGIBLE" -> answer
      [] OTHER -> IF valid THEN "ELIGIBLE" ELSE "FAILED"

\* prepare_team_routing freezes the decision with its binding, once, before the personal
\* change is applied; without a valid identity it is FAILED.
prepare_team_routing(e) ==
    /\ prepared[e] = "none"
    /\ \E may, identity, valid \in BOOLEAN, answer \in {"ELIGIBLE", "NOT_ELIGIBLE", "DEFERRED", "FAILED"} :
        prepared' = [prepared EXCEPT ![e] =
            IF identity THEN decide_team_routing(may, answer, valid) ELSE "FAILED"]
    /\ UNCHANGED <<shared, outbox, deliver, result, drain, views, faults>>

DeliverTo(e, pc) == deliver' = [deliver EXCEPT ![e] = pc]
Report(e, verdict) ==
    /\ deliver' = [deliver EXCEPT ![e] = "idle"]
    /\ result' = [result EXCEPT ![e] = verdict]

\* A result that is not final is delivered again by the next recovery; a changed binding
\* is refused before anything is written.
deliver_prepared_team_routing(e) ==
    /\ deliver[e] = "idle" /\ prepared[e] # "none"
    /\ result[e] \notin {"RECORDED", "HANDED", "NOT_ELIGIBLE"}
    /\ CASE prepared[e] # "ELIGIBLE" -> Report(e, prepared[e])
         [] prepared[e] = "ELIGIBLE" /\ Owner[e] \notin bound -> Report(e, "FAILED")
         [] OTHER -> DeliverTo(e, IF online THEN "append" ELSE "enqueue") /\ UNCHANGED result
    /\ UNCHANGED <<shared, outbox, prepared, drain, views, faults>>

\* A root that went away meanwhile is handled like any failed append.
append_team_event(e) ==
    /\ deliver[e] = "append"
    /\ IF inspect_team_store
       THEN FoundOrPartial("direct", e, DeliverTo(e, "readback"), DeliverTo(e, "rename"))
       ELSE DeliverTo(e, "enqueue") /\ UNCHANGED partial
    /\ UNCHANGED <<online, bound, store, leftover, outbox, prepared, result, drain, views, faults>>

RenameDirect(e) ==
    /\ deliver[e] = "rename"
    /\ IF online THEN Publish("direct", e) /\ DeliverTo(e, "readback") /\ UNCHANGED leftover
                 ELSE Abandon("direct", e) /\ DeliverTo(e, "enqueue") /\ UNCHANGED store
    /\ UNCHANGED <<online, bound, outbox, prepared, result, drain, views, faults>>

ReadBack(e) ==
    /\ deliver[e] = "readback"
    /\ IF online /\ e \in store THEN Report(e, "RECORDED")
       ELSE DeliverTo(e, "enqueue") /\ UNCHANGED result
    /\ UNCHANGED <<shared, outbox, prepared, drain, views, faults>>

\* enqueue_team_event: an existing receipt is returned; otherwise the ciphertext comes
\* first, and one that an earlier call left and that has expired is refused.
enqueue_team_event(e) ==
    /\ deliver[e] = "enqueue"
    /\ CASE receipt[e] # "none" -> DeliverTo(e, "handed") /\ UNCHANGED <<spool, result>>
         [] receipt[e] = "none" /\ spool[e] = "expired" -> Report(e, "FAILED") /\ UNCHANGED spool
         [] OTHER -> spool' = [spool EXCEPT ![e] = "there"] /\ DeliverTo(e, "receipt") /\ UNCHANGED result
    /\ UNCHANGED <<shared, receipt, ref, prepared, drain, views, faults>>

WriteReceipt(e) ==
    /\ deliver[e] = "receipt"
    /\ receipt' = [receipt EXCEPT ![e] = "PENDING"] /\ ref' = ref \cup {e}
    /\ DeliverTo(e, "handed")
    /\ UNCHANGED <<shared, spool, prepared, result, drain, views, faults>>

\* The receipt and its ciphertext are read back before the hand-over is reported.
read_team_outbox_receipt(e) ==
    LET waits == receipt[e] \in {"PENDING", "DEFERRED"} /\ e \in ref IN
    /\ deliver[e] = "handed"
    /\ Report(e, CASE waits /\ spool[e] = "there" -> "HANDED"
                   [] receipt[e] = "DELIVERED" -> "RECORDED"
                   [] OTHER -> "FAILED")
    /\ IF waits THEN read_spool(e) ELSE UNCHANGED spool
    /\ UNCHANGED <<shared, receipt, ref, prepared, drain, views, faults>>

-----------------------------------------------------------------------------
(* drain_team_outbox, under the machine's maintenance lock.                *)

At(m, pc) == drain[m].pc = pc
Goto(m, pc) == drain' = [drain EXCEPT ![m].pc = pc]
Finish(m) == drain' = [drain EXCEPT ![m] = Idle]
Settle(e, status) == receipt' = [receipt EXCEPT ![e] = status]

_binding_error(m) == m \notin bound \/ ~inspect_team_store

\* The delivery's bindings and body are checked; an expired body fails it for good, and one
\* that is gone defers it, again and again (SPOOL_NOT_FOUND).
drain_team_outbox(m, e) ==
    /\ At(m, "idle") /\ Owner[e] = m /\ receipt[e] \in {"PENDING", "DEFERRED"}
    /\ IF _binding_error(m) THEN Settle(e, "DEFERRED") /\ UNCHANGED <<drain, spool>>
       ELSE /\ read_spool(e)
            /\ CASE spool[e] = "there" ->
                        drain' = [drain EXCEPT ![m] = [pc |-> "scan", event |-> e]] /\ UNCHANGED receipt
                 [] spool[e] = "expired" -> Settle(e, "FAILED") /\ UNCHANGED drain
                 [] OTHER -> Settle(e, "DEFERRED") /\ UNCHANGED drain
    /\ UNCHANGED <<shared, ref, tasks, views, faults>>

\* A body that cannot be read this time, its key out of reach, fails the delivery for good.
ReadFails(m, e) ==
    /\ At(m, "idle") /\ Owner[e] = m /\ receipt[e] \in {"PENDING", "DEFERRED"} /\ Fault
    /\ ~_binding_error(m) /\ spool[e] \in {"there", "expired"}
    /\ Settle(e, "FAILED")
    /\ UNCHANGED <<shared, ref, spool, tasks, drain, views>>

\* Mutant: what an incomplete scan does not show is taken for delivered.
AssumeRecorded(m) ==
    /\ At(m, "scan")
    /\ IF drain[m].event \in store \/ scan_team_events.issues THEN Goto(m, "deliver") ELSE Goto(m, "append")
    /\ UNCHANGED <<shared, outbox, tasks, views, faults>>

\* An event that is not seen by an incomplete scan is not known to be absent.
_already_recorded(m) ==
    LET e == drain[m].event IN
    /\ At(m, "scan")
    /\ CASE e \in scan_team_events.events -> Goto(m, "deliver") /\ UNCHANGED receipt
         [] e \notin scan_team_events.events /\ scan_team_events.issues -> Settle(e, "DEFERRED") /\ Finish(m)
         [] OTHER -> Goto(m, "append") /\ UNCHANGED receipt
    /\ UNCHANGED <<shared, ref, spool, tasks, views, faults>>

\* A root that is gone by now fails the delivery (TEAM_OUTBOX_DELIVERY_FAILED).
AppendFromOutbox(m) ==
    LET e == drain[m].event IN
    /\ At(m, "append")
    /\ IF inspect_team_store
       THEN FoundOrPartial("outbox", e, Goto(m, "deliver"), Goto(m, "rename")) /\ UNCHANGED receipt
       ELSE Settle(e, "FAILED") /\ Finish(m) /\ UNCHANGED partial
    /\ UNCHANGED <<online, bound, store, leftover, ref, spool, tasks, views, faults>>

RenameFromOutbox(m) ==
    LET e == drain[m].event IN
    /\ At(m, "rename")
    /\ IF online
       THEN Publish("outbox", e) /\ Goto(m, "deliver") /\ UNCHANGED <<receipt, leftover>>
       ELSE Abandon("outbox", e) /\ Settle(e, "FAILED") /\ Finish(m) /\ UNCHANGED store
    /\ UNCHANGED <<online, bound, ref, spool, tasks, views, faults>>

Delivered(m) ==
    /\ At(m, "deliver")
    /\ Settle(drain[m].event, "DELIVERED")
    /\ Goto(m, "release")
    /\ UNCHANGED <<shared, ref, spool, tasks, views, faults>>

\* A DELIVERED receipt that still refers to a body is taken up by the next drain, or by the
\* one after it when the body turns out to be expired.
ResumeRelease(m, e) ==
    /\ At(m, "idle") /\ Owner[e] = m /\ receipt[e] = "DELIVERED" /\ e \in ref
    /\ ~_binding_error(m)
    /\ read_spool(e)
    /\ IF spool[e] = "expired" THEN UNCHANGED drain
       ELSE drain' = [drain EXCEPT ![m] = [pc |-> "release", event |-> e]]
    /\ UNCHANGED <<shared, receipt, ref, tasks, views, faults>>

\* The event is looked for once more before its ciphertext is deleted.
_release_delivered(m) ==
    LET e == drain[m].event IN
    /\ At(m, "release")
    /\ CASE ~_binding_error(m) /\ spool[e] = "expired" -> read_spool(e) /\ Finish(m)
         [] ~_binding_error(m) /\ spool[e] # "expired" /\ e \in scan_team_events.events ->
                spool' = [spool EXCEPT ![e] = "none"] /\ Goto(m, "unref")
         [] OTHER -> UNCHANGED spool /\ Finish(m)
    /\ UNCHANGED <<shared, receipt, ref, tasks, views, faults>>

Unref(m) ==
    /\ At(m, "unref")
    /\ ref' = ref \ {drain[m].event}
    /\ Finish(m)
    /\ UNCHANGED <<shared, receipt, spool, tasks, views, faults>>

-----------------------------------------------------------------------------
(* refresh_team_projection, by maintenance and by every recall at once.    *)

\* The existing projection is read, then the store; one that cannot be reached leaves the
\* projection as it is.
refresh_team_projection(r) ==
    /\ reader[r].pc = "idle" /\ online
    /\ reader' = [reader EXCEPT ![r] = [pc |-> "project", seen |-> scan_team_events.events, known |-> cache[Readers[r]]]]
    /\ UNCHANGED <<shared, outbox, tasks, drain, cache, faults>>

\* What was known and what is new replaces the projection; nothing new leaves it alone.
project_events(r) ==
    /\ reader[r].pc = "project"
    /\ cache' = IF reader[r].seen \subseteq reader[r].known THEN cache
                ELSE [cache EXCEPT ![Readers[r]] = reader[r].known \cup reader[r].seen]
    /\ reader' = [reader EXCEPT ![r] = NoRead]
    /\ UNCHANGED <<shared, outbox, tasks, drain, faults>>

-----------------------------------------------------------------------------
(* Faults.                                                                 *)

Outage == /\ online /\ Fault /\ online' = FALSE
          /\ UNCHANGED <<bound, store, partial, leftover, outbox, tasks, drain, views>>
Return == /\ ~online /\ online' = TRUE
          /\ UNCHANGED <<bound, store, partial, leftover, outbox, tasks, drain, views, faults>>
Rebind(m) == /\ m \in bound /\ Fault /\ bound' = bound \ {m}
             /\ UNCHANGED <<online, store, partial, leftover, outbox, tasks, drain, views>>
BindBack(m) == /\ m \notin bound /\ bound' = bound \cup {m}
               /\ UNCHANGED <<online, store, partial, leftover, outbox, tasks, drain, views, faults>>

\* A spool body has a time to live.
Expire(e) == /\ spool[e] = "there" /\ Fault /\ spool' = [spool EXCEPT ![e] = "expired"]
             /\ UNCHANGED <<shared, receipt, ref, tasks, drain, views>>

\* A failed write cleans its partial file: the direct delivery turns to the outbox, the
\* delivery from the outbox fails for good.
WriteFailsDirect(e) ==
    /\ deliver[e] = "rename" /\ Fault
    /\ partial' = partial \ {<<"direct", e>>} /\ DeliverTo(e, "enqueue")
    /\ UNCHANGED <<online, bound, store, leftover, outbox, prepared, result, drain, views>>
WriteFailsFromOutbox(m) ==
    /\ At(m, "rename") /\ Fault
    /\ partial' = partial \ {<<"outbox", drain[m].event>>}
    /\ Settle(drain[m].event, "FAILED") /\ Finish(m)
    /\ UNCHANGED <<online, bound, store, leftover, ref, spool, tasks, views>>

\* Death, or the end of the operation's budget: nothing is cleaned up.
DeliverDies(e) == /\ deliver[e] # "idle" /\ Fault /\ DeliverTo(e, "idle") /\ Abandon("direct", e)
                  /\ UNCHANGED <<online, bound, store, outbox, prepared, result, drain, views>>
DrainDies(m) == /\ ~At(m, "idle") /\ Fault /\ Finish(m) /\ Abandon("outbox", drain[m].event)
                /\ UNCHANGED <<online, bound, store, outbox, tasks, views>>

-----------------------------------------------------------------------------
Deliver(e) ==
    \/ append_team_event(e) \/ RenameDirect(e) \/ ReadBack(e)
    \/ enqueue_team_event(e) \/ WriteReceipt(e) \/ read_team_outbox_receipt(e)

DrainStep(m) ==
    \/ _already_recorded(m) \/ AppendFromOutbox(m) \/ RenameFromOutbox(m)
    \/ Delivered(m) \/ _release_delivered(m) \/ Unref(m)

Next ==
    \/ \E e \in Events : \/ prepare_team_routing(e) \/ deliver_prepared_team_routing(e) \/ Deliver(e)
                         \/ WriteFailsDirect(e) \/ DeliverDies(e) \/ Expire(e) \/ gc_expired_spool(e)
    \/ \E m \in Machines : \/ \E e \in Events : drain_team_outbox(m, e) \/ ReadFails(m, e) \/ ResumeRelease(m, e)
                           \/ DrainStep(m) \/ WriteFailsFromOutbox(m) \/ DrainDies(m)
                           \/ Rebind(m) \/ BindBack(m)
    \/ \E r \in DOMAIN Readers : refresh_team_projection(r) \/ project_events(r)
    \/ Outage \/ Return

Spec == Init /\ [][Next]_vars

\* Maintenance runs again and again on every machine and every started step is taken; the
\* shared folder and the configured binding come back.
Maintain(m) == DrainStep(m) \/ \E e \in Events : drain_team_outbox(m, e) \/ ResumeRelease(m, e)
Refresh(r) == refresh_team_projection(r) \/ project_events(r)
Fairness ==
    /\ WF_vars(Return)
    /\ \A m \in Machines : WF_vars(BindBack(m)) /\ WF_vars(Maintain(m))
    /\ \A e \in Events : WF_vars(deliver_prepared_team_routing(e) \/ Deliver(e))
    /\ \A r \in DOMAIN Readers : WF_vars(Refresh(r))
FairSpec == Spec /\ Fairness

-----------------------------------------------------------------------------
\* A ciphertext whose time to live is over, deleted or not.
Overdue(e) == spool[e] \in {"expired", "collected"}

\* What was reported is durable: a recorded event is in the shared store, and a handed-over
\* one is there too or has its ciphertext, until the time of that is over.  (Then it is lost:
\* gc_expired_spool does not ask whether it was delivered.)
ReportIsDurable ==
    \A e \in Events :
        /\ result[e] = "RECORDED" => e \in store
        /\ result[e] = "HANDED" => e \in store \/ spool[e] = "there" \/ Overdue(e)

\* Within its time the only copy outside the shared store is deleted only when the event is
\* there, after deaths between every two writes.
ReleasedIsStored ==
    \A e \in Events : receipt[e] # "none" /\ spool[e] # "there" => e \in store \/ Overdue(e)

\* The test suite's retry promise: a receipt that is DELIVERED loses its body in the end.
Released(e) == receipt[e] = "DELIVERED" => e \notin ref

\* Deferred work is retried until it is delivered, or settled otherwise; a partial file left
\* in the store by a writer that died or ran out of time, and a ciphertext that was deleted
\* when its time was over, keep it deferred for ever.
Retried(e) == receipt[e] \in {"PENDING", "DEFERRED"} => e \in store \/ leftover \/ spool[e] = "collected"

\* Every reader's projection holds what the store holds in the end, although recalls and
\* maintenance replace it from stale reads.
CaughtUp(e, m) == e \in store => e \in cache[m]
=============================================================================
