----------------------------- MODULE Operation -----------------------------
(***************************************************************************)
(* Health, incidents and notifications (src/ei/operation_runtime.py,       *)
(* operation_health.py, incidents.py).  Maintenance counts what is in      *)
(* custody between two readings of the stores' file metadata and caches    *)
(* the count with that binding; hooks, the command line and maintenance    *)
(* itself read the cache, keep the incident file and send at most one      *)
(* desktop notification each time.                                         *)
(*                                                                         *)
(* One incident of the pending store stands for all of them: they are      *)
(* independent entries of one file, changed under its lock.  The stores    *)
(* are a version and the severity of what is wrong with them.  Time is     *)
(* kept as ages: a Tick is an hour.                                        *)
(***************************************************************************)
EXTENDS Integers, FiniteSets

CONSTANTS
    Hooks,          \* hook and command-line processes
    Maintenance,    \* the process under the maintenance lock
    MaxChanges, MaxFaults   \* bounds: changes of the stores; failures, deaths, overruns

Observers == Hooks \cup {Maintenance}
Severities == 0..2      \* nothing, warning, error

VARIABLES
    version, trouble,   \* the stores: their metadata and what is wrong with them
    cache,              \* operation-health.json
    inc,                \* the incident in operation-incidents.json
    proc,               \* the observers
    sent,               \* ghost: <<generation, age>> of the notifications shown
    faults

vars == <<version, trouble, cache, inc, proc, sent, faults>>

NoCache == [binding |-> -1, issue |-> 0]
NoLease == [gen |-> 0, occ |-> 0, by |-> Maintenance]
Fresh == 0
Old == 2                \* a day, for a success; an hour is 1
Untried == [attempt |-> Old, result |-> "NONE", succ |-> 0, succAge |-> Old]
NoIncident == [status |-> "NONE", sev |-> 0, gen |-> 0, occ |-> 0, del |-> Untried,
               lease |-> NoLease, prev |-> Untried]
Idle == [pc |-> "rest", before |-> -1, binding |-> -1, issue |-> 0, resolved |-> FALSE,
         lease |-> NoLease]

Init ==
    /\ version = 0 /\ trouble = 0
    /\ cache = NoCache
    /\ inc = NoIncident
    /\ proc = [o \in Observers |-> Idle]
    /\ sent = {} /\ faults = 0

At(o, pc) == proc[o].pc = pc
Becomes(o, p) == proc' = [proc EXCEPT ![o] = p]
Goto(o, pc) == proc' = [proc EXCEPT ![o].pc = pc]

-----------------------------------------------------------------------------
(* collect_operation_snapshot, under the maintenance lock.                 *)

_stat_binding ==
    /\ At(Maintenance, "rest")
    /\ Becomes(Maintenance, [Idle EXCEPT !.pc = "count", !.before = version])
    /\ UNCHANGED <<version, trouble, cache, inc, sent, faults>>

CountCustody ==
    /\ At(Maintenance, "count")
    /\ Becomes(Maintenance, [proc[Maintenance] EXCEPT !.pc = "bind", !.issue = trouble])
    /\ UNCHANGED <<version, trouble, cache, inc, sent, faults>>

\* A change in between leaves no count, and nothing is resolved by it.
BindCount ==
    LET p == proc[Maintenance] IN
    /\ At(Maintenance, "bind")
    /\ Becomes(Maintenance,
               IF version = p.before
               THEN [p EXCEPT !.pc = "write", !.binding = version, !.resolved = p.issue = 0]
               ELSE [p EXCEPT !.pc = "write", !.issue = 0])
    /\ UNCHANGED <<version, trouble, cache, inc, sent, faults>>

write_operation_snapshot ==
    LET p == proc[Maintenance] IN
    /\ At(Maintenance, "write")
    /\ cache' = [binding |-> p.binding, issue |-> p.issue]
    /\ Goto(Maintenance, "read")
    /\ UNCHANGED <<version, trouble, inc, sent, faults>>

-----------------------------------------------------------------------------
(* service_operation, in any process.                                      *)

StartHook(h) ==
    /\ At(h, "rest")
    /\ Becomes(h, [Idle EXCEPT !.pc = "read"])
    /\ UNCHANGED <<version, trouble, cache, inc, sent, faults>>

\* The issues of the pending store (accumulation, capacity, expiry) all need its count.
evaluate_health(known, issue) == IF known THEN issue ELSE 0

\* Without its binding the cached count is unknown.
_snapshot(o) ==
    /\ At(o, "read")
    /\ Becomes(o, [proc[o] EXCEPT
                       !.pc = "update",
                       !.issue = evaluate_health(cache.binding = version, cache.issue)])
    /\ UNCHANGED <<version, trouble, cache, inc, sent, faults>>

\* _new_incident and _merge_observation: a reopened incident is a new occurrence; a
\* graver observation is a new generation of the same one.
Observed(i, sev) ==
    IF i.status = "NONE"
    THEN [NoIncident EXCEPT !.status = "OPEN", !.sev = sev, !.gen = 1, !.occ = 1]
    ELSE IF i.status = "RESOLVED"
    THEN [i EXCEPT !.status = "OPEN", !.sev = sev, !.gen = @ + 1, !.occ = i.gen + 1]
    ELSE IF sev > i.sev THEN [i EXCEPT !.sev = sev, !.gen = @ + 1]
    ELSE i

update_incidents(o) ==
    LET p == proc[o] IN
    /\ At(o, "update")
    /\ inc' = IF p.issue > 0 THEN Observed(inc, p.issue)
              ELSE IF p.resolved /\ inc.status = "OPEN"
              THEN [inc EXCEPT !.status = "RESOLVED", !.gen = @ + 1]
              ELSE inc
    /\ Goto(o, "claim")
    /\ UNCHANGED <<version, trouble, cache, sent, faults>>

\* An attempt that failed, or whose end is not known, is tried again after an hour; a
\* resolution is announced only if its occurrence was; an open incident is announced
\* again after a day.
notification_due(i) ==
    /\ i.status # "NONE"
    /\ ~(i.del.result \in {"FAILED", "UNKNOWN"} /\ i.del.attempt = Fresh)
    /\ IF i.status = "RESOLVED"
       THEN i.del.succ >= i.occ /\ i.del.succ < i.gen
       ELSE i.del.succ < i.gen \/ i.del.succAge = Old

Leased(o) ==
    [gen |-> inc.gen, occ |-> inc.occ, by |-> o]

\* claim_notification decides under the lock, by the incident as it is now, and enters the
\* attempt as UNKNOWN before anything is sent.
claim_notification(o) ==
    /\ At(o, "claim")
    /\ IF notification_due(inc)
       THEN /\ inc' = [inc EXCEPT !.lease = Leased(o), !.prev = inc.del,
                                  !.del.attempt = Fresh, !.del.result = "UNKNOWN"]
            /\ Becomes(o, [proc[o] EXCEPT !.pc = "send", !.lease = Leased(o)])
       ELSE Becomes(o, Idle) /\ UNCHANGED inc
    /\ UNCHANGED <<version, trouble, cache, sent, faults>>

send_native_notification(o) ==
    /\ At(o, "send")
    /\ sent' = sent \cup {<<proc[o].lease.gen, Fresh>>}
    /\ Goto(o, "settle")
    /\ UNCHANGED <<version, trouble, cache, inc, faults>>

_matching_lease(o) ==
    /\ inc.lease = proc[o].lease
    /\ inc.gen = inc.lease.gen /\ inc.occ = inc.lease.occ

\* The budget ran short before the send: what was on record is restored.
abort_notification(o) ==
    /\ At(o, "send") /\ faults < MaxFaults
    /\ inc' = IF _matching_lease(o) THEN [inc EXCEPT !.del = inc.prev, !.lease = NoLease]
              ELSE inc
    /\ Becomes(o, Idle)
    /\ faults' = faults + 1
    /\ UNCHANGED <<version, trouble, cache, sent>>

\* Mutant: a send that returns is a success of the incident as it is by now.
SettleCurrent(o) ==
    /\ At(o, "settle")
    /\ inc' = [inc EXCEPT !.lease = NoLease, !.del.result = "SUCCESS",
                          !.del.succ = inc.gen, !.del.succAge = Fresh]
    /\ Becomes(o, Idle)
    /\ UNCHANGED <<version, trouble, cache, sent, faults>>

\* Only the exact lease is settled; an incident that moved on keeps its attempt UNKNOWN.
settle_notification(o) ==
    /\ At(o, "settle")
    /\ inc' = IF _matching_lease(o)
              THEN [inc EXCEPT !.lease = NoLease, !.del.result = "SUCCESS",
                               !.del.succ = proc[o].lease.gen, !.del.succAge = Fresh]
              ELSE inc
    /\ Becomes(o, Idle)
    /\ UNCHANGED <<version, trouble, cache, sent, faults>>

\* The desktop refuses the notification.
SendFails(o) ==
    /\ At(o, "send") /\ faults < MaxFaults
    /\ inc' = IF _matching_lease(o)
              THEN [inc EXCEPT !.lease = NoLease, !.del.result = "FAILED"] ELSE inc
    /\ Becomes(o, Idle)
    /\ faults' = faults + 1
    /\ UNCHANGED <<version, trouble, cache, sent>>

\* A death, or the end of the budget, between any two steps.
Die(o) ==
    /\ ~At(o, "rest") /\ faults < MaxFaults
    /\ Becomes(o, Idle)
    /\ faults' = faults + 1
    /\ UNCHANGED <<version, trouble, cache, inc, sent>>

-----------------------------------------------------------------------------
(* The surroundings.                                                       *)

\* What is in custody changes, and with it the stores' metadata.
CustodyChanges ==
    /\ version < MaxChanges
    /\ version' = version + 1
    /\ trouble' \in Severities
    /\ UNCHANGED <<cache, inc, proc, sent, faults>>

Older(age) == IF age = Old THEN Old ELSE age + 1

\* An hour passes: a cache outlives its time, which is longer than a maintenance run.  A
\* claim is sent or given up within the budget, which is seconds.
Tick ==
    /\ \A o \in Observers : ~At(o, "send") /\ ~At(o, "settle")
    /\ cache' = IF At(Maintenance, "rest") THEN NoCache ELSE cache
    /\ inc' = [inc EXCEPT !.del.attempt = Older(@), !.del.succAge = Older(@),
                          !.prev.attempt = Older(@), !.prev.succAge = Older(@)]
    /\ sent' = {<<s[1], Older(s[2])>> : s \in sent}
    /\ UNCHANGED <<version, trouble, proc, faults>>

Service(o) ==
    \/ _snapshot(o) \/ update_incidents(o) \/ claim_notification(o)
    \/ send_native_notification(o) \/ settle_notification(o)

Maintain ==
    \/ _stat_binding \/ CountCustody \/ BindCount \/ write_operation_snapshot
    \/ Service(Maintenance)

Next ==
    \/ Maintain \/ Tick \/ CustodyChanges
    \/ \E h \in Hooks : StartHook(h) \/ Service(h)
    \/ \E o \in Observers : abort_notification(o) \/ SendFails(o) \/ Die(o)

Spec == Init /\ [][Next]_vars

\* Maintenance is scheduled, no process is suspended for good, and time goes on.
Fairness == WF_vars(Maintain) /\ (\A h \in Hooks : WF_vars(Service(h))) /\ SF_vars(Tick)
FairSpec == Spec /\ Fairness

-----------------------------------------------------------------------------
\* The validator every reader applies to the file; what fails it is corrupt for good.
_validate_incident(i) ==
    /\ i.occ <= i.gen
    /\ \A d \in {i.del, i.prev} : d.succ <= i.gen
    /\ i.lease # NoLease => /\ i.lease.gen \in 1..i.gen /\ i.lease.occ \in 1..i.lease.gen
                           /\ i.del.result = "UNKNOWN"

\* Whatever claims, settlements, aborts and observations overlap, the incident file passes
\* the validator of the next reader.
IncidentIsReadable == _validate_incident(inc)

\* A recorded success is of a generation that was shown: an old send is never promoted
\* into evidence for the recurrence that overtook it (settle_notification).
SuccessWasShown == inc.del.succ > 0 => \E s \in sent : s[1] = inc.del.succ

\* What an observer takes for an issue is so when it reads it: the binding of the cached
\* count catches every change during and after the count (an action predicate).
IssueIsCurrent ==
    \A o \in Observers : At(o, "read") /\ proc'[o].pc = "update" /\ proc'[o].issue > 0
                             => proc'[o].issue = trouble

\* Of one generation nothing is shown twice within the hour, whoever dies, overruns or
\* races for the claim (an action predicate).
ShownOncePerHour ==
    \A o \in Observers :
        At(o, "send") /\ proc'[o].pc = "settle" => <<proc[o].lease.gen, Fresh>> \notin sent

\* Trouble that stays is shown in the end, in its last generation; and what has passed
\* does not stay open.
Shown == trouble > 0 => inc.status = "OPEN" /\ inc.del.succ = inc.gen
Closed == trouble = 0 => inc.status # "OPEN"
=============================================================================
