---------------------------- MODULE Maintenance ----------------------------
(***************************************************************************)
(* One maintenance run after another: run_maintenance (maintainer.py), its *)
(* stages in order, what each gets of the time budget and what the failure *)
(* of one does to the ones after it.  maintenance.lock admits one run at a *)
(* time (Locks); captures and `drain` commands go on meanwhile.            *)
(*                                                                         *)
(* Time is counted in hundredths of the budget, the unit in which the code *)
(* shares it out.  A stage normally takes no time worth counting; in a bad *)
(* run any stage may use all it is given, and Slack more before it looks   *)
(* at the clock again, or it may fail.                                     *)
(***************************************************************************)
EXTENDS Naturals, FiniteSets

CONSTANTS MaxVersion,  \* bound: states of the journal that change the projection
          MaxBad,      \* bound: bad runs
          Slack        \* what a stage takes after its time is over

VARIABLES pc, clock, bad,   \* the stage at hand, the time, whether this run is bad
          errs,        \* errors recorded so far: of the "storage", or any "other"
          journal,     \* how many such events there are
          base,        \* those of them the run found or appended itself
          events,      \* the snapshot the stages work on, None after a failed reading
          projection,  \* what this run projected, or None
          fresh,       \* what the freshness check said
          index,       \* what the knowledge directory shows
          drain,       \* a drain from the command line: None or the state it projects
          sync, observed,
          incident,    \* STORAGE_UNAVAILABLE of the projection is open
          bads
vars == <<pc, clock, bad, errs, journal, base, events, projection, fresh, index, drain,
          sync, observed, incident, bads>>
result == <<events, projection, fresh, sync, observed>>

None == 99
Total == 100
Stages == <<"snapshot", "pending", "source_recovery", "closeout_recovery", "spool_gc", "queue_drain",
            "journal", "lifecycle", "reread", "projection", "quality_audit", "team", "freshness",
            "sync", "scheduler", "operation_health", "operation_service">>
After(s) == IF s = "operation_service" THEN "idle"
            ELSE LET i == CHOOSE i \in DOMAIN Stages : Stages[i] = s IN Stages[i + 1]
Earlier(a, b) == IF a < b THEN a ELSE b

\* child_budget: when the time of a stage is over.  The early stages share a
\* fifth of the budget; the queue leaves 40 to the later ones, those 5 to the
\* report, and the report 2 to the caller's log.
End(s) ==
    CASE s = "snapshot" -> Earlier(20, clock + 2)
      [] s = "pending" -> Earlier(20, clock + 3)
      [] s = "source_recovery" -> 20 - (2 + 5)
      [] s = "closeout_recovery" -> 20 - 5
      [] s = "spool_gc" -> 20
      [] s = "queue_drain" -> Total - 40
      [] s \in {"operation_health", "operation_service"} -> Total - 2
      [] OTHER -> Total - 5

\* phase: what can become of a stage.
Outcome(t, w, d) == [time |-> t, why |-> w, done |-> d]
Late(s) == End(s) - clock + Slack
phase(s) ==
    IF clock >= End(s) THEN {Outcome(0, {"other"}, FALSE)}
    ELSE {Outcome(0, {}, TRUE)} \cup
         IF ~bad THEN {}
         ELSE {Outcome(Late(s), {}, TRUE), Outcome(Late(s), {"other"}, FALSE),
               Outcome(0, {"other"}, FALSE), Outcome(0, {"storage"}, FALSE)}
Pass(s, o, more) == /\ pc = s /\ pc' = After(s)
                    /\ clock' = clock + o.time
                    /\ errs' = errs \cup o.why \cup more

Init == /\ pc = "idle" /\ clock = 0 /\ bad = FALSE /\ errs = {} /\ journal = 0 /\ base = 0
        /\ events = None /\ projection = None /\ fresh = "none" /\ index = 0 /\ drain = None
        /\ sync = "none" /\ observed = FALSE /\ incident = FALSE /\ bads = 0

Start == /\ pc = "idle" /\ pc' = "snapshot"
         /\ bad' \in (IF bads < MaxBad THEN BOOLEAN ELSE {FALSE})
         /\ bads' = IF bad' THEN bads + 1 ELSE bads
         /\ clock' = 0 /\ errs' = {} /\ base' = journal
         /\ events' = None /\ projection' = None /\ fresh' = "none"
         /\ sync' = "none" /\ observed' = FALSE
         /\ UNCHANGED <<journal, index, drain, incident>>

\* A stage whose own effects other modules describe.
Quiet(s) == /\ \E o \in phase(s) : Pass(s, o, {})
            /\ UNCHANGED <<result, bad, journal, base, index, drain, incident, bads>>
last_maintenance_activity == Quiet("snapshot")
reconcile_pending == Quiet("pending")        \* Pipeline
gc_expired_spool == Quiet("spool_gc")        \* Pipeline
_quality_audits == Quiet("quality_audit")    \* its audit events are not projected
inspect_scheduler_opportunities == Quiet("scheduler")
\* _maintain_team (Team), after all personal work: whatever fails in the shared
\* folder is a status of the team's, only the end of the time is an error.
_maintain_team ==
    /\ \E o \in phase("team") : /\ o.done \/ o.time > 0 \/ clock >= End("team")
                                /\ Pass("team", o, {})
    /\ UNCHANGED <<result, bad, journal, base, index, drain, incident, bads>>
\* What the run itself appends to the journal.
Append(n) == /\ journal + n <= MaxVersion
             /\ journal' = journal + n
             /\ base' = IF n = 0 THEN base ELSE journal + n
\* _ingest: a source that is missing is an error of an otherwise good run.
_ingest == /\ \E o \in phase("source_recovery"), e \in {{}, {"other"}}, n \in 0..1 :
                 Pass("source_recovery", o, e) /\ Append(n)
           /\ UNCHANGED <<result, bad, index, drain, incident, bads>>
\* recover_closeout_associations: so is a record that is lost or unreadable.
CloseoutRecovery ==
    /\ \E o \in phase("closeout_recovery"), e \in {{}, {"other"}} :
          Pass("closeout_recovery", o, IF o.done THEN e ELSE {"other"})
    /\ UNCHANGED <<result, bad, journal, base, index, drain, incident, bads>>
\* drain_queue projects after every change set it applies.
QueueDrain == /\ \E o \in phase("queue_drain"), n \in 0..1 :
                    /\ Pass("queue_drain", o, {}) /\ Append(n)
                    /\ index' = IF n = 1 THEN journal' ELSE index
              /\ UNCHANGED <<result, bad, drain, incident, bads>>

ReadJournal(s) == /\ \E o \in phase(s) : /\ Pass(s, o, {})
                                         /\ events' = IF o.done THEN journal ELSE None
                  /\ UNCHANGED <<projection, fresh, sync, observed, bad, journal, base, index,
                                 drain, incident, bads>>
\* reconcile_lifecycle on the snapshot; when it has appended something, or has
\* failed and may have, the journal is read again.
Lifecycle ==
    IF events = None
    THEN /\ pc = "lifecycle" /\ pc' = "projection"
         /\ UNCHANGED <<result, clock, bad, errs, journal, base, index, drain, incident, bads>>
    ELSE /\ \E o \in phase("lifecycle"), n \in 0..1 :
              /\ Append(n)
              /\ IF o.done /\ n = 0
                 THEN /\ pc = "lifecycle" /\ pc' = "projection"
                      /\ clock' = clock + o.time /\ UNCHANGED errs
                 ELSE Pass("lifecycle", o, {})
         /\ UNCHANGED <<result, bad, index, drain, incident, bads>>
\* project_events (Projection) on the snapshot.
Project ==
    /\ IF events = None
       THEN /\ pc = "projection" /\ pc' = "quality_audit"
            /\ UNCHANGED <<clock, errs, projection, index>>
       ELSE \E o \in phase("projection") :
              /\ Pass("projection", o, {})
              /\ projection' = IF o.done THEN events ELSE None
              /\ index' = IF o.done THEN events ELSE index
    /\ UNCHANGED <<events, fresh, sync, observed, bad, journal, base, drain, incident, bads>>
\* check_freshness: is the journal still what was projected?
CheckFreshness ==
    /\ IF projection = None
       THEN /\ pc = "freshness" /\ pc' = "sync" /\ UNCHANGED <<clock, errs, fresh>>
       ELSE \E o \in phase("freshness") :
              LET f == IF ~o.done THEN "UNKNOWN" ELSE IF projection = journal THEN "CURRENT" ELSE "STALE"
              IN Pass("freshness", o, IF f = "STALE" THEN {"other"} ELSE {}) /\ fresh' = f
    /\ UNCHANGED <<events, projection, sync, observed, bad, journal, base, index, drain, incident, bads>>
\* Mutant: the gate is left out.
SyncAnyway ==
    /\ \E o \in phase("sync") : /\ Pass("sync", o, {})
                                /\ sync' = IF o.done THEN "success" ELSE "blocked"
    /\ UNCHANGED <<events, projection, fresh, observed, bad, journal, base, index, drain, incident, bads>>
\* sync_once (Sync), in a run without an error so far.
SyncGate ==
    /\ IF errs # {}
       THEN /\ pc = "sync" /\ pc' = "scheduler" /\ sync' = "blocked" /\ UNCHANGED <<clock, errs>>
       ELSE \E o \in phase("sync") : /\ Pass("sync", o, {})
                                     /\ sync' = IF o.done THEN "success" ELSE "blocked"
    /\ UNCHANGED <<events, projection, fresh, observed, bad, journal, base, index, drain, incident, bads>>
OperationHealth ==
    /\ \E o \in phase("operation_health") : Pass("operation_health", o, {}) /\ observed' = o.done
    /\ UNCHANGED <<events, projection, fresh, sync, bad, journal, base, index, drain, incident, bads>>
\* service_operation (Operation): the fault of a stage opens the incident, a
\* projection that is current closes it.
OperationService ==
    /\ \E o \in phase("operation_service") :
          /\ Pass("operation_service", o, {})
          /\ incident' = IF ~(o.done /\ observed) THEN incident
                         ELSE IF "storage" \in errs THEN TRUE
                         ELSE incident /\ ~(projection # None /\ fresh = "CURRENT")
    /\ UNCHANGED <<result, bad, journal, base, index, drain, bads>>

Step == \/ last_maintenance_activity \/ reconcile_pending \/ gc_expired_spool
        \/ _quality_audits \/ _maintain_team \/ inspect_scheduler_opportunities
        \/ _ingest \/ CloseoutRecovery \/ QueueDrain
        \/ ReadJournal("journal") \/ Lifecycle \/ ReadJournal("reread") \/ Project
        \/ CheckFreshness \/ SyncGate \/ OperationHealth \/ OperationService

\* Meanwhile: a capture appends, and so does a drain, which then projects the
\* events it has read.
Capture == /\ journal < MaxVersion /\ journal' = journal + 1
           /\ UNCHANGED <<pc, clock, bad, errs, base, result, index, drain, incident, bads>>
Drain == /\ \/ drain = None /\ journal < MaxVersion /\ journal' = journal + 1
               /\ drain' = journal' /\ UNCHANGED index
            \/ drain # None /\ index' = drain /\ drain' = None /\ UNCHANGED journal
         /\ UNCHANGED <<pc, clock, bad, errs, base, result, incident, bads>>

Next == Start \/ Step \/ Capture \/ Drain
Spec == Init /\ [][Next]_vars
\* The scheduler starts run after run, and a run or a drain that has started ends.
FairSpec == Spec /\ WF_vars(Start) /\ WF_vars(Step) /\ WF_vars(drain # None /\ Drain)

----------------------------------------------------------------------------
\* No stage that uses up its time, and is even late to notice, takes the turn
\* of one the reserves are for: recovery of captures and close-outs, the queue,
\* the reading of the journal and the report are all attempted in every run.
StagesGetTheirTurn ==
    pc \in {"snapshot", "pending", "source_recovery", "closeout_recovery", "spool_gc", "queue_drain",
            "journal", "operation_health"} => clock < End(pc)

\* A run synchronises only after it has projected everything that was in the
\* journal when it began and everything it appended itself.
SyncIsCurrent == (pc = "sync" /\ sync' = "success") => (projection # None /\ projection >= base)

============================================================================
