------------------------------ MODULE Intake -------------------------------
(***************************************************************************)
(* What is observed and reported: host hooks, source recovery, the         *)
(* close-out, team events, incidents and the notification helper.          *)
(* A behaviour is a behaviour of one of these components, named by part.   *)
(***************************************************************************)
EXTENDS Integers, FiniteSets, Sequences

CONSTANTS
    \* Hooks
    Agents, Keys, Turns, MaxPerSession, CaptureFaults,
    \* Sources
    Contents, Private, Missing, SourceChanges, SourceFaults,
    \* Closeout
    Live, Maint, Targets, OwnCaptures, CloseoutFaults,
    \* Operation
    HookCalls, Maintenance, OperationChanges, OperationFaults,
    \* Team
    Machines, Events, Owner, Readers, TeamFaults,
    \* Notification
    HelperFaults

VARIABLES
    part,    \* the component of this behaviour; the others' variables are "unused"
    named, events, intent, receipts, lock, agent, target, unknown, scoped, binding, hook,
    faults, file, cursor, seen, plan, bound, stored, expired, run, changes, store, rec,
    body, marked, delivered, incident, call, acked, version, trouble, cache, inc, proc,
    sent, online, partial, leftover, receipt, ref, spool, prepared, deliver, result, drain,
    reader, art, tx
vars == <<part, named, events, intent, receipts, lock, agent, target, unknown, scoped,
          binding, hook, faults, file, cursor, seen, plan, bound, stored, expired, run,
          changes, store, rec, body, marked, delivered, incident, call, acked, version,
          trouble, cache, inc, proc, sent, online, partial, leftover, receipt, ref, spool,
          prepared, deliver, result, drain, reader, art, tx>>

H == INSTANCE Hooks WITH MaxFaults <- CaptureFaults
S == INSTANCE Sources WITH MaxChanges <- SourceChanges, MaxFaults <- SourceFaults
C == INSTANCE Closeout WITH MaxFaults <- CloseoutFaults
O == INSTANCE Operation WITH Hooks <- HookCalls, MaxChanges <- OperationChanges, MaxFaults <- OperationFaults
T == INSTANCE Team WITH MaxFaults <- TeamFaults
N == INSTANCE Notification WITH MaxFaults <- HelperFaults

\* A session has finitely many observations and a limit (capture_max_per_session), and a
\* source is a sequence of records.
ASSUME ObservationsAreFinite == IsFiniteSet(Keys) /\ MaxPerSession \in Nat
ASSUME ContentsAreSequences == Contents \subseteq Seq(S!Records)

\* The rest of the variables while a component runs.
BesideH == <<part, file, cursor, seen, plan, bound, stored, expired, run, changes, store,
            rec, body, marked, delivered, incident, call, acked, version, trouble, cache,
            inc, proc, sent, online, partial, leftover, receipt, ref, spool, prepared,
            deliver, result, drain, reader, art, tx>>
BesideS == <<part, events, intent, receipts, lock, agent, target, unknown, scoped, binding,
            hook, store, rec, body, marked, delivered, incident, call, acked, version,
            trouble, cache, inc, proc, sent, online, partial, leftover, receipt, ref, spool,
            prepared, deliver, result, drain, reader, art, tx>>
BesideC == <<part, named, events, intent, lock, agent, target, unknown, scoped, hook, file,
            cursor, seen, plan, bound, stored, run, changes, version, trouble, cache, inc,
            proc, sent, online, partial, leftover, receipt, ref, spool, prepared, deliver,
            result, drain, reader, art, tx>>
BesideO == <<part, named, events, intent, receipts, lock, agent, target, unknown, scoped,
            binding, hook, file, cursor, seen, plan, bound, stored, expired, run, changes,
            store, rec, body, marked, delivered, incident, call, acked, online, partial,
            leftover, receipt, ref, spool, prepared, deliver, result, drain, reader, art,
            tx>>
BesideT == <<part, named, events, intent, receipts, lock, agent, target, unknown, scoped,
            binding, hook, file, cursor, seen, plan, stored, expired, run, changes, rec,
            body, marked, delivered, incident, call, acked, version, trouble, inc, proc,
            sent, art, tx>>
BesideN == <<part, named, events, intent, receipts, lock, agent, target, unknown, scoped,
            binding, hook, file, cursor, seen, plan, bound, stored, expired, changes, store,
            rec, body, marked, delivered, incident, call, acked, version, trouble, cache,
            inc, proc, sent, online, partial, leftover, ref, spool, prepared, deliver,
            result, drain, reader>>

Init ==
    \/ /\ H!Init
       /\ part = "hooks" /\ file = "unused" /\ cursor = "unused" /\ seen = "unused"
       /\ plan = "unused" /\ bound = "unused" /\ stored = "unused" /\ expired = "unused"
       /\ run = "unused" /\ changes = "unused" /\ store = "unused" /\ rec = "unused"
       /\ body = "unused" /\ marked = "unused" /\ delivered = "unused"
       /\ incident = "unused" /\ call = "unused" /\ acked = "unused" /\ version = "unused"
       /\ trouble = "unused" /\ cache = "unused" /\ inc = "unused" /\ proc = "unused"
       /\ sent = "unused" /\ online = "unused" /\ partial = "unused"
       /\ leftover = "unused" /\ receipt = "unused" /\ ref = "unused" /\ spool = "unused"
       /\ prepared = "unused" /\ deliver = "unused" /\ result = "unused"
       /\ drain = "unused" /\ reader = "unused" /\ art = "unused" /\ tx = "unused"
    \/ /\ S!Init
       /\ part = "sources" /\ events = "unused" /\ intent = "unused" /\ receipts = "unused"
       /\ lock = "unused" /\ agent = "unused" /\ target = "unused" /\ unknown = "unused"
       /\ scoped = "unused" /\ binding = "unused" /\ hook = "unused" /\ store = "unused"
       /\ rec = "unused" /\ body = "unused" /\ marked = "unused" /\ delivered = "unused"
       /\ incident = "unused" /\ call = "unused" /\ acked = "unused" /\ version = "unused"
       /\ trouble = "unused" /\ cache = "unused" /\ inc = "unused" /\ proc = "unused"
       /\ sent = "unused" /\ online = "unused" /\ partial = "unused" /\ leftover = "unused"
       /\ receipt = "unused" /\ ref = "unused" /\ spool = "unused" /\ prepared = "unused"
       /\ deliver = "unused" /\ result = "unused" /\ drain = "unused" /\ reader = "unused"
       /\ art = "unused" /\ tx = "unused"
    \/ /\ C!Init
       /\ part = "closeout" /\ named = "unused" /\ events = "unused" /\ intent = "unused"
       /\ lock = "unused" /\ agent = "unused" /\ target = "unused" /\ unknown = "unused"
       /\ scoped = "unused" /\ hook = "unused" /\ file = "unused" /\ cursor = "unused"
       /\ seen = "unused" /\ plan = "unused" /\ bound = "unused" /\ stored = "unused"
       /\ run = "unused" /\ changes = "unused" /\ version = "unused" /\ trouble = "unused"
       /\ cache = "unused" /\ inc = "unused" /\ proc = "unused" /\ sent = "unused"
       /\ online = "unused" /\ partial = "unused" /\ leftover = "unused"
       /\ receipt = "unused" /\ ref = "unused" /\ spool = "unused" /\ prepared = "unused"
       /\ deliver = "unused" /\ result = "unused" /\ drain = "unused" /\ reader = "unused"
       /\ art = "unused" /\ tx = "unused"
    \/ /\ O!Init
       /\ part = "operation" /\ named = "unused" /\ events = "unused" /\ intent = "unused"
       /\ receipts = "unused" /\ lock = "unused" /\ agent = "unused" /\ target = "unused"
       /\ unknown = "unused" /\ scoped = "unused" /\ binding = "unused" /\ hook = "unused"
       /\ file = "unused" /\ cursor = "unused" /\ seen = "unused" /\ plan = "unused"
       /\ bound = "unused" /\ stored = "unused" /\ expired = "unused" /\ run = "unused"
       /\ changes = "unused" /\ store = "unused" /\ rec = "unused" /\ body = "unused"
       /\ marked = "unused" /\ delivered = "unused" /\ incident = "unused"
       /\ call = "unused" /\ acked = "unused" /\ online = "unused" /\ partial = "unused"
       /\ leftover = "unused" /\ receipt = "unused" /\ ref = "unused" /\ spool = "unused"
       /\ prepared = "unused" /\ deliver = "unused" /\ result = "unused" /\ drain = "unused"
       /\ reader = "unused" /\ art = "unused" /\ tx = "unused"
    \/ /\ T!Init
       /\ part = "team" /\ named = "unused" /\ events = "unused" /\ intent = "unused"
       /\ receipts = "unused" /\ lock = "unused" /\ agent = "unused" /\ target = "unused"
       /\ unknown = "unused" /\ scoped = "unused" /\ binding = "unused" /\ hook = "unused"
       /\ file = "unused" /\ cursor = "unused" /\ seen = "unused" /\ plan = "unused"
       /\ stored = "unused" /\ expired = "unused" /\ run = "unused" /\ changes = "unused"
       /\ rec = "unused" /\ body = "unused" /\ marked = "unused" /\ delivered = "unused"
       /\ incident = "unused" /\ call = "unused" /\ acked = "unused" /\ version = "unused"
       /\ trouble = "unused" /\ inc = "unused" /\ proc = "unused" /\ sent = "unused"
       /\ art = "unused" /\ tx = "unused"
    \/ /\ N!Init
       /\ part = "notification" /\ named = "unused" /\ events = "unused"
       /\ intent = "unused" /\ receipts = "unused" /\ lock = "unused" /\ agent = "unused"
       /\ target = "unused" /\ unknown = "unused" /\ scoped = "unused" /\ binding = "unused"
       /\ hook = "unused" /\ file = "unused" /\ cursor = "unused" /\ seen = "unused"
       /\ plan = "unused" /\ bound = "unused" /\ stored = "unused" /\ expired = "unused"
       /\ changes = "unused" /\ store = "unused" /\ rec = "unused" /\ body = "unused"
       /\ marked = "unused" /\ delivered = "unused" /\ incident = "unused"
       /\ call = "unused" /\ acked = "unused" /\ version = "unused" /\ trouble = "unused"
       /\ cache = "unused" /\ inc = "unused" /\ proc = "unused" /\ sent = "unused"
       /\ online = "unused" /\ partial = "unused" /\ leftover = "unused" /\ ref = "unused"
       /\ spool = "unused" /\ prepared = "unused" /\ deliver = "unused" /\ result = "unused"
       /\ drain = "unused" /\ reader = "unused"
Next ==
    \/ part = "hooks" /\ H!Next /\ UNCHANGED BesideH
    \/ part = "sources" /\ S!Next /\ UNCHANGED BesideS
    \/ part = "closeout" /\ C!Next /\ UNCHANGED BesideC
    \/ part = "operation" /\ O!Next /\ UNCHANGED BesideO
    \/ part = "team" /\ T!Next /\ UNCHANGED BesideT
    \/ part = "notification" /\ N!Next /\ UNCHANGED BesideN
Spec == Init /\ [][Next]_vars

\* The fairness of each component, for the behaviours that are its own.
FairSpec ==
    /\ Spec
    /\ \A t \in Turns : WF_<<H!vars>>(part = "hooks" /\ H!Handle(t))
    /\ WF_<<S!vars>>(part = "sources" /\ S!recover_page)
    /\ WF_<<S!vars>>(part = "sources" /\ S!Progress)
    /\ WF_<<C!vars>>(part = "closeout" /\ C!Expire)
    /\ \A p \in C!Calls :
          /\ WF_<<C!vars>>(part = "closeout" /\ C!Work(p))
          /\ WF_<<C!vars>>(part = "closeout" /\ C!Recover(p))
    /\ WF_<<O!vars>>(part = "operation" /\ O!Maintain)
    /\ \A h \in HookCalls : WF_<<O!vars>>(part = "operation" /\ O!Service(h))
    /\ SF_<<O!vars>>(part = "operation" /\ O!Tick)
    /\ WF_<<T!vars>>(part = "team" /\ T!Return)
    /\ \A m \in Machines :
          /\ WF_<<T!vars>>(part = "team" /\ T!BindBack(m))
          /\ WF_<<T!vars>>(part = "team" /\ T!Maintain(m))
    /\ \A e \in Events :
          WF_<<T!vars>>(part = "team" /\ (T!deliver_prepared_team_routing(e) \/ T!Deliver(e)))
    /\ \A r \in DOMAIN Readers : WF_<<T!vars>>(part = "team" /\ T!Refresh(r))
    /\ WF_<<N!vars>>(part = "notification" /\ N!Progress)

-----------------------------------------------------------------------------
\* What is observed is stored once, whichever program, route or version of its source it
\* comes by; a session has no more captures than its limit; a cursor passes nothing over that
\* was neither stored nor refused; what a hook answers "ok" to is on record in the ledger, whether
\* or not it could be bound to its place of work (_record_agent_locked, coordinate_record,
\* _handle_normalized_hook).
ObservedIsStoredOnce ==
    /\ part = "hooks" => H!SessionLimit /\ H!CapturedOnce /\ H!OkIsRegistered
    /\ part = "sources" => S!StoredOnce /\ S!SkippedIsSettled

\* A target is secured only by a candidate of its own or by the applied item of a close-out
\* decided YES, whatever becomes of its own pending capture before or after; a close-out is
\* acknowledged only when it is complete; and a loss leaves the index only when it is
\* reported (merge_receipt, _commit_receipts, _cleanup_lost_closeout).
CloseoutIsProven ==
    /\ [](part = "closeout" => C!ProofMeansDecided)
    /\ [][part = "closeout" =>
             C!LossIsReported /\ \A p \in C!Calls : C!AckIsComplete(p)]_vars

\* The incident file passes its own validator, a recorded success is of a generation that
\* was shown, nothing is shown twice within the hour, and what an observer takes for an
\* issue is so when it reads it (settle_notification, claim_notification).
IncidentsAreTrue ==
    /\ [](part = "operation" => O!IncidentIsReadable /\ O!SuccessWasShown)
    /\ [][part = "operation" => O!ShownOncePerHour /\ O!IssueIsCurrent]_vars

\* What was reported as recorded is in the shared store; what was handed over is there or in
\* the outbox, and within its time to live the ciphertext is deleted only when the event is
\* in the store (append_team_event, drain_team_outbox, gc_expired_spool).
ReportIsDurable == part = "team" => T!ReportIsDurable /\ T!ReleasedIsStored

\* A shortcut or record that somebody else made is never removed or replaced
\* (_ensure_windows_notification_registration).
ForeignIsKept == [][part = "notification" => N!ForeignIsKept]_vars

\* What was begun is finished: a host is answered; a record that stays in its file is
\* stored unless one before it ends every page; a close-out leaves the index; trouble that
\* stays is shown, and what has passed does not stay open; deferred team events are
\* delivered, unless a partial file bars them or their ciphertext was collected after its
\* time, what was delivered gives its ciphertext back, and every projection catches up; and
\* a removal that was begun ends.
IntakeProgresses ==
    /\ \A t \in Turns : []<>(part = "hooks" => H!Answered(t))
    /\ \A r \in S!Records \ Private : []<>(part = "sources" => S!Reached(r))
    /\ []<>(part = "closeout" => C!Ended)
    /\ []<>(part = "operation" => O!Shown)
    /\ []<>(part = "operation" => O!Closed)
    /\ \A e \in Events :
          /\ []<>(part = "team" => T!Released(e))
          /\ []<>(part = "team" => T!Retried(e))
          /\ \A m \in Machines : []<>(part = "team" => T!CaughtUp(e, m))
    /\ []<>(part = "notification" => N!Removed)
=============================================================================
