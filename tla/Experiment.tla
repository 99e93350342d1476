---------------------------- MODULE Experiment ----------------------------
(***************************************************************************)
(* The A/B measurement of recall: a prompt hook that assigns a session to  *)
(* an arm, records the exposure and shows or withholds the context         *)
(* (prepare_exposure, experiment.py; handle_hook, hook_entry.py), the      *)
(* outcomes recorded later (measurement_events.py), and the report that    *)
(* decides whether an effect may be claimed (summarize_experiment).        *)
(*                                                                         *)
(* An identifier is <<session, n>>, n the number of times it was hashed.   *)
(* A line of the log is a record, whole if its text still parses, ended if *)
(* its newline was written; text after an unended line joins that line.    *)
(* The length of the experiment and the estimated power are left to chance.*)
(***************************************************************************)
EXTENDS Naturals, Sequences, FiniteSets

CONSTANTS Sessions,
          Arm,          \* Arm[id]: what the first byte of the digest of id says
          Minimum,      \* minimum_sessions_per_variant
          MaxPrompts, MaxOutcomes, MaxEdits, MaxFaults   \* bounds

VARIABLES pc, seen,     \* each session's hook; the log as it began to read it
          prompts,      \* prompts of each session so far
          log,          \* experiment-exposures.jsonl
          shown,        \* the prompts that were answered with context
          outcomes,     \* outcomes.jsonl
          protocol,     \* the registered protocol
          report, edits, faults
vars == <<pc, seen, prompts, log, shown, outcomes, protocol, report, edits, faults>>

fingerprint(id) == <<id[1], id[2] + 1>>
_canonical_session_hash(id) == IF id[2] = 0 THEN fingerprint(id) ELSE id
assign_arm(id) == Arm[_canonical_session_hash(id)]

\* A hook event carries the hash of the session (hooks/base.py).
session_id_hash(s) == fingerprint(<<s, 0>>)
ExposureRecord(session, task, arm) ==
    [session |-> session, task |-> task, arm |-> arm, protocol |-> protocol,
     whole |-> TRUE, ended |-> TRUE]
OutcomeRecord(session, task, verified) ==
    [session |-> session, task |-> task, verified |-> verified]
\* The record prepare_exposure makes: the arm is that of the identifier it was
\* given, the session it names is that identifier's fingerprint.
Exposure(s) == LET id == session_id_hash(s)
               IN ExposureRecord(fingerprint(id), prompts[s], assign_arm(id))
Treated(s) == assign_arm(session_id_hash(s)) = "treatment"
Key(r) == <<r.session, r.task>>

NoReport == [claim |-> FALSE, exposures |-> <<>>, outcomes |-> <<>>, protocol |-> 0]
Init == /\ pc = [s \in Sessions |-> "idle"] /\ seen = [s \in Sessions |-> <<>>]
        /\ prompts = [s \in Sessions |-> 0] /\ log = <<>> /\ shown = {} /\ outcomes = <<>>
        /\ protocol = 1 /\ report = NoReport /\ edits = 0 /\ faults = 0

\* handle_hook, a prompt: _append_legacy_exposure begins to read the log.
Prompt(s) == /\ pc[s] = "idle" /\ prompts[s] < MaxPrompts
             /\ pc' = [pc EXCEPT ![s] = "scan"]
             /\ seen' = [seen EXCEPT ![s] = log]
             /\ prompts' = [prompts EXCEPT ![s] = @ + 1]
             /\ UNCHANGED <<log, shown, outcomes, protocol, report, edits, faults>>
\* Mutant: a log that cannot be read is no reason to withhold the context.
ScanSwallowed(s) ==
    /\ pc[s] = "scan"
    /\ pc' = [pc EXCEPT ![s] = IF seen[s] = log THEN "append" ELSE "deliver"]
    /\ seen' = [seen EXCEPT ![s] = <<>>]
    /\ UNCHANGED <<prompts, log, shown, outcomes, protocol, report, edits, faults>>
\* _log_lines: a log that has changed meanwhile is MEASUREMENT_LOG_CHANGED, and
\* the hook fails open.
Scan(s) == /\ pc[s] = "scan"
           /\ pc' = [pc EXCEPT ![s] = IF seen[s] = log THEN "append" ELSE "idle"]
           /\ seen' = [seen EXCEPT ![s] = <<>>]
           /\ UNCHANGED <<prompts, log, shown, outcomes, protocol, report, edits, faults>>
\* _append_log_line: in append mode, so that lines of two hooks do not mix;
\* nobody looks whether the line before has its newline.
Written(line) ==
    IF log # <<>> /\ ~log[Len(log)].ended
    THEN [log EXCEPT ![Len(log)] = [line EXCEPT !.whole = FALSE]]
    ELSE Append(log, line)
AppendExposure(s) ==
    /\ pc[s] = "append" /\ pc' = [pc EXCEPT ![s] = "deliver"]
    /\ log' = Written(Exposure(s))
    /\ UNCHANGED <<seen, prompts, shown, outcomes, protocol, report, edits, faults>>
\* The write is cut, by a full disk or the end of the process, before its newline.
CutAppend(s) ==
    /\ pc[s] = "append" /\ pc' = [pc EXCEPT ![s] = "idle"]
    /\ faults < MaxFaults /\ faults' = faults + 1
    /\ \E whole \in BOOLEAN :
          log' = Written([Exposure(s) EXCEPT !.whole = whole, !.ended = FALSE])
    /\ UNCHANGED <<seen, prompts, shown, outcomes, protocol, report, edits>>
\* The context of a treated session, unless the deadline is over by now.
Deliver(s) ==
    /\ pc[s] = "deliver" /\ pc' = [pc EXCEPT ![s] = "idle"]
    /\ \E late \in IF faults < MaxFaults THEN BOOLEAN ELSE {FALSE} :
          /\ shown' = IF Treated(s) /\ ~late THEN shown \cup {<<s, prompts[s]>>} ELSE shown
          /\ faults' = IF late THEN faults + 1 ELSE faults
    /\ UNCHANGED <<seen, prompts, log, outcomes, protocol, report, edits>>
\* A time-out, an error or the end of the process, at any point: no context.
Fail(s) == /\ pc[s] # "idle" /\ faults < MaxFaults /\ faults' = faults + 1
           /\ pc' = [pc EXCEPT ![s] = "idle"] /\ seen' = [seen EXCEPT ![s] = <<>>]
           /\ UNCHANGED <<prompts, log, shown, outcomes, protocol, report, edits>>

\* record_outcome: for any prompt there was, its exposure recorded or not; the
\* source of a metric may be unknown.
record_outcome(s, t, verified) ==
    /\ t <= prompts[s] /\ Len(outcomes) < MaxOutcomes
    /\ outcomes' = Append(outcomes, OutcomeRecord(fingerprint(session_id_hash(s)), t, verified))
    /\ UNCHANGED <<pc, seen, prompts, log, shown, protocol, report, edits, faults>>
EditProtocol == /\ edits < MaxEdits /\ edits' = edits + 1 /\ protocol' = protocol + 1
                /\ UNCHANGED <<pc, seen, prompts, log, shown, outcomes, report, faults>>

\* A line whose text does not parse is skipped in silence.
Readable == {i \in DOMAIN log : log[i].whole}
\* summarize_experiment, its first pass: the records that count, each once.
Fresh(i) == \A k \in Readable \cap 1..(i - 1) : Key(log[k]) # Key(log[i])
Drifted(i) == log[i].arm # assign_arm(log[i].session)
Valid(i) == Fresh(i) /\ log[i].protocol = protocol /\ ~Drifted(i)
Units == {i \in Readable : Valid(i)}
\* Its second pass: the outcome of each unit.
Of(j) == {i \in Units : Key(log[i]) = Key(outcomes[j])}
Linked(j) == Of(j) # {} /\ \A k \in 1..(j - 1) : Key(outcomes[k]) # Key(outcomes[j])
Count(arm) == Cardinality({i \in Units : log[i].arm = arm})
\* blocking_reasons.
Blocked ==
    \/ \E a \in {"control", "treatment"} : Count(a) < Minimum
    \/ \E i \in Readable : Fresh(i) /\ (log[i].protocol # protocol \/ Drifted(i))
    \/ \E i \in Units : \A j \in DOMAIN outcomes : ~(Linked(j) /\ i \in Of(j))
    \/ \E j \in DOMAIN outcomes : ~Linked(j) \/ ~outcomes[j].verified
summarize_experiment ==
    /\ \E enough \in BOOLEAN :     \* calendar days and estimated power
          report' = IF enough /\ ~Blocked
                    THEN [claim |-> TRUE, exposures |-> log, outcomes |-> outcomes,
                          protocol |-> protocol]
                    ELSE NoReport
    /\ UNCHANGED <<pc, seen, prompts, log, shown, outcomes, protocol, edits, faults>>

Next == \/ \E s \in Sessions : Prompt(s) \/ Scan(s) \/ AppendExposure(s) \/ CutAppend(s)
                               \/ Deliver(s) \/ Fail(s)
        \/ \E s \in Sessions, t \in 1..MaxPrompts, v \in BOOLEAN : record_outcome(s, t, v)
        \/ EditProtocol \/ summarize_experiment
Spec == Init /\ [][Next]_vars

----------------------------------------------------------------------------
\* Whatever context a hook has shown in the experiment is in the log as an
\* exposure of the treatment arm; a record joined to a cut line is lost to every
\* reader, but each one lost leaves an unreadable line of its own, so that the
\* log itself bounds how many treated prompts may be missing from it.
Recorded(x) == \E i \in Readable :
                   /\ Key(log[i]) = <<fingerprint(session_id_hash(x[1])), x[2]>>
                   /\ log[i].arm = "treatment"
ShownIsRecorded ==
    Cardinality({x \in shown : ~Recorded(x)}) <= Cardinality(DOMAIN log \ Readable)

\* An effect is claimed only of prompts recorded once, all under the registered
\* protocol, each with one outcome, none of them shown context in the control
\* arm, with enough of either arm.
ClaimIsClean ==
    report.claim =>
        /\ \A i \in DOMAIN report.exposures :
              LET r == report.exposures[i] IN
              r.whole =>
                /\ r.protocol = report.protocol
                /\ Cardinality({j \in DOMAIN report.outcomes :
                                    Key(report.outcomes[j]) = Key(r)}) = 1
                /\ r.arm = "control" => <<r.session[1], r.task>> \notin shown
        /\ \A a \in {"control", "treatment"} :
              Cardinality({Key(report.exposures[i]) : i \in {k \in DOMAIN report.exposures :
                               report.exposures[k].whole /\ report.exposures[k].arm = a}}) >= Minimum

\* The arm the analysis computes from a record is the arm the hook assigned.
HookArmAgrees == \A i \in Readable : ~Drifted(i)
============================================================================
