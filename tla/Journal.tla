------------------------------ MODULE Journal ------------------------------
(***************************************************************************)
(* The event journal and what writes patterns into it: append_event and    *)
(* iter_events (journal.py), the curator that turns an accepted candidate  *)
(* into a change set (curator.py), its validation and application          *)
(* (changeset.py) and the lifecycle reconciliation of a maintenance run    *)
(* (reconciliation.py, lifecycle.py).                                      *)
(*                                                                         *)
(* All candidates are about one claim.  A change set is one journal event  *)
(* per operation and a marker; its events are visible only once the marker *)
(* exists.  Events are ordered by the moment their change set was curated  *)
(* (occurred_at), not by the moment they were appended.                    *)
(***************************************************************************)
EXTENDS Naturals, Sequences, FiniteSets, SequencesExt, FiniteSetsExt

CONSTANTS Candidates,    \* candidates the organizer has accepted
          Against,       \* those whose claim contradicts the pattern
          Rich,          \* those that carry two provenances themselves
          Workers,       \* drain processes
          Needed,        \* policy: independent provenances (and contradictions) required
          MaxFaults, MaxTime

VARIABLES journal,   \* the event files
          curated,   \* [Candidates -> its validated change set, or None]
          outcome,   \* [Candidates -> "open", "APPLIED" or why it was refused]
          claim,     \* [Candidates -> who claimed it last, and whether another still applied it then]
          run,       \* [Workers -> the application in progress]
          now, faults
vars == <<journal, curated, outcome, claim, run, now, faults>>

None == [ops |-> <<>>, t |-> 0]
Unclaimed == [by |-> "none", twice |-> FALSE]
Rest == [pc |-> "rest", c |-> "none", built |-> <<>>, left |-> <<>>]
PatternTypes == {"pattern.candidate_created", "pattern.promoted", "pattern.revised",
                 "pattern.deprecated", "pattern.tombstoned"}

(* journal.py *)
\* iter_events hides the events of a change set that has no marker yet.
Marked(J, c) == \E e \in J : e.type = "applied" /\ e.c = c
iter_events(J) == {e \in J : e.c = "none" \/ e.type = "applied" \/ Marked(J, e.c)}

\* _states: the last visible event of a pattern decides.  A payload that has no
\* revision or contradiction count leaves the former one.
Of(J, p) == SetToSortSeq({e \in iter_events(J) : e.type \in PatternTypes /\ e.pat = p},
                         LAMBDA a, b : a.t < b.t)
Absent == [status |-> "absent", rev |-> 0, con |-> 0]
Folded(s, e) ==
    [status |-> CASE e.type = "pattern.candidate_created" -> "candidate"
                  [] e.type \in {"pattern.promoted", "pattern.revised"} -> "active"
                  [] e.type = "pattern.deprecated" -> "deprecated"
                  [] OTHER -> "tombstoned",
     rev |-> IF e.rev = 99 THEN s.rev ELSE e.rev,
     con |-> IF e.con = 99 THEN s.con ELSE e.con]
_states(J) == [p \in {"curated", "reconciled"} |-> FoldLeft(Folded, Absent, Of(J, p))]
Exists(s) == s.status # "absent"

(* curator.py: what a candidate becomes, given the index it was read with. *)
Op(op, pat) == [op |-> op, pat |-> pat]
Eligible(S) == {p \in DOMAIN S : S[p].status \in {"active", "candidate"}}
curate_candidate(c, S, p) ==
    IF Eligible(S) # {}
    THEN IF c \notin Against THEN <<Op("ATTACH_EVIDENCE", p)>>
         ELSE IF S[p].con + 1 >= Needed /\ S[p].status = "active" THEN <<Op("DEPRECATE_PATTERN", p)>>
         ELSE <<Op("REVISE_PATTERN", p)>>
    ELSE <<Op("CREATE_OBSERVATION", "none")>>
         \o (IF c \in Rich THEN <<Op("CREATE_CANDIDATE", "curated")>> ELSE <<>>)

\* validate_changeset: the operation must fit the state the journal shows now.
\* A revision the curator proposes for a contradiction needs a review.
Fits(op, S) ==
    CASE op.op = "CREATE_OBSERVATION" -> TRUE
      [] op.op = "ATTACH_EVIDENCE" -> S[op.pat].status \in {"active", "candidate"}
      [] op.op = "CREATE_CANDIDATE" -> ~Exists(S[op.pat])
      [] op.op = "DEPRECATE_PATTERN" -> S[op.pat].status = "active"
      [] op.op = "REVISE_PATTERN" -> FALSE
validate_changeset(ops, J) == \A i \in 1..Len(ops) : Fits(ops[i], _states(J))

\* _event_payload: the event is completed from the state that was read first.
_event_payload(c, i, op, t, S) ==
    LET state == IF op.pat = "none" THEN Absent ELSE S[op.pat]
        type == CASE op.op = "CREATE_OBSERVATION" -> "observation.recorded"
                  [] op.op = "ATTACH_EVIDENCE" ->
                        IF state.status = "active" THEN "pattern.revised" ELSE "pattern.candidate_created"
                  [] op.op = "CREATE_CANDIDATE" -> "pattern.candidate_created"
                  [] OTHER -> "pattern.deprecated"
    IN [c |-> c, i |-> i, t |-> t, type |-> type, pat |-> op.pat,
        rev |-> CASE type = "pattern.revised" -> state.rev + 1
                  [] type = "pattern.candidate_created" -> state.rev
                  [] OTHER -> 99,
        con |-> IF type = "pattern.deprecated" THEN 99 ELSE state.con]
Marker(c, n, t) == [c |-> c, i |-> n + 1, t |-> t, type |-> "applied", pat |-> "none", rev |-> 99, con |-> 99]
\* Mutant: the marker is written first.
BuiltMarkerFirst(c, S) ==
    LET ops == curated[c].ops
        t == curated[c].t
    IN <<Marker(c, Len(ops), t)>> \o [i \in 1..Len(ops) |-> _event_payload(c, i, ops[i], t, S)]
Built(c, S) ==
    LET ops == curated[c].ops
        t == curated[c].t
    IN [i \in 1..Len(ops) |-> _event_payload(c, i, ops[i], t, S)] \o <<Marker(c, Len(ops), t)>>

\* read_application_proof: the marker, and one event of a permitted type for
\* every operation.
Permitted(op) == CASE op = "CREATE_OBSERVATION" -> {"observation.recorded"}
                   [] op = "ATTACH_EVIDENCE" -> {"pattern.candidate_created", "pattern.revised"}
                   [] op = "CREATE_CANDIDATE" -> {"pattern.candidate_created"}
                   [] OTHER -> {"pattern.deprecated"}
read_application_proof(c) ==
    /\ Marked(journal, c)
    /\ \A i \in 1..Len(curated[c].ops) :
           \E e \in journal : e.c = c /\ e.i = i /\ e.t = curated[c].t
                              /\ e.type \in Permitted(curated[c].ops[i].op)

\* A pattern of an earlier year, promoted and contradicted once already.
Earlier == [c |-> "none", i |-> 0, t |-> 0, type |-> "pattern.promoted",
            pat |-> "reconciled", rev |-> 0, con |-> 1]
Init == /\ journal \in {{}, {Earlier}}
        /\ curated = [c \in Candidates |-> None]
        /\ outcome = [c \in Candidates |-> "open"]
        /\ claim = [c \in Candidates |-> Unclaimed]
        /\ run = [w \in Workers |-> Rest]
        /\ now = 1 /\ faults = 0

(* _process_claimed: curate, validate, keep the result. *)
Curate(c) ==
    /\ curated[c] = None /\ outcome[c] = "open" /\ now < MaxTime
    /\ LET S == _states(journal)
       IN \E p \in IF Eligible(S) = {} THEN {"none"} ELSE Eligible(S) :
            LET ops == curate_candidate(c, S, p)
            IN IF validate_changeset(ops, journal)
               THEN curated' = [curated EXCEPT ![c] = [ops |-> ops, t |-> now]] /\ UNCHANGED outcome
               ELSE outcome' = [outcome EXCEPT ![c] = "refused"] /\ UNCHANGED curated
    /\ now' = now + 1
    /\ UNCHANGED <<journal, claim, run, faults>>

(* apply_changeset.  It reads the journal, validates against a second      *)
(* reading, and appends event by event.  A lease that ends does not stop   *)
(* its holder: another worker may claim the candidate and apply it too,    *)
(* and the queue then takes the result of the last claim only.  MaxFaults  *)
(* bounds such claims, as the attempts of a candidate bound them, and the  *)
(* deaths.                                                                 *)
HeldElsewhere(w, c) == \E v \in Workers \ {w} : run[v].c = c
Begin(w, c) ==
    /\ run[w].pc = "rest" /\ curated[c] # None /\ outcome[c] = "open"
    /\ IF HeldElsewhere(w, c) THEN faults < MaxFaults /\ faults' = faults + 1 ELSE UNCHANGED faults
    /\ IF Marked(journal, c)
       THEN outcome' = [outcome EXCEPT ![c] = "APPLIED"] /\ UNCHANGED <<claim, run>>
       ELSE /\ run' = [run EXCEPT ![w] = [pc |-> "validate", c |-> c,
                                          built |-> Built(c, _states(journal)), left |-> <<>>]]
            /\ claim' = [claim EXCEPT ![c] = [by |-> w, twice |-> HeldElsewhere(w, c)]]
            /\ UNCHANGED outcome
    /\ UNCHANGED <<journal, curated, now>>
Finish(w, result) ==
    /\ run' = [run EXCEPT ![w] = Rest]
    /\ outcome' = [outcome EXCEPT ![run[w].c] = IF claim[run[w].c].by = w THEN result ELSE @]
Validate(w) ==
    /\ run[w].pc = "validate"
    /\ IF validate_changeset(curated[run[w].c].ops, journal)
       THEN run' = [run EXCEPT ![w].pc = "check", ![w].left = run[w].built] /\ UNCHANGED outcome
       ELSE Finish(w, "refused")
    /\ UNCHANGED <<journal, curated, claim, now, faults>>
SameFile(e, f) == e.c = f.c /\ e.i = f.i
\* append_event: a file of that name is compared, or there is none and a
\* temporary file is about to replace whatever has the name.
Check(w) ==
    /\ run[w].pc = "check"
    /\ LET e == Head(run[w].left)
       IN IF \E f \in journal : SameFile(e, f) /\ f # e
          THEN Finish(w, "EVENT_ID_COLLISION")
          ELSE run' = [run EXCEPT ![w].pc = "replace"] /\ UNCHANGED outcome
    /\ UNCHANGED <<journal, curated, claim, now, faults>>
Replace(w) ==
    /\ run[w].pc = "replace"
    /\ LET e == Head(run[w].left)
       IN journal' = {f \in journal : ~SameFile(e, f)} \cup {e}
    /\ run' = [run EXCEPT ![w].pc = IF Len(run[w].left) = 1 THEN "report" ELSE "check",
                          ![w].left = Tail(@)]
    /\ UNCHANGED <<curated, outcome, claim, now, faults>>
\* The drain finishes the candidate with the result it is given.
Report(w) ==
    /\ run[w].pc = "report" /\ Finish(w, "APPLIED")
    /\ UNCHANGED <<journal, curated, claim, now, faults>>
\* The process dies, the budget ends or a write fails: the next claim of the
\* candidate applies the same change set again.
Stop(w) == /\ run[w].pc # "rest" /\ faults < MaxFaults
           /\ run' = [run EXCEPT ![w] = Rest] /\ faults' = faults + 1
           /\ UNCHANGED <<journal, curated, outcome, claim, now>>

(* reconcile_lifecycle, under the maintenance lock: candidates from         *)
(* repeated observations, then promotion or deprecation.                    *)
Observations == {e \in iter_events(journal) : e.type = "observation.recorded"}
Provenances == Cardinality(Observations) + Cardinality({e \in Observations : e.c \in Rich})
Contradictions == Cardinality({e \in Observations : e.c \in Against})
Written(type, s) == [c |-> "none", i |-> now, t |-> now, type |-> type, pat |-> "reconciled",
                     rev |-> s.rev, con |-> s.con]
promotion_eligibility(s) == /\ s.status \in {"absent", "candidate"}
                            /\ Provenances >= Needed /\ Contradictions = 0
evaluate_lifecycle(s) == IF s.status = "active" /\ Contradictions >= Needed THEN {"pattern.deprecated"}
                         ELSE IF promotion_eligibility(s) THEN {"pattern.promoted"} ELSE {}
reconcile_lifecycle ==
    /\ now < MaxTime
    /\ LET s == _states(journal)["reconciled"]
           types == IF s.status = "absent" /\ Provenances >= Needed
                    THEN {"pattern.candidate_created"} ELSE evaluate_lifecycle(s)
       IN /\ types # {}
          /\ journal' = journal \cup {Written(type, s) : type \in types}
    /\ now' = now + 1
    /\ UNCHANGED <<curated, outcome, claim, run, faults>>

Apply(w) == (\E c \in Candidates : Begin(w, c)) \/ Validate(w) \/ Check(w) \/ Replace(w) \/ Report(w)
Next == \/ \E c \in Candidates : Curate(c)
        \/ \E w \in Workers : Apply(w) \/ Stop(w)
        \/ reconcile_lifecycle
Spec == Init /\ [][Next]_vars
\* Drains are repeated as long as a candidate is open.
FairSpec == Spec /\ \A w \in Workers : WF_vars(Apply(w))

----------------------------------------------------------------------------
\* A change set that shows in the journal shows completely: the marker is there
\* only with an event for every operation, through every death and retry.
AppliedIsProven == \A c \in Candidates : Marked(journal, c) => read_application_proof(c)

\* A pattern is active only if the evidence the policy asks for is visible in
\* the journal (or it was active before).
ActiveHasEvidence ==
    \A p \in {"curated", "reconciled"} :
        _states(journal)[p].status = "active" => Earlier \in journal \/ Provenances >= Needed

\* Every application ends: with its marker, with a refusal or with a collision.
Settled(c) == curated[c] = None \/ outcome[c] # "open"

\* An event file is replaced only while two workers hold its candidate, and then by another
\* event of the same operation of the same change set.
SameOperation(e, f) ==
    /\ SameFile(e, f) /\ e.t = f.t
    /\ \/ {e.type, f.type} = {"applied"}
       \/ /\ e.i \in 1..Len(curated[e.c].ops)
          /\ {e.type, f.type} \subseteq Permitted(curated[e.c].ops[e.i].op)
ReplacedWhileHeldTwice ==
    \A e \in journal \ journal' :
        /\ e.c \in Candidates /\ claim[e.c].twice
        /\ \E f \in journal' : SameOperation(e, f)

============================================================================
