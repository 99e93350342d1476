------------------------------ MODULE Custody ------------------------------
(***************************************************************************)
(* What intake and organisation promise together about one candidate body, *)
(* whatever processes, locks, leases and crashes lie behind it.            *)
(*                                                                         *)
(*   - evidence that a body is safe is given only while it is held or      *)
(*     decided, and evidence of its loss is final;                         *)
(*   - a body is dropped only after a decision or after evidence of loss;  *)
(*   - at most one verdict is applied, and the outcome recorded agrees     *)
(*     with what was applied.                                              *)
(***************************************************************************)
CONSTANTS Candidates, YesVerdicts

VARIABLES
    held,      \* candidates whose body is stored
    evidence,  \* what the ledger says of each candidate
    applied,   \* the verdicts applied to the journal
    outcome    \* the decision on record

custodyVars == <<held, evidence, applied, outcome>>

CInit ==
    /\ held = {}
    /\ evidence = [c \in Candidates |-> "none"]
    /\ applied = {}
    /\ outcome = [c \in Candidates |-> "none"]

Take(c) ==
    /\ evidence[c] # "lost"
    /\ held' = held \cup {c}
    /\ UNCHANGED <<evidence, applied, outcome>>

Secure(c) ==
    /\ evidence[c] # "lost"
    /\ c \in held \/ outcome[c] # "none"
    /\ evidence' = [evidence EXCEPT ![c] = "secured"]
    /\ UNCHANGED <<held, applied, outcome>>

\* Candidates of one capture are lost together.
Lose(C) ==
    /\ evidence' = [c \in Candidates |-> IF c \in C THEN "lost" ELSE evidence[c]]
    /\ UNCHANGED <<held, applied, outcome>>

Apply(c, v) ==
    /\ outcome[c] # "NO_DISCARDED"
    /\ \A u \in YesVerdicts : <<c, u>> \in applied => u = v
    /\ applied' = applied \cup {<<c, v>>}
    /\ UNCHANGED <<held, evidence, outcome>>

Decide(c, o) ==
    /\ outcome[c] = "none"
    /\ o = "DONE" <=> \E v \in YesVerdicts : <<c, v>> \in applied
    /\ outcome' = [outcome EXCEPT ![c] = o]
    /\ UNCHANGED <<held, evidence, applied>>

Drop(c) ==
    /\ outcome[c] # "none" \/ evidence[c] = "lost"
    /\ held' = held \ {c}
    /\ UNCHANGED <<evidence, applied, outcome>>

CNext ==
    \/ \E c \in Candidates :
         \/ Take(c) \/ Secure(c) \/ Drop(c)
         \/ \E v \in YesVerdicts : Apply(c, v)
         \/ \E o \in {"NO_DISCARDED", "DONE"} : Decide(c, o)
    \/ \E C \in SUBSET Candidates : Lose(C)

CSpec == CInit /\ [][CNext]_custodyVars
=============================================================================
