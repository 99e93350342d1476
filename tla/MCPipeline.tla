----------------------------- MODULE MCPipeline -----------------------------
(* Pipeline for TLC: every candidate in a capture of its own, and the      *)
(* symmetry of the workers.                                                *)
EXTENDS Pipeline, TLC

OwnCapture == [c \in Candidates |-> c]

Symmetry == Permutations(Candidates) \cup Permutations(Workers) \cup Permutations(YesVerdicts)
=============================================================================
