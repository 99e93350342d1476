----------------------------- MODULE MCCatalog ------------------------------
(* RuntimeCatalog for TLC: two entries, of one shard or of a shard each, a   *)
(* short body and a long one.                                                *)
EXTENDS RuntimeCatalog, TLC

CONSTANTS e1, e2, short, long

Lengths == [d \in Contents |-> IF d = short THEN 1 ELSE 2]
OneShard == [e \in Entries |-> "s1"]
OwnShard == [e \in Entries |-> e]

\* A shard of its own is named after its entry.
Symmetry == Permutations(Entries)
=============================================================================
