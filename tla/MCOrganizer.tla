---------------------------- MODULE MCOrganizer ----------------------------
(* Instances of Organizer for TLC. One tick stands for next_retry's 300 s. *)
EXTENDS Organizer, TLC

CONSTANTS w1, w2, c1, c2, f1, f2    \* model values

TwoBackoff == <<1, 2>>
Symmetry == Permutations(Workers)
=============================================================================
