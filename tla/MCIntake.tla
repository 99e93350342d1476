----------------------------- MODULE MCIntake ------------------------------
(* Intake for TLC: the constants that are sequences and functions.         *)
EXTENDS Intake

MCContents == {<<"p">>, <<"p", "a", "b">>, <<"b", "a">>}
MCOwner == [e \in {"e1"} |-> "m1"]
MCReaders == [r \in {"recall", "maintain"} |-> "m1"]
=============================================================================
