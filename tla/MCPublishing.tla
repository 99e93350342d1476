--------------------------- MODULE MCPublishing ----------------------------
(* Publishing for TLC: the constants that are functions and records.       *)
EXTENDS Publishing

MCAuthor == [e1 |-> "m1", e2 |-> "m2"]
MCPaths == {[root |-> "events", suffix |-> "json", localPart |-> FALSE, flag |-> "changed"]}
\* The second revision changes a file, the third adds private key material.
MCTree == <<{"r1", "n"}, {"r2", "n"}, {"r2", "k"}>>
MCProducer == [security_remediation |-> "security"]
\* One session of the control arm, one of the treatment arm, and one whose identifier and
\* the hash of it disagree.
MCArm == [id \in Sessions \X (1..2) |->
             IF id[1] = "s2" \/ (id[1] = "s3" /\ id[2] = 2) THEN "treatment" ELSE "control"]
=============================================================================
