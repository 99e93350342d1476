------------------------------ MODULE Release ------------------------------
(***************************************************************************)
(* The evidence of a public release (release.py, with the scripts          *)
(* generate-release-evidence.py and verify-release-evidence.py): an index  *)
(* that names a commit and the workflow runs that tested it, receipts and  *)
(* reports that are collected one by one, an attestation made after the    *)
(* push, and the gates that decide whether the release is ready.  Nothing  *)
(* holds the pieces together but the commits, run numbers and digests they *)
(* name: commits are pushed and workflows run while they are collected.    *)
(*                                                                         *)
(* A digest is the thing digested.  What an author writes into a report is *)
(* true of the commit it names.                                            *)
(***************************************************************************)
EXTENDS Naturals, Sequences, FiniteSets

CONSTANTS Workflows,    \* REQUIRED_WORKFLOW_NAMES
          Receipts,     \* PUBLIC_REQUIRED_RELEASE_RECEIPTS
          Producer,     \* PUBLIC_RELEASE_RECEIPT_WORKFLOWS
          Kinds,        \* the other evidence looked at: "export", "publication", "security", "production"
          MaxCommits, MaxRuns, MaxFiles   \* bounds: commits, workflow runs, files written

VARIABLES head,         \* the newest public commit
          runs,         \* hosted workflow runs, a run's number is its place
          receipts,     \* receipts in hand: Receipts -> a run's number, 0 for none
          reports,      \* the other files in hand: the commit each is about, 0 for none
          index,        \* evidence-manifest.json
          attestation,  \* the post-push attestation
          gates,        \* the last answer of evaluate_public_completion that says ready, and to what
          accepted,     \* the commit verify_public_release_attestation has accepted last
          files
vars == <<head, runs, receipts, reports, index, attestation, gates, accepted, files>>
evidence == <<head, runs, receipts, reports>>

None == 0
NoRuns == [w \in Workflows |-> None]

NoIndex == [status |-> "awaiting_public_subject", subject |-> None, evidence |-> None, runs |-> NoRuns]
NoAttestation == [index |-> NoIndex, evidence |-> None, runs |-> NoRuns]
NoGates == [release |-> FALSE, production |-> FALSE, subject |-> None, receipts |-> [r \in Receipts |-> None], reports |-> [k \in Kinds |-> None]]
Init == /\ head = 1 /\ runs = <<>> /\ receipts = [r \in Receipts |-> None]
        /\ reports = [k \in Kinds |-> None] /\ index = NoIndex /\ attestation = NoAttestation
        /\ gates = NoGates /\ accepted = None /\ files = 0

Commit == /\ head < MaxCommits /\ head' = head + 1
          /\ UNCHANGED <<runs, receipts, reports, index, attestation, gates, accepted, files>>
\* A workflow runs on the newest commit.
RunWorkflow(w, ok) ==
    /\ Len(runs) < MaxRuns
    /\ runs' = Append(runs, [workflow |-> w, head |-> head, ok |-> ok])
    /\ UNCHANGED <<head, receipts, reports, index, attestation, gates, accepted, files>>
\* A receipt is an artifact of a run; a job that passes leaves one in a run that
\* fails.
Download(r, n) == /\ files < MaxFiles /\ files' = files + 1
                  /\ runs[n].workflow = Producer[r]
                  /\ receipts' = [receipts EXCEPT ![r] = n]
                  /\ UNCHANGED <<head, runs, reports, index, attestation, gates, accepted>>
\* An export, a verified publication (Publication), a remediation report or the
\* evidence of production use, about the newest commit.
Collect(k) == /\ files < MaxFiles /\ files' = files + 1
              /\ reports' = [reports EXCEPT ![k] = head]
              /\ UNCHANGED <<head, runs, receipts, index, attestation, gates, accepted>>

\* The runs an operator may name: the one of each workflow, or none.
Named == [Workflows -> {None} \cup DOMAIN runs]
Truthful(named) == \A w \in Workflows : named[w] # None => runs[named[w]].workflow = w
\* validate_prerequisite_runs: every workflow succeeded on that commit.
validate_prerequisite_runs(named, commit) ==
    \A w \in Workflows : named[w] # None /\ runs[named[w]].ok /\ runs[named[w]].head = commit

\* build_public_evidence_index: of a subject alone, to be attested after the
\* push, or of a subject and the commit its evidence is of.
build_public_evidence_index(subject, commit, named) ==
    /\ files < MaxFiles /\ files' = files + 1 /\ Truthful(named)
    /\ IF commit = None
       THEN \A w \in Workflows : named[w] # None => runs[named[w]].head = subject
       ELSE validate_prerequisite_runs(named, commit)
    /\ index' = [status |-> IF commit = None THEN "awaiting_post_push_attestation" ELSE "verified",
                 subject |-> subject, evidence |-> commit, runs |-> named]
    /\ UNCHANGED <<evidence, attestation, gates, accepted>>

\* build_public_release_attestation: of the index in hand.
build_public_release_attestation(commit, named) ==
    /\ files < MaxFiles /\ files' = files + 1
    /\ index.status # "awaiting_public_subject"
    /\ Truthful(named) /\ validate_prerequisite_runs(named, commit)
    /\ attestation' = [index |-> index, evidence |-> commit, runs |-> named]
    /\ UNCHANGED <<evidence, index, gates, accepted>>
\* verify_public_release_attestation: an attestation in hand against the index
\* in hand, for the commit the operator expects.
verify_public_release_attestation(expected) ==
    /\ attestation # NoAttestation /\ index.status # "awaiting_public_subject"
    /\ accepted' = IF /\ attestation.index = index
                       /\ attestation.evidence = expected
                       /\ validate_prerequisite_runs(attestation.runs, expected)
                    THEN expected ELSE None
    /\ UNCHANGED <<evidence, index, attestation, gates, files>>

\* Mutant: the run a receipt is from need not be the one the index names.
ReceiptsOfAnyRun ==
    \A r \in Receipts :
        LET n == receipts[r]  p == index.runs[Producer[r]] IN
        /\ n # None /\ p # None
        /\ runs[p].head = index.subject /\ runs[p].ok
        /\ runs[n].head = index.subject
\* _validate_release_receipts: each is from the very run the index names, of
\* the subject, and that run has succeeded.
_validate_release_receipts ==
    \A r \in Receipts :
        LET n == receipts[r]  p == index.runs[Producer[r]] IN
        /\ n # None /\ p # None /\ n = p
        /\ runs[p].head = index.subject /\ runs[p].ok
        /\ runs[n].head = index.subject
\* _security_remediation_valid: about the subject, and the very report the
\* receipt names.
OfSubject(k) == k \in Kinds => reports[k] = index.subject
_security_remediation_valid ==
    /\ OfSubject("security")
    /\ "security_remediation" \in Receipts =>
          /\ receipts["security_remediation"] # None
          /\ "security" \in Kinds => runs[receipts["security_remediation"]].head = reports["security"]
_publication_receipt_valid == OfSubject("publication")
\* _production_evidence_valid: lifecycle, host receipts and compatibility matrix,
\* all of the subject.
_production_evidence_valid == OfSubject("production")
hosted_ci_ready ==
    \A w \in Workflows : /\ index.runs[w] # None /\ runs[index.runs[w]].ok
                         /\ runs[index.runs[w]].head = index.subject

\* evaluate_public_completion, on the files in hand.
evaluate_public_completion ==
    LET subject == index.subject # None
        source == subject /\ OfSubject("export")
        release == /\ source /\ index.status = "verified" /\ hosted_ci_ready
                   /\ _validate_release_receipts /\ _security_remediation_valid
                   /\ _publication_receipt_valid
    IN /\ gates' = IF ~release THEN NoGates
                    ELSE [release |-> TRUE, production |-> _production_evidence_valid,
                          subject |-> index.subject, receipts |-> receipts, reports |-> reports]
       /\ UNCHANGED <<evidence, index, attestation, accepted, files>>

Next == \/ Commit
        \/ \E w \in Workflows, ok \in BOOLEAN : RunWorkflow(w, ok)
        \/ \E r \in Receipts, n \in DOMAIN runs : Download(r, n)
        \/ \E k \in Kinds : Collect(k)
        \/ \E subject \in 1..head, commit \in 0..head, named \in Named :
              build_public_evidence_index(subject, commit, named)
        \/ \E commit \in 1..head, named \in Named : build_public_release_attestation(commit, named)
        \/ \E commit \in 1..head : verify_public_release_attestation(commit)
        \/ evaluate_public_completion
Spec == Init /\ [][Next]_vars

----------------------------------------------------------------------------
\* A release is ready only when every workflow succeeded on one commit, every
\* receipt is of one of those very runs, and every report is about that commit;
\* production is complete only with evidence of the same commit.
ReadyIsOneCommit ==
    LET c == gates.subject IN
    /\ gates.release =>
          /\ \A w \in Workflows : \E n \in DOMAIN runs : runs[n] = [workflow |-> w, head |-> c, ok |-> TRUE]
          /\ \A r \in Receipts : runs[gates.receipts[r]] = [workflow |-> Producer[r], head |-> c, ok |-> TRUE]
          /\ \A k \in Kinds \ {"production"} : gates.reports[k] = c
    /\ gates.production => gates.release /\ \A k \in Kinds : gates.reports[k] = c

\* A release is attested as software complete only for a commit on which every
\* workflow succeeded, whatever was pushed or run since the index was built.
AcceptedIsGreen ==
    accepted # None =>
        \A w \in Workflows : \E n \in DOMAIN runs :
            runs[n] = [workflow |-> w, head |-> accepted, ok |-> TRUE]
============================================================================
