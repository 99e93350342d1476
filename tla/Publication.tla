------------------------------ MODULE Publication ------------------------------
(* Making the repository public: public_export.py copies the allow-listed files *)
(* of a source revision into a fresh one-commit repository and validates it,    *)
(* and may resume that validation later; github_publication.py plans the        *)
(* publication of that root, needs a person's approval of exactly that plan,    *)
(* creates the repository, pushes, and verifies a fresh clone.                  *)
(*                                                                              *)
(* A commit is [date, files]: the export dates its commit like the source       *)
(* revision, so two exports of one revision are the same commit; a commit of    *)
(* anybody else has the date 0.  A receipt or plan names a commit by the whole  *)
(* record, as its hashes do.  Nothing locks the export root: others may change  *)
(* it between any two steps of an export.                                       *)
EXTENDS Naturals, Sequences, FiniteSets

CONSTANTS Tree,        \* Tree[c]: the files of source revision c
          Allowed,     \* the files the export allow-list selects
          Keys,        \* the files that hold private key material
          Forbidden,   \* the files the publication audit refuses
          MaxMoves,    \* bound on the source's checkouts and commits
          MaxFaults    \* bound on deaths, failures and foreign changes

VARIABLES head,        \* the source's HEAD
          dest,        \* the export root: [files, log, dirty], and (history) placed:
                       \* what others put into it
          receipt,     \* the export receipt file, and (history) disturbed: whether others
                       \* changed the root while the writer of it validated
          run,         \* the export command that is running; (history) disturbed: whether
                       \* others changed the root since it was committed or compared
          result,      \* what the last export command returned
          plan,        \* the publication record file
          approved,    \* the commit a person approved the plan of
          job,         \* the publication command that is running
          remote,      \* the GitHub repository: [owner, log]
          moves, faults

expvars == <<dest, receipt, run, result>>
pubvars == <<plan, approved, job, remote>>
vars == <<head, expvars, pubvars, moves, faults>>

Revisions == DOMAIN Tree
NoCommit == [date |-> 0, files |-> {}]
NoReceipt == [root |-> NoCommit, listed |-> {}, source |-> 0, tree |-> 0,
              status |-> "missing", disturbed |-> FALSE]
Idle == [kind |-> "none", phase |-> "none", commit |-> 0, tree |-> 0, files |-> {},
         todo |-> {}, root |-> NoCommit, listed |-> {}, disturbed |-> FALSE]
NoPlan == [status |-> "missing", log |-> <<>>]
Empty == [files |-> {}, log |-> <<>>, dirty |-> FALSE, placed |-> {}]

Init == /\ head \in Revisions
        /\ dest = Empty /\ receipt = NoReceipt /\ run = Idle /\ result = "none"
        /\ plan = NoPlan /\ approved = <<>> /\ job = "none"
        /\ remote = [owner |-> "none", log |-> <<>>]
        /\ moves = 0 /\ faults = 0

Quiet == run = Idle /\ job = "none"

(* ------------------------------- public export ------------------------------ *)

\* The allow-list decides by path; an entry outside it is left out.
select_public_paths(files) == files \cap Allowed

\* The destination of an export must be new or empty, that of a resumption an
\* existing root.
validate_export_destination == dest = Empty
validate_resume_destination == dest # Empty

\* The commit and date of a clean source, read once.
_source_revision == head

create_public_export ==
  /\ Quiet /\ validate_export_destination
  /\ run' = [Idle EXCEPT !.kind = "export", !.phase = "entries", !.commit = _source_revision]
  /\ result' = "none"
  /\ UNCHANGED <<head, dest, receipt, pubvars, moves, faults>>

\* Resuming builds the export again in a temporary directory first.
resume_public_export_validation ==
  /\ Quiet /\ validate_resume_destination
  /\ run' = [Idle EXCEPT !.kind = "resume", !.phase = "entries", !.commit = _source_revision]
  /\ result' = "none"
  /\ UNCHANGED <<head, dest, receipt, pubvars, moves, faults>>

\* The tree is listed from HEAD again, whatever HEAD is by now.
_tracked_entries ==
  /\ run.phase = "entries"
  /\ LET selected == select_public_paths(Tree[head])
     IN IF selected = {}
        THEN /\ run' = Idle /\ result' = "failed"
        ELSE /\ run' = [run EXCEPT !.phase = "copy", !.files = selected, !.todo = selected]
             /\ UNCHANGED result
  /\ UNCHANGED <<head, dest, receipt, pubvars, moves, faults>>

Fails == /\ run' = Idle /\ result' = "failed" /\ UNCHANGED dest

\* Blobs are read by object id, one after the other; key material ends the
\* export where it is.  The reference copy of a resumption is made, and committed,
\* in a directory of its own and thrown away.
_copy_selected_files ==
  /\ run.phase = "copy"
  /\ \E f \in run.todo :
       \/ f \in Keys /\ Fails
       \/ /\ f \notin Keys /\ run.kind = "export"
          /\ dest' = [dest EXCEPT !.files = @ \cup {f}]
          /\ run' = [run EXCEPT !.todo = @ \ {f},
                                !.phase = IF run.todo = {f} THEN "commit" ELSE "copy"]
          /\ UNCHANGED result
       \/ /\ run.files \cap Keys = {} /\ run.kind = "resume"
          /\ run' = [run EXCEPT !.todo = {}, !.phase = "digest",
                                !.root = [date |-> run.commit, files |-> run.files]]
          /\ UNCHANGED <<dest, result>>
  /\ UNCHANGED <<head, receipt, pubvars, moves, faults>>

\* git init, git add --all of whatever is in the directory, and exactly one commit.
_commit_root ==
  /\ run.phase = "commit"
  /\ LET root == [date |-> run.commit, files |-> dest.files]
     IN /\ dest' = [dest EXCEPT !.log = <<root>>]
        /\ run' = [run EXCEPT !.phase = "digest", !.root = root]
  /\ UNCHANGED <<result, head, receipt, pubvars, moves, faults>>

\* The listings of the source tree, from HEAD for the third time, and of the root's.
ReadDigests ==
  /\ run.phase = "digest"
  /\ run' = [run EXCEPT !.tree = head,
                        !.listed = IF run.kind = "export" THEN dest.log[Len(dest.log)].files
                                                          ELSE run.files,
                        !.phase = IF run.kind = "export" THEN "validate" ELSE "check"]
  /\ UNCHANGED <<dest, result, head, receipt, pubvars, moves, faults>>

_make_receipt(status) ==
  [root |-> run.root, listed |-> run.listed, source |-> run.commit, tree |-> run.tree,
   status |-> status, disturbed |-> run.disturbed]

_receipt_identity_matches(r) ==
  [r EXCEPT !.status = "exported", !.disturbed = run.disturbed] = _make_receipt("exported")

\* The existing root must be the reference export: clean, one commit, same tree.
_verify_resumable_export ==
  /\ ~dest.dirty
  /\ dest.log = <<run.root>>

\* A receipt that is there must be of this very export; a validated one is
\* returned as it is.
CheckResumable ==
  /\ run.phase = "check"
  /\ \/ /\ ~_verify_resumable_export \/ (receipt # NoReceipt /\ ~_receipt_identity_matches(receipt))
        /\ run' = Idle /\ result' = "failed"
     \/ /\ _verify_resumable_export /\ receipt # NoReceipt
        /\ _receipt_identity_matches(receipt) /\ receipt.status = "validated"
        /\ run' = Idle /\ result' = "validated"
     \/ /\ _verify_resumable_export
        /\ receipt = NoReceipt \/ (_receipt_identity_matches(receipt) /\ receipt.status = "exported")
        /\ run' = [run EXCEPT !.phase = "validate"] /\ UNCHANGED result
  /\ UNCHANGED <<dest, head, receipt, pubvars, moves, faults>>

Clean(log) == \A i \in 1..Len(log) : log[i].files \cap Forbidden = {}

\* A step of the validation may also fail for a reason of its own.
StepFails ==
  /\ faults < MaxFaults /\ faults' = faults + 1
  /\ run' = Idle /\ result' = "failed" /\ UNCHANGED receipt

\* The first step of run_public_export_validation audits the working tree and all
\* reachable history, as they are now.
run_public_export_validation ==
  /\ run.phase = "validate"
  /\ \/ /\ Clean(dest.log)
        /\ run' = [run EXCEPT !.phase = "audited"] /\ UNCHANGED <<receipt, result, faults>>
     \/ /\ ~Clean(dest.log)
        /\ run' = Idle /\ result' = "failed" /\ UNCHANGED <<receipt, faults>>
     \/ StepFails
  /\ UNCHANGED <<dest, head, pubvars, moves>>

\* The last one, after source, locks and workflows, clones the root if it is clean,
\* and certifies the clone for up to half an hour.
CertifyClone ==
  /\ run.phase = "audited"
  /\ \/ /\ ~dest.dirty
        /\ run' = [run EXCEPT !.phase = "certified"] /\ UNCHANGED <<receipt, result, faults>>
     \/ /\ dest.dirty
        /\ run' = Idle /\ result' = "failed" /\ UNCHANGED <<receipt, faults>>
     \/ StepFails
  /\ UNCHANGED <<dest, head, pubvars, moves>>

\* The receipt says what was read before the validation; the root is not looked at
\* again.
WriteReceipt ==
  /\ \E status \in {"validated", "exported"} :
       /\ IF status = "validated" THEN run.phase = "certified"
          \* an export asked for without validation
          ELSE run.phase = "validate" /\ run.kind = "export"
       /\ receipt' = _make_receipt(status) /\ result' = status
  /\ run' = Idle
  /\ UNCHANGED <<dest, head, pubvars, moves, faults>>

(* -------------------------------- publication ------------------------------- *)

\* A source is fit to publish when it is clean, has one root, only the public
\* author's commits, and passes the audit of its tree and history.
_source_snapshot(log, dirty) == ~dirty /\ log # <<>> /\ Clean(log)

_probe_target == IF remote.owner = "none" THEN {"not_found", "unknown"} ELSE {"exists", "unknown"}

build_publication_plan ==
  /\ Quiet /\ _source_snapshot(dest.log, dest.dirty)
  /\ \E observed \in _probe_target :
       plan' = [status |-> IF observed = "not_found" THEN "ready_for_confirmation" ELSE "blocked",
                log |-> dest.log]
  /\ UNCHANGED <<head, expvars, approved, job, remote, moves, faults>>

\* The approval names the digest of the plan the person saw.
Approve == /\ Quiet /\ plan.status = "ready_for_confirmation" /\ approved # plan.log
           /\ approved' = plan.log
           /\ UNCHANGED <<head, expvars, plan, job, remote, moves, faults>>

confirm_plan_approval == plan.status = "ready_for_confirmation" /\ approved = plan.log

\* The source is looked at again and must be the planned one.
publish_publication_plan ==
  /\ Quiet /\ confirm_plan_approval
  /\ _source_snapshot(dest.log, dest.dirty) /\ dest.log = plan.log
  /\ job' = "create"
  /\ UNCHANGED <<head, expvars, plan, approved, remote, moves, faults>>

\* GitHub refuses to create a repository that exists.
_create_repository ==
  /\ job = "create"
  /\ IF remote.owner = "none"
     THEN remote' = [owner |-> "ours", log |-> <<>>] /\ job' = "settings"
     ELSE job' = "none" /\ UNCHANGED remote
  /\ UNCHANGED <<head, expvars, plan, approved, moves, faults>>

\* Settings, security features and the ruleset, each read back.
ConfigureRepository ==
  /\ job = "settings" /\ job' = "push"
  /\ UNCHANGED <<head, expvars, plan, approved, remote, moves, faults>>

\* The source is cloned anew, as it is now, and its main branch pushed.
_push_fresh_root ==
  /\ job = "push"
  /\ remote' = [remote EXCEPT !.log = dest.log] /\ job' = "readback"
  /\ UNCHANGED <<head, expvars, plan, approved, moves, faults>>

FinishPublish ==
  /\ job = "readback" /\ plan' = [plan EXCEPT !.status = "published"] /\ job' = "none"
  /\ UNCHANGED <<head, expvars, approved, remote, moves, faults>>

\* Mutant: the clone is audited, but not compared with the record.
VerifyAnyClone ==
  /\ Quiet /\ plan.status = "published"
  /\ _source_snapshot(remote.log, FALSE)
  /\ plan' = [plan EXCEPT !.status = "verified"]
  /\ UNCHANGED <<head, expvars, approved, job, remote, moves, faults>>

\* A fresh clone must be fit and be the recorded commit, read as the quick start
\* says and build; otherwise the record stays as it was.
verify_publication ==
  /\ Quiet /\ plan.status = "published"
  /\ _source_snapshot(remote.log, FALSE) /\ remote.log = plan.log
  /\ plan' = [plan EXCEPT !.status = "verified"]
  /\ UNCHANGED <<head, expvars, approved, job, remote, moves, faults>>

(* -------------------------------- environment ------------------------------- *)

\* The source is committed to or checked out elsewhere, at any time.
SourceMoves == /\ moves < MaxMoves /\ head' \in Revisions \ {head} /\ moves' = moves + 1
               /\ UNCHANGED <<expvars, pubvars, faults>>

\* The root has been committed by this export, or compared by this resumption.
Settled == \/ run.phase \in {"validate", "audited", "certified"}
           \/ run.phase = "digest" /\ run.kind = "export"

\* Somebody adds a file to the export root, or edits, commits or amends there once it
\* is a repository; nothing keeps them from it while an export runs.
RootChanges ==
  /\ faults < MaxFaults
  /\ \/ dest.log # <<>> /\ dest' = [dest EXCEPT !.dirty = ~@]
     \/ \E f \in Allowed \cup Forbidden :
          \/ /\ dest.log = <<>> /\ (dest.files # {} \/ run.kind = "export")
             /\ dest' = [dest EXCEPT !.files = @ \cup {f}, !.placed = @ \cup {f}]
          \/ LET theirs == [date |-> 0, files |-> dest.files \cup {f}]
             IN \E log \in {<<theirs>>, Append(dest.log, theirs)} :
                  /\ Len(dest.log) = 1
                  /\ dest' = [dest EXCEPT !.placed = @ \cup {f}, !.log = log]
  /\ run' = [run EXCEPT !.disturbed = @ \/ Settled]
  /\ faults' = faults + 1
  /\ UNCHANGED <<head, receipt, result, pubvars, moves>>

\* Somebody else creates a repository of that name.
ForeignRepository ==
  /\ faults < MaxFaults /\ remote.owner = "none"
  /\ remote' = [owner |-> "foreign", log |-> <<>>] /\ faults' = faults + 1
  /\ UNCHANGED <<head, expvars, plan, approved, job, moves>>

\* The running command dies or a git or GitHub call fails.
Dies == /\ faults < MaxFaults /\ ~Quiet
        /\ run' = Idle /\ job' = "none" /\ faults' = faults + 1
        /\ result' = IF run = Idle THEN result ELSE "failed"
        /\ UNCHANGED <<head, dest, receipt, plan, approved, remote, moves>>

\* The root is removed by hand, the only way to export again after a failure.
RemoveRoot == /\ Quiet /\ result = "failed" /\ dest # Empty /\ faults < MaxFaults
              /\ dest' = Empty /\ receipt' = NoReceipt /\ faults' = faults + 1
              /\ UNCHANGED <<head, run, result, pubvars, moves>>

Next ==
  \/ create_public_export \/ resume_public_export_validation \/ _tracked_entries
  \/ _copy_selected_files \/ _commit_root \/ ReadDigests \/ CheckResumable
  \/ run_public_export_validation \/ CertifyClone \/ WriteReceipt
  \/ build_publication_plan \/ Approve \/ publish_publication_plan \/ _create_repository
  \/ ConfigureRepository \/ _push_fresh_root \/ FinishPublish \/ verify_publication
  \/ SourceMoves \/ RootChanges \/ ForeignRepository \/ Dies \/ RemoveRoot

Spec == Init /\ [][Next]_vars

(* -------------------------------- properties -------------------------------- *)

\* But for what others put there, the root commit holds no file outside the
\* allow-list and no private key material, however the source moves while it is
\* copied.
ExportIsSelected ==
  dest.log # <<>> => Head(dest.log).files \ dest.placed \subseteq Allowed \ Keys

\* An export command that returns "validated" leaves a root that is clean, has
\* exactly one commit, passes the audit, and is the one its receipt names, unless
\* somebody changed the root after it was committed or compared.
ValidatedIsExact ==
  (run # Idle /\ run' = Idle /\ result' = "validated") =>
    /\ receipt'.status = "validated"
    /\ ~run.disturbed /\ ~receipt'.disturbed =>
         ~dest'.dirty /\ dest'.log = <<receipt'.root>> /\ Clean(dest'.log)

\* A publication becomes verified only while the repository, created by this
\* program, holds exactly the history a person approved, audited as a whole.
VerifiedWasApproved ==
  (plan.status # "verified" /\ plan'.status = "verified") =>
    /\ remote'.owner = "ours" /\ remote'.log = approved' /\ Clean(remote'.log)

\* A repository somebody else created under the name is never changed.
ForeignIsUntouched == remote.owner = "foreign" => remote' = remote
================================================================================
