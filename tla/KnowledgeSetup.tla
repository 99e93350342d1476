----------------------------- MODULE KnowledgeSetup -----------------------------
(***************************************************************************)
(* Making the knowledge repository (src/ei/knowledge_setup.py,             *)
(* knowledge_repository.py) and joining it with a private repository on    *)
(* GitHub (src/ei/github_knowledge.py).  A root that does not exist is     *)
(* built beside its place under an ownership record and moved there; an    *)
(* empty one is filled in place.  Every command may fail, before or after  *)
(* its effect, the process may die at any step, and setup is run again.    *)
(***************************************************************************)
EXTENDS Integers

CONSTANT MaxFaults    \* bound: failures, deaths and pushes of others

VARIABLES
    root,     \* the knowledge root: what is there, and the history of its commits
    origin,   \* what the knowledge root was before the first setup
    staging,  \* the directory beside it: absent, partial, whole, or theirs
    owner,    \* the ownership record of the staging exists
    remote,   \* the repository on GitHub: [exists, private, hist]
    link,     \* the root has the remote under the selected name
    receipt,  \* the last operation receipt: [mode, status, stage]
    retained, \* some receipt of the mode github-new says that the repository was created
    run,      \* the setup that is running: [pc, mode, act, stage]
    faults

local == <<root, origin, staging, owner>>
vars == <<root, origin, staging, owner, remote, link, receipt, retained, run, faults>>

Modes == {"local", "github-new", "github-existing"}
Whole(hist) == [kind |-> "whole", hist |-> hist]
Bare(kind) == [kind |-> kind, hist |-> "none"]
Idle == [pc |-> "idle", mode |-> "none", act |-> "none", stage |-> "PLANNED"]

Init ==
    /\ origin \in {"absent", "empty", "partial"} /\ root = Bare(origin)
    /\ staging \in {"absent", "theirs"} /\ owner = FALSE
    /\ remote \in [exists : {TRUE}, private : BOOLEAN, hist : {"none", "other"}]
                    \cup {[exists |-> FALSE, private |-> TRUE, hist |-> "none"]}
    /\ link = FALSE /\ retained = FALSE /\ run = Idle /\ faults = 0
    /\ receipt = [mode |-> "none", status |-> "none", stage |-> "PLANNED"]

Fault == faults < MaxFaults /\ faults' = faults + 1
Goto(pc) == run' = [run EXCEPT !.pc = pc]

-----------------------------------------------------------------------------
(* Receipts.                                                               *)

_persist_progress(status, stage) == receipt' = [mode |-> run.mode, status |-> status, stage |-> stage]
Progress(stage, pc) == _persist_progress("IN_PROGRESS", stage) /\ run' = [run EXCEPT !.pc = pc, !.stage = stage]

\* _validate_operation_receipt: what the stage and the status of a receipt may be.
_validate_operation_receipt(r) ==
    /\ r.mode \in Modes \cup {"none"}
    /\ r.status \in {"none", "IN_PROGRESS", "COMPLETE", "FAILED", "BLOCKED"}
    /\ r.stage \in {"PLANNED", "KNOWLEDGE_LOCAL_READY", "REMOTE_CREATED_OR_VERIFIED", "REMOTE_CONNECTED", "INITIAL_PUSH_VERIFIED"}

\* A setup that cannot go on leaves a receipt: FAILED may be tried again, BLOCKED asks for the user.
Stop(status) == _persist_progress(status, run.stage) /\ run' = Idle
Complete(stage) == _persist_progress("COMPLETE", stage) /\ run' = Idle

-----------------------------------------------------------------------------
(* The plan.                                                               *)

\* inspect_knowledge_repository: the layout, the manifest and a .git are there; a commit is not asked for.
Usable(r) == r.kind \in {"layout", "whole"}

\* _local_action: what is there and is not a knowledge repository is not touched.
_local_action(r) == CASE r.kind \in {"absent", "empty"} -> "initialize-local"
                      [] Usable(r) -> "reuse-local"
                      [] OTHER -> "refused"

plan_knowledge_setup(mode) ==
    /\ run = Idle
    /\ _local_action(root) # "refused"
    /\ run' = [pc |-> IF mode = "github-existing" THEN "inspect" ELSE "local", mode |-> mode, act |-> _local_action(root), stage |-> "PLANNED"]
    /\ UNCHANGED <<local, remote, link, receipt, retained, faults>>

-----------------------------------------------------------------------------
(* _initialize_local_repository.                                           *)

\* Where the setup goes once the root can be used.
AfterLocal == IF run.mode = "github-existing" THEN "join" ELSE "ready"

ensure_local_knowledge ==
    /\ run.pc = "local"
    /\ CASE run.act = "reuse-local" /\ Usable(root) -> Goto(AfterLocal)
         [] run.act = "reuse-local" /\ ~Usable(root) -> Goto("fail")
         [] run.act = "initialize-local" /\ root.kind = "absent" -> Goto("recover")
         [] run.act = "initialize-local" /\ root.kind = "empty" -> Goto("files")
         [] OTHER -> Goto("fail")
    /\ UNCHANGED <<local, remote, link, receipt, retained, faults>>

\* _recover_owned_staging and _clear_owned_clone: what is left of an earlier attempt is removed
\* only under its record.
_recover_owned_staging ==
    /\ run.pc \in {"recover", "clone"}
    /\ IF staging = "absent" \/ owner
       THEN staging' = "absent" /\ owner' = FALSE /\ Goto(IF run.pc = "recover" THEN "own" ELSE "ownClone")
       ELSE Goto("fail") /\ UNCHANGED <<staging, owner>>
    /\ UNCHANGED <<root, origin, remote, link, receipt, retained, faults>>

write_ownership_record ==
    /\ run.pc \in {"own", "ownClone"} /\ owner' = TRUE /\ Goto(IF run.pc = "own" THEN "build" ELSE "cloning")
    /\ UNCHANGED <<root, origin, staging, remote, link, receipt, retained, faults>>

\* bootstrap_knowledge_repository in the staging: a failure leaves part of it.
Build(ok) ==
    /\ run.pc = "build"
    /\ IF ok THEN staging' = "whole" /\ Goto("move") /\ UNCHANGED faults
             ELSE staging' = "partial" /\ Goto("fail") /\ Fault
    /\ UNCHANGED <<root, origin, owner, remote, link, receipt, retained>>

\* safe_move: never over something.
safe_move ==
    /\ run.pc \in {"move", "moveClone"}
    /\ IF root.kind = "absent"
       THEN /\ root' = Whole(IF run.pc = "move" THEN "ours" ELSE remote.hist) /\ staging' = "absent"
            /\ link' = (run.pc = "moveClone") /\ Goto("disown")
       ELSE Goto("fail") /\ UNCHANGED <<root, staging, link>>
    /\ UNCHANGED <<origin, owner, remote, receipt, retained, faults>>
Disown ==
    /\ run.pc = "disown" /\ owner' = FALSE
    /\ Goto(IF run.mode = "github-existing" /\ link THEN "complete" ELSE AfterLocal)
    /\ UNCHANGED <<root, origin, staging, remote, link, receipt, retained, faults>>

\* Mutant: a root that does not exist is filled in place too.
FillInPlace ==
    /\ run.pc \in {"files", "init", "commit", "recover"}
    /\ CASE run.pc \in {"files", "recover"} -> root' = Bare("partial") /\ Goto("init")
         [] run.pc = "init" -> root' = Bare("layout") /\ Goto("commit")
         [] run.pc = "commit" -> root' = Whole("ours") /\ Goto(AfterLocal)
    /\ UNCHANGED <<origin, staging, owner, remote, link, receipt, retained, faults>>

\* bootstrap_knowledge_repository in an empty root: files, git init, first commit.
bootstrap_knowledge_repository ==
    /\ run.pc \in {"files", "init", "commit"}
    /\ CASE run.pc = "files" -> root' = Bare("partial") /\ Goto("init")
         [] run.pc = "init" -> root' = Bare("layout") /\ Goto("commit")
         [] run.pc = "commit" -> root' = Whole("ours") /\ Goto(AfterLocal)
    /\ UNCHANGED <<origin, staging, owner, remote, link, receipt, retained, faults>>

LocalReady ==
    /\ run.pc = "ready"
    /\ IF run.mode = "local" THEN Complete("KNOWLEDGE_LOCAL_READY") ELSE Progress("KNOWLEDGE_LOCAL_READY", "create")
    /\ UNCHANGED <<local, remote, link, retained, faults>>

-----------------------------------------------------------------------------
(* _github_new.                                                            *)

\* A receipt that says the repository was created stands for the creation; a command that
\* fails may have created it all the same.
create_private_repository(answer) ==
    /\ run.pc = "create"
    /\ CASE retained /\ answer = "ok" -> Goto("verify") /\ UNCHANGED <<remote, receipt, retained, faults>>
         [] ~retained /\ remote.exists /\ answer = "ok" -> Stop("BLOCKED") /\ UNCHANGED <<remote, retained, faults>>
         [] ~retained /\ ~remote.exists /\ answer = "ok" ->
                /\ remote' = [exists |-> TRUE, private |-> TRUE, hist |-> "none"] /\ Goto("created")
                /\ UNCHANGED <<receipt, retained, faults>>
         [] ~retained /\ ~remote.exists /\ answer = "late" ->
                /\ remote' = [exists |-> TRUE, private |-> TRUE, hist |-> "none"] /\ Goto("fail")
                /\ Fault /\ UNCHANGED <<receipt, retained>>
         [] OTHER -> FALSE
    /\ UNCHANGED <<local, link>>
Created ==
    /\ run.pc = "created" /\ retained' = TRUE /\ Progress("REMOTE_CREATED_OR_VERIFIED", "verify")
    /\ UNCHANGED <<local, remote, link, faults>>

\* inspect_repository and _assure_github_remote: there, empty and private.
_assure_github_remote ==
    /\ run.pc = "verify"
    /\ CASE ~remote.exists -> Stop("FAILED")
         [] remote.exists /\ (remote.hist # "none" \/ ~remote.private) -> Stop("BLOCKED")
         [] OTHER -> Progress("REMOTE_CREATED_OR_VERIFIED", "connect")
    /\ UNCHANGED <<local, remote, link, retained, faults>>
connect_exact_remote ==
    /\ run.pc = "connect" /\ link' = TRUE /\ Progress("REMOTE_CONNECTED", "push")
    /\ UNCHANGED <<local, remote, retained, faults>>

\* push_and_verify: a root without a commit has nothing to push; git refuses what is not a
\* continuation; a push that is reported as failed may have arrived.
push_and_verify(answer) ==
    /\ run.pc = "push"
    /\ IF root.kind = "whole" /\ remote.hist \in {"none", root.hist}
       THEN /\ remote' = [remote EXCEPT !.hist = root.hist]
            /\ IF answer = "ok" THEN Goto("fetch") /\ UNCHANGED faults ELSE Goto("fail") /\ Fault
       ELSE answer = "ok" /\ Goto("fail") /\ UNCHANGED <<remote, faults>>
    /\ UNCHANGED <<local, link, receipt, retained>>

VerifyPush ==
    /\ run.pc = "fetch"
    /\ IF remote.hist = root.hist THEN Goto("complete") ELSE Goto("fail")
    /\ UNCHANGED <<local, remote, link, receipt, retained, faults>>
Finish ==
    /\ run.pc = "complete" /\ Complete("INITIAL_PUSH_VERIFIED")
    /\ retained' = (retained \/ run.mode = "github-new")
    /\ UNCHANGED <<local, remote, link, faults>>

-----------------------------------------------------------------------------
(* _github_existing.                                                       *)

\* A repository with content is cloned to where nothing is; otherwise the root is used.
InspectExisting ==
    /\ run.pc = "inspect"
    /\ IF ~remote.exists \/ ~remote.private THEN Stop("BLOCKED")
       ELSE Progress("REMOTE_CREATED_OR_VERIFIED",
                     IF root.kind = "absent" /\ remote.hist # "none" THEN "clone" ELSE "local")
    /\ UNCHANGED <<local, remote, link, retained, faults>>

\* _clone_existing_repository into the staging.
_clone_existing_repository(ok) ==
    /\ run.pc = "cloning"
    /\ IF ok THEN staging' = "whole" /\ Goto("moveClone") /\ UNCHANGED faults
             ELSE staging' = "partial" /\ Goto("fail") /\ Fault
    /\ UNCHANGED <<root, origin, owner, remote, link, receipt, retained>>

\* A root without its first commit is dirty.  A linked root must be where the remote is.
_verify_existing_alignment ==
    /\ run.pc = "join"
    /\ CASE root.kind # "whole" -> Stop("BLOCKED") /\ UNCHANGED link
         [] root.kind = "whole" /\ remote.hist = "none" -> link' = TRUE /\ Goto("push") /\ UNCHANGED receipt
         [] root.kind = "whole" /\ remote.hist # "none" /\ link /\ remote.hist = root.hist ->
                Goto("complete") /\ UNCHANGED <<link, receipt>>
         [] OTHER -> Stop("BLOCKED") /\ UNCHANGED link
    /\ UNCHANGED <<local, remote, retained, faults>>

-----------------------------------------------------------------------------
\* With an existing repository only what the network explains may be tried again.
GiveUp ==
    /\ run.pc = "fail"
    /\ \E status \in IF run.mode = "github-existing" THEN {"FAILED", "BLOCKED"} ELSE {"FAILED"} : Stop(status)
    /\ UNCHANGED <<local, remote, link, retained, faults>>
\* A command fails without an effect; somebody pushes first; the process dies.
CommandFails ==
    /\ run.pc \notin {"idle", "fail"} /\ Fault /\ Goto("fail")
    /\ UNCHANGED <<local, remote, link, receipt, retained>>
OtherPushes ==
    /\ remote.exists /\ remote.hist = "none" /\ Fault /\ remote' = [remote EXCEPT !.hist = "other"]
    /\ UNCHANGED <<local, link, receipt, retained, run>>
Die == run # Idle /\ Fault /\ run' = Idle /\ UNCHANGED <<local, remote, link, receipt, retained>>

Step ==
    \/ ensure_local_knowledge \/ _recover_owned_staging \/ write_ownership_record \/ safe_move \/ Disown
    \/ bootstrap_knowledge_repository \/ LocalReady \/ Created \/ _assure_github_remote \/ connect_exact_remote
    \/ VerifyPush \/ Finish \/ InspectExisting \/ _verify_existing_alignment \/ GiveUp
    \/ \E ok \in BOOLEAN : Build(ok) \/ _clone_existing_repository(ok)
    \/ \E answer \in {"ok", "late"} : create_private_repository(answer) \/ push_and_verify(answer)
Next == Step \/ CommandFails \/ OtherPushes \/ Die \/ \E mode \in Modes : plan_knowledge_setup(mode)
Spec == Init /\ [][Next]_vars

\* A setup that does not die goes on, and the local setup is tried again and again.
FairSpec == Spec /\ WF_vars(Step) /\ SF_vars(plan_knowledge_setup("local"))

-----------------------------------------------------------------------------
(* Properties.                                                             *)

\* A knowledge root that did not exist before the setup is whole when it exists, whatever failed
\* or died while it was made; and every receipt on the way can be read back.
RootIsWhole ==
    /\ _validate_operation_receipt(receipt)
    /\ origin = "absent" => root.kind \in {"absent", "whole"}

\* A setup that reports COMPLETE for a GitHub mode has put the history of the root, whole, into a
\* private repository to which the root is linked, and nothing else is there.
CompleteIsPushed ==
    receipt'.status = "COMPLETE" /\ receipt' # receipt /\ run.mode # "local" =>
        root.kind = "whole" /\ link /\ remote.private /\ remote.hist = root.hist

\* What others put beside the root, into it, or into the repository stays as it is.
OthersAreKept ==
    /\ staging = "theirs" => staging' = "theirs"
    /\ remote.hist = "other" => remote'.hist = "other"
    /\ root = Bare("partial") /\ origin = "partial" => root' = root

\* A root that does not exist is made in the end however often the setup fails or dies: what an
\* attempt leaves behind never blocks the next one.
Made == origin = "absent" => staging = "theirs" \/ root.kind = "whole"
=================================================================================
