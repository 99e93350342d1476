---------------------------- MODULE RootMigration ----------------------------
(***************************************************************************)
(* The move of a combined repository into a separate knowledge root        *)
(* (migrate.py from line 786, recovery.py, `ei migration ...` in cli.py):  *)
(* plan, staged copy, atomic rename and receipt; recovery of abandoned     *)
(* staging; rollback bound to the receipt; cleanup of the old root.  The   *)
(* user may edit either root at any moment, a command may fail at any of   *)
(* its file operations and a process may die between any two of them.      *)
(***************************************************************************)
EXTENDS Naturals, FiniteSets

CONSTANTS
    N,           \* the authorised files are 1..N, in the order of the plan
    MaxEdits,    \* bound on the user's edits
    MaxFaults    \* bound on failures and deaths

VARIABLES
    src,         \* file -> content, 0 when it is absent
    dest,        \* the new root, or NoTree
    stage,       \* the staging tree of the running apply, or NoTree
    owner,       \* is its ownership record on disk?
    abandoned,   \* is there staging of an apply that died?
    plan,        \* the saved plan: the source tree it was made from, or NoTree
    receipt,     \* [status, digest]: "none", "complete" or "rolled_back"
    backup,      \* the user's copy of the old root, or NoTree
    cmd,         \* the running command: [pc, at, digest]
    answer,      \* what the last command said
    latest,      \* history: file -> the content the user last gave it in the source
    stated,      \* history: the plans a cleanup took a JSON file's word for
    edits, faults

vars == <<src, dest, stage, owner, abandoned, plan, receipt, backup, cmd, answer, latest, stated,
          edits, faults>>
files == <<src, dest, stage, owner, abandoned, plan, receipt, backup>>
history == <<latest, stated, edits, faults>>

Files == 1..N
Tree == [Files -> Nat]
NoTree == [f \in {} |-> 0]
Empty == [f \in Files |-> 0]
Exists(t) == t # NoTree
Idle == [pc |-> "idle", at |-> 1, digest |-> NoTree]
ApplySteps == {"owner", "copy", "project", "move", "unown", "receipt"}

Say(a) == answer' = a /\ cmd' = Idle /\ UNCHANGED files

-----------------------------------------------------------------------------
(* Planning.                                                               *)

_root_migration_destination_safe == ~Exists(dest)
_verify_root_migration_source(p) == src = p

\* ei migration inspect --plan-output: refused when the destination exists.
build_root_migration_plan ==
    /\ cmd.pc = "idle" /\ _root_migration_destination_safe
    /\ plan # src
    /\ plan' = src /\ answer' = "planned"
    /\ UNCHANGED <<abandoned, src, dest, stage, owner, receipt, backup, cmd>> /\ UNCHANGED history

\* A saved plan is loaded by building it again from what is there now.
_load_root_migration_plan ==
    /\ Exists(plan)
    /\ _root_migration_destination_safe
    /\ plan = src

-----------------------------------------------------------------------------
(* ei migration apply.                                                     *)

StartApply ==
    /\ cmd.pc = "idle" /\ Exists(plan)
    /\ IF _load_root_migration_plan /\ _verify_root_migration_source(plan)
       THEN /\ stage' = Empty
            /\ cmd' = [Idle EXCEPT !.pc = "owner"]
            /\ answer' = "none"
            /\ UNCHANGED <<abandoned, src, dest, owner, plan, receipt, backup>>
       ELSE Say("apply refused")
    /\ UNCHANGED history

write_ownership_record ==
    /\ cmd.pc = "owner"
    /\ owner' = TRUE
    /\ cmd' = [cmd EXCEPT !.pc = "copy"]
    /\ UNCHANGED <<abandoned, src, dest, stage, plan, receipt, backup, answer>> /\ UNCHANGED history

\* safe_copy_file compares the source with the plan's digest and the copy is
\* read back.
CopyFile(f) ==
    /\ cmd.pc = "copy" /\ cmd.at = f
    /\ src[f] = plan[f]
    /\ stage' = [stage EXCEPT ![f] = src[f]]
    /\ cmd' = IF f = N THEN [cmd EXCEPT !.pc = "project"] ELSE [cmd EXCEPT !.at = f + 1]
    /\ UNCHANGED <<abandoned, src, dest, owner, plan, receipt, backup, answer>> /\ UNCHANGED history

\* The projection is rebuilt and verified and the tree's digest taken.
_verify_projection ==
    /\ cmd.pc = "project"
    /\ cmd' = [cmd EXCEPT !.pc = "move", !.digest = stage]
    /\ UNCHANGED files /\ UNCHANGED answer /\ UNCHANGED history

MoveStage ==
    /\ cmd.pc = "move" /\ ~Exists(dest)
    /\ dest' = stage /\ stage' = NoTree
    /\ cmd' = [cmd EXCEPT !.pc = "unown"]
    /\ UNCHANGED <<abandoned, src, owner, plan, receipt, backup, answer>> /\ UNCHANGED history

UnlinkOwner ==
    /\ cmd.pc = "unown"
    /\ owner' = FALSE
    /\ cmd' = [cmd EXCEPT !.pc = "receipt"]
    /\ UNCHANGED <<abandoned, src, dest, stage, plan, receipt, backup, answer>> /\ UNCHANGED history

WriteReceipt ==
    /\ cmd.pc = "receipt"
    /\ receipt' = [status |-> "complete", digest |-> cmd.digest]
    /\ answer' = "applied" /\ cmd' = Idle
    /\ UNCHANGED <<abandoned, src, dest, stage, owner, plan, backup>> /\ UNCHANGED history

\* Any exception removes the staging, its record and a destination that was
\* already moved into place.
AbortApply ==
    /\ cmd.pc \in ApplySteps
    /\ \/ cmd.pc = "copy" /\ src[cmd.at] # plan[cmd.at] /\ UNCHANGED faults
       \/ cmd.pc = "move" /\ Exists(dest) /\ UNCHANGED faults
       \/ faults < MaxFaults /\ faults' = faults + 1
    /\ stage' = NoTree /\ owner' = FALSE
    /\ dest' = IF cmd.pc \in {"unown", "receipt"} THEN NoTree ELSE dest
    /\ answer' = "apply failed" /\ cmd' = Idle
    /\ UNCHANGED <<abandoned, src, plan, receipt, backup, latest, stated, edits>>

\* ei migration recover-staging, once the interrupted process is gone.  The
\* ownership record beside the staging is left; nothing reads it.
recover_root_migration_staging ==
    /\ cmd.pc = "idle" /\ abandoned
    /\ abandoned' = FALSE /\ answer' = "recovered"
    /\ UNCHANGED <<src, dest, stage, owner, plan, receipt, backup, cmd>> /\ UNCHANGED history

-----------------------------------------------------------------------------
(* ei migration rollback: the digest is compared, then the tree removed,   *)
(* then the receipt rewritten.                                             *)

_read_root_migration_receipt == receipt.status = "complete"

CheckRollback ==
    /\ cmd.pc = "idle" /\ _read_root_migration_receipt
    /\ IF Exists(dest) /\ dest = receipt.digest
       THEN cmd' = [Idle EXCEPT !.pc = "rollback"] /\ UNCHANGED <<files, answer>>
       ELSE Say("rollback refused")
    /\ UNCHANGED history

RemoveDestination ==
    /\ cmd.pc = "rollback"
    /\ dest' = NoTree
    /\ cmd' = [cmd EXCEPT !.pc = "rolled"]
    /\ UNCHANGED <<abandoned, src, stage, owner, plan, receipt, backup, answer>> /\ UNCHANGED history

rollback_root_migration ==
    /\ cmd.pc = "rolled"
    /\ receipt' = [receipt EXCEPT !.status = "rolled_back"]
    /\ answer' = "rolled back" /\ cmd' = Idle
    /\ UNCHANGED <<abandoned, src, dest, stage, owner, plan, backup>> /\ UNCHANGED history

-----------------------------------------------------------------------------
(* Cleanup of the old root.                                                *)

\* A backup directory must be the plan's source; of a file only the JSON in it is
\* read, which must say verified and name the digests of the plan.
_verify_legacy_backup(p, json) == json \/ backup = p

_require_completed_migration(p) ==
    /\ _read_root_migration_receipt
    /\ Exists(dest) /\ dest = receipt.digest

\* May the plan's files be removed from the old root?
CleanupAllowed(p, json) ==
    /\ _verify_legacy_backup(p, json)
    /\ _require_completed_migration(p)
    /\ _verify_root_migration_source(p)
Cleanup(json) ==
    /\ cmd' = [Idle EXCEPT !.pc = "cleanup"]
    /\ stated' = IF json THEN stated \cup {plan} ELSE stated
    /\ UNCHANGED <<files, answer, latest, edits, faults>>

\* cleanup_legacy_root called with a plan that is still in memory.
StartCleanup(json) ==
    /\ cmd.pc = "idle" /\ Exists(plan)
    /\ IF CleanupAllowed(plan, json) THEN Cleanup(json)
       ELSE Say("cleanup refused") /\ UNCHANGED history

\* ei migration cleanup --plan FILE: the plan is loaded first.
CleanupCommand(json) ==
    /\ cmd.pc = "idle" /\ Exists(plan)
    /\ IF _load_root_migration_plan /\ CleanupAllowed(plan, json) THEN Cleanup(json)
       ELSE Say("cleanup command refused") /\ UNCHANGED history

\* Mutant: a file of the plan is removed without comparing it again.
RemoveAnything(f) ==
    /\ cmd.pc = "cleanup" /\ cmd.at = f
    /\ src' = [src EXCEPT ![f] = 0]
    /\ IF f = N THEN cmd' = Idle /\ answer' = "cleaned"
                ELSE cmd' = [cmd EXCEPT !.at = f + 1] /\ UNCHANGED answer
    /\ UNCHANGED <<abandoned, dest, stage, owner, plan, receipt, backup>> /\ UNCHANGED history

\* Each file is unlinked by the plan's digest.
RemoveLegacy(f) ==
    /\ cmd.pc = "cleanup" /\ cmd.at = f
    /\ src[f] = plan[f]
    /\ src' = [src EXCEPT ![f] = 0]
    /\ IF f = N THEN cmd' = Idle /\ answer' = "cleaned"
                ELSE cmd' = [cmd EXCEPT !.at = f + 1] /\ UNCHANGED answer
    /\ UNCHANGED <<abandoned, dest, stage, owner, plan, receipt, backup>> /\ UNCHANGED history

StopCleanup ==
    /\ cmd.pc = "cleanup" /\ src[cmd.at] # plan[cmd.at]
    /\ Say("cleanup failed") /\ UNCHANGED history

-----------------------------------------------------------------------------
(* The environment.                                                        *)

EditSource(f) ==
    /\ edits < MaxEdits /\ src[f] # 0
    /\ edits' = edits + 1
    /\ src' = [src EXCEPT ![f] = edits + 2]
    /\ latest' = [latest EXCEPT ![f] = edits + 2]
    /\ UNCHANGED <<abandoned, dest, stage, owner, plan, receipt, backup, cmd, answer, stated, faults>>

EditDestination(f) ==
    /\ edits < MaxEdits /\ Exists(dest)
    /\ edits' = edits + 1
    /\ dest' = [dest EXCEPT ![f] = edits + 2]
    /\ UNCHANGED <<abandoned, src, stage, owner, plan, receipt, backup, cmd, answer, latest, stated, faults>>

TakeBackup ==
    /\ \A f \in Files : src[f] # 0
    /\ backup # src
    /\ backup' = src
    /\ UNCHANGED <<abandoned, src, dest, stage, owner, plan, receipt, cmd, answer>> /\ UNCHANGED history

Die ==
    /\ cmd.pc # "idle" /\ faults < MaxFaults
    /\ faults' = faults + 1 /\ cmd' = Idle /\ answer' = "none"
    /\ abandoned' = (abandoned \/ Exists(stage))
    /\ stage' = NoTree /\ owner' = FALSE
    /\ UNCHANGED <<src, dest, plan, receipt, backup, latest, stated, edits>>

Init ==
    /\ src = [f \in Files |-> 1] /\ latest = src
    /\ dest = NoTree /\ stage = NoTree /\ owner = FALSE /\ abandoned = FALSE
    /\ plan = NoTree /\ backup = NoTree
    /\ receipt = [status |-> "none", digest |-> NoTree]
    /\ cmd = Idle /\ answer = "none" /\ stated = {}
    /\ edits = 0 /\ faults = 0

Commands ==
    \/ build_root_migration_plan \/ StartApply \/ write_ownership_record \/ _verify_projection
    \/ MoveStage \/ UnlinkOwner \/ WriteReceipt \/ AbortApply \/ recover_root_migration_staging
    \/ CheckRollback \/ RemoveDestination \/ rollback_root_migration
    \/ (\E json \in BOOLEAN : StartCleanup(json) \/ CleanupCommand(json)) \/ StopCleanup
    \/ \E f \in Files : CopyFile(f) \/ RemoveLegacy(f)

Next ==
    \/ Commands
    \/ \E f \in Files : EditSource(f) \/ EditDestination(f)
    \/ TakeBackup
    \/ Die

Spec == Init /\ [][Next]_vars

-----------------------------------------------------------------------------
(* Properties.                                                             *)

\* What the user last wrote to a file of the old root is in the old root, the
\* new one or the backup, whatever is planned, moved, rolled back, recovered,
\* cleaned or interrupted, and whenever the user edits it; unless a cleanup took
\* the word of a JSON file that there was a backup of it.
NothingIsLost ==
    \A f \in Files :
        \/ \E t \in {src, dest, backup} : Exists(t) /\ t[f] = latest[f]
        \/ \E t \in stated : t[f] = latest[f]

\* The new root appears whole, as the plan was made, and not before.
AppearsWhole == ~Exists(dest) /\ Exists(dest') => dest' = plan

=============================================================================
