------------------------------ MODULE Installer ------------------------------
(***************************************************************************)
(* Setup, update and uninstall of the host integration                     *)
(* (src/ei/installer.py, src/ei/setup_reconciliation.py,                   *)
(* src/ei/skill_installer.py): a pure planner compares the manifest with   *)
(* the live targets, a journalled transaction changes the targets, and a   *)
(* later setup rolls back what a process that died left in progress.  The  *)
(* targets are files of the user's hosts: the user edits and deletes them  *)
(* at any time.                                                            *)
(*                                                                         *)
(* A target is a hook file (only the managed entries are hashed), a        *)
(* context file (text of the user around a managed block, hashed whole) or *)
(* an owned file or directory (Skill, binding, profile copy).  Every       *)
(* target is shared by the hosts, as codex-cli and codex-app share theirs. *)
(***************************************************************************)
EXTENDS Integers, Sequences, FiniteSets

CONSTANTS
    Hosts,
    Selections,   \* set of [hosts, scheduler, team, roots] a user may select
    Kind,         \* targets -> "hook" | "context" | "owned"
    MaxFaults,    \* bound: edits, deletions, failures, deaths, new engine revisions
    MaxSetups     \* bound: transactions

VARIABLES
    file,       \* content of every target and of the manifest
    journal,    \* the transactions/ directory: journals, with the copies and what was moved aside
    scheduler,  \* the maintenance job is registered with the operating system
    source,     \* revision of the Skill in the engine checkout
    run,        \* the setup or uninstall that is running
    result,     \* status of the last one that ended
    text,       \* the last edit the user made to a target, 0 for none or deleted
    faults

vars == <<file, journal, scheduler, source, run, result, text, faults>>

Targets == DOMAIN Kind
Manifest == "manifest"

NoFile == [there |-> FALSE]
Content(user, managed) == [there |-> TRUE, user |-> user, managed |-> managed]
Idle == [pc |-> "idle"]

Init ==
    /\ file = [t \in Targets \cup {Manifest} |->
                 IF t \in Targets /\ Kind[t] # "owned" THEN Content(0, {}) ELSE NoFile]
    /\ journal = <<>> /\ scheduler = FALSE /\ source = 1
    /\ run = Idle /\ result = "none" /\ text = [t \in Targets |-> 0] /\ faults = 0

Fault == faults < MaxFaults /\ faults' = faults + 1
Goto(pc) == run' = [run EXCEPT !.pc = pc]
End(status) == run' = Idle /\ result' = status

-----------------------------------------------------------------------------
(* The planner.                                                            *)

\* _manifest_state: what an installation that is not uninstalled recorded.
Installed(man) == man.there /\ man.status = "INSTALLED"
_manifest_state(man) == IF Installed(man) THEN man.recorded ELSE [t \in {} |-> NoFile]

\* _managed_hook_hash hashes the recorded entries only, _target_live_hash the whole file.
_managed_hook_hash(f, recorded) == [recorded EXCEPT !.managed = f.managed \cap recorded.managed]
_target_live_hash(t, recorded) ==
    IF file[t].there /\ Kind[t] = "hook" THEN _managed_hook_hash(file[t], recorded) ELSE file[t]

\* A target that is there and is not what was recorded; a missing one is no conflict.
Tampered(t, recorded) == file[t].there /\ _target_live_hash(t, recorded) # recorded
_managed_conflict ==
    \E t \in DOMAIN _manifest_state(file[Manifest]) : Tampered(t, file[Manifest].recorded[t])

\* What the digest of the plan tells apart.
read_live_setup_state(man) ==
    [t \in DOMAIN _manifest_state(man) |-> _target_live_hash(t, man.recorded[t])]

\* Only a missing Skill or binding is repaired: the hook and context files of a host that
\* stays are not looked at.
_host_action_changes(sel) ==
    \/ sel.hosts # file[Manifest].selection.hosts
    \/ \E t \in Targets : Kind[t] = "owned" /\ (~file[t].there \/ file[Manifest].recorded[t].managed # source)
_settings_changes(sel) == sel.team # file[Manifest].selection.team

\* Another personal root, runtime root, remote or team store needs a migration.
_identity_error(sel) == Installed(file[Manifest]) /\ sel.roots # file[Manifest].selection.roots

\* The team store of the installation is inspected unless the team is being switched off.
_team_live_error(sel, reachable) ==
    Installed(file[Manifest]) /\ file[Manifest].selection.team /\ sel.team /\ ~reachable

plan_setup_reconciliation(sel, reachable) ==
    IF _identity_error(sel) \/ _team_live_error(sel, reachable) \/ _managed_conflict THEN "BLOCKED"
    ELSE IF ~Installed(file[Manifest]) THEN "CREATED"
    ELSE IF _host_action_changes(sel) \/ _settings_changes(sel)
            \/ sel.scheduler # file[Manifest].selection.scheduler
         THEN "UPDATED" ELSE "ALREADY_CURRENT"

-----------------------------------------------------------------------------
(* _setup_reconciled up to the transaction.                                *)

Start(op, sel, pc) ==
    [pc |-> pc, op |-> op, sel |-> sel, previous |-> file[Manifest], live |-> read_live_setup_state(file[Manifest]),
     tx |-> 0, job |-> 0, left |-> <<>>, conflict |-> FALSE, entry |-> NoFile, back |-> "none", todo |-> {}, built |-> NoFile]

\* The selection is normalised and planned.  Without an organizer nothing is planned, a plan
\* that is blocked touches nothing, one that is current only brings the scheduler in line.
_setup_reconciled(sel, organizer, reachable) ==
    /\ run = Idle /\ Len(journal) < MaxSetups
    /\ LET plan == IF organizer THEN plan_setup_reconciliation(sel, reachable) ELSE "SELECTION_REQUIRED" IN
       CASE plan = "SELECTION_REQUIRED" -> End(plan) /\ UNCHANGED scheduler
         [] plan = "BLOCKED" -> End(plan) /\ UNCHANGED scheduler
         [] plan = "ALREADY_CURRENT" -> End(plan) /\ scheduler' = sel.scheduler
         [] OTHER -> run' = Start("setup", sel, "stores") /\ UNCHANGED <<scheduler, result>>
    /\ UNCHANGED <<file, journal, source, text, faults>>

\* assert_plan_current, then prepare_personal_store and prepare_or_validate_team_store:
\* a store that cannot be prepared ends the setup before any host is touched.
assert_plan_current(ready) ==
    /\ run.pc = "stores"
    /\ CASE read_live_setup_state(run.previous) # run.live -> End("SETUP_PLAN_STALE") /\ UNCHANGED faults
         [] read_live_setup_state(run.previous) = run.live /\ ~ready -> End("KNOWLEDGE_SETUP_BLOCKED") /\ Fault
         [] OTHER -> Goto("recover") /\ UNCHANGED <<result, faults>>
    /\ UNCHANGED <<file, journal, scheduler, source, text>>

Pending == {j \in DOMAIN journal : journal[j].status = "IN_PROGRESS"}

Restore(j) == run' = [run EXCEPT !.pc = "restore", !.job = j, !.left = journal[j].entries, !.conflict = FALSE]

\* The journals in progress are rolled back one by one.
_recover_pending_transactions ==
    /\ run.pc = "recover" /\ \E j \in Pending : Restore(j)
    /\ UNCHANGED <<file, journal, scheduler, source, result, text, faults>>

-----------------------------------------------------------------------------
(* The transaction.                                                        *)

\* A transaction starts with its journal; an uninstall starts one without recovering.
_Transaction ==
    /\ run.pc = "begin" \/ (run.pc = "recover" /\ Pending = {})
    /\ journal' = Append(journal, [status |-> "IN_PROGRESS", entries |-> <<>>, aside |-> {},
                                   backup |-> [t \in Targets \cup {Manifest} |-> NoFile]])
    /\ run' = [run EXCEPT !.tx = Len(journal) + 1,
                          !.pc = IF run.op = "setup" THEN "remove" ELSE "write",
                          !.todo = Targets]
    /\ UNCHANGED <<file, scheduler, source, result, text, faults>>

\* A target is changed first and entered into the journal afterwards.
Change(t, content, moved) ==
    /\ file' = [file EXCEPT ![t] = content]
    /\ run' = [run EXCEPT !.pc = "enter", !.todo = @ \ {t}, !.back = IF t = Manifest THEN "commit" ELSE run.pc,
                          !.entry = [t |-> t, existed |-> file[t].there, before |-> file[t],
                                     after |-> IF content.there THEN content ELSE file[t],
                                     moved |-> IF moved THEN file[t] ELSE NoFile]]
Turn(t) == run.todo # {} /\ t = CHOOSE u \in run.todo : TRUE
Keep(t) == run' = [run EXCEPT !.todo = @ \ {t}] /\ UNCHANGED <<file, journal>>

\* mutate_file keeps a copy under a name made of the target and the transaction.
mutate_file(t, content) ==
    IF file[t] = content THEN Keep(t)
    ELSE Change(t, content, FALSE)
         /\ journal' = IF file[t].there THEN [journal EXCEPT ![run.tx].backup[t] = file[t]] ELSE journal

\* remove_file, remove_skill and install_skill move the old content aside.
MoveAside(t, content) ==
    /\ Change(t, content, TRUE)
    /\ journal' = IF file[t].there THEN [journal EXCEPT ![run.tx].aside = @ \cup {<<t, file[t]>>}] ELSE journal

Persist ==
    /\ run.pc = "enter"
    /\ journal' = [journal EXCEPT ![run.tx].entries = Append(@, run.entry)]
    /\ run' = [run EXCEPT !.pc = run.back, !.entry = NoFile]
    /\ UNCHANGED <<file, scheduler, source, result, text, faults>>

\* An exception rolls the transaction back; the entry that was not made is not known to it.
Raise == Restore(run.tx)

\* What a restored target holds: its backup, or nothing.
Before(j, e) == IF ~e.existed THEN NoFile ELSE IF e.moved.there THEN e.moved ELSE journal[j].backup[e.t]

\* Mutant: a target is restored whatever it holds now.
RestoreAlways ==
    /\ run.pc = "restore" /\ run.left # <<>>
    /\ LET e == run.left[Len(run.left)] IN
       /\ file' = [file EXCEPT ![e.t] = Before(run.job, e)]
       /\ journal' = [journal EXCEPT ![run.job].aside = @ \ {<<e.t, e.moved>>}]
       /\ run' = [run EXCEPT !.left = SubSeq(@, 1, Len(@) - 1)]
    /\ UNCHANGED <<scheduler, source, result, text, faults>>

\* From the last entry to the first; a target that is there and is not what the transaction
\* wrote is left to the user.
_restore_transaction_entries ==
    /\ run.pc = "restore" /\ run.left # <<>>
    /\ LET e == run.left[Len(run.left)]
           theirs == file[e.t].there /\ file[e.t] # e.after
       IN /\ file' = IF theirs THEN file ELSE [file EXCEPT ![e.t] = Before(run.job, e)]
          /\ journal' = IF theirs THEN journal ELSE [journal EXCEPT ![run.job].aside = @ \ {<<e.t, e.moved>>}]
          /\ run' = [run EXCEPT !.left = SubSeq(@, 1, Len(@) - 1), !.conflict = @ \/ theirs]
    /\ UNCHANGED <<scheduler, source, result, text, faults>>

\* The status is written when every entry is done; rolling back its own ends the invocation.
rollback ==
    /\ run.pc = "restore" /\ run.left = <<>>
    /\ LET status == IF run.conflict THEN "ROLLBACK_CONFLICT" ELSE "ROLLED_BACK" IN
       /\ journal' = [journal EXCEPT ![run.job].status = status]
       /\ IF run.job = run.tx THEN End(status) ELSE Goto("recover") /\ UNCHANGED result
    /\ UNCHANGED <<file, scheduler, source, text, faults>>

-----------------------------------------------------------------------------
(* apply_owned_host_actions.                                               *)

PreviousHosts == IF run.previous.there THEN run.previous.selection.hosts ELSE {}
Removed == PreviousHosts \ run.sel.hosts
Kept == PreviousHosts \cap run.sel.hosts

\* Targets of removed hosts, once each: a target another host keeps waits for its one write.
RemoveHosts(t) ==
    /\ run.pc = "remove" /\ Turn(t)
    /\ CASE Removed = {} -> Keep(t)
         [] Removed # {} /\ Tampered(t, run.previous.recorded[t]) -> Raise /\ UNCHANGED <<file, journal>>
         [] Removed # {} /\ ~Tampered(t, run.previous.recorded[t]) /\ (Kept # {} \/ ~file[t].there) -> Keep(t)
         [] OTHER -> IF Kind[t] = "owned" THEN MoveAside(t, NoFile)
                     ELSE mutate_file(t, [file[t] EXCEPT !.managed = @ \ (IF Kind[t] = "hook" THEN Removed ELSE Hosts)])
    /\ UNCHANGED <<scheduler, source, result, text, faults>>

\* merge_hooks keeps what is not of the selected hosts, without the removed ones; the managed
\* block of a context is replaced; a file that is not there is made.
Merged(t) ==
    LET f == IF file[t].there THEN file[t] ELSE Content(0, {})
    IN IF Kind[t] = "hook" THEN [f EXCEPT !.managed = (@ \ Removed) \cup run.sel.hosts]
                           ELSE [f EXCEPT !.managed = run.sel.hosts]

\* _build_target_contents reads every hook and context file before the first is written.
_build_target_contents ==
    /\ run.pc = "remove" /\ run.todo = {}
    /\ run' = [run EXCEPT !.pc = "write", !.todo = Targets,
                          !.built = [t \in {u \in Targets : Kind[u] # "owned"} |-> Merged(t)]]
    /\ UNCHANGED <<file, journal, scheduler, source, result, text, faults>>

\* install_skill refuses a directory that is neither its source nor what was installed.
install_skill(t) ==
    CASE file[t].there /\ file[t] = Content(0, source) -> Keep(t)
      [] file[t].there /\ file[t] # Content(0, source)
            /\ (~run.previous.there \/ file[t] # run.previous.recorded[t]) -> Raise /\ UNCHANGED <<file, journal>>
      [] OTHER -> MoveAside(t, Content(0, source))

apply_owned_host_actions(t) ==
    /\ run.pc = "write" /\ run.op = "setup" /\ Turn(t)
    /\ IF Kind[t] = "owned" THEN install_skill(t) ELSE mutate_file(t, run.built[t])
    /\ UNCHANGED <<scheduler, source, result, text, faults>>

-----------------------------------------------------------------------------
(* The end of a setup.                                                     *)

\* A job that cannot be registered is reported and the setup goes on.
apply_scheduler_transition(ok) ==
    /\ run.pc = "write" /\ run.op = "setup" /\ run.todo = {}
    /\ IF ok THEN scheduler' = run.sel.scheduler /\ UNCHANGED faults ELSE Fault /\ UNCHANGED scheduler
    /\ Goto("manifest")
    /\ UNCHANGED <<file, journal, source, result, text>>

\* _build_manifest hashes the hook and context files as they are now, an owned target as it
\* was installed.
_build_manifest ==
    [there |-> TRUE, status |-> "INSTALLED", selection |-> run.sel,
     recorded |-> [t \in Targets |->
        CASE Kind[t] = "owned" -> Content(0, source)
          [] Kind[t] = "hook" /\ file[t].there -> Content(0, file[t].managed \cap run.sel.hosts)
          [] OTHER -> file[t]]]

write_schema_v7_manifest ==
    /\ run.pc = "manifest"
    /\ IF file[Manifest] = _build_manifest THEN Goto("commit") /\ UNCHANGED <<file, journal>>
                                           ELSE mutate_file(Manifest, _build_manifest)
    /\ UNCHANGED <<scheduler, source, result, text, faults>>

\* What follows the commit cannot undo it: a failing diagnostic leaves DIAGNOSTICS_BLOCKED.
commit(diagnosed) ==
    /\ run.pc = "commit"
    /\ journal' = [journal EXCEPT ![run.tx].status = "COMMITTED"]
    /\ IF diagnosed THEN End("SETUP_COMPLETE") /\ UNCHANGED faults ELSE End("DIAGNOSTICS_BLOCKED") /\ Fault
    /\ UNCHANGED <<file, scheduler, source, text>>

-----------------------------------------------------------------------------
(* _uninstall_from_manifest.                                               *)

\* The hook and context files are read before the transaction begins.
_uninstall_from_manifest ==
    /\ run = Idle /\ file[Manifest].there /\ Len(journal) < MaxSetups
    /\ LET hosts == file[Manifest].selection.hosts
           gone(t) == [file[t] EXCEPT !.managed = @ \ (IF Kind[t] = "hook" THEN hosts ELSE Hosts)]
       IN run' = [Start("uninstall", file[Manifest].selection, "begin") EXCEPT
                    !.built = [t \in {u \in Targets : Kind[u] # "owned" /\ file[u].there} |-> gone(t)]]
    /\ UNCHANGED <<file, journal, scheduler, source, result, text, faults>>

\* Files go through the transaction; a Skill that is as recorded is removed outside of it.
RemoveTarget(t) ==
    /\ run.pc = "write" /\ run.op = "uninstall" /\ Turn(t)
    /\ CASE t \in DOMAIN run.built -> mutate_file(t, run.built[t])
         [] Kind[t] = "owned" /\ file[t] = run.previous.recorded[t] ->
                /\ file' = [file EXCEPT ![t] = NoFile]
                /\ run' = [run EXCEPT !.todo = @ \ {t}] /\ UNCHANGED journal
         [] OTHER -> Keep(t)
    /\ UNCHANGED <<scheduler, source, result, text, faults>>

\* The job must be gone before the transaction commits.
unregister_scheduler(ok) ==
    /\ run.pc = "write" /\ run.op = "uninstall" /\ run.todo = {}
    /\ IF ok THEN /\ scheduler' = FALSE /\ Goto("uninstalled")
                  /\ journal' = [journal EXCEPT ![run.tx].status = "COMMITTED"] /\ UNCHANGED faults
             ELSE Raise /\ Fault /\ UNCHANGED <<scheduler, journal>>
    /\ UNCHANGED <<file, source, result, text>>

\* The manifest is marked last, outside of the transaction.
MarkUninstalled ==
    /\ run.pc = "uninstalled"
    /\ file' = [file EXCEPT ![Manifest] = [run.previous EXCEPT !.status = "UNINSTALLED"]]
    /\ End("UNINSTALLED")
    /\ UNCHANGED <<journal, scheduler, source, text, faults>>

-----------------------------------------------------------------------------
(* The user, failures, deaths and new revisions.                           *)

Edit(t) ==
    /\ Fault /\ file[t].there
    /\ file' = [file EXCEPT ![t].user = faults + 1]
    /\ text' = [text EXCEPT ![t] = faults + 1]
    /\ UNCHANGED <<journal, scheduler, source, run, result>>
Delete(t) ==
    /\ Fault /\ file[t].there
    /\ file' = [file EXCEPT ![t] = NoFile] /\ text' = [text EXCEPT ![t] = 0]
    /\ UNCHANGED <<journal, scheduler, source, run, result>>

\* Any step of the transaction of a setup may raise.
Fail ==
    /\ run.pc \in {"remove", "write", "manifest", "commit"} /\ run.op = "setup"
    /\ Fault /\ Raise
    /\ UNCHANGED <<file, journal, scheduler, source, result, text>>

Die ==
    /\ run # Idle /\ Fault /\ End("DEAD")
    /\ UNCHANGED <<file, journal, scheduler, source, text>>

\* The checkout is brought to another revision between two setups.
Upgrade ==
    /\ run = Idle /\ source = 1 /\ Fault
    /\ source' = 2
    /\ UNCHANGED <<file, journal, scheduler, run, result, text>>

-----------------------------------------------------------------------------
Setup ==
    \/ \E sel \in Selections, organizer, reachable \in BOOLEAN : _setup_reconciled(sel, organizer, reachable)
    \/ \E ready \in BOOLEAN : assert_plan_current(ready)
    \/ _recover_pending_transactions \/ _Transaction \/ Persist
    \/ _restore_transaction_entries \/ rollback
    \/ \E t \in Targets : RemoveHosts(t) \/ apply_owned_host_actions(t)
    \/ _build_target_contents
    \/ \E ok \in BOOLEAN : apply_scheduler_transition(ok) \/ commit(ok)
    \/ write_schema_v7_manifest
Uninstall ==
    \/ _uninstall_from_manifest \/ MarkUninstalled
    \/ \E t \in Targets : RemoveTarget(t)
    \/ \E ok \in BOOLEAN : unregister_scheduler(ok)
User == \E t \in Targets : Edit(t) \/ Delete(t)
Next == Setup \/ Uninstall \/ User \/ Fail \/ Die \/ Upgrade
Spec == Init /\ [][Next]_vars

-----------------------------------------------------------------------------
(* Properties.                                                             *)

\* What the user last wrote into a target is in the target or in a backup, whatever setups,
\* rollbacks, recoveries and deaths came in between.
UserTextIsKept ==
    \A t \in Targets : text[t] # 0 =>
        \/ file[t].there /\ file[t].user = text[t]
        \/ \E j \in DOMAIN journal :
            \/ journal[j].backup[t].there /\ journal[j].backup[t].user = text[t]
            \/ \E moved \in journal[j].aside : moved[1] = t /\ moved[2].user = text[t]

\* A setup that completes has given every selected host its entries in every target that the
\* user has not removed, and its manifest says so.
CompletedIsInstalled ==
    run.pc = "commit" /\ run' = Idle /\ result' = "SETUP_COMPLETE" =>
        /\ file'[Manifest].selection = run.sel
        /\ \A t \in Targets : file'[t].there =>
            IF Kind[t] = "owned" THEN file'[t].managed = source ELSE run.sel.hosts \subseteq file'[t].managed

\* A rollback without a conflict gives every target the managed content it had before: "Host
\* setup failed; this invocation's host changes were rolled back".
RollbackUndoes ==
    run.pc = "restore" /\ run.job = run.tx /\ result' = "ROLLED_BACK" /\ run' = Idle =>
        \A i \in DOMAIN journal[run.tx].entries :
            LET e == journal[run.tx].entries[i] IN
            (/\ \A k \in 1..(i - 1) : journal[run.tx].entries[k].t # e.t
             /\ e.before.there /\ file[e.t].there /\ e.t \in Targets)
            => file[e.t].managed = e.before.managed
=============================================================================
