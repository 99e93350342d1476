----------------------------- MODULE Notification -----------------------------
(***************************************************************************)
(* Ownership of the Windows notification registration                      *)
(* (src/ei/installer.py): the operating system's helper makes a shortcut   *)
(* and a registration record outside of the runtime; a receipt, written    *)
(* before the effect through the journalled transaction of the installer,  *)
(* says that they are ours.  Setup registers and repairs, uninstall        *)
(* removes, and the recovery of pending transactions runs at every setup   *)
(* that changes something.  Others may make or replace the two files, and  *)
(* any process may die at any step.                                        *)
(***************************************************************************)
EXTENDS Integers, Sequences

CONSTANT MaxFaults    \* bound: foreign files, failures and deaths

VARIABLES
    art,      \* the shortcut and the record: none, ours, theirs
    receipt,  \* the ownership receipt, "none" or its status
    tx,       \* the journals in progress, and the last one that recorded "no effect"
    run,      \* the setup or uninstall that is running
    faults

vars == <<art, receipt, tx, run, faults>>

Files == {"shortcut", "record"}
Nothing == [f \in Files |-> "none"]
Idle == [pc |-> "idle", op |-> "none"]

Init ==
    /\ art = Nothing /\ receipt = "none" /\ run = Idle /\ faults = 0
    /\ tx = [pending |-> {}, mine |-> <<>>, noEffect |-> FALSE]

Fault == faults < MaxFaults /\ faults' = faults + 1
Goto(pc) == run' = [run EXCEPT !.pc = pc]
End == run' = Idle

\* _notification_artifacts_match: a receipt without hashes matches nothing that is there.
Known == receipt \in {"REGISTERED", "REMOVAL_PREPARED", "ROLLBACK_REQUIRED"}
_notification_artifacts_match(known, missing) ==
    \/ \A f \in Files : art[f] = "ours" /\ known
    \/ missing /\ \A f \in Files : art[f] = "none" \/ (art[f] = "ours" /\ known)

-----------------------------------------------------------------------------
(* Transactions on the receipt.                                            *)

\* mutate_file: the receipt is written, then the entry.
Write(status) ==
    /\ receipt' = status
    /\ tx' = [tx EXCEPT !.mine = Append(@, <<receipt, status>>)]
Commit(noEffect) == tx' = [tx EXCEPT !.mine = <<>>, !.noEffect = noEffect]

\* _persist_notification_receipt: a transaction of its own, in one step as it may only be undone.
_persist_notification_receipt(status) == receipt' = status

\* _is_pending_notification_prepared_journal: the receipt is still the one the journal prepared.
_is_pending_notification_prepared_journal(entries) ==
    entries = << <<"none", "PREPARED">> >> /\ receipt = "PREPARED"

\* What the receipt is after the entries are restored, from the last to the first; a receipt
\* that is not what the entry wrote is a conflict and stays.
Restored(entries) ==
    LET step[i \in 0..Len(entries)] ==
        IF i = 0 THEN receipt
        ELSE LET e == entries[Len(entries) + 1 - i] IN
             IF step[i - 1] = e[2] \/ step[i - 1] = "none" THEN e[1] ELSE step[i - 1]
    IN step[Len(entries)]

\* A setup that changes something first rolls back every journal in progress but the one
\* that may stand for an effect nobody saw.
_recover_pending_transactions ==
    /\ run.pc = "recover"
    /\ \/ /\ \A entries \in tx.pending : _is_pending_notification_prepared_journal(entries)
          /\ Goto("ensure") /\ UNCHANGED <<receipt, tx>>
       \/ \E entries \in tx.pending :
            /\ ~_is_pending_notification_prepared_journal(entries)
            /\ receipt' = Restored(entries)
            /\ tx' = [tx EXCEPT !.pending = @ \ {entries}]
            /\ UNCHANGED run
    /\ UNCHANGED <<art, faults>>

-----------------------------------------------------------------------------
(* _ensure_windows_notification_registration.                              *)

\* A setup that is already current does not recover.
Setup(current) ==
    /\ run = Idle
    /\ run' = [pc |-> IF current THEN "ensure" ELSE "recover", op |-> "setup"]
    /\ UNCHANGED <<art, receipt, tx, faults>>
Uninstall ==
    /\ run = Idle
    /\ run' = [pc |-> "ensure", op |-> "uninstall"]
    /\ UNCHANGED <<art, receipt, tx, faults>>

\* _prepared_notification_no_effect_resolution: the journal of the receipt is committed with
\* a reason why the helper did nothing, and nothing is there.
_prepared_notification_no_effect_resolution == tx.noEffect /\ _notification_artifacts_match(FALSE, TRUE)

\* What the receipt allows; without one, a setup registers where nothing is.
_ensure_windows_notification_registration ==
    /\ run.pc = "ensure"
    /\ CASE receipt = "PREPARED" ->
                IF _prepared_notification_no_effect_resolution
                THEN receipt' = "none" /\ UNCHANGED <<run, tx>>
                ELSE End /\ UNCHANGED <<receipt, tx>>
         [] receipt \in {"REMOVAL_PREPARED", "ROLLBACK_REQUIRED"} -> Goto("remove") /\ UNCHANGED <<receipt, tx>>
         [] receipt = "REGISTERED" ->
                /\ IF run.op = "uninstall" THEN Goto("remove") ELSE End
                /\ UNCHANGED <<receipt, tx>>
         [] receipt = "none" ->
                IF run.op = "uninstall" \/ art # Nothing THEN End /\ UNCHANGED <<receipt, tx>>
                ELSE Goto("register") /\ Write("PREPARED")
    /\ UNCHANGED <<art, faults>>

\* The helper: it refuses what is there, it cannot start, it answers nothing useful whatever
\* it did, or it makes both files.
_run_register(answer) ==
    /\ run.pc = "register"
    /\ CASE answer = "CONFLICT" ->
                /\ art # Nothing /\ receipt' = Restored(tx.mine) /\ tx' = [tx EXCEPT !.mine = <<>>]
                /\ End /\ UNCHANGED <<art, faults>>
         [] answer = "NO_EFFECT" -> Fault /\ Commit(TRUE) /\ End /\ UNCHANGED <<art, receipt>>
         [] answer = "UNKNOWN" ->
                /\ Fault /\ Commit(FALSE) /\ End /\ UNCHANGED receipt
                /\ \E made \in SUBSET Files :
                    art' = [f \in Files |-> IF f \in made /\ art[f] = "none" THEN "ours" ELSE art[f]]
         [] answer = "REGISTERED" ->
                /\ art = Nothing /\ art' = [f \in Files |-> "ours"]
                /\ Goto("registered") /\ UNCHANGED <<receipt, tx, faults>>

\* The receipt is completed in the same transaction when both files are the helper's.
SaveRegistered(ok) ==
    /\ run.pc = "registered"
    /\ IF _notification_artifacts_match(TRUE, FALSE) /\ ok
       THEN Write("REGISTERED") /\ Goto("commit") /\ UNCHANGED faults
       ELSE /\ IF ok THEN UNCHANGED faults ELSE Fault
            /\ Goto("remove") /\ Commit(FALSE) /\ UNCHANGED receipt
    /\ UNCHANGED art
CommitRegistered ==
    /\ run.pc = "commit" /\ Commit(FALSE) /\ End
    /\ UNCHANGED <<art, receipt, faults>>

-----------------------------------------------------------------------------
(* _remove_windows_notification_registration.                              *)

\* Files that are not as the receipt says are left alone.
_remove_windows_notification_registration ==
    /\ run.pc = "remove"
    /\ IF _notification_artifacts_match(TRUE, TRUE)
       THEN Goto("unregister") /\ _persist_notification_receipt("REMOVAL_PREPARED")
       ELSE End /\ UNCHANGED receipt
    /\ UNCHANGED <<art, tx, faults>>

\* Mutant: a receipt that is known lets the helper remove whatever is there.
UnregisterAnything(answer) ==
    /\ run.pc = "unregister"
    /\ IF answer = "REMOVED" THEN art' = Nothing /\ Goto("cleanup") /\ UNCHANGED <<receipt, faults>>
                             ELSE Fault /\ receipt' = "ROLLBACK_REQUIRED" /\ End /\ UNCHANGED art
    /\ UNCHANGED tx

\* The helper removes both files if they have the expected hashes; an answer that proves
\* nothing leaves a receipt that asks for the removal again.
_run_unregister(answer) ==
    /\ run.pc = "unregister"
    /\ CASE answer = "REMOVED" /\ \A f \in Files : art[f] # "theirs" ->
                art' = Nothing /\ Goto("cleanup") /\ UNCHANGED <<receipt, faults>>
         [] answer = "REMOVED" /\ \E f \in Files : art[f] = "theirs" ->
                _persist_notification_receipt("REGISTERED") /\ End /\ UNCHANGED <<art, faults>>
         [] OTHER ->
                /\ Fault /\ _persist_notification_receipt("ROLLBACK_REQUIRED") /\ End
                /\ \E gone \in SUBSET {f \in Files : art[f] = "ours"} :
                    art' = [f \in Files |-> IF f \in gone THEN "none" ELSE art[f]]
    /\ UNCHANGED tx

\* The receipt goes when nothing is left; a setup then registers again.
Cleanup ==
    /\ run.pc = "cleanup"
    /\ IF art = Nothing THEN receipt' = "none" /\ (IF run.op = "setup" THEN Goto("ensure") ELSE End)
                        ELSE _persist_notification_receipt("ROLLBACK_REQUIRED") /\ End
    /\ UNCHANGED <<art, tx, faults>>

-----------------------------------------------------------------------------
\* Somebody else makes or replaces a file.
Foreign(f) == Fault /\ art' = [art EXCEPT ![f] = "theirs"] /\ UNCHANGED <<receipt, tx, run>>

\* A process that dies leaves its journal in progress.
Die ==
    /\ run # Idle /\ Fault /\ End
    /\ tx' = [tx EXCEPT !.mine = <<>>, !.pending = IF tx.mine = <<>> THEN @ ELSE @ \cup {tx.mine},
                        !.noEffect = @ /\ tx.mine = <<>>]
    /\ UNCHANGED <<art, receipt>>

Step ==
    \/ _recover_pending_transactions \/ _ensure_windows_notification_registration
    \/ \E answer \in {"CONFLICT", "NO_EFFECT", "UNKNOWN", "REGISTERED"} : _run_register(answer)
    \/ \E ok \in BOOLEAN : SaveRegistered(ok)
    \/ CommitRegistered \/ _remove_windows_notification_registration
    \/ \E answer \in {"REMOVED", "UNKNOWN"} : _run_unregister(answer)
    \/ Cleanup
Start == Uninstall \/ \E current \in BOOLEAN : Setup(current)
Next == Step \/ Start \/ Die \/ \E f \in Files : Foreign(f)
Spec == Init /\ [][Next]_vars

\* An invocation that does not die goes on, and setup is run again and again.
Progress == Step \/ \E current \in BOOLEAN : Setup(current)
FairSpec == Spec /\ WF_vars(Progress)

-----------------------------------------------------------------------------
(* Properties.                                                             *)

\* A file that somebody else made or replaced is never removed or replaced by a setup or an
\* uninstall, wherever it appears between the checks and the effect.
ForeignIsKept == \A f \in Files : art[f] = "theirs" => art'[f] = "theirs"

\* What setup or uninstall began to remove is removed in the end, whatever failed or died, or
\* found to be somebody else's.
Removed == receipt = "REMOVAL_PREPARED" => art = Nothing \/ \E f \in Files : art[f] = "theirs"

=============================================================================
