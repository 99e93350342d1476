------------------------------ MODULE Migration ------------------------------
(***************************************************************************)
(* The import of existing notes into the journal: `ei migrate` makes an    *)
(* inventory of the source files, plans the records of the importable      *)
(* ones and executes the plan with a checkpoint and a rollback manifest    *)
(* (inventory.py, migrate.py lines 1 to 785).  A process may die between   *)
(* any two writes and is then run again; the user may edit the sources in  *)
(* between, which changes the plan and so the checkpoint it uses.          *)
(***************************************************************************)
EXTENDS Naturals, Sequences, FiniteSets, SequencesExt

CONSTANTS
    Paths,       \* the source files, 1..n, in the order of their names
    Contents,    \* what a file may hold
    ClassOf,     \* content -> what the inventory's checks say of it
    RecordsOf,   \* content -> the records its adapter reads, in order
    KindOf,      \* record -> "external", "policy", "observation",
                 \*           "unscoped" (no source host) or "refused"
    MaxEdits,    \* bound on the user's edits of the sources
    MaxFaults    \* bound on the deaths of the process

VARIABLES
    src,         \* path -> content
    checkpoints, \* plan -> its checkpoint file
    manifests,   \* plan -> the event ids of its rollback manifest
    events,      \* the imported events of the journal, in append order
    run,         \* the running `ei migrate --apply`
    result,      \* what the last run answered
    edits, faults

vars == <<src, checkpoints, manifests, events, run, result, edits, faults>>

Records == UNION {Range(RecordsOf[c]) : c \in Contents}
Sources == [Paths -> Contents]
NoCheckpoint == [status |-> "missing", done |-> {}, ids |-> {}]
Idle == [pc |-> "idle", plan |-> <<>>, left |-> <<>>, done |-> {}, ids |-> {}, known |-> {}]

-----------------------------------------------------------------------------
(* The inventory and the plan.                                             *)

\* One terminal disposition per file; a later file with the content of an
\* imported one is a duplicate.
_build_inventory(s) ==
    [p \in Paths |->
        CASE ClassOf[s[p]] = "unreadable" -> "skipped_with_reason"
          [] ClassOf[s[p]] \in {"unsupported", "invalid"} -> "unsupported_format"
          [] ClassOf[s[p]] = "secret" -> "rejected_secret"
          [] ClassOf[s[p]] = "private" -> "rejected_privacy"
          [] ClassOf[s[p]] \in {"article", "skill"} -> "referenced_only"
          [] ClassOf[s[p]] = "notes" /\ \E q \in 1..(p - 1) : s[q] = s[p] -> "duplicate"
          [] OTHER -> "imported"]

\* A file nobody could read or decode leaves the privacy scan incomplete.
privacy_scan_complete(s) == \A p \in Paths : ClassOf[s[p]] \notin {"unreadable", "invalid"}

\* The records of the importable files, in path order; the hash of the plan
\* covers the whole inventory, so the sources name it.
_plan_from_inventory(s) ==
    LET rows == _build_inventory(s)
        OfPath(p) ==
            IF rows[p] \in {"imported", "referenced_only"} /\ ClassOf[s[p]] # "skill"
            THEN RecordsOf[s[p]] ELSE <<>>
    IN  FlattenSeq([p \in Paths |-> OfPath(p)])

\* The records an event of the same fingerprint already stands for.
_existing_record_fingerprints == {e.record : e \in Range(events)}

-----------------------------------------------------------------------------
(* execute_migration.                                                      *)

_validate_inventory_for_apply(s) == privacy_scan_complete(s)

_load_checkpoint(s) ==
    IF checkpoints[s].status = "missing"
    THEN [NoCheckpoint EXCEPT !.status = "in_progress"] ELSE checkpoints[s]

\* The plan is made and its hash confirmed; the manifest and the checkpoint
\* are written as in progress and the journal is read once.
StartRun ==
    /\ run.pc = "idle"
    /\ _validate_inventory_for_apply(src)
    /\ LET cp == _load_checkpoint(src)
       IN  /\ manifests' = [manifests EXCEPT ![src] = cp.ids]
           /\ checkpoints' = [checkpoints EXCEPT ![src] = [cp EXCEPT !.status = "in_progress"]]
           /\ run' = [pc |-> "item", plan |-> src, left |-> _plan_from_inventory(src),
                      done |-> cp.done, ids |-> cp.ids, known |-> _existing_record_fingerprints]
    /\ UNCHANGED <<src, events, result, edits, faults>>

RefuseRun ==
    /\ run.pc = "idle"
    /\ ~_validate_inventory_for_apply(src)
    /\ result # "MIGRATION_PRIVACY_SCAN_INCOMPLETE"
    /\ result' = "MIGRATION_PRIVACY_SCAN_INCOMPLETE"
    /\ UNCHANGED <<src, checkpoints, manifests, events, run, edits, faults>>

Item == Head(run.left)

\* What an item asks for: nothing when the checkpoint has it; no event when
\* it has no trusted source host, is refused or is in the journal.
NeedsEvent(r) == KindOf[r] \in {"external", "policy", "observation"} /\ r \notin run.known

\* The event of a record: an observation, a reference or a policy's provenance.
ImportedEvent(r) == [record |-> r, id |-> Len(events) + 1]

\* Mutant: the checkpoint is written before the event is appended.
CheckpointFirst ==
    /\ run.pc = "item" /\ run.left # <<>>
    /\ Item \notin run.done
    /\ checkpoints' = [checkpoints EXCEPT ![run.plan] =
                          [status |-> "in_progress", done |-> run.done \cup {Item}, ids |-> run.ids]]
    /\ run' = [run EXCEPT !.pc = "append"]
    /\ UNCHANGED <<src, manifests, events, result, edits, faults>>

AppendItem ==
    /\ run.pc = "item" /\ run.left # <<>>
    /\ Item \notin run.done
    /\ IF NeedsEvent(Item)
       THEN /\ events' = Append(events, ImportedEvent(Item))
            /\ run' = [run EXCEPT !.pc = "checkpoint", !.known = @ \cup {Item},
                                  !.ids = @ \cup {ImportedEvent(Item).id}, !.done = @ \cup {Item}]
       ELSE /\ run' = [run EXCEPT !.pc = "checkpoint", !.done = @ \cup {Item}]
            /\ UNCHANGED events
    /\ UNCHANGED <<src, checkpoints, manifests, result, edits, faults>>

SkipItem ==
    /\ run.pc = "item" /\ run.left # <<>>
    /\ Item \in run.done
    /\ run' = [run EXCEPT !.left = Tail(@)]
    /\ UNCHANGED <<src, checkpoints, manifests, events, result, edits, faults>>

\* The checkpoint after an item, then the manifest.
WriteCheckpoint ==
    /\ run.pc = "checkpoint"
    /\ checkpoints' = [checkpoints EXCEPT ![run.plan] =
                          [status |-> "in_progress", done |-> run.done, ids |-> run.ids]]
    /\ run' = [run EXCEPT !.pc = "manifest"]
    /\ UNCHANGED <<src, manifests, events, result, edits, faults>>

_write_rollback ==
    /\ run.pc = "manifest"
    /\ manifests' = [manifests EXCEPT ![run.plan] = run.ids]
    /\ run' = [run EXCEPT !.pc = "item", !.left = Tail(@)]
    /\ UNCHANGED <<src, checkpoints, events, result, edits, faults>>

FinishRun ==
    /\ run.pc = "item" /\ run.left = <<>>
    /\ checkpoints' = [checkpoints EXCEPT ![run.plan] =
                          [status |-> "complete", done |-> run.done, ids |-> run.ids]]
    /\ manifests' = [manifests EXCEPT ![run.plan] = run.ids]
    /\ run' = Idle
    /\ result' = "complete"
    /\ UNCHANGED <<src, events, edits, faults>>

-----------------------------------------------------------------------------
(* The environment.                                                        *)

Edit(p) ==
    /\ edits < MaxEdits
    /\ \E c \in Contents \ {src[p]} : src' = [src EXCEPT ![p] = c]
    /\ edits' = edits + 1
    /\ result' = "none"
    /\ UNCHANGED <<checkpoints, manifests, events, run, faults>>

Die ==
    /\ run.pc # "idle" /\ faults < MaxFaults
    /\ run' = Idle
    /\ faults' = faults + 1
    /\ UNCHANGED <<src, checkpoints, manifests, events, result, edits>>

InitWith(S) ==
    /\ src \in S
    /\ checkpoints = [s \in Sources |-> NoCheckpoint]
    /\ manifests = [s \in Sources |-> {}]
    /\ events = <<>>
    /\ run = Idle
    /\ result = "none"
    /\ edits = 0 /\ faults = 0

Init == InitWith(Sources)

Execute == \/ StartRun \/ RefuseRun \/ AppendItem \/ SkipItem \/ WriteCheckpoint
           \/ _write_rollback \/ FinishRun

Next == \/ Execute
        \/ \E p \in Paths : Edit(p)
        \/ Die

Spec == Init /\ [][Next]_vars

-----------------------------------------------------------------------------
(* Properties.                                                             *)

\* However often a run is interrupted and repeated, and whatever the user
\* edits in between, a record has one event in the journal.
ImportedOnce ==
    \A i, j \in 1..Len(events) : events[i].record = events[j].record => i = j

\* What a checkpoint calls completed, and a later run will skip, is in the
\* journal if it was to be imported.
CompletedIsImported ==
    \A s \in Sources : \A r \in checkpoints[s].done :
        KindOf[r] \in {"external", "policy", "observation"} => r \in _existing_record_fingerprints
=============================================================================
