------------------------------- MODULE Sync -------------------------------
(***************************************************************************)
(* Git synchronisation of the knowledge repository: sync.py (the dedicated *)
(* worktree path of sync_once) and the path policy of sync_policy.py.      *)
(*                                                                         *)
(* Several machines share one remote branch.  A history is a sequence of   *)
(* commits; as in Git the identity of a commit is the whole prefix that    *)
(* ends with it, so ancestry is the prefix relation.  A commit adds        *)
(* journal events and leaves the projection (the knowledge/ files, all     *)
(* reached from the one line of index.md) in some state, abstracted to the *)
(* set of events it was computed from.  A sync attempt is interrupted      *)
(* wherever its budget ends or its process dies (Interrupt).               *)
(***************************************************************************)
EXTENDS Naturals, Sequences, FiniteSets, SequencesExt, FiniteSetsExt

CONSTANTS Machines, Events, Author,   \* Author[e]: the machine that appends e
          Shown,                      \* observations and patterns: what is projected
          Paths,                      \* files a user may leave in the worktree
          MaxRaces,                   \* sync.remote_race_retries
          MaxFaults                   \* bound: failures of network, assurance, life

VARIABLES remote,    \* history of the remote branch
          head,      \* [Machines -> history]: HEAD of the source repository
          disk,      \* [Machines -> events in the source's events/ directory]
          kn,        \* [Machines -> events the source's knowledge/ was projected from]
          stray,     \* [Machines -> user files that are not engine output]
          wt,        \* [Machines -> which of "dir" and "owner" exist in the runtime root]
          run,       \* [Machines -> the sync attempt in progress]
          result,    \* [Machines -> what the last attempt recorded in sync-state.json]
          faults

vars == <<remote, head, disk, kn, stray, wt, run, result, faults>>

Idle == [pc |-> "idle", plan |-> {}, proj |-> FALSE, tree |-> <<>>, races |-> 0,
         pushed |-> FALSE]

projection_source_state(events) == events \cap Shown

(* Git: what a history contains, and what rebase leaves of it. *)
EventsOf(h) == UNION {h[i].ev : i \in 1..Len(h)}
Projected(h) == IF h = <<>> THEN {} ELSE Last(h).kn
Commit(h, ev, k) == Append(h, [ev |-> ev, kn |-> k])

\* git rebase: the commits of h that the upstream does not have are replayed
\* on it.  The first of them that changes the projection conflicts with an
\* upstream that changed it too, unless both made the same change; a commit
\* that adds nothing any more is dropped.
Base(h, up) == LongestCommonPrefix({h, up})
Own(h, up) == SubSeq(h, Len(Base(h, up)) + 1, Len(h))
Conflicts(h, up) ==
    LET own == Own(h, up)
        old == Projected(Base(h, up))
        touched == {i \in 1..Len(own) : own[i].kn # old}
    IN /\ touched # {}
       /\ LET first == CHOOSE i \in touched : \A j \in touched : i <= j
          IN Projected(up) \notin {old, own[first].kn}
Replay(acc, c, before) ==
    LET ev == c.ev \ EventsOf(acc)
        k == IF c.kn = before THEN Projected(acc) ELSE c.kn
    IN IF ev = {} /\ k = Projected(acc) THEN acc ELSE Commit(acc, ev, k)
Rebased(h, up) ==
    LET own == Own(h, up)
        old == Projected(Base(h, up))
        replay[i \in 0..Len(own)] ==
            IF i = 0 THEN up
            ELSE Replay(replay[i - 1], own[i], IF i = 1 THEN old ELSE own[i - 1].kn)
    IN replay[Len(own)]

(* sync_policy.py: which paths the engine may publish. *)
MachineLocal(p) == p.localPart
is_managed_path(p) == \/ p.root = "events" /\ p.suffix = "json"
                      \/ p.root = "knowledge" /\ p.suffix \in {"json", "md"}
managed_path_reason(p) ==
    IF MachineLocal(p) THEN "MACHINE_LOCAL_PATH"
    ELSE IF is_managed_path(p) THEN "MANAGED_ENGINE_PATH"
    ELSE IF p.root \in {"src", "config", "policies", "schemas"} THEN "REVIEW_REQUIRED_SOURCE_CHANGE"
    ELSE "UNRELATED_WORKTREE_CHANGES"

\* build_sync_plan: one path outside the policy refuses the whole attempt, the
\* gravest class first.  A path of events/ that was changed or renamed instead
\* of added rewrites the journal.
Refusals == <<"EVENT_JOURNAL_MODIFICATION_FORBIDDEN", "UNSAFE_ENGINE_PATH",
              "REVIEW_REQUIRED_SOURCE_CHANGE", "UNRELATED_WORKTREE_CHANGES">>
Refusal(p) ==
    IF p.root \in {"events", "knowledge"} /\ ~is_managed_path(p) THEN 2
    ELSE CASE managed_path_reason(p) = "MANAGED_ENGINE_PATH" ->
                IF p.root = "events" /\ p.flag # "added" THEN 1 ELSE 5
           [] managed_path_reason(p) = "REVIEW_REQUIRED_SOURCE_CHANGE" -> 3
           [] OTHER -> 4
Dirty(m) == disk[m] \ EventsOf(head[m])
ProjectionDirty(m) == kn[m] # Projected(head[m])
build_sync_plan(m) ==
    LET gravest == Min({Refusal(p) : p \in stray[m]} \cup {5})
    IN IF gravest < 5 THEN Refusals[gravest]
       ELSE IF Dirty(m) = {} /\ ~ProjectionDirty(m) THEN "NO_ENGINE_CHANGES"
       ELSE "ENGINE_PATHS_READY"

Init == /\ remote = <<>>
        /\ head = [m \in Machines |-> <<>>]
        /\ disk = [m \in Machines |-> {}]
        /\ kn = [m \in Machines |-> {}]
        /\ stray = [m \in Machines |-> {}]
        /\ wt = [m \in Machines |-> {}]
        /\ run = [m \in Machines |-> Idle]
        /\ result = [m \in Machines |-> "none"]
        /\ faults = 0

(* What happens to the source repository outside a sync. *)
AppendEvent(m, e) == /\ Author[e] = m /\ e \notin disk[m]
                     /\ disk' = [disk EXCEPT ![m] = @ \cup {e}]
                     /\ UNCHANGED <<remote, head, kn, stray, wt, run, result, faults>>
ProjectSource(m) == /\ kn[m] # projection_source_state(disk[m])
                    /\ kn' = [kn EXCEPT ![m] = projection_source_state(disk[m])]
                    /\ UNCHANGED <<remote, head, disk, stray, wt, run, result, faults>>
UserFile(m, p) == /\ stray' = [stray EXCEPT ![m] = IF p \in @ THEN @ \ {p} ELSE @ \cup {p}]
                  /\ UNCHANGED <<remote, head, disk, kn, wt, run, result, faults>>

(* The attempt.  sync.lock admits one per machine. *)
Step(m, pc) == run' = [run EXCEPT ![m].pc = pc]
Finish(m, why) == /\ run' = [run EXCEPT ![m] = [Idle EXCEPT !.pc =
                                IF wt[m] = {} THEN "idle" ELSE "cleanup"]]
                  /\ result' = [result EXCEPT ![m] = why]
Fault == faults < MaxFaults /\ faults' = faults + 1

\* _recover_owned_worktree, first of all: what an earlier attempt left is
\* removed on the strength of its ownership record.
Recover(m) == /\ run[m].pc = "idle" /\ wt[m] # {}
              /\ IF "owner" \in wt[m]
                 THEN Step(m, "cleanup") /\ UNCHANGED result
                 ELSE result' = [result EXCEPT ![m] = "BLOCKED"] /\ UNCHANGED run
              /\ UNCHANGED <<remote, head, disk, kn, stray, wt, faults>>

\* _remote_assurance_reason, _validated_status, _preflight_git and
\* _validate_plan_files on the source: nothing has been changed yet.
Begin(m) == /\ run[m].pc = "idle" /\ wt[m] = {}
            /\ LET why == build_sync_plan(m)
               IN CASE why = "ENGINE_PATHS_READY" ->
                         /\ run' = [run EXCEPT ![m] = [pc |-> "planned", plan |-> Dirty(m),
                                       proj |-> ProjectionDirty(m), tree |-> head[m], races |-> 0,
                                       pushed |-> FALSE]]
                         /\ UNCHANGED result
                    [] why = "NO_ENGINE_CHANGES" ->
                         result' = [result EXCEPT ![m] = why] /\ UNCHANGED run
                    [] OTHER -> result' = [result EXCEPT ![m] = "BLOCKED"] /\ UNCHANGED run
            /\ UNCHANGED <<remote, head, disk, kn, stray, wt, faults>>
Unassured(m) == /\ run[m].pc \in {"idle", "ready", "push"}
                /\ run[m].pc = "idle" => wt[m] = {}
                /\ Fault /\ Finish(m, "BLOCKED")
                /\ UNCHANGED <<remote, head, disk, kn, stray, wt>>

\* _create_worktree: the ownership record is on disk before the directory.
WriteOwnership(m) == /\ run[m].pc = "planned" /\ Step(m, "owned")
                     /\ wt' = [wt EXCEPT ![m] = @ \cup {"owner"}]
                     /\ UNCHANGED <<remote, head, disk, kn, stray, result, faults>>
AddWorktree(m) == /\ run[m].pc = "owned" /\ Step(m, "ready")
                  /\ wt' = [wt EXCEPT ![m] = @ \cup {"dir"}]
                  /\ UNCHANGED <<remote, head, disk, kn, stray, result, faults>>

\* _fetch_and_rebase in the worktree.  When the first fetch fails the changes
\* are committed in the source repository itself for the retry (or refused).
Fetch(m) == /\ run[m].pc = "ready"
            /\ IF Conflicts(run[m].tree, remote)
               THEN Finish(m, "BLOCKED")
               ELSE /\ run' = [run EXCEPT ![m].pc = "copy", ![m].tree = Rebased(@, remote)]
                    /\ UNCHANGED result
            /\ UNCHANGED <<remote, head, disk, kn, stray, wt, faults>>
_local_commit_for_retry(m) ==
    LET ev == run[m].plan \ EventsOf(head[m])
        k == IF run[m].proj THEN kn[m] ELSE Projected(head[m])
    IN IF ev = {} /\ k = Projected(head[m]) THEN head[m] ELSE Commit(head[m], ev, k)
FetchFails(m) == /\ run[m].pc = "ready" /\ Fault
                 /\ \/ /\ head' = [head EXCEPT ![m] = _local_commit_for_retry(m)]
                       /\ Finish(m, "OFFLINE")
                    \/ Finish(m, "BLOCKED") /\ UNCHANGED head
                 /\ UNCHANGED <<remote, disk, kn, stray, wt>>

\* Mutant: only the copied events are projected.
CommittedAlone(h, ev) ==
    LET new == ev \ EventsOf(h)
    IN IF new = {} THEN h ELSE Commit(h, new, projection_source_state(ev))
\* _copy_engine_changes and _project_and_commit: the planned events join the
\* worktree and the projection is computed from everything that is there.
Committed(h, ev) ==
    LET new == ev \ EventsOf(h)
        all == projection_source_state(EventsOf(h) \cup ev)
    IN IF new = {} /\ Projected(h) = all THEN h ELSE Commit(h, new, all)
CopyAndCommit(m) ==
    /\ run[m].pc = "copy"
    /\ LET h == Committed(run[m].tree, run[m].plan)
       IN run' = [run EXCEPT ![m].tree = h,
                             ![m].pc = IF h = run[m].tree THEN "reconcile" ELSE "push"]
    /\ UNCHANGED <<remote, head, disk, kn, stray, wt, result, faults>>

\* git push is refused unless it fast-forwards the remote (REMOTE_RACE).
Push(m) == /\ run[m].pc = "push" /\ IsPrefix(remote, run[m].tree)
           /\ remote' = run[m].tree
           /\ run' = [run EXCEPT ![m].pc = "reconcile", ![m].pushed = TRUE]
           /\ UNCHANGED <<head, disk, kn, stray, wt, result, faults>>
PushFails(m) == /\ run[m].pc = "push" /\ Fault
                /\ \E why \in {"BLOCKED", "OFFLINE"} : Finish(m, why)
                /\ UNCHANGED <<remote, head, disk, kn, stray, wt>>
\* A lost race is followed by another fetch, rebase and projection.  A status, a staging or
\* a commit that fails then is none of the reasons that end the attempt: the next push takes
\* the rebased history as it is.
PushNext(m, h) == run' = [run EXCEPT ![m].tree = h, ![m].races = @ + 1]
PushRaces(m) ==
    /\ run[m].pc = "push" /\ ~IsPrefix(remote, run[m].tree)
    /\ \/ /\ run[m].races = MaxRaces /\ Finish(m, "OFFLINE") /\ UNCHANGED faults
       \/ /\ run[m].races < MaxRaces /\ Conflicts(run[m].tree, remote)
          /\ Finish(m, "BLOCKED") /\ UNCHANGED faults
       \/ /\ run[m].races < MaxRaces /\ Fault
          /\ \E why \in {"BLOCKED", "OFFLINE"} : Finish(m, why)
       \/ /\ run[m].races < MaxRaces /\ ~Conflicts(run[m].tree, remote)
          /\ LET h == Rebased(run[m].tree, remote)
             IN \/ PushNext(m, Committed(h, EventsOf(h))) /\ UNCHANGED faults
                \/ PushNext(m, h) /\ Fault
          /\ UNCHANGED result
    /\ UNCHANGED <<remote, head, disk, kn, stray, wt>>

\* _reconcile_source_after_push: the source takes the commit over only when
\* nothing in it could be lost by that.
AncestryAllows(m) == IsPrefix(run[m].tree, remote) /\ IsPrefix(head[m], run[m].tree)
EntriesMatch(m) ==
    /\ stray[m] = {}
    /\ Dirty(m) \subseteq run[m].plan \cap EventsOf(run[m].tree)
    /\ ProjectionDirty(m) => run[m].proj /\ kn[m] = Projected(run[m].tree)
StageSource(m) ==
    /\ run[m].pc = "reconcile"
    /\ IF AncestryAllows(m) /\ EntriesMatch(m)
       THEN Step(m, "merge") /\ UNCHANGED result
       ELSE Finish(m, "PENDING")
    /\ UNCHANGED <<remote, head, disk, kn, stray, wt, faults>>
ReconcileFails(m) == /\ run[m].pc = "reconcile" /\ Fault /\ Finish(m, "PENDING")
                     /\ UNCHANGED <<remote, head, disk, kn, stray, wt>>
\* git merge --ff-only writes the working files and refuses to overwrite one
\* that is neither the old nor the new version.
MergeSource(m) ==
    /\ run[m].pc = "merge"
    /\ IF kn[m] \in {Projected(head[m]), Projected(run[m].tree)}
       THEN /\ head' = [head EXCEPT ![m] = run[m].tree]
            /\ disk' = [disk EXCEPT ![m] = @ \cup EventsOf(run[m].tree)]
            /\ kn' = [kn EXCEPT ![m] = Projected(run[m].tree)]
            /\ Finish(m, IF run[m].pushed THEN "SYNCED" ELSE "NO_ENGINE_CHANGES")
       ELSE /\ Finish(m, "PENDING") /\ UNCHANGED <<head, disk, kn>>
    /\ UNCHANGED <<remote, stray, wt, faults>>

\* _cleanup_worktree: the directory goes before its ownership record.
RemoveWorktree(m) == /\ run[m].pc = "cleanup"
                     /\ IF "dir" \in wt[m]
                        THEN wt' = [wt EXCEPT ![m] = @ \ {"dir"}] /\ UNCHANGED run
                        ELSE wt' = [wt EXCEPT ![m] = {}] /\ run' = [run EXCEPT ![m] = Idle]
                     /\ UNCHANGED <<remote, head, disk, kn, stray, result, faults>>

\* The budget ends inside any command, or the process dies.  A push that had
\* started may have reached the remote all the same; nothing is recorded.
Interrupt(m) == /\ run[m].pc # "idle" /\ Fault
                /\ run' = [run EXCEPT ![m] = Idle]
                /\ \/ UNCHANGED remote
                   \/ /\ run[m].pc = "push" /\ IsPrefix(remote, run[m].tree)
                      /\ remote' = run[m].tree
                /\ UNCHANGED <<head, disk, kn, stray, wt, result>>

Attempt(m) == \/ Recover(m) \/ Begin(m) \/ WriteOwnership(m) \/ AddWorktree(m)
              \/ Fetch(m) \/ CopyAndCommit(m) \/ Push(m) \/ PushRaces(m)
              \/ StageSource(m) \/ MergeSource(m) \/ RemoveWorktree(m)
Next == \E m \in Machines :
            \/ Attempt(m) \/ Unassured(m) \/ FetchFails(m) \/ PushFails(m)
            \/ ReconcileFails(m) \/ Interrupt(m)
            \/ ProjectSource(m)
            \/ \E e \in Events : AppendEvent(m, e)
            \/ \E p \in Paths : UserFile(m, p)

Spec == Init /\ [][Next]_vars

----------------------------------------------------------------------------
\* The published projection is the projection of exactly the published
\* journal, whatever races, rebases and retries produced the tip.
PublishedProjection == Projected(remote) = projection_source_state(EventsOf(remote))

\* No attempt, interrupted or not, rewrites the remote branch, or takes an
\* event file out of a source repository.
NothingPublishedIsLost ==
    /\ IsPrefix(remote, remote')
    /\ \A m \in Machines : disk[m] \subseteq disk'[m] /\ IsPrefix(head[m], head'[m])

\* A worktree directory in the runtime root always has its ownership record:
\* no interruption makes the next attempt refuse its own leftover.
LeftoverIsOwned == \A m \in Machines : "dir" \in wt[m] => "owner" \in wt[m]
============================================================================
