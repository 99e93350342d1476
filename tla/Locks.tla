------------------------------- MODULE Locks -------------------------------
(***************************************************************************)
(* The lock files of the runtime root.                                     *)
(*   "pid": FileLock of sync.py (sync.lock, maintenance.lock).  A private  *)
(*      staging file is linked to the lock's name; a lock whose recorded   *)
(*      process is confirmed dead is unlinked and the link tried once more.*)
(*   "age": the locks of the queue, the spool and the capture ledger.  The *)
(*      name is created exclusively; a file older than 120 seconds is      *)
(*      unlinked by whoever waits, and a release unlinks the name.         *)
(* Every file-system call is a step of its own, so what a process has read *)
(* can be stale when it acts on it.                                        *)
(***************************************************************************)
EXTENDS Naturals, FiniteSets

CONSTANTS Procs,          \* process identifiers; a restart is a new process
          Kinds,          \* the disciplines to consider: "pid", "age"
          MaxFaults,      \* bound: deaths, and holds that outlast the limit
          NoFile

VARIABLES kind,     \* the discipline of this lock
          file,     \* the file with the lock's name: its owner, or NoFile
          pc,       \* where each process is
          seen,     \* the file each process judged stale
          old,      \* files older than the limit
          faults
vars == <<kind, file, pc, seen, old, faults>>

Fault == faults < MaxFaults /\ faults' = faults + 1
Dead(p) == pc[p] = "dead"
Go(p, to) == pc' = [pc EXCEPT ![p] = to]

Init == /\ kind \in Kinds
        /\ file = NoFile
        /\ pc = [p \in Procs |-> "out"]
        /\ seen = [p \in Procs |-> NoFile]
        /\ old = {}
        /\ faults = 0

\* os.link of the staging file, os.open with O_EXCL: atomic, one winner.  The
\* file is named by its owner: a process writes at most one.
Create(p) == /\ pc[p] \in {"out", "again"}
             /\ IF file = NoFile
                THEN /\ file' = p /\ Go(p, "held")
                ELSE /\ Go(p, IF pc[p] = "again" THEN "busy" ELSE "exists") /\ UNCHANGED file
             /\ UNCHANGED <<seen, old, faults>>

\* Mutant: a process whose state is not known counts as dead.
StaleUnlessKnown(f) == kind = "pid" \/ f \in old
\* Mutant: nothing is ever stale.
NeverStale(f) == FALSE
\* _stale, or the age of the file.
Stale(f) == IF kind = "pid" THEN Dead(f) ELSE f \in old
Judge(p) == /\ pc[p] = "exists"
            /\ IF file # NoFile /\ Stale(file)
               THEN Go(p, "stale") /\ seen' = [seen EXCEPT ![p] = file]
               ELSE Go(p, IF kind = "pid" THEN "busy" ELSE "out") /\ UNCHANGED seen
            /\ UNCHANGED <<file, old, faults>>
\* FileLock compares the identity of the file once more; the others do not.
Compare(p) == /\ pc[p] = "stale"
              /\ Go(p, IF kind = "age" \/ file \in {seen[p], NoFile} THEN "break" ELSE "busy")
              /\ UNCHANGED <<file, seen, old, faults>>
\* unlink by name: whatever file has the name by now.
Break(p) == /\ pc[p] = "break"
            /\ file' = NoFile
            /\ Go(p, IF kind = "pid" THEN "again" ELSE "out")
            /\ UNCHANGED <<seen, old, faults>>
\* SYNC_LOCK_BUSY: the caller tries again later, as it does after the 5 seconds
\* the other locks wait (from "out", which each round of waiting passes).
GiveUp(p) == /\ pc[p] = "busy"
             /\ Go(p, "out")
             /\ UNCHANGED <<file, seen, old, faults>>

\* _release_owned looks for its own token and identity, _release does not.
Release(p) == /\ pc[p] = "held"
              /\ file' = IF kind = "age" \/ file = p THEN NoFile ELSE file
              /\ Go(p, "done")
              /\ UNCHANGED <<seen, old, faults>>

Die(p) == /\ pc[p] \notin {"out", "done", "dead"} /\ Fault
          /\ Go(p, "dead")
          /\ UNCHANGED <<file, seen, old>>
\* Time passes: the file of a dead owner is 120 seconds old, and with a fault
\* so is that of an owner that is still at work.
Age(p) == /\ kind = "age" /\ file = p /\ p \notin old
          /\ old' = old \cup {p}
          /\ IF Dead(p) THEN UNCHANGED faults ELSE Fault
          /\ UNCHANGED <<file, pc, seen>>

Step(p) == Create(p) \/ Judge(p) \/ Compare(p) \/ Break(p) \/ GiveUp(p) \/ Release(p)
Next == UNCHANGED kind /\ \E p \in Procs : Step(p) \/ Die(p) \/ Age(p)
Spec == Init /\ [][Next]_vars
FairSpec == Spec /\ \A p \in Procs : WF_vars(UNCHANGED kind /\ Step(p))
                            /\ WF_vars(UNCHANGED kind /\ Dead(p) /\ Age(p))

----------------------------------------------------------------------------
Holders == {p \in Procs : pc[p] = "held"}
\* At most one process is inside the section the lock protects.
Exclusive == Cardinality(Holders) <= 1

\* As long as nobody dies in it and nobody outstays the limit, the lock is
\* exclusive and its file is the holder's own.
ExclusiveWithoutFaults ==
    faults = 0 => /\ Exclusive
                  /\ \A p \in Holders : file = p

\* A lock left behind by a dead process does not keep the others out for good.
Served(p) == pc[p] \in {"held", "done", "dead"}
============================================================================
