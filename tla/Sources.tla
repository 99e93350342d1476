------------------------------ MODULE Sources ------------------------------
(***************************************************************************)
(* The host's own memory files as a source of records.  Two programs read  *)
(* the same file: maintenance recovers it a page at a time                 *)
(* (src/ei/capture_recovery.py) and `ei ingest` reads it as a whole        *)
(* (src/ei/ingest.py).  Both run under the source lock and hand every      *)
(* record to coordinate_record, which fixes the record's route (an event,  *)
(* or a pending capture) in a plan file before it writes anything.         *)
(*                                                                         *)
(* A record is its own fingerprint and a file's version is its content.    *)
(* The directory walk is one file; directories above it are not told       *)
(* apart.  What the pending store does with a capture is in                *)
(* PendingCapture: here it takes it, is out of reach, or has lost it.      *)
(***************************************************************************)
EXTENDS Integers, Sequences, FiniteSets, Functions

CONSTANTS
    Contents,     \* contents the file may have: sequences of records
    Private,      \* records the privacy gate refuses
    Missing,      \* the file is not there
    MaxChanges, MaxFaults   \* bounds: changes of the file, failures and deaths

Records == UNION {Range(c) : c \in Contents}

VARIABLES
    file,      \* the file as the host left it
    named,     \* capture_namespace gives the installation's trusted namespace
    cursor,    \* the recovery cursor of each mode: version read, records behind it
    seen,      \* the ingest cursor: version read and record fingerprints
    plan,      \* the route fixed for each record
    bound,     \* the version by which each record's identity was formed
    stored,    \* <<record, identity>>: captures (by version) and events
    expired,   \* records whose capture the pending store has lost
    run,       \* the holder of the source lock
    changes, faults

vars == <<file, named, cursor, seen, plan, bound, stored, expired, run, changes, faults>>
stores == <<cursor, seen, plan, bound, stored, expired>>

Modes == {"legacy", "trusted"}
AsEvent == <<"event">>
NoCursor == [version |-> <<>>, offset |-> 0]
Nobody == [who |-> "none", mode |-> "legacy", content |-> <<>>, idx |-> 1, pc |-> "record",
           scanned |-> FALSE, fps |-> {}, deferred |-> FALSE]

Record == run.content[run.idx]
Becomes(r) == run' = r
Goto(pc) == Becomes([run EXCEPT !.pc = pc])
Holds(pc) == run.who # "none" /\ run.pc = pc
Stored(r) == \E s \in stored : s[1] = r
HasEvent(r) == <<r, AsEvent>> \in stored

Init ==
    /\ file \in Contents /\ named \in BOOLEAN
    /\ cursor = [m \in Modes |-> NoCursor]
    /\ seen = [version |-> <<>>, fps |-> {}]
    /\ plan = [r \in Records |-> "none"]
    /\ bound = [r \in Records |-> <<>>]
    /\ stored = {} /\ expired = {} /\ run = Nobody
    /\ changes = 0 /\ faults = 0

-----------------------------------------------------------------------------
(* Taking the source lock.                                                 *)

\* recover_page takes the lock without waiting and reads the file once, whole and
\* verified; it goes on behind the offset only in the version the offset was saved for.
\* A missing file is retired from the traversal.
recover_page ==
    LET mode == IF named THEN "trusted" ELSE "legacy" IN
    /\ run.who = "none"
    /\ IF file = Missing
       THEN cursor' = [cursor EXCEPT ![mode] = NoCursor] /\ UNCHANGED run
       ELSE /\ Becomes([Nobody EXCEPT
                            !.who = "recover", !.mode = mode, !.content = file,
                            !.idx = IF cursor[mode].version = file
                                    THEN cursor[mode].offset + 1 ELSE 1])
            /\ UNCHANGED cursor
    /\ UNCHANGED <<file, named, seen, plan, bound, stored, expired, changes, faults>>

\* _ingest_sources skips a file whose metadata its cursor has.
ingest_sources ==
    /\ run.who = "none"
    /\ file # Missing /\ seen.version # file
    /\ Becomes([Nobody EXCEPT !.who = "ingest", !.content = file])
    /\ UNCHANGED <<file, named, stores, changes, faults>>

-----------------------------------------------------------------------------
(* The next record.                                                        *)

More == run.idx <= Len(run.content)
Passed == [run EXCEPT !.idx = @ + 1, !.pc = "record", !.scanned = TRUE]

\* The cursor is saved after every record.
SaveOffset ==
    cursor' = [cursor EXCEPT ![run.mode] = [version |-> run.content, offset |-> run.idx]]

\* _recover_page: without a namespace the privacy gate comes first; with one the record
\* goes to the pending store, which refuses it.
NextRecovered ==
    /\ Holds("record") /\ run.who = "recover" /\ More
    /\ IF run.mode = "legacy" /\ Record \in Private
       THEN SaveOffset /\ Becomes(Passed)
       ELSE Goto("bind") /\ UNCHANGED cursor
    /\ UNCHANGED <<file, named, seen, plan, bound, stored, expired, changes, faults>>

\* _ingest_sources: the fingerprint is kept for a record that is skipped or refused too.
NextIngested ==
    /\ Holds("record") /\ run.who = "ingest" /\ More
    /\ Becomes(IF Record \in Private \cup seen.fps
               THEN [Passed EXCEPT !.fps = @ \cup {Record}]
               ELSE [run EXCEPT !.pc = "bind"])
    /\ UNCHANGED <<file, named, stores, changes, faults>>

-----------------------------------------------------------------------------
(* coordinate_record.                                                      *)

\* _bound_identity: the file's binding is made by the first trusted page; from then on
\* every record read through either program gets an identity, and keeps its first one.
_bound_identity ==
    /\ Holds("bind")
    /\ bound' = IF /\ run.mode = "trusted" \/ \E r \in Records : bound[r] # <<>>
                   /\ bound[Record] = <<>>
                THEN [bound EXCEPT ![Record] = run.content] ELSE bound
    /\ Goto("plan")
    /\ UNCHANGED <<file, named, cursor, seen, plan, stored, expired, changes, faults>>

EvidenceUnknown(r) == plan[r] = "none" /\ ~HasEvent(r) /\ r \in seen.fps

\* The route is written once.  A fingerprint without a plan or an event is refused, and
\* the run ends.
WritePlan ==
    /\ Holds("plan")
    /\ IF EvidenceUnknown(Record)
       THEN Becomes(Nobody) /\ UNCHANGED plan
       ELSE /\ plan' = IF plan[Record] # "none" THEN plan
                       ELSE [plan EXCEPT ![Record] =
                                IF bound[Record] # <<>> /\ ~HasEvent(Record)
                                THEN "capture" ELSE "event"]
            /\ Goto("store")
    /\ UNCHANGED <<file, named, cursor, seen, bound, stored, expired, changes, faults>>

Refused(r) == plan[r] = "capture" /\ (r \in Private \/ r \in expired)

StoreRecord ==
    /\ Holds("store") /\ ~Refused(Record)
    /\ stored' = stored \cup {<<Record, IF plan[Record] = "capture" THEN bound[Record]
                                        ELSE AsEvent>>}
    /\ Goto("save")
    /\ UNCHANGED <<file, named, cursor, seen, plan, bound, expired, changes, faults>>

\* The capture is not SECURED, or the event cannot be appended.  Recovery passes only a
\* privacy refusal; at anything else the page ends.  Ingest defers the whole source when
\* it got a receipt and ends when the append raises.
NotSecured ==
    /\ Holds("store")
    /\ \/ Refused(Record) /\ UNCHANGED faults
       \/ faults < MaxFaults /\ faults' = faults + 1
    /\ IF run.who = "ingest"
       THEN /\ Becomes(IF plan[Record] = "capture" THEN [Passed EXCEPT !.deferred = TRUE]
                       ELSE Nobody)
            /\ UNCHANGED cursor
       ELSE IF run.mode = "trusted" /\ Record \in Private
       THEN Becomes(Passed) /\ SaveOffset
       ELSE Becomes(Nobody) /\ UNCHANGED cursor
    /\ UNCHANGED <<file, named, seen, plan, bound, stored, expired, changes>>

SaveRecord ==
    /\ Holds("save")
    /\ IF run.who = "recover"
       THEN SaveOffset /\ Becomes(Passed)
       ELSE Becomes([Passed EXCEPT !.fps = @ \cup {Record}]) /\ UNCHANGED cursor
    /\ UNCHANGED <<file, named, seen, plan, bound, stored, expired, changes, faults>>

-----------------------------------------------------------------------------
(* The end of a run.                                                       *)

\* A file that was read to its end leaves the traversal; the next pass starts it anew.
FileDone ==
    /\ Holds("record") /\ run.who = "recover" /\ ~More
    /\ cursor' = [cursor EXCEPT ![run.mode] = NoCursor]
    /\ Becomes(Nobody)
    /\ UNCHANGED <<file, named, seen, plan, bound, stored, expired, changes, faults>>

\* SOURCE_RECORD_LIMIT: a page takes one record at least.
PageLimit ==
    /\ Holds("record") /\ run.who = "recover" /\ More /\ run.scanned
    /\ Becomes(Nobody)
    /\ UNCHANGED <<file, named, stores, changes, faults>>

\* The ingest cursor is written once, at the end.
IngestDone ==
    /\ Holds("record") /\ run.who = "ingest" /\ ~More
    /\ seen' = IF run.deferred THEN seen ELSE [version |-> run.content, fps |-> run.fps]
    /\ Becomes(Nobody)
    /\ UNCHANGED <<file, named, cursor, plan, bound, stored, expired, changes, faults>>

-----------------------------------------------------------------------------
(* The surroundings.                                                       *)

Die ==
    /\ run.who # "none" /\ faults < MaxFaults
    /\ Becomes(Nobody)
    /\ faults' = faults + 1
    /\ UNCHANGED <<file, named, stores, changes>>

FileChanges ==
    /\ changes < MaxChanges
    /\ file' \in (Contents \cup {Missing}) \ {file}
    /\ changes' = changes + 1
    /\ UNCHANGED <<named, stores, run, faults>>

NamespaceChanges ==
    /\ changes < MaxChanges
    /\ named' = ~named
    /\ changes' = changes + 1
    /\ UNCHANGED <<file, stores, run, faults>>

\* The body of a pending capture passes its deadline undecided: a replayed accept, like a
\* reconciliation, records the loss (_accept_candidate_locked, _expire).
CaptureExpires ==
    /\ faults < MaxFaults
    /\ \E r \in Records :
          /\ \E s \in stored : s[1] = r /\ s[2] # AsEvent
          /\ expired' = expired \cup {r}
    /\ faults' = faults + 1
    /\ UNCHANGED <<file, named, cursor, seen, plan, bound, stored, run, changes>>

Progress ==
    \/ NextRecovered \/ NextIngested \/ _bound_identity \/ WritePlan \/ StoreRecord
    \/ SaveRecord \/ FileDone \/ IngestDone
    \/ NotSecured

Next ==
    \/ recover_page \/ ingest_sources \/ Progress \/ PageLimit
    \/ Die \/ FileChanges \/ NamespaceChanges \/ CaptureExpires

Spec == Init /\ [][Next]_vars

\* Maintenance is run again and again, and a run is not suspended for good.
Fairness == WF_vars(recover_page) /\ WF_vars(Progress)
FairSpec == Spec /\ Fairness

-----------------------------------------------------------------------------
\* However often a record is read, through whichever program, version and namespace, and
\* wherever a reader dies, it becomes one event or one capture and never a second
\* (coordinate_record: "Route ownership precedes payload writes").
StoredOnce == \A s, t \in stored : s[1] = t[1] => s = t

\* What a cursor lets a later run skip was stored, or refused for privacy: neither cursor
\* runs ahead of the evidence.
SkippedIsSettled ==
    /\ \A m \in Modes : \A i \in 1..cursor[m].offset :
          LET r == cursor[m].version[i] IN Stored(r) \/ r \in Private
    /\ \A r \in seen.fps : Stored(r) \/ r \in Private

\* What ends every page at this record: an ingested private record, or a lost capture.
Obstructs(r) == (r \in Private /\ EvidenceUnknown(r)) \/ r \in expired

\* A record that stays in the file is stored in the end, unless a record before it ends
\* every page: a page that is cut short, dies or finds its cursor out of date goes on.
Reached(r) ==
    file # Missing /\ r \in Range(file) => Stored(r) \/ \E q \in Records : Obstructs(q)

=============================================================================
