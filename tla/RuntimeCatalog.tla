--------------------------- MODULE RuntimeCatalog ---------------------------
(***************************************************************************)
(* The metadata inventory of one store directory (src/ei/runtime_catalog.  *)
(* py).  The queue, the spool, the capture intents and the emergency spool *)
(* each keep one.  The bodies are files; the catalog is a SQLite table of  *)
(* rows that charges every body against the capacity of the store before   *)
(* the body is written and releases the charge after it is gone.           *)
(*                                                                         *)
(* One operation runs at a time, under the root lock of its caller, but it *)
(* may be cut short between any two of its durable effects: the process    *)
(* dies, or its OperationBudget runs out.  Other programs may change the   *)
(* files at any time.                                                      *)
(***************************************************************************)
EXTENDS Naturals, FiniteSets

CONSTANTS
    Entries,      \* entry ids
    Contents,     \* the distinct bodies, told apart by their digests
    Size,         \* the length of each body
    ShardOf,      \* managed_path: the shard directory an id hashes to
    Expiring,     \* the bodies that carry an expiry themselves (inspect_update reads it back)
    Updates,      \* TRUE: the store replaces bodies (queue, intents); FALSE: it only adds (spool)
    Limit         \* the page size of migrate_page

ASSUME ContentAssumption ==
    /\ "none" \notin Contents
    /\ Size \in [Contents -> Nat \ {0}]
    /\ Expiring \subseteq Contents
ASSUME StoreAssumption ==
    Updates \in BOOLEAN /\ Limit \in Nat \ {0}

VARIABLES
    rows,       \* the table: one row for each entry id
    disk,       \* managed/<shard>/<id>.json
    flat,       \* <id>.json in the root: the layout before the catalog
    dirty,      \* shard directories whose stamp differs from the recorded membership
    complete,   \* state "complete": the last page saw the end of the root directory
    halted,     \* state "halted" is set; nothing in the code clears it
    op,         \* the operation under way
    tampered,   \* history: the entries whose files another program has changed
    raced,      \* history: those changed while an operation had them in hand
    failed      \* history: migrate_page met an error of the file system or the key

vars == <<rows, disk, flat, dirty, complete, halted, op, tampered, raced, failed>>
foreign == <<tampered, raced, failed>>

Bodies == Contents \cup {"none"}
Shards == {ShardOf[e] : e \in Entries}
Phases == {"none", "prepared", "writing", "registered", "deleting"}
NoRow == [phase |-> "none", digest |-> "none", size |-> 0, old |-> "none", expiry |-> FALSE]
Row == [phase : Phases, digest : Bodies, size : Nat, old : Bodies, expiry : BOOLEAN]
Op == [pc : {"idle", "put", "settle", "unlink", "forget", "repair", "move", "moved"},
       entry : SUBSET Entries, todo : SUBSET Entries, moved : Nat]
Idle == [pc |-> "idle", entry |-> {}, todo |-> {}, moved |-> 0]
Larger(m, n) == IF m > n THEN m ELSE n

-----------------------------------------------------------------------------
(* What an operation asks of the inventory before it believes it.          *)

Pending(e) == rows[e].phase \in {"deleting", "prepared", "writing"}

\* The table and the directory of shard s name the same entries.  A row whose
\* body may not have been written yet is excused, and so are those in absent.
ShardValid(s, absent) ==
    \A e \in Entries : ShardOf[e] = s =>
        /\ disk[e] # "none" => rows[e].phase # "none"
        /\ disk[e] = "none" => e \in absent \/ rows[e].phase \in {"none", "prepared", "writing"}

\* Mutant: an unfinished shard is stamped again without listing it.
SettlesUnlisted(e, absent) == dirty \subseteq {ShardOf[e]}

\* The membership of every other shard is as recorded, and e's own is as listed.
Settles(e, absent) == dirty \subseteq {ShardOf[e]} /\ ShardValid(ShardOf[e], absent)

\* _known: the accounting is evidence.  replay holds the one entry, if any,
\* whose own unfinished write is being repeated.
Known(replay) ==
    /\ \A e \in Entries \ replay : ~Pending(e)
    /\ ~halted /\ complete
    /\ dirty \subseteq {ShardOf[e] : e \in replay}
    /\ \A e \in replay : ShardValid(ShardOf[e], {})
    /\ \A e \in Entries : flat[e] = "none"

\* The row of a confirmed body d, and of a reserved one: until the new body is
\* confirmed the charge is the larger of the two.
Registered(row, d) ==
    [phase |-> "registered", digest |-> d, size |-> Size[d], old |-> "none", expiry |-> row.expiry]
\* Mutant: the new body's length is charged at once.
WritingUncharged(row, d, old, expiry) ==
    [phase |-> "writing", digest |-> d, size |-> Size[d], old |-> old, expiry |-> expiry]
Writing(row, d, old, expiry) ==
    [phase |-> "writing", digest |-> d, size |-> Larger(row.size, Size[d]), old |-> old, expiry |-> expiry]

At(pc, e) == [pc |-> pc, entry |-> {e}, todo |-> {}, moved |-> 0]

-----------------------------------------------------------------------------
(* write: the reservation, the body, the settlement.                       *)

\* What the stores write over an entry: nothing in the spool, and in the queue
\* an item whose payload_ref, and with it the expiry, was cleared stays so.
Replaceable(e, d) ==
    rows[e].phase = "registered" =>
        Updates /\ (d \in Expiring => rows[e].digest \in Expiring)

Reserve(e, d) ==
    /\ op = Idle /\ Known({}) /\ Replaceable(e, d)
    /\ rows[e].phase = "registered" => disk[e] = rows[e].digest
    /\ rows' = [rows EXCEPT ![e] = Writing(@, d, @.digest, d \in Expiring \/ @.expiry)]
    /\ op' = At("put", e)
    /\ UNCHANGED <<disk, flat, dirty, complete, halted, foreign>>

\* A write found unfinished is repeated: with the same bytes, or, for a sealed
\* body that never reached the disk, with a new sealing that fits its charge.
Repeats(e, d) ==
    \/ d = rows[e].digest
    \/ ~Updates /\ disk[e] = "none" /\ rows[e].old = "none" /\ Size[d] <= rows[e].size

Retry(e, d) ==
    /\ op = Idle /\ rows[e].phase = "writing"
    /\ Repeats(e, d) /\ Known({e})
    /\ \/ /\ disk[e] = rows[e].digest
          /\ rows' = [rows EXCEPT ![e] = Registered(@, @.digest)]
          /\ dirty' = {}
          /\ op' = op
       \/ /\ disk[e] # rows[e].digest /\ disk[e] \in {"none", rows[e].old}
          /\ rows' = [rows EXCEPT ![e] = Writing(@, d, @.old, @.expiry)]
          /\ op' = At("put", e)
          /\ dirty' = dirty
    /\ UNCHANGED <<disk, flat, complete, halted, foreign>>

Put(e) ==
    /\ op = At("put", e)
    /\ disk' = [disk EXCEPT ![e] = rows[e].digest]
    /\ dirty' = dirty \cup {ShardOf[e]}
    /\ op' = At("settle", e)
    /\ UNCHANGED <<rows, flat, complete, halted, foreign>>

Settle(e) ==
    /\ op = At("settle", e)
    /\ disk[e] = rows[e].digest /\ Settles(e, {})
    /\ rows' = [rows EXCEPT ![e] = Registered(@, @.digest)]
    /\ dirty' = {}
    /\ op' = Idle
    /\ UNCHANGED <<disk, flat, complete, halted, foreign>>

-----------------------------------------------------------------------------
(* delete: the mark, the unlink, the settlement.                           *)

BeginDelete(e) ==
    /\ op = Idle /\ flat[e] = "none" /\ rows[e].phase # "none"
    /\ disk[e] = rows[e].digest /\ rows[e].size = Size[rows[e].digest]
    /\ Settles(e, {})
    /\ rows' = [rows EXCEPT ![e].phase = "deleting"]
    /\ op' = At("unlink", e)
    /\ UNCHANGED <<disk, flat, dirty, complete, halted, foreign>>

Unlink(e) ==
    /\ op = At("unlink", e) /\ disk[e] # "none"
    /\ disk' = [disk EXCEPT ![e] = "none"]
    /\ dirty' = dirty \cup {ShardOf[e]}
    /\ op' = At("forget", e)
    /\ UNCHANGED <<rows, flat, complete, halted, foreign>>

Forget(e) ==
    /\ op = At("forget", e) /\ Settles(e, {e})
    /\ rows' = [rows EXCEPT ![e] = NoRow]
    /\ dirty' = {}
    /\ op' = Idle
    /\ UNCHANGED <<disk, flat, complete, halted, foreign>>

-----------------------------------------------------------------------------
(* migrate_page: repair what was left unfinished, then move legacy files   *)
(* under the catalog.  Every refusal that is not one of the three resumable *)
(* ones halts the store.                                                   *)

Halt ==
    /\ halted' = TRUE /\ op' = Idle
    /\ UNCHANGED <<rows, disk, flat, dirty, complete, foreign>>

\* A file or directory cannot be read, written or moved for the moment, or the key
\* of a legacy body cannot be fetched.  A move may have created its shard directory.
HaltOnError ==
    /\ op.pc \in {"repair", "move", "moved"}
    /\ halted' = TRUE /\ failed' = TRUE /\ op' = Idle
    /\ dirty' \in {dirty} \cup {dirty \cup {ShardOf[e]} : e \in {f \in op.entry : op.pc = "move"}}
    /\ UNCHANGED <<rows, disk, flat, complete, tampered, raced>>

BeginPage ==
    /\ op = Idle /\ ~halted
    /\ \A e \in Entries : rows[e].phase # "deleting"
    /\ op' = [pc |-> "repair", entry |-> {}, moved |-> 0, todo |-> {e \in Entries : Pending(e)}]
    /\ UNCHANGED <<rows, disk, flat, dirty, complete, halted, foreign>>

Repairing(e) == op.pc = "repair" /\ e \in op.todo
RepairingWrite(e) == Repairing(e) /\ rows[e].phase = "writing"
Done(e) == [op EXCEPT !.todo = @ \ {e}]

RepairWrite(e) ==
    /\ RepairingWrite(e)
    /\ disk[e] = rows[e].digest /\ Settles(e, {})
    /\ rows' = [rows EXCEPT ![e] = Registered(@, @.digest)]
    /\ dirty' = {}
    /\ op' = Done(e)
    /\ UNCHANGED <<disk, flat, complete, halted, foreign>>

\* Mutant: an unfinished write without its body is cancelled and refunded.
LeaveWriteRefunding(e) ==
    /\ RepairingWrite(e) /\ disk[e] = "none"
    /\ rows' = [rows EXCEPT ![e] = NoRow]
    /\ op' = Done(e)
    /\ UNCHANGED <<disk, flat, dirty, complete, halted, foreign>>

\* Without its body an unfinished write is left for its writer to repeat.  (So
\* is one over an old body in a store that cannot inspect it; none has both.)
LeaveWrite(e) ==
    /\ RepairingWrite(e) /\ disk[e] = "none"
    /\ op' = Done(e)
    /\ UNCHANGED <<rows, disk, flat, dirty, complete, halted, foreign>>

\* inspect_update: the old body must account for the row's own expiry.
MetadataMatches(e) == (disk[e] \in Expiring) = rows[e].expiry

Unapplied(e) ==
    RepairingWrite(e) /\ Updates /\ disk[e] # "none"
                      /\ disk[e] # rows[e].digest /\ disk[e] = rows[e].old

\* _restore_update: an update that was reserved and never written is cancelled.
RestoreUpdate(e) ==
    /\ Unapplied(e) /\ Known({e}) /\ MetadataMatches(e)
    /\ rows' = [rows EXCEPT ![e] = Registered(@, disk[e])]
    /\ dirty' = {}
    /\ op' = Done(e)
    /\ UNCHANGED <<disk, flat, complete, halted, foreign>>

\* Mutant: a write cut short before its body is taken for a damaged one.
HaltWriteUnwritten(e) ==
    /\ RepairingWrite(e)
    /\ disk[e] # rows[e].digest
    /\ Halt

HaltWrite(e) ==
    /\ RepairingWrite(e)
    /\ \/ disk[e] \notin {"none", rows[e].digest, rows[e].old}
       \/ /\ Unapplied(e)
          /\ \/ \E f \in Entries \ {e} : Pending(f)
             \/ ~complete
             \/ Settles(e, {}) /\ \E f \in Entries : flat[f] # "none"
             \/ Known({e}) /\ ~MetadataMatches(e)
    /\ Halt

\* _repair, its first half: the legacy file moves into its shard, or, when the
\* move had already happened, the legacy copy goes.
Move(e) ==
    /\ rows[e].phase = "prepared" /\ dirty \subseteq {ShardOf[e]}
    /\ {flat[e], disk[e]} \ {"none"} = {rows[e].digest}
    /\ disk' = [disk EXCEPT ![e] = rows[e].digest]
    /\ flat' = [flat EXCEPT ![e] = "none"]
    /\ dirty' = IF flat[e] # "none" /\ disk[e] = "none" THEN dirty \cup {ShardOf[e]} ELSE dirty
    /\ UNCHANGED <<rows, complete, halted, foreign>>

\* Mutant: a legacy file that was moved already is taken for a missing one.
HaltMoveRepeated(e) ==
    /\ rows[e].phase = "prepared" /\ dirty \subseteq {ShardOf[e]}
    /\ flat[e] # rows[e].digest
    /\ Halt

HaltMove(e) ==
    /\ rows[e].phase = "prepared" /\ dirty \subseteq {ShardOf[e]}
    /\ {flat[e], disk[e]} \ {"none"} # {rows[e].digest}
    /\ Halt

RepairMove(e) ==
    /\ Repairing(e) /\ \A f \in op.todo : rows[f].phase # "writing"
    /\ Move(e)
    /\ op' = [Done(e) EXCEPT !.pc = "moved", !.entry = {e}]

HaltRepairMove(e) ==
    /\ Repairing(e) /\ \A f \in op.todo : rows[f].phase # "writing"
    /\ HaltMove(e)

\* The root directory is listed only once every unfinished row was looked at.
Listing == op.pc = "repair" /\ op.todo = {}

Agrees(e) == rows[e].phase = "none" \/ (rows[e].digest = flat[e] /\ rows[e].size = Size[flat[e]])

Prepare(e) ==
    /\ Listing /\ op.moved < Limit /\ flat[e] # "none"
    /\ Agrees(e) /\ dirty = {}
    /\ rows' = [rows EXCEPT ![e] =
                 IF @.phase = "none"
                 THEN [phase |-> "prepared", digest |-> flat[e], size |-> Size[flat[e]],
                       old |-> "none", expiry |-> FALSE]
                 ELSE [@ EXCEPT !.phase = "prepared"]]
    /\ op' = [op EXCEPT !.pc = "move", !.entry = {e}]
    /\ UNCHANGED <<disk, flat, dirty, complete, halted, foreign>>

HaltPrepare(e) ==
    /\ Listing /\ op.moved < Limit /\ flat[e] # "none"
    /\ ~Agrees(e)
    /\ Halt

MovePrepared(e) ==
    /\ op.pc = "move" /\ op.entry = {e}
    /\ Move(e)
    /\ op' = [op EXCEPT !.pc = "moved"]

HaltMovePrepared(e) ==
    /\ op.pc = "move" /\ op.entry = {e}
    /\ HaltMove(e)

SettleMove(e) ==
    /\ op.pc = "moved" /\ op.entry = {e}
    /\ Settles(e, {})
    /\ rows' = [rows EXCEPT ![e] = Registered(@, @.digest)]
    /\ dirty' = {}
    /\ op' = [op EXCEPT !.pc = "repair", !.entry = {}, !.moved = @ + 1]
    /\ UNCHANGED <<disk, flat, complete, halted, foreign>>

EndPage ==
    /\ Listing
    /\ op.moved >= Limit \/ \A e \in Entries : flat[e] = "none"
    /\ complete' = \A e \in Entries : flat[e] = "none"
    /\ op' = Idle
    /\ UNCHANGED <<rows, disk, flat, dirty, halted, foreign>>

-----------------------------------------------------------------------------
(* What interrupts an operation, and what other programs do.               *)

\* Death, an exhausted budget, or a refusal that leaves the state alone.  A
\* write may have created its shard directory or a temporary file by then.
Abandon ==
    /\ op # Idle
    /\ dirty' \in {dirty} \cup {dirty \cup {ShardOf[e]} : e \in {f \in op.entry : op.pc \in {"put", "move"}}}
    /\ op' = Idle
    /\ UNCHANGED <<rows, disk, flat, complete, halted, foreign>>

\* _quarantine after a read finds a body that does not authenticate.
MarkUnknown ==
    /\ op = Idle /\ ~Updates
    /\ \E e \in Entries : disk[e] # "none" /\ rows[e].phase # "none" /\ disk[e] # rows[e].digest
    /\ Halt

\* A body appears, vanishes or is replaced.  An overwrite in place leaves the
\* directory stamp as it was.
Tamper(e, b) ==
    /\ disk[e] # b
    /\ disk' = [disk EXCEPT ![e] = b]
    /\ dirty' \in {dirty \cup {ShardOf[e]}} \cup (IF "none" \in {b, disk[e]} THEN {} ELSE {dirty})
    /\ tampered' = tampered \cup {e} /\ raced' = raced \cup (op.entry \cap {e})
    /\ UNCHANGED <<rows, flat, complete, halted, op, failed>>

TamperFlat(e, b) ==
    /\ flat[e] # b
    /\ flat' = [flat EXCEPT ![e] = b]
    /\ tampered' = tampered \cup {e} /\ raced' = raced \cup (op.entry \cap {e})
    /\ UNCHANGED <<rows, disk, dirty, complete, halted, op, failed>>

Interfere == \E e \in Entries, b \in Bodies : Tamper(e, b) \/ TamperFlat(e, b)

-----------------------------------------------------------------------------

\* A store from before the catalog holds its bodies in the root.
Init ==
    /\ rows = [e \in Entries |-> NoRow]
    /\ disk = [e \in Entries |-> "none"]
    /\ flat \in [Entries -> Bodies]
    /\ dirty = {} /\ tampered = {} /\ raced = {}
    /\ complete = FALSE /\ halted = FALSE /\ failed = FALSE
    /\ op = Idle

Write == \E e \in Entries :
    (\E d \in Contents : Reserve(e, d) \/ Retry(e, d)) \/ Put(e) \/ Settle(e)
Delete == \E e \in Entries : BeginDelete(e) \/ Unlink(e) \/ Forget(e)
MigratePage ==
    \/ BeginPage \/ EndPage \/ HaltOnError
    \/ \E e \in Entries :
          \/ RepairWrite(e) \/ LeaveWrite(e) \/ RestoreUpdate(e) \/ HaltWrite(e)
          \/ RepairMove(e) \/ HaltRepairMove(e)
          \/ Prepare(e) \/ HaltPrepare(e) \/ MovePrepared(e) \/ HaltMovePrepared(e)
          \/ SettleMove(e)

Next == Write \/ Delete \/ MigratePage \/ Abandon \/ MarkUnknown \/ Interfere

Spec == Init /\ [][Next]_vars

-----------------------------------------------------------------------------
(* Properties.                                                             *)

TypeOK ==
    /\ rows \in [Entries -> Row]
    /\ disk \in [Entries -> Bodies] /\ flat \in [Entries -> Bodies]
    /\ dirty \subseteq Shards
    /\ complete \in BOOLEAN /\ halted \in BOOLEAN /\ failed \in BOOLEAN
    /\ op \in Op
    /\ tampered \subseteq Entries /\ raced \subseteq tampered

\* However operations are interrupted, a body that no other program touched
\* is charged at least its length for as long as it is on disk, so the store
\* never holds more than its accounting says (R50 of the accumulation plan).
ChargesCover ==
    \A e \in Entries \ tampered : disk[e] # "none" =>
        rows[e].phase # "none" /\ rows[e].size >= Size[disk[e]]

\* When _known lets capacity answer, the registered rows are exactly the
\* files, unless a file was changed under the operation that was settling it,
\* and each untouched entry is charged exactly the body it holds ("Unknown
\* inventory never establishes capacity", runtime_catalog.py:5).
CapacityIsEvidence ==
    Known({}) => \A e \in Entries :
        /\ e \notin raced => (rows[e].phase = "registered" <=> disk[e] # "none")
        /\ e \notin tampered =>
              /\ disk[e] = rows[e].digest
              /\ rows[e].phase # "none" => rows[e].size = Size[disk[e]]

\* A charge is given back only against evidence: the body that remains is on
\* disk and costs the new amount, or this very operation unlinked the body.
\* A body that went missing by itself is never refunded (R50).
RefundsNeedEvidence ==
    [][\A e \in Entries : rows'[e].size < rows[e].size =>
          \/ disk[e] # "none" /\ rows'[e].size = Size[disk[e]]
          \/ op = At("forget", e)]_vars

\* An update that was not written, of an item whose payload reference is cleared: the
\* body on disk does not carry the expiry on record.
Unaccounted(e) ==
    /\ Updates /\ rows[e].phase = "writing" /\ rows[e].digest \notin Expiring
    /\ disk[e] = rows[e].old /\ disk[e] # rows[e].digest
    /\ ~MetadataMatches(e)

\* No interruption halts the store for good: whatever was cut short where is repaired or
\* left for its writer (migrate_page).  There are three exceptions: another program changed
\* a file, an error, however short, met a page, and an update of an item whose payload
\* reference is cleared was interrupted before its file.  R54 and R57 of the accumulation
\* plan admit the first alone.
HaltIsExplained == halted => tampered # {} \/ failed \/ \E e \in Entries : Unaccounted(e)
=============================================================================
