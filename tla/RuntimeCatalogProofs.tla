------------------------ MODULE RuntimeCatalogProofs ------------------------
(***************************************************************************)
(* The properties of RuntimeCatalog for every set of entries and bodies,   *)
(* every assignment to shards and every page size.  The four properties    *)
(* rest on one inductive invariant, IInv: what a row of each phase says of *)
(* the files of an entry nobody else touched, what the operation under way *)
(* has in hand, and what an unchanged directory stamp vouches for.         *)
(***************************************************************************)
EXTENDS RuntimeCatalog, TLAPS

-----------------------------------------------------------------------------
(* The inductive invariant.                                                *)

\* The columns of a row agree with its phase.
RowShape ==
    \A e \in Entries :
        /\ rows[e].phase = "none" => rows[e] = NoRow
        /\ rows[e].phase # "none" => rows[e].digest \in Contents
        /\ rows[e].phase \in {"registered", "prepared"} => rows[e].size = Size[rows[e].digest]
        /\ ~Updates => rows[e].old = "none"

\* The rows, and short of a race the files, of the entry an operation works on.
InHand ==
    /\ op.pc \in {"put", "settle"} => \A e \in op.entry : rows[e].phase = "writing"
    /\ op.pc \in {"unlink", "forget"} => \A e \in op.entry : rows[e].phase = "deleting"
    /\ op.pc \in {"move", "moved"} => \A e \in op.entry : rows[e].phase = "prepared"
    /\ op.pc \in {"repair", "move", "moved"} => \A e \in Entries : rows[e].phase # "deleting"
    /\ op.pc = "forget" => \A e \in op.entry \ raced : disk[e] = "none"
    /\ op.pc = "moved" => \A e \in op.entry \ raced : disk[e] # "none"

\* Phase by phase, the files of an entry no other program changed.
Untouched ==
    \A e \in Entries \ tampered :
        /\ rows[e].phase = "none" => disk[e] = "none"
        /\ rows[e].phase = "registered" => disk[e] = rows[e].digest /\ flat[e] = "none"
        /\ rows[e].phase = "writing" =>
              /\ flat[e] = "none" /\ disk[e] \in {"none", rows[e].old, rows[e].digest}
              /\ rows[e].size >= Size[rows[e].digest]
              /\ disk[e] # "none" => rows[e].size >= Size[disk[e]]
        /\ rows[e].phase = "prepared" => {flat[e], disk[e]} \ {"none"} = {rows[e].digest}
        /\ rows[e].phase = "deleting" => 
              /\ flat[e] = "none" /\ disk[e] \in {"none", rows[e].digest}
              /\ rows[e].size = Size[rows[e].digest]
        /\ op.pc = "moved" /\ e \in op.entry => disk[e] = rows[e].digest /\ flat[e] = "none"

\* In a shard whose stamp is as recorded, the settled rows are the files.
Stamped ==
    \A e \in Entries \ raced : ShardOf[e] \notin dirty =>
        /\ rows[e].phase = "none" => disk[e] = "none"
        /\ rows[e].phase \in {"registered", "deleting"} => disk[e] # "none"

\* Without tampering an unfinished write is the only unresolved row of its
\* kind, in a store that was completely migrated.
Calm ==
    tampered = {} => \A e \in Entries : rows[e].phase = "writing" =>
        /\ complete /\ \A f \in Entries : flat[f] = "none" 
        /\ \A f \in Entries \ {e} : rows[f].phase \notin {"writing", "prepared"}
        /\ Updates /\ rows[e].digest \in Expiring =>
              rows[e].expiry /\ rows[e].old \in Expiring \cup {"none"}

IInv == TypeOK /\ RowShape /\ InHand /\ Untouched /\ Stamped /\ Calm

-----------------------------------------------------------------------------

\* A record with fields of the right types is a row.
LEMMA RowFields ==
    ASSUME NEW ph \in Phases, NEW dg \in Bodies, NEW sz \in Nat, NEW ol \in Bodies, NEW ex \in BOOLEAN
    PROVE  [phase |-> ph, digest |-> dg, size |-> sz, old |-> ol, expiry |-> ex] \in Row
  BY Zenon DEF Row

\* Exchanging the row of e leaves the others.
LEMMA RowUpdate ==
    ASSUME TypeOK, NEW e \in Entries, NEW r \in Row, rows' = [rows EXCEPT ![e] = r]
    PROVE  /\ rows' \in [Entries -> Row] /\ rows'[e] = r
           /\ \A f \in Entries \ {e} : rows'[f] = rows[f]
  BY DEF TypeOK

\* The shape of an operation that works on e.
LEMMA OpAt ==
    ASSUME NEW e \in Entries, NEW pc \in {"put", "settle", "unlink", "forget"}
    PROVE  At(pc, e) \in Op /\ At(pc, e).pc = pc /\ At(pc, e).entry = {e}
  BY DEF At, Op

\* The shape of no operation.
LEMMA OpIdle == Idle \in Op /\ Idle.pc = "idle" /\ Idle.entry = {}
  BY DEF Idle, Op

\* What Registered does to the table.
LEMMA RegisteredRow ==
    ASSUME IInv, NEW e \in Entries, NEW dg \in Contents,
           rows' = [rows EXCEPT ![e] = Registered(rows[e], dg)]
    PROVE  /\ rows' \in [Entries -> Row]
           /\ \A f \in Entries \ {e} : rows'[f] = rows[f]
           /\ rows'[e].phase = "registered" /\ rows'[e].digest = dg /\ rows'[e].size = Size[dg]
           /\ rows'[e].old = "none"
<1>1. rows[e] \in Row /\ Size[dg] \in Nat
  BY ContentAssumption DEF IInv, TypeOK
<1>2. rows[e].expiry \in BOOLEAN
  BY <1>1 DEF Row
<1> DEFINE r == [phase |-> "registered", digest |-> dg, size |-> Size[dg],
                 old |-> "none", expiry |-> rows[e].expiry]
<1>3. r \in Row
  BY <1>1, <1>2, RowFields DEF Bodies, Phases
<1>4. Registered(rows[e], dg) = r
  BY DEF Registered
<1>5. rows' = [rows EXCEPT ![e] = r]
  BY <1>4
<1>6. r.phase = "registered" /\ r.digest = dg /\ r.size = Size[dg] /\ r.old = "none"
  OBVIOUS
<1> HIDE DEF r
<1> QED BY <1>3, <1>5, <1>6, RowUpdate DEF IInv

\* Settling a confirmed body, the common part of five actions.
LEMMA RegisterStep ==
    ASSUME IInv, NEW e \in Entries, NEW dg \in Contents,
           rows[e].phase \in {"writing", "prepared"},
           rows' = [rows EXCEPT ![e] = Registered(rows[e], dg)],
           Settles(e, {}), dirty' = {}, UNCHANGED <<disk, flat, complete, halted, foreign>>,
           e \notin raced => disk[e] # "none",
           e \notin tampered => disk[e] = dg /\ flat[e] = "none",
           op' \in Op, op'.pc \in {"idle", "repair"},
           op'.pc = "repair" => \A f \in Entries : rows[f].phase # "deleting"
    PROVE  IInv'
<1>1. /\ rows' \in [Entries -> Row]
      /\ \A f \in Entries \ {e} : rows'[f] = rows[f]
      /\ rows'[e].phase = "registered" /\ rows'[e].digest = dg /\ rows'[e].size = Size[dg]
      /\ rows'[e].old = "none"
  BY RegisteredRow
<1>a. TypeOK'
  BY <1>1 DEF IInv, TypeOK, foreign
<1>b. RowShape'
  BY <1>1 DEF IInv, RowShape
<1>c. InHand'
  BY <1>1 DEF InHand
<1>d. Untouched'
  BY <1>1 DEF IInv, Untouched, foreign
<1>e. Stamped'
  BY <1>1 DEF IInv, Stamped, Settles, ShardValid, foreign
<1>f. Calm'
  BY <1>1 DEF IInv, Calm, foreign
<1> QED BY <1>a, <1>b, <1>c, <1>d, <1>e, <1>f DEF IInv

\* write, repeated.
LEMMA RetryStep ==
    ASSUME IInv, NEW e \in Entries, NEW d \in Contents, Retry(e, d)
    PROVE  IInv'
<1>1. /\ rows[e] \in Row /\ Size[d] \in Nat /\ rows[e].phase = "writing"
      /\ rows[e].digest \in Contents /\ Settles(e, {}) /\ Known({e}) /\ op = Idle
      /\ UNCHANGED <<disk, flat, complete, halted, foreign>>
  BY ContentAssumption DEF IInv, TypeOK, RowShape, Retry, Known, Settles
<1>2. CASE /\ disk[e] = rows[e].digest
           /\ rows' = [rows EXCEPT ![e] = Registered(@, @.digest)]
           /\ dirty' = {} /\ op' = op
  <2>1. rows' = [rows EXCEPT ![e] = Registered(rows[e], rows[e].digest)]
    BY <1>2
  <2>2. op' \in Op /\ op'.pc = "idle"
    BY <1>1, <1>2, OpIdle
  <2>3. disk[e] # "none" /\ (e \notin tampered => flat[e] = "none")
    BY <1>1, <1>2, ContentAssumption DEF IInv, Untouched
  <2> QED BY <1>1, <1>2, <2>1, <2>2, <2>3, RegisterStep
<1>3. CASE /\ disk[e] # rows[e].digest /\ disk[e] \in {"none", rows[e].old}
           /\ rows' = [rows EXCEPT ![e] = Writing(@, d, @.old, @.expiry)]
           /\ op' = At("put", e) /\ dirty' = dirty
  <2>1. /\ rows[e].size \in Nat /\ rows[e].old \in Bodies /\ rows[e].expiry \in BOOLEAN
    BY <1>1 DEF Row
  <2>2. Larger(rows[e].size, Size[d]) \in Nat /\ Larger(rows[e].size, Size[d]) >= Size[d]
        /\ Larger(rows[e].size, Size[d]) >= rows[e].size
    BY <1>1, <2>1 DEF Larger
  <2> DEFINE r == [phase |-> "writing", digest |-> d, size |-> Larger(rows[e].size, Size[d]),
                   old |-> rows[e].old, expiry |-> rows[e].expiry]
  <2>3. r \in Row
    BY <2>1, <2>2, RowFields DEF Bodies, Phases
  <2>4. rows' = [rows EXCEPT ![e] = r]
    BY <1>3 DEF Writing
  <2>5. /\ rows' \in [Entries -> Row] /\ rows'[e] = r
        /\ \A f \in Entries \ {e} : rows'[f] = rows[f]
    BY <2>3, <2>4, RowUpdate DEF IInv
  <2>6. /\ r.phase = "writing" /\ r.digest = d /\ r.old = rows[e].old /\ r.size >= Size[d]
        /\ r.size >= rows[e].size /\ r.size \in Nat /\ r.expiry = rows[e].expiry
    BY <2>2
  <2>7. op' \in Op /\ op'.pc = "put" /\ op'.entry = {e}
    BY <1>3, OpAt
  <2>8. Updates => d = rows[e].digest
    BY DEF Retry, Repeats
  <2>9. disk[e] \in Bodies /\ (disk[e] # "none" => Size[disk[e]] \in Nat)
    BY ContentAssumption DEF IInv, TypeOK, Bodies
  <2> HIDE DEF r
  <2>a. TypeOK'
    BY <1>1, <1>3, <2>5, <2>7 DEF IInv, TypeOK, foreign
  <2>b. RowShape'
    BY <2>5, <2>6 DEF IInv, RowShape
  <2>c. InHand'
    BY <2>5, <2>6, <2>7 DEF IInv, InHand
  <2>d. Untouched'
    <3>1. ASSUME e \notin tampered
          PROVE  /\ flat[e] = "none" /\ disk[e] \in {"none", r.old, r.digest}
                 /\ disk[e] # "none" => r.size >= Size[disk[e]]
      <4>1. flat[e] = "none" /\ (disk[e] # "none" => rows[e].size >= Size[disk[e]])
        BY <1>1, <3>1 DEF IInv, Untouched
      <4> QED BY <1>3, <2>1, <2>6, <2>9, <4>1
    <3> QED BY <1>1, <1>3, <2>5, <2>6, <2>7, <3>1 DEF IInv, Untouched, foreign
  <2>e. Stamped'
    BY <1>1, <1>3, <2>5, <2>6 DEF IInv, Stamped, foreign
  <2>f. Calm'
    BY <1>1, <2>5, <2>6, <2>8 DEF IInv, Calm, foreign
  <2> QED BY <2>a, <2>b, <2>c, <2>d, <2>e, <2>f DEF IInv
<1> QED BY <1>2, <1>3 DEF Retry

\* write, the reservation.
LEMMA ReserveStep ==
    ASSUME IInv, NEW e \in Entries, NEW d \in Contents, Reserve(e, d)
    PROVE  IInv'
<1> DEFINE r == [phase |-> "writing", digest |-> d, size |-> Larger(rows[e].size, Size[d]),
                 old |-> rows[e].digest, expiry |-> d \in Expiring \/ rows[e].expiry]
<1>1. rows[e] \in Row /\ Size[d] \in Nat
  BY ContentAssumption DEF IInv, TypeOK
<1>2. /\ rows[e].size \in Nat /\ rows[e].digest \in Bodies /\ rows[e].expiry \in BOOLEAN
      /\ rows[e].phase \in Phases
  BY <1>1 DEF Row
<1>3. Larger(rows[e].size, Size[d]) \in Nat /\ Larger(rows[e].size, Size[d]) >= Size[d]
      /\ Larger(rows[e].size, Size[d]) >= rows[e].size
  BY <1>1, <1>2 DEF Larger
<1>4. r \in Row
  BY <1>2, <1>3, RowFields DEF Bodies, Phases
<1>5. rows' = [rows EXCEPT ![e] = r]
  BY DEF Reserve, Writing
<1>6. /\ rows' \in [Entries -> Row] /\ rows'[e] = r
      /\ \A f \in Entries \ {e} : rows'[f] = rows[f]
  BY <1>4, <1>5, RowUpdate DEF IInv
<1>7. /\ r.phase = "writing" /\ r.digest = d /\ r.old = rows[e].digest
      /\ r.size >= Size[d] /\ r.size >= rows[e].size /\ (d \in Expiring => r.expiry)
  BY <1>3
<1>8. /\ Known({}) /\ op' = At("put", e) /\ UNCHANGED <<disk, flat, dirty, complete, halted, foreign>>
      /\ (rows[e].phase = "registered" => disk[e] = rows[e].digest)
  BY DEF Reserve
<1>9. op'.pc = "put" /\ op'.entry = {e}
  BY <1>8, OpAt
<1> HIDE DEF r
<1>a. TypeOK'
  BY <1>6, <1>8, OpAt DEF IInv, TypeOK, foreign
<1>b. RowShape'
  <2>1. ~Updates => r.old = "none"
    BY <1>2, <1>7, <1>8 DEF Reserve, Replaceable, Known, Pending, Phases, IInv, RowShape, NoRow
  <2> QED BY <1>6, <1>7, <2>1 DEF IInv, RowShape
<1>c. InHand'
  BY <1>6, <1>7, <1>9 DEF IInv, InHand
<1>d. Untouched'
  BY <1>2, <1>6, <1>7, <1>8, <1>9 DEF IInv, Untouched, RowShape, Known, Pending, Phases, foreign
<1>e. Stamped'
  BY <1>6, <1>7, <1>8 DEF IInv, Stamped, foreign
<1>f. Calm'
  <2>1. d \in Expiring => r.old \in Expiring \cup {"none"}
    BY <1>2, <1>7, <1>8 DEF Reserve, Replaceable, Known, Pending, Phases, IInv, RowShape, NoRow
  <2> QED BY <1>6, <1>7, <1>8, <2>1 DEF IInv, Calm, Known, Pending, foreign
<1> QED BY <1>a, <1>b, <1>c, <1>d, <1>e, <1>f DEF IInv

\* The page operation after it looked at e.
LEMMA OpDone ==
    ASSUME op \in Op, NEW e \in Entries
    PROVE  Done(e) \in Op /\ Done(e).pc = op.pc /\ Done(e).entry = op.entry
  BY DEF Done, Op

\* The page operation as it moves e.
LEMMA OpMove ==
    ASSUME op \in Op, NEW e \in Entries
    PROVE  LET o == [op EXCEPT !.pc = "move", !.entry = {e}]
           IN  o \in Op /\ o.pc = "move" /\ o.entry = {e}
  BY DEF Op

\* The page operation after the move.
LEMMA OpMoved ==
    ASSUME op \in Op
    PROVE  LET o == [op EXCEPT !.pc = "moved"]
           IN  o \in Op /\ o.pc = "moved" /\ o.entry = op.entry
  BY DEF Op

\* The page operation after it settled a move.
LEMMA OpNext ==
    ASSUME op \in Op
    PROVE  LET o == [op EXCEPT !.pc = "repair", !.entry = {}, !.moved = @ + 1]
           IN  o \in Op /\ o.pc = "repair" /\ o.entry = {}
<1>1. op.moved + 1 \in Nat
  BY DEF Op
<1> QED BY <1>1 DEF Op

\* The page operation after it repaired an interrupted move.
LEMMA OpRepairMove ==
    ASSUME op \in Op, NEW e \in Entries
    PROVE  LET o == [Done(e) EXCEPT !.pc = "moved", !.entry = {e}]
           IN  o \in Op /\ o.pc = "moved" /\ o.entry = {e}
  BY DEF Op, Done

\* write, the body.
LEMMA PutStep ==
    ASSUME IInv, NEW e \in Entries, Put(e)
    PROVE  IInv'
<1>1. /\ op.pc = "put" /\ op.entry = {e}
      /\ op' \in Op /\ op'.pc = "settle" /\ op'.entry = {e}
  BY OpAt DEF Put
<1>2. rows[e].phase = "writing" /\ rows[e].digest \in Contents
  BY <1>1 DEF IInv, InHand, RowShape
<1>3. /\ disk' = [disk EXCEPT ![e] = rows[e].digest] /\ dirty' = dirty \cup {ShardOf[e]}
      /\ UNCHANGED <<rows, flat, complete, halted, foreign>>
  BY DEF Put
<1>4. disk' \in [Entries -> Bodies] /\ disk'[e] = rows[e].digest
      /\ \A f \in Entries \ {e} : disk'[f] = disk[f]
  BY <1>2, <1>3 DEF IInv, TypeOK, Bodies
<1>a. TypeOK'
  BY <1>1, <1>3, <1>4 DEF IInv, TypeOK, Shards, foreign
<1>b. RowShape'
  BY <1>3 DEF IInv, RowShape
<1>c. InHand'
  BY <1>1, <1>2, <1>3 DEF IInv, InHand
<1>d. Untouched'
  BY <1>1, <1>2, <1>3, <1>4 DEF IInv, Untouched, foreign
<1>e. Stamped'
  BY <1>3, <1>4 DEF IInv, Stamped, foreign
<1>f. Calm'
  BY <1>3 DEF IInv, Calm, foreign
<1> QED BY <1>a, <1>b, <1>c, <1>d, <1>e, <1>f DEF IInv

\* write, the settlement.
LEMMA SettleStep ==
    ASSUME IInv, NEW e \in Entries, Settle(e)
    PROVE  IInv'
<1>1. op.pc = "settle" /\ op.entry = {e} /\ op' \in Op /\ op'.pc = "idle"
  BY OpAt, OpIdle DEF Settle
<1>2. rows[e].phase = "writing" /\ rows[e].digest \in Contents
  BY <1>1 DEF IInv, InHand, RowShape
<1>3. disk[e] # "none" /\ (e \notin tampered => flat[e] = "none")
  BY <1>2, ContentAssumption DEF IInv, Untouched, Settle
<1> QED BY <1>1, <1>2, <1>3, RegisterStep DEF Settle

\* delete, the mark.
LEMMA BeginDeleteStep ==
    ASSUME IInv, NEW e \in Entries, BeginDelete(e)
    PROVE  IInv'
<1>1. op' \in Op /\ op'.pc = "unlink" /\ op'.entry = {e}
  BY OpAt DEF BeginDelete
<1>2. /\ rows' = [rows EXCEPT ![e].phase = "deleting"]
      /\ rows[e] \in Row /\ rows[e].digest \in Contents
      /\ UNCHANGED <<disk, flat, dirty, complete, halted, foreign>>
      /\ flat[e] = "none" /\ disk[e] = rows[e].digest /\ rows[e].size = Size[rows[e].digest]
  BY DEF BeginDelete, IInv, TypeOK, RowShape
<1>3. [rows[e] EXCEPT !.phase = "deleting"] \in Row
  BY <1>2 DEF Row, Phases
<1>4. /\ rows' \in [Entries -> Row]
      /\ \A f \in Entries \ {e} : rows'[f] = rows[f]
      /\ rows'[e].phase = "deleting" /\ rows'[e].digest = rows[e].digest /\ rows'[e].size = rows[e].size
      /\ rows'[e].old = rows[e].old
  <2>1. rows' = [rows EXCEPT ![e] = [rows[e] EXCEPT !.phase = "deleting"]]
    BY <1>2
  <2>2. LET r == [rows[e] EXCEPT !.phase = "deleting"]
        IN  r.phase = "deleting" /\ r.digest = rows[e].digest /\ r.size = rows[e].size
            /\ r.old = rows[e].old
    BY <1>2 DEF Row
  <2>3. /\ rows' \in [Entries -> Row] /\ rows'[e] = [rows[e] EXCEPT !.phase = "deleting"]
        /\ \A f \in Entries \ {e} : rows'[f] = rows[f]
    BY <1>3, <2>1, RowUpdate DEF IInv
  <2> QED BY <2>2, <2>3
<1>a. TypeOK'
  BY <1>1, <1>2, <1>4 DEF IInv, TypeOK, foreign
<1>b. RowShape'
  BY <1>2, <1>4 DEF IInv, RowShape
<1>c. InHand'
  BY <1>1, <1>4 DEF InHand
<1>d. Untouched'
  BY <1>1, <1>2, <1>4 DEF IInv, Untouched, foreign
<1>e. Stamped'
  BY <1>2, <1>4, ContentAssumption DEF IInv, Stamped, foreign
<1>f. Calm'
  BY <1>2, <1>4 DEF IInv, Calm, foreign
<1> QED BY <1>a, <1>b, <1>c, <1>d, <1>e, <1>f DEF IInv

\* delete, the unlink.
LEMMA UnlinkStep ==
    ASSUME IInv, NEW e \in Entries, Unlink(e)
    PROVE  IInv'
<1>1. /\ op.pc = "unlink" /\ op.entry = {e}
      /\ op' \in Op /\ op'.pc = "forget" /\ op'.entry = {e}
  BY OpAt DEF Unlink
<1>2. rows[e].phase = "deleting"
  BY <1>1 DEF IInv, InHand
<1>3. /\ disk' = [disk EXCEPT ![e] = "none"] /\ dirty' = dirty \cup {ShardOf[e]}
      /\ UNCHANGED <<rows, flat, complete, halted, foreign>>
  BY DEF Unlink
<1>4. disk' \in [Entries -> Bodies] /\ disk'[e] = "none"
      /\ \A f \in Entries \ {e} : disk'[f] = disk[f]
  BY <1>3 DEF IInv, TypeOK, Bodies
<1>a. TypeOK'
  BY <1>1, <1>3, <1>4 DEF IInv, TypeOK, Shards, foreign
<1>b. RowShape'
  BY <1>3 DEF IInv, RowShape
<1>c. InHand'
  BY <1>1, <1>2, <1>3, <1>4 DEF IInv, InHand
<1>d. Untouched'
  BY <1>1, <1>2, <1>3, <1>4 DEF IInv, Untouched, foreign
<1>e. Stamped'
  BY <1>3, <1>4 DEF IInv, Stamped, foreign
<1>f. Calm'
  BY <1>3 DEF IInv, Calm, foreign
<1> QED BY <1>a, <1>b, <1>c, <1>d, <1>e, <1>f DEF IInv

\* delete, the settlement.
LEMMA ForgetStep ==
    ASSUME IInv, NEW e \in Entries, Forget(e)
    PROVE  IInv'
<1>1. op.pc = "forget" /\ op.entry = {e} /\ op' \in Op /\ op'.pc = "idle"
  BY OpAt, OpIdle DEF Forget
<1>2. /\ rows' = [rows EXCEPT ![e] = NoRow] /\ Settles(e, {e}) /\ dirty' = {}
      /\ UNCHANGED <<disk, flat, complete, halted, foreign>>
  BY DEF Forget
<1>3. NoRow \in Row /\ NoRow.phase = "none" /\ NoRow.old = "none"
  BY RowFields DEF NoRow, Bodies, Phases
<1>4. /\ rows' \in [Entries -> Row] /\ rows'[e] = NoRow
      /\ \A f \in Entries \ {e} : rows'[f] = rows[f]
  BY <1>2, <1>3, RowUpdate DEF IInv
<1>5. (e \notin raced => disk[e] = "none") /\ raced \subseteq tampered
  BY <1>1 DEF IInv, InHand, TypeOK
<1>a. TypeOK'
  BY <1>1, <1>2, <1>4 DEF IInv, TypeOK, foreign
<1>b. RowShape'
  BY <1>3, <1>4 DEF IInv, RowShape
<1>c. InHand'
  BY <1>1 DEF InHand
<1>d. Untouched'
  BY <1>1, <1>2, <1>3, <1>4, <1>5 DEF IInv, Untouched, foreign
<1>e. Stamped'
  BY <1>2, <1>3, <1>4, <1>5 DEF IInv, Stamped, Settles, ShardValid, foreign
<1>f. Calm'
  BY <1>2, <1>3, <1>4 DEF IInv, Calm, foreign
<1> QED BY <1>a, <1>b, <1>c, <1>d, <1>e, <1>f DEF IInv

\* Steps that change no row and no file.
LEMMA OpOnlyStep ==
    ASSUME IInv, op' \in Op, UNCHANGED <<rows, disk, flat, foreign>>,
           dirty \subseteq dirty', dirty' \subseteq Shards, halted' \in BOOLEAN, complete' \in BOOLEAN,
           complete /\ (\A f \in Entries : flat[f] = "none") => complete',
           op'.pc \in {"idle", "repair"},
           op'.pc = "repair" => \A f \in Entries : rows[f].phase # "deleting"
    PROVE  IInv'
<1>a. TypeOK'
  BY DEF IInv, TypeOK, foreign
<1>b. RowShape'
  BY DEF IInv, RowShape
<1>c. InHand'
  BY DEF InHand
<1>d. Untouched'
  BY DEF IInv, Untouched, foreign
<1>e. Stamped'
  BY DEF IInv, Stamped, foreign
<1>f. Calm'
  BY DEF IInv, Calm, foreign
<1> QED BY <1>a, <1>b, <1>c, <1>d, <1>e, <1>f DEF IInv

\* Halting the store.
LEMMA HaltStep ==
    ASSUME IInv, Halt
    PROVE  IInv'
<1>1. op' \in Op /\ op'.pc = "idle"
  BY OpIdle DEF Halt
<1>2. dirty \subseteq Shards /\ complete \in BOOLEAN
  BY DEF IInv, TypeOK
<1> QED BY <1>1, <1>2, OpOnlyStep DEF Halt

\* migrate_page, its start.
LEMMA BeginPageStep ==
    ASSUME IInv, BeginPage
    PROVE  IInv'
<1>1. op' \in Op /\ op'.pc = "repair"
  BY DEF BeginPage, Op
<1>2. dirty \subseteq Shards /\ complete \in BOOLEAN /\ halted \in BOOLEAN
  BY DEF IInv, TypeOK
<1> QED BY <1>1, <1>2, OpOnlyStep DEF BeginPage

\* migrate_page, its end.
LEMMA EndPageStep ==
    ASSUME IInv, EndPage
    PROVE  IInv'
<1>1. op' \in Op /\ op'.pc = "idle"
  BY OpIdle DEF EndPage
<1>2. dirty \subseteq Shards /\ halted \in BOOLEAN
  BY DEF IInv, TypeOK
<1>3. ((\A f \in Entries : flat[f] = "none") => complete') /\ complete' \in BOOLEAN
  BY Zenon DEF EndPage
<1> QED BY <1>1, <1>2, <1>3, OpOnlyStep DEF EndPage

\* An operation cut short.
LEMMA AbandonStep ==
    ASSUME IInv, Abandon
    PROVE  IInv'
<1>1. op' \in Op /\ op'.pc = "idle"
  BY OpIdle DEF Abandon
<1>2. dirty \subseteq Shards /\ complete \in BOOLEAN /\ halted \in BOOLEAN /\ op.entry \subseteq Entries
  BY DEF IInv, TypeOK, Op
<1>3. dirty \subseteq dirty' /\ dirty' \subseteq Shards
  BY <1>2 DEF Abandon, Shards
<1> QED BY <1>1, <1>2, <1>3, OpOnlyStep DEF Abandon

\* A page that met an error.
LEMMA HaltOnErrorStep ==
    ASSUME IInv, HaltOnError
    PROVE  IInv'
<1>1. op' \in Op /\ op'.pc = "idle"
  BY OpIdle DEF HaltOnError
<1>2. /\ dirty \subseteq Shards /\ complete \in BOOLEAN /\ op.entry \subseteq Entries
      /\ halted' = TRUE /\ failed' = TRUE /\ UNCHANGED <<rows, disk, flat, complete, tampered, raced>>
  BY DEF IInv, TypeOK, Op, HaltOnError
<1>3. dirty \subseteq dirty' /\ dirty' \subseteq Shards
  BY <1>2 DEF HaltOnError, Shards
<1>a. TypeOK'
  BY <1>1, <1>2, <1>3 DEF IInv, TypeOK
<1>b. RowShape'
  BY <1>2 DEF IInv, RowShape
<1>c. InHand'
  BY <1>1 DEF InHand
<1>d. Untouched'
  BY <1>1, <1>2 DEF IInv, Untouched
<1>e. Stamped'
  BY <1>2, <1>3 DEF IInv, Stamped
<1>f. Calm'
  BY <1>2 DEF IInv, Calm
<1> QED BY <1>a, <1>b, <1>c, <1>d, <1>e, <1>f DEF IInv

\* What every step of a page may rely on.
LEMMA PageFacts ==
    ASSUME IInv, NEW e \in Entries
    PROVE  /\ op \in Op
           /\ op.pc \in {"repair", "move", "moved"} => \A f \in Entries : rows[f].phase # "deleting"
           /\ rows[e].phase # "none" => rows[e].digest \in Contents
           /\ Done(e) \in Op /\ Done(e).pc = op.pc
  BY OpDone DEF IInv, TypeOK, InHand, RowShape

\* _repair_writes over a missing body.
LEMMA LeaveWriteStep ==
    ASSUME IInv, NEW e \in Entries, LeaveWrite(e)
    PROVE  IInv'
<1>1. op.pc = "repair" /\ op' = Done(e) /\ UNCHANGED <<rows, disk, flat, dirty, complete, halted, foreign>>
  BY DEF LeaveWrite, RepairingWrite, Repairing
<1>2. dirty \subseteq Shards /\ complete \in BOOLEAN /\ halted \in BOOLEAN
  BY DEF IInv, TypeOK
<1> QED BY <1>1, <1>2, PageFacts, OpOnlyStep

\* _repair_writes over the new body.
LEMMA RepairWriteStep ==
    ASSUME IInv, NEW e \in Entries, RepairWrite(e)
    PROVE  IInv'
<1>1. /\ op.pc = "repair" /\ op' = Done(e) /\ rows[e].phase = "writing"
      /\ disk[e] = rows[e].digest /\ Settles(e, {}) /\ dirty' = {}
      /\ rows' = [rows EXCEPT ![e] = Registered(rows[e], rows[e].digest)]
      /\ UNCHANGED <<disk, flat, complete, halted, foreign>>
  BY DEF RepairWrite, RepairingWrite, Repairing
<1>2. disk[e] # "none" /\ (e \notin tampered => flat[e] = "none")
  BY <1>1, PageFacts, ContentAssumption DEF IInv, Untouched
<1> QED BY <1>1, <1>2, PageFacts, RegisterStep

\* _restore_update.
LEMMA RestoreUpdateStep ==
    ASSUME IInv, NEW e \in Entries, RestoreUpdate(e)
    PROVE  IInv'
<1>1. /\ op.pc = "repair" /\ op' = Done(e) /\ rows[e].phase = "writing" /\ disk[e] # "none"
      /\ Known({e}) /\ dirty' = {}
      /\ rows' = [rows EXCEPT ![e] = Registered(rows[e], disk[e])]
      /\ UNCHANGED <<disk, flat, complete, halted, foreign>>
  BY DEF RestoreUpdate, Unapplied, RepairingWrite, Repairing
<1>2. Settles(e, {}) /\ flat[e] = "none"
  BY <1>1 DEF Known, Settles
<1>3. disk[e] \in Contents
  BY <1>1 DEF IInv, TypeOK, Bodies
<1> QED BY <1>1, <1>2, <1>3, PageFacts, RegisterStep

\* _repair, the move.
LEMMA MoveStep ==
    ASSUME IInv, NEW e \in Entries, Move(e), op.pc \in {"repair", "move"},
           op' \in Op, op'.pc = "moved", op'.entry = {e}
    PROVE  IInv'
<1>1. /\ rows[e].phase = "prepared" /\ rows[e].digest \in Contents
      /\ {flat[e], disk[e]} \ {"none"} = {rows[e].digest}
      /\ disk' = [disk EXCEPT ![e] = rows[e].digest] /\ flat' = [flat EXCEPT ![e] = "none"]
      /\ dirty' = (IF flat[e] # "none" /\ disk[e] = "none" THEN dirty \cup {ShardOf[e]} ELSE dirty)
      /\ UNCHANGED <<rows, complete, halted, foreign>>
  BY DEF Move, IInv, RowShape
<1>2. /\ disk' \in [Entries -> Bodies] /\ disk'[e] = rows[e].digest
      /\ flat' \in [Entries -> Bodies] /\ flat'[e] = "none"
      /\ \A f \in Entries \ {e} : disk'[f] = disk[f] /\ flat'[f] = flat[f]
  BY <1>1 DEF IInv, TypeOK, Bodies
<1>3. dirty \subseteq dirty' /\ dirty' \subseteq Shards
  BY <1>1 DEF IInv, TypeOK, Shards
<1>a. TypeOK'
  BY <1>1, <1>2, <1>3 DEF IInv, TypeOK, foreign
<1>b. RowShape'
  BY <1>1 DEF IInv, RowShape
<1>c. InHand'
  BY <1>1, <1>2, ContentAssumption DEF IInv, InHand, foreign
<1>d. Untouched'
  <2>1. {flat'[e], disk'[e]} \ {"none"} = {rows[e].digest}
    BY <1>1, <1>2, ContentAssumption
  <2> QED BY <1>1, <1>2, <2>1 DEF IInv, Untouched, foreign
<1>e. Stamped'
  BY <1>1, <1>2, <1>3 DEF IInv, Stamped, foreign
<1>f. Calm'
  BY <1>1, <1>2 DEF IInv, Calm, foreign
<1> QED BY <1>a, <1>b, <1>c, <1>d, <1>e, <1>f DEF IInv

\* _repair of an interrupted move.
LEMMA RepairMoveStep ==
    ASSUME IInv, NEW e \in Entries, RepairMove(e)
    PROVE  IInv'
<1>1. op.pc = "repair" /\ Move(e) /\ op' = [Done(e) EXCEPT !.pc = "moved", !.entry = {e}]
  BY DEF RepairMove, Repairing
<1>2. op' \in Op /\ op'.pc = "moved" /\ op'.entry = {e}
  BY <1>1, PageFacts, OpRepairMove
<1> QED BY <1>1, <1>2, MoveStep

\* _repair of a new legacy file.
LEMMA MovePreparedStep ==
    ASSUME IInv, NEW e \in Entries, MovePrepared(e)
    PROVE  IInv'
<1>1. op.pc = "move" /\ op.entry = {e} /\ Move(e) /\ op' = [op EXCEPT !.pc = "moved"]
  BY DEF MovePrepared
<1>2. op' \in Op /\ op'.pc = "moved" /\ op'.entry = {e}
  BY <1>1, PageFacts, OpMoved
<1> QED BY <1>1, <1>2, MoveStep

\* _repair, the settlement.
LEMMA SettleMoveStep ==
    ASSUME IInv, NEW e \in Entries, SettleMove(e)
    PROVE  IInv'
<1>1. /\ op.pc = "moved" /\ op.entry = {e} /\ Settles(e, {}) /\ dirty' = {}
      /\ rows' = [rows EXCEPT ![e] = Registered(rows[e], rows[e].digest)]
      /\ op' = [op EXCEPT !.pc = "repair", !.entry = {}, !.moved = @ + 1]
      /\ UNCHANGED <<disk, flat, complete, halted, foreign>>
  BY DEF SettleMove
<1>2. op' \in Op /\ op'.pc = "repair"
  BY <1>1, PageFacts, OpNext
<1>3. /\ rows[e].phase = "prepared"
      /\ e \notin raced => disk[e] # "none"
      /\ e \notin tampered => disk[e] = rows[e].digest /\ flat[e] = "none"
  BY <1>1 DEF IInv, InHand, Untouched
<1> QED BY <1>1, <1>2, <1>3, PageFacts, RegisterStep

\* A legacy file enters the table.
LEMMA PrepareStep ==
    ASSUME IInv, NEW e \in Entries, Prepare(e)
    PROVE  IInv'
<1>1. /\ op.pc = "repair" /\ op' = [op EXCEPT !.pc = "move", !.entry = {e}]
      /\ flat[e] # "none" /\ Agrees(e) /\ dirty = {}
      /\ UNCHANGED <<disk, flat, dirty, complete, halted, foreign>>
  BY DEF Prepare, Listing
<1>2. op' \in Op /\ op'.pc = "move" /\ op'.entry = {e}
  BY <1>1, PageFacts, OpMove
<1>3. flat[e] \in Contents /\ rows[e] \in Row /\ Size[flat[e]] \in Nat
  BY <1>1, ContentAssumption DEF IInv, TypeOK, Bodies
<1>4. /\ rows' \in [Entries -> Row]
      /\ \A f \in Entries \ {e} : rows'[f] = rows[f]
      /\ rows'[e].phase = "prepared" /\ rows'[e].digest = flat[e] /\ rows'[e].size = Size[flat[e]]
      /\ rows'[e].old \in {"none", rows[e].old}
  <2>1. CASE rows[e].phase = "none"
    <3> DEFINE r == [phase |-> "prepared", digest |-> flat[e], size |-> Size[flat[e]],
                     old |-> "none", expiry |-> FALSE]
    <3>1. r \in Row
      BY <1>3, RowFields DEF Bodies, Phases
    <3>2. rows' = [rows EXCEPT ![e] = r]
      BY <2>1 DEF Prepare
    <3>3. r.phase = "prepared" /\ r.digest = flat[e] /\ r.size = Size[flat[e]] /\ r.old = "none"
      OBVIOUS
    <3> HIDE DEF r
    <3> QED BY <3>1, <3>2, <3>3, RowUpdate DEF IInv
  <2>2. CASE rows[e].phase # "none"
    <3> DEFINE r == [rows[e] EXCEPT !.phase = "prepared"]
    <3>1. r \in Row
      BY <1>3 DEF Row, Phases
    <3>2. rows' = [rows EXCEPT ![e] = r]
      BY <2>2 DEF Prepare
    <3>3. r.phase = "prepared" /\ r.digest = rows[e].digest /\ r.size = rows[e].size
            /\ r.old = rows[e].old
      BY <1>3 DEF Row
    <3>4. rows[e].digest = flat[e] /\ rows[e].size = Size[flat[e]]
      BY <1>1, <2>2 DEF Agrees
    <3> HIDE DEF r
    <3> QED BY <3>1, <3>2, <3>3, <3>4, RowUpdate DEF IInv
  <2> QED BY <2>1, <2>2
<1>5. e \notin tampered => disk[e] \in {"none", flat[e]}
  <2> SUFFICES ASSUME e \notin tampered
               PROVE  disk[e] \in {"none", flat[e]}
    OBVIOUS
  <2>1. rows[e].phase \in {"none", "prepared"}
    BY <1>1, <1>3 DEF IInv, Untouched, Row, Phases
  <2>2. CASE rows[e].phase = "none"
    BY <2>2 DEF IInv, Untouched
  <2>3. CASE rows[e].phase = "prepared"
    <3>1. {flat[e], disk[e]} \ {"none"} = {rows[e].digest}
      BY <2>3 DEF IInv, Untouched
    <3> QED BY <1>1, <3>1
  <2> QED BY <2>1, <2>2, <2>3
<1>6. tampered = {} => \A f \in Entries : rows[f].phase # "writing"
  BY <1>1 DEF IInv, Calm
<1>a. TypeOK'
  BY <1>1, <1>2, <1>4 DEF IInv, TypeOK, foreign
<1>b. RowShape'
  BY <1>3, <1>4 DEF IInv, RowShape
<1>c. InHand'
  BY <1>1, <1>2, <1>4, PageFacts DEF InHand
<1>d. Untouched'
  <2>1. e \notin tampered => {flat[e], disk[e]} \ {"none"} = {flat[e]}
    BY <1>1, <1>5
  <2> QED BY <1>1, <1>2, <1>4, <2>1 DEF IInv, Untouched, foreign
<1>e. Stamped'
  BY <1>1, <1>4 DEF IInv, Stamped, foreign
<1>f. Calm'
  BY <1>1, <1>4, <1>6 DEF IInv, Calm, foreign
<1> QED BY <1>a, <1>b, <1>c, <1>d, <1>e, <1>f DEF IInv

\* Other programs.
LEMMA TamperStep ==
    ASSUME IInv, NEW e \in Entries, NEW b \in Bodies, Tamper(e, b) \/ TamperFlat(e, b)
    PROVE  IInv'
<1>1. /\ rows' = rows /\ op' = op /\ complete' = complete /\ halted' = halted
      /\ tampered' = tampered \cup {e} /\ raced' = raced \cup (op.entry \cap {e}) /\ failed' = failed
      /\ disk' \in [Entries -> Bodies] /\ flat' \in [Entries -> Bodies]
      /\ \A f \in Entries \ {e} : disk'[f] = disk[f] /\ flat'[f] = flat[f]
  BY DEF Tamper, TamperFlat, IInv, TypeOK
<1>2. dirty \subseteq dirty' /\ dirty' \subseteq Shards
  BY DEF Tamper, TamperFlat, IInv, TypeOK, Shards
<1>3. ShardOf[e] \notin dirty' => (disk[e] = "none" <=> disk'[e] = "none")
  BY DEF Tamper, TamperFlat, IInv, TypeOK
<1>a. TypeOK'
  BY <1>1, <1>2 DEF IInv, TypeOK, Op
<1>b. RowShape'
  BY <1>1 DEF IInv, RowShape
<1>c. InHand'
  BY <1>1 DEF IInv, InHand, TypeOK, Op
<1>d. Untouched'
  BY <1>1 DEF IInv, Untouched
<1>e. Stamped'
  BY <1>1, <1>2, <1>3 DEF IInv, Stamped
<1>f. Calm'
  BY <1>1 DEF Calm
<1> QED BY <1>a, <1>b, <1>c, <1>d, <1>e, <1>f DEF IInv

-----------------------------------------------------------------------------
(* The invariant, and what follows from it.                                *)

\* The invariant holds at first.
LEMMA InitIInv ==
    ASSUME Init
    PROVE  IInv
<1>1. NoRow \in Row /\ NoRow.phase = "none" /\ NoRow.old = "none"
  BY RowFields DEF NoRow, Bodies, Phases
<1>2. \A e \in Entries : rows[e] = NoRow /\ disk[e] = "none"
  BY DEF Init
<1>3. op \in Op /\ op.pc = "idle"
  BY OpIdle DEF Init
<1>a. TypeOK
  BY <1>1, <1>3 DEF Init, TypeOK, Bodies
<1>b. RowShape
  BY <1>1, <1>2 DEF RowShape
<1>c. InHand
  BY <1>3 DEF InHand
<1>d. Untouched
  BY <1>1, <1>2, <1>3 DEF Untouched
<1>e. Stamped
  BY <1>1, <1>2 DEF Stamped
<1>f. Calm
  BY <1>1, <1>2 DEF Calm
<1> QED BY <1>a, <1>b, <1>c, <1>d, <1>e, <1>f DEF IInv

\* Every step keeps the invariant.
LEMMA NextIInv ==
    ASSUME IInv, [Next]_vars
    PROVE  IInv'
<1>1. CASE Write
  BY <1>1, ReserveStep, RetryStep, PutStep, SettleStep DEF Write
<1>2. CASE Delete
  BY <1>2, BeginDeleteStep, UnlinkStep, ForgetStep DEF Delete
<1>3. CASE MigratePage
  <2>1. CASE BeginPage \/ EndPage \/ HaltOnError
    BY <2>1, BeginPageStep, EndPageStep, HaltOnErrorStep
  <2>2. ASSUME NEW e \in Entries,
               \/ HaltWrite(e) \/ HaltRepairMove(e) \/ HaltPrepare(e) \/ HaltMovePrepared(e)
        PROVE  IInv'
    BY <2>2, HaltStep DEF HaltWrite, HaltRepairMove, HaltMove, HaltPrepare, HaltMovePrepared
  <2>3. ASSUME NEW e \in Entries,
               \/ RepairWrite(e) \/ LeaveWrite(e) \/ RestoreUpdate(e) \/ RepairMove(e)
               \/ Prepare(e) \/ MovePrepared(e) \/ SettleMove(e)
        PROVE  IInv'
    BY <2>3, RepairWriteStep, LeaveWriteStep, RestoreUpdateStep, RepairMoveStep, PrepareStep,
       MovePreparedStep, SettleMoveStep
  <2> QED BY <1>3, <2>1, <2>2, <2>3 DEF MigratePage
<1>4. CASE Abandon
  BY <1>4, AbandonStep
<1>5. CASE MarkUnknown
  BY <1>5, HaltStep DEF MarkUnknown
<1>6. CASE Interfere
  BY <1>6, TamperStep DEF Interfere
<1>7. CASE UNCHANGED vars
  BY <1>7 DEF vars, IInv, TypeOK, RowShape, InHand, Untouched, Stamped, Calm, Pending, ShardValid
<1> QED BY <1>1, <1>2, <1>3, <1>4, <1>5, <1>6, <1>7 DEF Next

\* IInv holds in every reachable state, for every set of entries and bodies.
THEOREM CatalogInductive == Spec => []IInv
  BY InitIInv, NextIInv, PTL DEF Spec

\* Whatever write, delete and migrate_page were interrupted where, and whatever
\* other programs did to other entries, the row of an untouched body charges at
\* least the body's length.
THEOREM ChargesAlwaysCover == Spec => []ChargesCover
<1>1. ASSUME IInv
      PROVE  ChargesCover
  <2> SUFFICES ASSUME NEW e \in Entries \ tampered, disk[e] # "none"
               PROVE  rows[e].phase # "none" /\ rows[e].size >= Size[disk[e]]
    BY DEF ChargesCover
  <2>1. rows[e] \in Row /\ disk[e] \in Contents
    BY <1>1 DEF IInv, TypeOK, Bodies
  <2>2. rows[e].phase \in Phases /\ Size[disk[e]] \in Nat
    BY <2>1, ContentAssumption DEF Row
  <2>3. rows[e].phase # "none"
    BY <1>1 DEF IInv, Untouched
  <2>4. CASE rows[e].phase = "writing"
    BY <1>1, <2>4 DEF IInv, Untouched
  <2>5. CASE rows[e].phase \in {"registered", "deleting", "prepared"}
    <3>1. rows[e].size = Size[rows[e].digest]
      BY <1>1, <2>5 DEF IInv, Untouched, RowShape
    <3>2. disk[e] = rows[e].digest
      BY <1>1, <2>5 DEF IInv, Untouched
    <3> QED BY <2>2, <2>3, <3>1, <3>2
  <2> QED BY <2>2, <2>3, <2>4, <2>5 DEF Phases
<1> QED BY <1>1, CatalogInductive, PTL

\* When _known accepts the inventory, capacity counts exactly the files there
\* are, short of a file swapped under the operation that was settling it.
THEOREM KnownIsEvidence == Spec => []CapacityIsEvidence
<1>1. ASSUME IInv
      PROVE  CapacityIsEvidence
  <2> SUFFICES ASSUME Known({}), NEW e \in Entries
               PROVE  /\ e \notin raced => (rows[e].phase = "registered" <=> disk[e] # "none")
                      /\ e \notin tampered =>
                            /\ disk[e] = rows[e].digest
                            /\ rows[e].phase # "none" => rows[e].size = Size[disk[e]]
    BY DEF CapacityIsEvidence
  <2>1. dirty = {} /\ rows[e].phase \in {"none", "registered"}
    BY <1>1 DEF Known, Pending, IInv, TypeOK, Row, Phases
  <2>2. rows[e].phase = "none" => rows[e].digest = "none"
    BY <1>1 DEF IInv, RowShape, NoRow
  <2>3. e \notin raced => (rows[e].phase = "registered" <=> disk[e] # "none")
    BY <1>1, <2>1 DEF IInv, Stamped
  <2>4. e \notin tampered => disk[e] = rows[e].digest
    BY <1>1, <2>1, <2>2 DEF IInv, Untouched
  <2>5. rows[e].phase # "none" => rows[e].size = Size[rows[e].digest]
    BY <1>1, <2>1 DEF IInv, RowShape
  <2> QED BY <2>3, <2>4, <2>5
<1> QED BY <1>1, CatalogInductive, PTL

\* A store that is halted has no page under way, and takes no write.
HaltedOp == halted => op.pc \in {"idle", "unlink", "forget"}

\* No page and no write goes on in a halted store.
LEMMA HaltedStays ==
    ASSUME HaltedOp, [Next]_vars
    PROVE  HaltedOp'
<1>1. CASE Write
  BY <1>1, OpAt, OpIdle DEF Write, Reserve, Retry, Put, Settle, Known, HaltedOp
<1>2. CASE Delete
  BY <1>2, OpAt, OpIdle DEF Delete, BeginDelete, Unlink, Forget, HaltedOp
<1>3. CASE MigratePage
  <2>1. CASE BeginPage \/ EndPage \/ HaltOnError
    BY <2>1, OpIdle DEF BeginPage, EndPage, HaltOnError, Listing, HaltedOp
  <2>2. ASSUME NEW e \in Entries,
               \/ HaltWrite(e) \/ HaltRepairMove(e) \/ HaltPrepare(e) \/ HaltMovePrepared(e)
        PROVE  HaltedOp'
    BY <2>2, OpIdle DEF HaltWrite, HaltRepairMove, HaltMove, HaltPrepare, HaltMovePrepared, Halt, HaltedOp
  <2>3. ASSUME NEW e \in Entries,
               \/ RepairWrite(e) \/ LeaveWrite(e) \/ RestoreUpdate(e) \/ RepairMove(e)
               \/ Prepare(e) \/ MovePrepared(e) \/ SettleMove(e)
        PROVE  HaltedOp'
    <3>1. op.pc \in {"repair", "move", "moved"} /\ halted' = halted
      BY <2>3 DEF RepairWrite, LeaveWrite, RestoreUpdate, Unapplied, RepairMove, Prepare, MovePrepared,
          SettleMove, Move, RepairingWrite, Repairing, Listing
    <3> QED BY <3>1 DEF HaltedOp
  <2> QED BY <1>3, <2>1, <2>2, <2>3 DEF MigratePage
<1>4. CASE Abandon \/ MarkUnknown
  BY <1>4, OpIdle DEF Abandon, MarkUnknown, Halt, HaltedOp
<1>5. CASE Interfere
  BY <1>5 DEF Interfere, Tamper, TamperFlat, HaltedOp
<1>6. CASE UNCHANGED vars
  BY <1>6 DEF vars, HaltedOp
<1> QED BY <1>1, <1>2, <1>3, <1>4, <1>5, <1>6 DEF Next

\* In a halted store an update that was not written stays as it is.
LEMMA UnaccountedStays ==
    ASSUME IInv, HaltedOp, halted, [Next]_vars, tampered' = tampered, tampered = {},
           NEW e \in Entries, Unaccounted(e)
    PROVE  Unaccounted(e)'
<1>1. rows[e].phase = "writing" /\ disk[e] # rows[e].digest
  BY DEF Unaccounted
<1>2. op.pc \in {"idle", "unlink", "forget"} /\ \A x \in Entries : ~Known({x})
  BY DEF HaltedOp, Known
<1>3. ~Known({})
  BY DEF Known
<1>4. rows'[e] = rows[e] /\ disk'[e] = disk[e]
  <2>1. CASE Write
    BY <1>2, <1>3, <2>1, OpAt DEF Write, Reserve, Retry, Put, Settle
  <2>2. ASSUME NEW f \in Entries, BeginDelete(f)
        PROVE  rows'[e] = rows[e] /\ disk'[e] = disk[e]
    BY <1>1, <2>2 DEF BeginDelete, IInv, TypeOK
  <2>3. ASSUME NEW f \in Entries, Unlink(f) \/ Forget(f)
        PROVE  rows'[e] = rows[e] /\ disk'[e] = disk[e]
    <3>1. rows[f].phase = "deleting"
      BY <2>3, OpAt DEF Unlink, Forget, IInv, InHand
    <3> QED BY <1>1, <2>3, <3>1 DEF Unlink, Forget, IInv, TypeOK
  <2>4. CASE MigratePage
    BY <1>2, <2>4, OpIdle DEF MigratePage, BeginPage, EndPage, HaltOnError, RepairWrite, LeaveWrite,
       RestoreUpdate, Unapplied, RepairMove, Prepare, MovePrepared, SettleMove, Move, RepairingWrite,
       Repairing, Listing, HaltWrite, HaltRepairMove, HaltMove, HaltPrepare, HaltMovePrepared, Halt
  <2>5. CASE Abandon \/ MarkUnknown \/ UNCHANGED vars
    BY <2>5 DEF Abandon, MarkUnknown, Halt, vars
  <2>6. CASE Interfere
    BY <2>6 DEF Interfere, Tamper, TamperFlat
  <2> QED BY <2>1, <2>2, <2>3, <2>4, <2>5, <2>6 DEF Next, Delete
<1> QED BY <1>4 DEF Unaccounted, MetadataMatches

\* Whatever was cut short where, a store is halted for good only after another program
\* changed a file, after a page met an error, or over the unwritten update of an item whose
\* payload reference is cleared (migrate_page, _restore_update).
THEOREM HaltStaysExplained == Spec => []HaltIsExplained
<1>1. Init => HaltIsExplained /\ HaltedOp
  BY DEF Init, HaltIsExplained, HaltedOp
<1>2. ASSUME IInv, HaltedOp, HaltIsExplained, [Next]_vars
      PROVE  HaltedOp' /\ HaltIsExplained'
  <2> SUFFICES ASSUME halted', tampered' = {}, ~failed'
               PROVE  \E e \in Entries : Unaccounted(e)'
    BY <1>2, HaltedStays DEF HaltIsExplained
  <2>1. tampered = {} /\ (failed' = failed \/ HaltOnError)
    BY <1>2 DEF Next, vars, foreign, Write, Reserve, Retry, Put, Settle, Delete, BeginDelete, Unlink, Forget,
        MigratePage, BeginPage, EndPage, RepairWrite, LeaveWrite, RestoreUpdate, HaltWrite, RepairMove, Move,
        HaltRepairMove, HaltMove, Prepare, HaltPrepare, MovePrepared, HaltMovePrepared, SettleMove, Halt,
        HaltOnError, Abandon, MarkUnknown, Interfere, Tamper, TamperFlat
  <2>2. ~HaltOnError /\ ~failed
    BY <2>1 DEF HaltOnError
  <2>3. CASE halted
    <3>1. PICK e \in Entries : Unaccounted(e)
      BY <1>2, <2>1, <2>2, <2>3 DEF HaltIsExplained
    <3> QED BY <1>2, <2>1, <2>3, <3>1, UnaccountedStays
  <2>4. CASE ~halted
    <3>1. \/ MarkUnknown
          \/ \E e \in Entries : HaltWrite(e) \/ HaltRepairMove(e) \/ HaltPrepare(e) \/ HaltMovePrepared(e)
      BY <1>2, <2>2, <2>4 DEF Next, vars, Write, Reserve, Retry, Put, Settle, Delete, BeginDelete, Unlink,
          Forget, MigratePage, BeginPage, EndPage, RepairWrite, LeaveWrite, RestoreUpdate, RepairMove, Move,
          Prepare, MovePrepared, SettleMove, Abandon, Interfere, Tamper, TamperFlat
    <3>2. ~MarkUnknown
      <4> SUFFICES ASSUME MarkUnknown PROVE FALSE
        OBVIOUS
      <4>1. PICK e \in Entries : ~Updates /\ disk[e] # "none" /\ rows[e].phase # "none" /\ disk[e] # rows[e].digest
        BY DEF MarkUnknown
      <4>2. rows[e].phase \in Phases
        BY <1>2 DEF IInv, TypeOK, Row
      <4>3. CASE rows[e].phase = "writing"
        BY <1>2, <2>1, <4>1, <4>3 DEF IInv, Untouched, RowShape
      <4>4. CASE rows[e].phase \in {"registered", "prepared", "deleting"}
        BY <1>2, <2>1, <4>1, <4>4 DEF IInv, Untouched
      <4> QED BY <4>1, <4>2, <4>3, <4>4 DEF Phases
    <3>3. ASSUME NEW e \in Entries, HaltWrite(e)
          PROVE  Unaccounted(e)'
      <4>1. rows[e].phase = "writing" /\ op.pc = "repair" /\ UNCHANGED <<rows, disk>>
        BY <3>3 DEF HaltWrite, RepairingWrite, Repairing, Halt
      <4>2. disk[e] \in {"none", rows[e].old, rows[e].digest}
        BY <1>2, <2>1, <4>1 DEF IInv, Untouched
      <4>3. /\ complete /\ \A f \in Entries : flat[f] = "none"
            /\ \A f \in Entries \ {e} : ~Pending(f)
            /\ Updates /\ rows[e].digest \in Expiring =>
                  rows[e].expiry /\ rows[e].old \in Expiring \cup {"none"}
        BY <1>2, <2>1, <4>1 DEF IInv, Calm, InHand, Pending
      <4>4. Unapplied(e) /\ ~MetadataMatches(e)
        BY <3>3, <4>2, <4>3 DEF HaltWrite
      <4>5. rows[e].digest \notin Expiring
        <5>1. Updates /\ disk[e] = rows[e].old /\ disk[e] # "none" /\ rows[e].expiry \in BOOLEAN
          BY <1>2, <4>4 DEF Unapplied, IInv, TypeOK, Row
        <5> QED BY <4>3, <4>4, <5>1 DEF MetadataMatches
      <4> QED BY <4>1, <4>4, <4>5 DEF Unaccounted, Unapplied, MetadataMatches
    <3>4. \A e \in Entries : ~HaltMove(e)
      BY <1>2, <2>1 DEF HaltMove, IInv, Untouched
    <3>5. ASSUME NEW e \in Entries, HaltPrepare(e)
          PROVE  FALSE
      <4>1. flat[e] # "none" /\ ~Agrees(e) /\ op.pc = "repair"
        BY <3>5 DEF HaltPrepare, Listing
      <4>2. rows[e].phase = "prepared"
        BY <1>2, <2>1, <4>1 DEF IInv, TypeOK, Row, Phases, Untouched, Agrees
      <4>3. {flat[e], disk[e]} \ {"none"} = {rows[e].digest} /\ rows[e].size = Size[rows[e].digest]
        BY <1>2, <2>1, <4>2 DEF IInv, Untouched, RowShape
      <4> QED BY <4>1, <4>3 DEF Agrees
    <3> QED BY <3>1, <3>2, <3>3, <3>4, <3>5 DEF HaltRepairMove, HaltMovePrepared
  <2> QED BY <2>3, <2>4
<1> QED BY <1>1, <1>2, CatalogInductive, PTL DEF Spec

\* Only a body that is there, or that this operation unlinked, lowers a charge:
\* a row whose file went missing keeps it through every repair.
THEOREM RefundsAreEvidenced == Spec => RefundsNeedEvidence
<1>1. ASSUME IInv, [Next]_vars
      PROVE  [\A e \in Entries : rows'[e].size < rows[e].size =>
                 \/ disk[e] # "none" /\ rows'[e].size = Size[disk[e]]
                 \/ op = At("forget", e)]_vars
  <2> SUFFICES ASSUME NEW e \in Entries, rows'[e].size < rows[e].size
               PROVE  \/ disk[e] # "none" /\ rows'[e].size = Size[disk[e]]
                      \/ op = At("forget", e)
    OBVIOUS
  <2>1. /\ rows \in [Entries -> Row] /\ rows[e] \in Row
        /\ \A f \in Entries : rows[f].size \in Nat
        /\ \A c \in Contents : Size[c] \in Nat
    BY <1>1, ContentAssumption DEF IInv, TypeOK, Row
  <2>2. ASSUME NEW f \in Entries, NEW r, rows' = [rows EXCEPT ![f] = r]
        PROVE  f = e /\ rows'[e] = r /\ r.size < rows[e].size
    BY <2>1, <2>2
  <2>3. rows' # rows
    BY <2>1
  <2>4. CASE \E f \in Entries, d \in Contents : Reserve(f, d) \/ Retry(f, d)
    <3>1. PICK f \in Entries, d \in Contents : Reserve(f, d) \/ Retry(f, d)
      BY <2>4
    <3>2. \A old, ex : ~(rows' = [rows EXCEPT ![f] = Writing(rows[f], d, old, ex)])
      <4> SUFFICES ASSUME NEW old, NEW ex, rows' = [rows EXCEPT ![f] = Writing(rows[f], d, old, ex)]
                   PROVE  FALSE
        OBVIOUS
      <4>1. Writing(rows[f], d, old, ex).size >= rows[f].size
        BY <2>1 DEF Writing, Larger
      <4>2. f = e /\ Writing(rows[f], d, old, ex).size < rows[e].size
        BY <2>2
      <4>3. Writing(rows[f], d, old, ex).size \in Nat
        BY <2>1 DEF Writing, Larger
      <4> QED BY <2>1, <4>1, <4>2, <4>3
    <3>3. disk[f] = rows[f].digest /\ rows' = [rows EXCEPT ![f] = Registered(rows[f], rows[f].digest)]
          /\ rows[f].phase = "writing"
      BY <3>1, <3>2 DEF Reserve, Retry
    <3>4. f = e /\ rows'[e] = Registered(rows[f], rows[f].digest)
      BY <2>2, <3>3
    <3> QED BY <1>1, <3>3, <3>4, ContentAssumption DEF Registered, IInv, RowShape
  <2>5. CASE \E f \in Entries : Settle(f) \/ RepairWrite(f)
    <3>1. PICK f \in Entries : Settle(f) \/ RepairWrite(f)
      BY <2>5
    <3>2. disk[f] = rows[f].digest /\ rows' = [rows EXCEPT ![f] = Registered(rows[f], rows[f].digest)]
          /\ rows[f].phase = "writing"
      BY <1>1, <3>1, OpAt DEF Settle, RepairWrite, RepairingWrite, IInv, InHand
    <3>3. f = e /\ rows'[e] = Registered(rows[f], rows[f].digest)
      BY <2>2, <3>2
    <3> QED BY <1>1, <3>2, <3>3, ContentAssumption DEF Registered, IInv, RowShape
  <2>6. CASE \E f \in Entries : RestoreUpdate(f)
    <3>1. PICK f \in Entries : RestoreUpdate(f)
      BY <2>6
    <3>2. disk[f] # "none" /\ rows' = [rows EXCEPT ![f] = Registered(rows[f], disk[f])]
      BY <3>1 DEF RestoreUpdate, Unapplied
    <3>3. f = e /\ rows'[e] = Registered(rows[f], disk[f])
      BY <2>2, <3>2
    <3> QED BY <3>2, <3>3 DEF Registered
  <2>7. CASE \E f \in Entries : SettleMove(f)
    <3>1. PICK f \in Entries : SettleMove(f)
      BY <2>7
    <3>2. rows' = [rows EXCEPT ![f] = Registered(rows[f], rows[f].digest)] /\ rows[f].size = Size[rows[f].digest]
      BY <1>1, <3>1 DEF SettleMove, IInv, InHand, RowShape
    <3>3. f = e /\ Registered(rows[f], rows[f].digest).size < rows[e].size
      BY <2>2, <3>2
    <3> QED BY <2>1, <3>2, <3>3 DEF Registered
  <2>8. CASE \E f \in Entries : BeginDelete(f)
    <3>1. PICK f \in Entries : BeginDelete(f)
      BY <2>8
    <3>2. rows'[e].size = rows[e].size
      BY <2>1, <3>1 DEF BeginDelete, Row
    <3> QED BY <2>1, <3>2
  <2>9. CASE \E f \in Entries : Forget(f)
    <3>1. PICK f \in Entries : Forget(f)
      BY <2>9
    <3>2. f = e
      BY <2>2, <3>1 DEF Forget
    <3> QED BY <3>1, <3>2 DEF Forget
  <2>10. CASE \E f \in Entries : Prepare(f)
    <3>1. PICK f \in Entries : Prepare(f)
      BY <2>10
    <3>2. f = e
      BY <2>2, <3>1 DEF Prepare
    <3>3. rows[e].size = Size[flat[e]] \/ rows[e].size = 0
      BY <1>1, <3>1, <3>2 DEF Prepare, Agrees, IInv, RowShape, NoRow
    <3>4. flat[e] \in Contents
      BY <1>1, <3>1, <3>2 DEF Prepare, IInv, TypeOK, Bodies
    <3>5. rows'[e].size \in {Size[flat[e]], rows[e].size}
      BY <2>1, <3>1, <3>2 DEF Prepare, Row
    <3> QED BY <2>1, <3>3, <3>4, <3>5
  <2> QED BY <1>1, <2>3, <2>4, <2>5, <2>6, <2>7, <2>8, <2>9, <2>10
        DEF Next, vars, Write, Put, Delete, Unlink, MigratePage, BeginPage, EndPage, LeaveWrite, HaltWrite,
            RepairMove, Move, HaltRepairMove, HaltMove, HaltPrepare, MovePrepared, HaltMovePrepared, Halt, HaltOnError,
            Abandon, MarkUnknown, Interfere, Tamper, TamperFlat
<1> QED BY <1>1, CatalogInductive, PTL DEF Spec, RefundsNeedEvidence
=============================================================================
