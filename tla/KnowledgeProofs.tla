-------------------------- MODULE KnowledgeProofs ---------------------------
(***************************************************************************)
(* What holds of accepted knowledge for every number of processes,         *)
(* publishers, readers, failures and states of the journal.  For each      *)
(* component an inductive invariant, that its initial states have it and   *)
(* every action keeps it, and what follows from it; the theorems at the    *)
(* end are about the composition of Knowledge.                             *)
(***************************************************************************)
EXTENDS Knowledge, FiniteSetTheorems, TLAPS

-----------------------------------------------------------------------------
(* Locks.                                                                  *)

LLabels == {"out", "exists", "stale", "break", "again", "busy", "held", "done", "dead"}

LTyped ==
    /\ pc \in [Procs -> LLabels]
    /\ seen \in [Procs -> Procs \cup {NoFile}]
    /\ file \in Procs \cup {NoFile}
    /\ faults \in Nat

\* Nothing can be judged stale, so nobody is about to unlink a file it has not made; and
\* whoever is inside has the file.
Undisturbed ==
    /\ old = {}
    /\ \A p \in Procs : pc[p] \notin {"stale", "break", "again", "dead"}
    /\ \A p \in Procs : pc[p] = "held" => file = p

\* ExclusiveWithoutFaults alone is not inductive: a process with a stale judgement in hand
\* would unlink the holder's file.
LInv == LTyped /\ (faults = 0 => Undisturbed)

LEMMA LInit == L!Init => LInv
  BY DEF L!Init, LInv, LTyped, Undisturbed, LLabels

\* A step of a process (the system calls of FileLock and of the age locks) keeps the
\* invariant.
LEMMA StepKeeps ==
    ASSUME LInv, NEW p \in Procs, L!Step(p), UNCHANGED kind
    PROVE  LInv'
<1> USE DEF LInv, LTyped, Undisturbed, LLabels, L!Go
<1>1. CASE L!Create(p)
  BY <1>1, ProcessesAreNamed DEF L!Create
<1>2. CASE L!Judge(p)
  <2>1. faults = 0 => ~(file # NoFile /\ L!Stale(file))
    BY DEF L!Stale, L!Dead
  <2> QED
    BY <1>2, <2>1 DEF L!Judge
<1>3. CASE L!Compare(p)
  BY <1>3 DEF L!Compare
<1>4. CASE L!Break(p)
  BY <1>4 DEF L!Break
<1>5. CASE L!GiveUp(p)
  BY <1>5 DEF L!GiveUp
<1>6. CASE L!Release(p)
  <2>1. /\ file' \in Procs \cup {NoFile} /\ pc' = [pc EXCEPT ![p] = "done"]
        /\ UNCHANGED <<seen, old, faults>>
    BY <1>6 DEF L!Release
  <2>2. ASSUME faults = 0, NEW q \in Procs, pc'[q] = "held" PROVE file' = q
    <3>1. q # p /\ pc[q] = "held" /\ pc[p] = "held"
      BY <1>6, <2>1, <2>2 DEF L!Release
    <3>2. q = p
      BY <2>2, <3>1
    <3> QED
      BY <3>1, <3>2
  <2> QED
    BY <2>1, <2>2
<1> QED
  BY <1>1, <1>2, <1>3, <1>4, <1>5, <1>6 DEF L!Step

\* A death, and a hold that outlasts the limit, is a fault: the invariant asks for nothing
\* more.
LEMMA FaultKeeps ==
    ASSUME LInv, NEW p \in Procs, L!Die(p) \/ L!Age(p), UNCHANGED kind
    PROVE  LInv'
<1> USE DEF LInv, LTyped, Undisturbed, LLabels, L!Go
<1>1. CASE L!Die(p)
  BY <1>1 DEF L!Die, L!Fault
<1>2. CASE L!Age(p)
  BY <1>2 DEF L!Age, L!Fault, L!Dead
<1> QED
  BY <1>1, <1>2

\* If only a process that has the file is inside, no two are.
LEMMA OneHolder ==
    ASSUME LInv
    PROVE  L!ExclusiveWithoutFaults
<1> SUFFICES ASSUME faults = 0
             PROVE  L!Exclusive /\ \A p \in L!Holders : file = p
  BY DEF L!ExclusiveWithoutFaults
<1>1. \A p \in L!Holders : file = p
  BY DEF LInv, Undisturbed, L!Holders
<1>2. L!Holders \subseteq {file}
  BY <1>1
<1>3. IsFiniteSet({file}) /\ Cardinality({file}) = 1
  BY FS_Singleton
<1>4. Cardinality(L!Holders) <= Cardinality({file})
  BY <1>2, <1>3, FS_Subset
<1>5. L!Cardinality(L!Holders) = Cardinality(L!Holders)
  BY DEF L!Cardinality, Cardinality
<1> QED
  BY <1>1, <1>3, <1>4, <1>5 DEF L!Exclusive

LEMMA LStep == LInv /\ [L!Next]_(L!vars) => LInv'
<1> SUFFICES ASSUME LInv, [L!Next]_(L!vars) PROVE LInv'
  OBVIOUS
<1>1. CASE L!Next
  BY <1>1, StepKeeps, FaultKeeps DEF L!Next
<1>2. CASE UNCHANGED L!vars
  BY <1>2 DEF L!vars, LInv, LTyped, Undisturbed
<1> QED
  BY <1>1, <1>2

-----------------------------------------------------------------------------
(* Projection.                                                             *)

Numbers == 0..MaxVersion
Working == {"repair", "freeze", "clean", "remove", "prepare", "own", "write", "publish", "mirror"}
PLabels == {"idle", "wait"} \cup Working
Gens == [dir : BOOLEAN, owner : BOOLEAN, files : SUBSET {"page", "index", "manifest", "temporary"},
         mixed : BOOLEAN]
Pubs == [pc : PLabels, want : Numbers, cur : Numbers, prev : Numbers, freeze : BOOLEAN,
         mixed : BOOLEAN, g : Numbers]

PTyped ==
    /\ journal \in P!Versions
    /\ gens \in [P!Versions -> Gens]
    /\ index \in [kind : {"none", "list", "pointer"}, cur : Numbers, prev : Numbers]
    /\ pages \in [page : Numbers, manifest : Numbers]
    /\ mirror \in [kind : {"none", "list", "link"}, v : Numbers]
    /\ pub \in [Publishers -> Pubs]
    /\ cli \in [pc : {"idle", "page", "mirror", "index", "manifest"}, v : Numbers]
    /\ cli.pc # "idle" => cli.v # 0
    /\ index.kind = "list" => index.cur # 0 /\ index.prev = 0
    /\ index.kind = "none" => index.cur = 0 /\ index.prev = 0
    /\ index.kind = "pointer" => index.cur # 0

\* A publisher at work has the lock, and so is alone.
Locked == \A p \in Publishers : pub[p].pc \in Working => lock = p

\* What the root leads to: nothing but the generations of the pointer while nobody works.
Led == /\ index.kind = "none" => mirror.kind # "link"
       /\ index.kind = "pointer" /\ mirror.kind = "link" => mirror.v \in {index.cur, index.prev}
       /\ index.kind = "pointer" => \A g \in {index.cur, index.prev} \ {0} : P!Whole(g)
       /\ mirror.kind = "link" => mirror.v # 0 /\ P!Whole(mirror.v)

\* A directory that does not exist has no content.
Absent == \A g \in P!Versions : ~gens[g].dir => gens[g].files = {}

\* What a publisher has read of the index stands for the pointer until it replaces it: the
\* generations it keeps are the ones the root leads to.
Held(p) ==
    LET b == pub[p]
    IN /\ b.pc # "idle" => b.want # 0
       /\ b.pc \in Working \ {"mirror"} =>
            /\ index.kind = "pointer" => ~b.freeze /\ b.pc # "freeze" /\ index.cur = b.cur /\ index.prev = b.prev
            /\ mirror.kind = "link" => /\ ~b.freeze /\ b.pc # "freeze"
                                       /\ b.cur # 0
                                       /\ mirror.v = b.cur \/ (b.pc = "repair" /\ mirror.v = b.prev)
       /\ b.pc \in Working => (b.prev # 0 => P!Whole(b.prev))
       /\ b.pc \in Working \ {"freeze"} /\ ~b.freeze => (b.cur # 0 => P!Whole(b.cur))
       /\ b.pc = "repair" => b.cur # 0 /\ index.kind # "none"
       /\ b.pc = "freeze" => pages.manifest # 0 /\ b.prev = 0 /\ ~b.freeze
       /\ b.freeze => b.cur # 0 /\ b.prev = 0 /\ b.pc \in {"clean", "remove", "prepare", "own", "write"}
       /\ b.pc = "remove" => b.g # 0 /\ b.g \notin {b.cur, b.prev, b.want}
       /\ b.pc = "own" => gens[P!Target(p)].files = {}
       /\ b.pc \in {"own", "write"} => gens[P!Target(p)].dir
       /\ b.pc \in {"publish", "mirror"} => P!Whole(b.want)
       /\ b.pc = "mirror" => /\ index.kind # "none"
                             /\ index.kind = "pointer" => index.cur = b.want

PInv == PTyped /\ Locked /\ Led /\ Absent /\ \A p \in Publishers : Held(p)

LEMMA GoFacts ==
    ASSUME PTyped, NEW p \in Publishers, NEW x \in PLabels, P!Go(p, x)
    PROVE  /\ pub' \in [Publishers -> Pubs]
           /\ \A q \in Publishers : q # p => pub'[q] = pub[q]
           /\ pub'[p] = [pub[p] EXCEPT !.pc = x]
           /\ pub'[p].pc = x /\ pub'[p].want = pub[p].want /\ pub'[p].g = pub[p].g
           /\ pub'[p].cur = pub[p].cur /\ pub'[p].prev = pub[p].prev
           /\ pub'[p].freeze = pub[p].freeze /\ pub'[p].mixed = pub[p].mixed
<1>1. pub[p] \in Pubs
  BY DEF PTyped
<1>2. [pub[p] EXCEPT !.pc = x] \in Pubs
  BY <1>1 DEF Pubs
<1>3. pub' = [pub EXCEPT ![p] = [pub[p] EXCEPT !.pc = x]]
  BY DEF P!Go
<1>4. /\ pub' \in [Publishers -> Pubs] /\ pub'[p] = [pub[p] EXCEPT !.pc = x]
      /\ \A q \in Publishers : q # p => pub'[q] = pub[q]
  BY <1>2, <1>3 DEF PTyped
<1> QED
  BY <1>1, <1>4 DEF Pubs

LEMMA FailFacts ==
    ASSUME PTyped, NEW p \in Publishers, P!Fail(p)
    PROVE  /\ pub' \in [Publishers -> Pubs]
           /\ \A q \in Publishers : q # p => pub'[q] = pub[q]
           /\ pub'[p].pc = "idle" /\ pub'[p].freeze = FALSE
<1>1. P!Rest \in Pubs /\ P!Rest.pc = "idle" /\ P!Rest.freeze = FALSE
  BY VersionsAreCounted DEF P!Rest, Pubs, PLabels, Numbers
<1>2. pub' = [pub EXCEPT ![p] = P!Rest]
  BY DEF P!Fail
<1> QED
  BY <1>1, <1>2 DEF PTyped

\* Only the publisher that steps is at work, so what it knows and what the root leads to is
\* all there is to show.
LEMMA OnePublisher ==
    ASSUME PInv, NEW p \in Publishers,
           pub[p].pc \in Working \/ lock = "free",
           \A q \in Publishers : q # p => pub'[q] = pub[q],
           pub'[p].pc \in Working => lock' = p,
           PTyped', Led', Absent', Held(p)'
    PROVE  PInv'
<1>1. ASSUME NEW q \in Publishers, q # p PROVE pub[q].pc \notin Working
  BY <1>1, FreeIsNobody DEF PInv, Locked
<1>2. ASSUME NEW q \in Publishers, q # p PROVE Held(q)'
  <2>1. pub[q] \in Pubs /\ pub'[q] = pub[q] /\ Held(q)
    BY <1>2 DEF PInv, PTyped
  <2>2. pub[q].pc \in {"idle", "wait"}
    BY <1>1, <1>2, <2>1 DEF Pubs, PLabels
  <2>3. ~pub[q].freeze
    BY <2>1, <2>2 DEF Held
  <2> QED
    BY <2>1, <2>2, <2>3 DEF Held, Working
<1>3. Locked'
  BY <1>1 DEF Locked
<1> QED
  BY <1>2, <1>3 DEF PInv

LEMMA WholeSame ==
    ASSUME UNCHANGED gens
    PROVE  /\ \A g : P!Whole(g)' <=> P!Whole(g)
           /\ Absent => Absent'
  BY DEF P!Whole, Absent

\* What a publisher knows stays true of what others leave alone, and of lists.
LEMMA HeldSame ==
    ASSUME NEW p \in Publishers, Held(p), pub'[p] = pub[p], UNCHANGED gens,
           index' = index \/ index'.kind = "list",
           mirror' = mirror \/ mirror'.kind = "list",
           pages.manifest # 0 => pages'.manifest # 0
    PROVE  Held(p)'
<1>1. \A v : P!Whole(v)' <=> P!Whole(v)
  BY WholeSame
<1>2. P!Target(p)' = P!Target(p)
  BY DEF P!Target
<1> QED
  BY <1>1, <1>2 DEF Held

LEMMA ReadEventsKeeps ==
    ASSUME PInv, NEW p \in Publishers, P!ReadEvents(p) PROVE PInv'
<1>1. /\ pub[p].pc = "idle" /\ pub' = [pub EXCEPT ![p] = [P!Rest EXCEPT !.pc = "wait", !.want = journal]]
      /\ UNCHANGED <<journal, gens, index, pages, mirror, lock, cli>>
  BY DEF P!ReadEvents
<1>2. P!Rest \in Pubs /\ P!Rest.freeze = FALSE
  BY VersionsAreCounted DEF P!Rest, Pubs, PLabels, Numbers
<1>3. journal \in Numbers /\ journal # 0
  BY VersionsAreCounted DEF PInv, PTyped, P!Versions, Numbers
<1>4. /\ pub' \in [Publishers -> Pubs] /\ \A q \in Publishers : q # p => pub'[q] = pub[q]
      /\ pub'[p].pc = "wait" /\ pub'[p].want = journal /\ pub'[p].freeze = FALSE
  <2> DEFINE b == [P!Rest EXCEPT !.pc = "wait", !.want = journal]
  <2>1. b \in Pubs /\ b.pc = "wait" /\ b.want = journal /\ b.freeze = FALSE
    BY <1>2, <1>3 DEF Pubs, PLabels
  <2>2. pub' = [pub EXCEPT ![p] = b]
    BY <1>1
  <2> HIDE DEF b
  <2> QED
    BY <2>1, <2>2 DEF PInv, PTyped
<1>5. PTyped'
  BY <1>1, <1>4 DEF PInv, PTyped
<1>6. Led' /\ Absent' /\ Locked'
  BY <1>1, <1>4, WholeSame DEF PInv, Led, Locked, Working
<1>7. ASSUME NEW q \in Publishers PROVE Held(q)'
  <2>1. CASE q = p
    BY <2>1, <1>3, <1>4 DEF Held, Working
  <2>2. CASE q # p
    <3>1. Held(q) /\ pub'[q] = pub[q]
      BY <1>4, <2>2 DEF PInv
    <3> QED
      BY <1>1, <3>1, HeldSame
  <2> QED
    BY <2>1, <2>2
<1> QED
  BY <1>5, <1>6, <1>7 DEF PInv

\* What a publisher finds under the lock is what it holds to from then on.
LEMMA BeginKeeps ==
    ASSUME PInv, NEW p \in Publishers, P!Begin(p) PROVE PInv'
<1>1. /\ pub[p].pc = "wait" /\ lock = "free" /\ UNCHANGED <<journal, gens, index, pages, mirror, cli>>
  BY DEF P!Begin
<1>2. PTyped /\ Led /\ Absent /\ Held(p) /\ pub[p] \in Pubs /\ pub[p].want # 0
  BY <1>1 DEF PInv, PTyped, Held
<1>3. Led' /\ Absent'
  BY <1>1, <1>2, WholeSame DEF Led
<1>4. CASE ~P!IndexIsValid
  <2>1. P!Fail(p)
    BY <1>4 DEF P!Begin
  <2>2. /\ pub' \in [Publishers -> Pubs] /\ \A q \in Publishers : q # p => pub'[q] = pub[q]
        /\ pub'[p].pc = "idle" /\ pub'[p].freeze = FALSE
    BY <1>2, <2>1, FailFacts
  <2>3. PTyped'
    BY <1>1, <1>2, <2>2 DEF PTyped
  <2>4. Held(p)'
    BY <2>2 DEF Held, Working
  <2> QED
    BY <1>1, <1>3, <2>2, <2>3, <2>4, OnePublisher DEF Working
<1>5. CASE P!IndexIsValid
  <2> DEFINE x == CASE index.kind = "pointer" -> "repair" [] index.kind = "list" -> "freeze" [] OTHER -> "clean"
             b == [pub[p] EXCEPT !.pc = x, !.cur = index.cur, !.prev = index.prev]
  <2>1. lock' = p /\ pub' = [pub EXCEPT ![p].pc = x, ![p].cur = index.cur, ![p].prev = index.prev]
    BY <1>5 DEF P!Begin
  <2>2. index.kind \in {"none", "list", "pointer"} /\ index.cur \in Numbers /\ index.prev \in Numbers
    BY <1>2 DEF PTyped
  <2>3. /\ x \in {"repair", "freeze", "clean"} /\ (x = "repair" <=> index.kind = "pointer")
        /\ (x = "freeze" <=> index.kind = "list")
    BY <2>2
  <2> HIDE DEF x
  <2>4. /\ b \in Pubs /\ b.pc = x /\ b.cur = index.cur /\ b.prev = index.prev
        /\ b.want = pub[p].want /\ b.freeze = pub[p].freeze
    BY <1>2, <2>2, <2>3 DEF Pubs, PLabels, Working
  <2>5. pub' = [pub EXCEPT ![p] = b]
    BY <2>1
  <2> HIDE DEF b
  <2>6. /\ pub' \in [Publishers -> Pubs] /\ pub'[p] = b /\ \A q \in Publishers : q # p => pub'[q] = pub[q]
    BY <1>2, <2>4, <2>5 DEF PTyped
  <2>7. PTyped'
    BY <1>1, <1>2, <2>6 DEF PTyped
  <2>8. ~b.freeze
    BY <1>1, <1>2, <2>4 DEF Held
  <2>9. index.kind = "list" => pages.manifest # 0 /\ mirror.kind = "list"
    BY <1>2, <1>5, <2>2 DEF P!IndexIsValid, P!ListIsWhole, PTyped
  <2>10. Held(p)'
    <3>1. \A g : P!Whole(g)' <=> P!Whole(g)
      BY <1>1, WholeSame
    <3> QED
      BY <1>1, <1>2, <2>2, <2>3, <2>4, <2>6, <2>8, <2>9, <3>1 DEF Held, Led, PTyped, Working
  <2> QED
    BY <1>1, <1>3, <2>1, <2>6, <2>7, <2>10, OnePublisher
<1> QED
  BY <1>4, <1>5

LEMMA RepairKeeps ==
    ASSUME PInv, NEW p \in Publishers, P!_repair_mirror(p) PROVE PInv'
<1>1. /\ pub[p].pc = "repair" /\ P!Go(p, "clean") /\ mirror' = [kind |-> "link", v |-> pub[p].cur]
      /\ UNCHANGED <<journal, gens, index, pages, lock, cli>>
  BY DEF P!_repair_mirror
<1>2. PTyped /\ Led /\ Absent /\ Held(p) /\ pub[p] \in Pubs /\ lock = p
  BY <1>1 DEF PInv, PTyped, Locked, Working
<1>3. /\ pub' \in [Publishers -> Pubs] /\ \A q \in Publishers : q # p => pub'[q] = pub[q]
      /\ pub'[p].pc = "clean" /\ pub'[p].want = pub[p].want
      /\ pub'[p].cur = pub[p].cur /\ pub'[p].prev = pub[p].prev /\ pub'[p].freeze = pub[p].freeze
  BY <1>1, <1>2, GoFacts DEF PLabels, Working
<1>4. /\ mirror' \in [kind : {"none", "list", "link"}, v : Numbers]
      /\ mirror'.kind = "link" /\ mirror'.v = pub[p].cur
  BY <1>1, <1>2 DEF Pubs
<1>5. PTyped'
  BY <1>1, <1>2, <1>3, <1>4 DEF PTyped
<1>6. \A g : P!Whole(g)' <=> P!Whole(g)
  BY <1>1, WholeSame
<1>7. ~pub[p].freeze /\ pub[p].cur # 0 /\ P!Whole(pub[p].cur) /\ index.kind # "none"
  <2>1. pub[p].cur # 0 /\ ~pub[p].freeze
    BY <1>1, <1>2 DEF Held
  <2>2. P!Whole(pub[p].cur)
    BY <1>1, <1>2, <2>1 DEF Held, Working
  <2>3. index.kind # "none"
    BY <1>1, <1>2 DEF Held
  <2> QED
    BY <2>1, <2>2, <2>3
<1>8. Led'
  BY <1>1, <1>2, <1>4, <1>6, <1>7 DEF Led, Held, Working
<1>9. Held(p)'
  BY <1>1, <1>2, <1>3, <1>4, <1>6, <1>7 DEF Held, Working
<1> QED
  BY <1>1, <1>2, <1>3, <1>5, <1>8, <1>9, WholeSame, OnePublisher DEF Working

LEMMA FreezeKeeps ==
    ASSUME PInv, NEW p \in Publishers, P!Freeze(p) PROVE PInv'
<1> DEFINE m == ~(index.kind = "list" /\ index.cur = pages.manifest /\ P!ListIsWhole(index))
           b == [pub[p] EXCEPT !.pc = "clean", !.freeze = TRUE, !.cur = pages.manifest, !.mixed = m]
<1>1. /\ pub[p].pc = "freeze" /\ pub' = [pub EXCEPT ![p] = b]
      /\ UNCHANGED <<journal, gens, index, pages, mirror, lock, cli>>
  BY DEF P!Freeze
<1>2. PTyped /\ Led /\ Absent /\ Held(p) /\ pub[p] \in Pubs /\ lock = p
  BY <1>1 DEF PInv, PTyped, Locked, Working
<1>3. m \in BOOLEAN
  OBVIOUS
<1> HIDE DEF m
<1>4. /\ b \in Pubs /\ b.pc = "clean" /\ b.want = pub[p].want /\ b.cur = pages.manifest
      /\ b.prev = pub[p].prev /\ b.freeze = TRUE
  BY <1>2, <1>3 DEF Pubs, PLabels, Working, PTyped
<1> HIDE DEF b
<1>5. /\ pub' \in [Publishers -> Pubs] /\ pub'[p] = b /\ \A q \in Publishers : q # p => pub'[q] = pub[q]
  BY <1>1, <1>2, <1>4 DEF PTyped
<1>6. PTyped'
  BY <1>1, <1>2, <1>5 DEF PTyped
<1>7. Led' /\ Absent'
  BY <1>1, <1>2, WholeSame DEF Led
<1>8. Held(p)'
  BY <1>1, <1>2, <1>4, <1>5 DEF Held, Working
<1> QED
  BY <1>1, <1>2, <1>5, <1>6, <1>7, <1>8, OnePublisher DEF Working

\* A failure forgets what the publisher knew and leaves what the root leads to.
LEMMA FailKeeps ==
    ASSUME PInv, NEW p \in Publishers, pub[p].pc \in Working, P!Fail(p),
           UNCHANGED <<journal, gens, index, pages, mirror, cli>>
    PROVE  PInv'
<1>1. PTyped /\ Led /\ Absent
  BY DEF PInv
<1>2. /\ pub' \in [Publishers -> Pubs] /\ \A q \in Publishers : q # p => pub'[q] = pub[q]
      /\ pub'[p].pc = "idle" /\ pub'[p].freeze = FALSE
  BY <1>1, FailFacts
<1>3. PTyped'
  BY <1>1, <1>2 DEF PTyped
<1>4. Held(p)'
  BY <1>2 DEF Held, Working
<1>5. Led' /\ Absent'
  BY <1>1, WholeSame DEF Led
<1> QED
  BY <1>2, <1>3, <1>4, <1>5, OnePublisher DEF Working

LEMMA CleanKeeps ==
    ASSUME PInv, NEW p \in Publishers, P!Clean(p) PROVE PInv'
<1>1. pub[p].pc = "clean" /\ UNCHANGED <<journal, gens, index, pages, mirror, cli>>
  BY DEF P!Clean
<1>2. PTyped /\ Led /\ Absent /\ Held(p) /\ pub[p] \in Pubs /\ lock = p
  BY <1>1 DEF PInv, PTyped, Locked, Working
<1>3. CASE P!Fail(p)
  BY <1>1, <1>3, FailKeeps DEF Working
<1>4. Led' /\ Absent' /\ \A g : P!Whole(g)' <=> P!Whole(g)
  BY <1>1, <1>2, WholeSame DEF Led
<1>5. CASE P!Go(p, "prepare") /\ UNCHANGED lock
  <2>1. /\ pub' \in [Publishers -> Pubs] /\ \A q \in Publishers : q # p => pub'[q] = pub[q]
        /\ pub'[p].pc = "prepare" /\ pub'[p].want = pub[p].want
        /\ pub'[p].cur = pub[p].cur /\ pub'[p].prev = pub[p].prev /\ pub'[p].freeze = pub[p].freeze
    BY <1>2, <1>5, GoFacts DEF PLabels, Working
  <2>2. PTyped'
    BY <1>1, <1>2, <2>1 DEF PTyped
  <2>3. Held(p)'
    BY <1>1, <1>2, <1>4, <2>1 DEF Held, Working
  <2> QED
    BY <1>1, <1>2, <1>4, <1>5, <2>1, <2>2, <2>3, OnePublisher DEF Working
<1>6. ASSUME NEW g \in P!Dirs \ P!Keep(p), pub' = [pub EXCEPT ![p].pc = "remove", ![p].g = g], UNCHANGED lock
      PROVE  PInv'
  <2> DEFINE b == [pub[p] EXCEPT !.pc = "remove", !.g = g]
  <2>1. g \in Numbers /\ g # 0 /\ g \notin {pub[p].cur, pub[p].prev, pub[p].want}
    BY <1>6, VersionsAreCounted DEF P!Dirs, P!Keep, P!Versions, Numbers
  <2>2. /\ b \in Pubs /\ b.pc = "remove" /\ b.g = g /\ b.want = pub[p].want /\ b.cur = pub[p].cur
        /\ b.prev = pub[p].prev /\ b.freeze = pub[p].freeze
    BY <1>2, <2>1 DEF Pubs, PLabels, Working
  <2>3. pub' = [pub EXCEPT ![p] = b]
    BY <1>6
  <2> HIDE DEF b
  <2>4. /\ pub' \in [Publishers -> Pubs] /\ pub'[p] = b /\ \A q \in Publishers : q # p => pub'[q] = pub[q]
    BY <1>2, <2>2, <2>3 DEF PTyped
  <2>5. PTyped'
    BY <1>1, <1>2, <2>4 DEF PTyped
  <2>6. Held(p)'
    BY <1>1, <1>2, <1>4, <2>1, <2>2, <2>4 DEF Held, Working
  <2> QED
    BY <1>1, <1>2, <1>4, <1>6, <2>4, <2>5, <2>6, OnePublisher DEF Working
<1> QED
  BY <1>3, <1>5, <1>6 DEF P!Clean

\* A step that changes only the generation a publisher is at work on, which the root does
\* not lead to, or adds to it.
LEMMA GensKeep ==
    ASSUME PInv, NEW p \in Publishers, pub[p].pc \in Working,
           UNCHANGED <<index, mirror>>,
           \A g \in {pub[p].cur, pub[p].prev} \ {0} : P!Whole(g) => P!Whole(g)',
           pub[p].pc \notin {"freeze", "mirror"}
    PROVE  Led'
<1>1. PTyped /\ Led /\ Held(p) /\ pub[p] \in Pubs
  BY DEF PInv, PTyped
<1>2. ASSUME index.kind = "pointer", NEW g \in {index.cur, index.prev} \ {0}
      PROVE  P!Whole(g)'
  <2>1. P!Whole(g) /\ g \in {pub[p].cur, pub[p].prev}
    BY <1>1, <1>2 DEF Led, Held
  <2> QED
    BY <1>2, <2>1
<1>3. ASSUME mirror.kind = "link"
      PROVE  P!Whole(mirror.v)'
  <2>1. P!Whole(mirror.v) /\ mirror.v \in {pub[p].cur, pub[p].prev} /\ mirror.v # 0
    BY <1>1, <1>3 DEF Led, Held
  <2> QED
    BY <2>1
<1> QED
  BY <1>1, <1>2, <1>3 DEF Led

LEMMA RemoveKeeps ==
    ASSUME PInv, NEW p \in Publishers, P!Remove(p) PROVE PInv'
<1> DEFINE g == pub[p].g
<1>1. /\ pub[p].pc = "remove" /\ UNCHANGED <<journal, index, pages, mirror, lock, cli>>
      /\ (UNCHANGED pub \/ P!Go(p, "clean"))
  BY DEF P!Remove
<1>2. PTyped /\ Led /\ Absent /\ Held(p) /\ pub[p] \in Pubs /\ lock = p
  BY <1>1 DEF PInv, PTyped, Locked, Working
<1>3. /\ pub' \in [Publishers -> Pubs] /\ \A q \in Publishers : q # p => pub'[q] = pub[q]
      /\ pub'[p].pc \in {"remove", "clean"} /\ pub'[p].want = pub[p].want /\ pub'[p].g = pub[p].g
      /\ pub'[p].cur = pub[p].cur /\ pub'[p].prev = pub[p].prev /\ pub'[p].freeze = pub[p].freeze
  <2>1. CASE UNCHANGED pub
    BY <1>1, <1>2, <2>1 DEF PTyped
  <2>2. CASE P!Go(p, "clean")
    BY <1>2, <2>2, GoFacts DEF PLabels, Working
  <2> QED
    BY <1>1, <2>1, <2>2
<1>4. g \in P!Versions /\ g \notin {pub[p].cur, pub[p].prev, pub[p].want}
  BY <1>1, <1>2, VersionsAreCounted DEF Held, Pubs, Numbers, P!Versions
<1>5. \E h \in {[gens[g] EXCEPT !.files = {}], [gens[g] EXCEPT !.owner = FALSE], P!NoGen} :
         gens' = [gens EXCEPT ![g] = h] /\ h \in Gens /\ (~h.dir => h.files = {})
  <2>1. gens[g] \in Gens
    BY <1>2, <1>4 DEF PTyped
  <2>2. P!NoGen \in Gens /\ P!NoGen.files = {}
    BY DEF P!NoGen, Gens
  <2>3. CASE gens' = [gens EXCEPT ![g].files = {}]
    BY <2>1, <2>3 DEF Gens
  <2>4. CASE gens[g].files = {} /\ gens' = [gens EXCEPT ![g].owner = FALSE]
    BY <2>1, <2>4 DEF Gens
  <2>5. CASE gens' = [gens EXCEPT ![g] = P!NoGen]
    BY <2>2, <2>5
  <2> QED
    BY <2>3, <2>4, <2>5 DEF P!Remove
<1>6. /\ gens' \in [P!Versions -> Gens]
      /\ \A v \in P!Versions : v # g => gens'[v] = gens[v]
      /\ ~gens'[g].dir => gens'[g].files = {}
  BY <1>2, <1>4, <1>5 DEF PTyped
<1>7. PTyped'
  BY <1>1, <1>2, <1>3, <1>6 DEF PTyped
<1>8. Absent'
  BY <1>2, <1>6 DEF Absent
<1>9. \A v \in {pub[p].cur, pub[p].prev} \ {0} : P!Whole(v) => P!Whole(v)'
  <2>1. \A v \in {pub[p].cur, pub[p].prev} \ {0} : v \in P!Versions /\ v # g
    BY <1>2, <1>4, VersionsAreCounted DEF Pubs, Numbers, P!Versions
  <2> QED
    BY <1>6, <2>1 DEF P!Whole
<1>10. Led'
  BY <1>1, <1>9, GensKeep DEF Working
<1>11. Held(p)'
  BY <1>1, <1>2, <1>3, <1>9 DEF Held, Working
<1> QED
  BY <1>1, <1>2, <1>3, <1>7, <1>8, <1>10, <1>11, OnePublisher DEF Working

\* What a publisher writes is the frozen list or what it wants.
LEMMA TargetIsVersion ==
    ASSUME PInv, NEW p \in Publishers, pub[p].pc # "idle"
    PROVE  P!Target(p) \in P!Versions /\ P!Target(p) = IF pub[p].freeze THEN pub[p].cur ELSE pub[p].want
<1>1. Held(p) /\ pub[p] \in Pubs
  BY DEF PInv, PTyped
<1> QED
  BY <1>1, VersionsAreCounted DEF Held, Pubs, Numbers, P!Versions, P!Target

LEMMA PrepareKeeps ==
    ASSUME PInv, NEW p \in Publishers, P!Prepare(p) PROVE PInv'
<1> DEFINE g == P!Target(p)
<1>1. pub[p].pc = "prepare" /\ UNCHANGED <<journal, index, pages, mirror, cli>>
  BY DEF P!Prepare
<1>2. PTyped /\ Led /\ Absent /\ Held(p) /\ pub[p] \in Pubs /\ lock = p
  BY <1>1 DEF PInv, PTyped, Locked, Working
<1>3. g \in P!Versions /\ g = IF pub[p].freeze THEN pub[p].cur ELSE pub[p].want
  BY <1>1, TargetIsVersion
<1>4. CASE P!Fail(p) /\ UNCHANGED gens
  BY <1>1, <1>4, FailKeeps DEF Working
<1>5. CASE gens[g].dir /\ P!Go(p, "write") /\ UNCHANGED <<gens, lock>>
  <2>1. /\ pub' \in [Publishers -> Pubs] /\ \A q \in Publishers : q # p => pub'[q] = pub[q]
        /\ pub'[p].pc = "write" /\ pub'[p].want = pub[p].want
        /\ pub'[p].cur = pub[p].cur /\ pub'[p].prev = pub[p].prev /\ pub'[p].freeze = pub[p].freeze
    BY <1>2, <1>5, GoFacts DEF PLabels, Working
  <2>2. PTyped'
    BY <1>1, <1>2, <1>5, <2>1 DEF PTyped
  <2>3. Led' /\ Absent' /\ \A v : P!Whole(v)' <=> P!Whole(v)
    BY <1>1, <1>2, <1>5, WholeSame DEF Led
  <2>4. P!Target(p)' = g
    BY <1>3, <2>1 DEF P!Target
  <2>5. Held(p)'
    BY <1>1, <1>2, <1>5, <2>1, <2>3, <2>4 DEF Held, Working
  <2> QED
    BY <1>1, <1>2, <1>5, <2>1, <2>2, <2>3, <2>5, OnePublisher DEF Working
<1>6. CASE ~gens[g].dir /\ gens' = [gens EXCEPT ![g].dir = TRUE] /\ P!Go(p, "own") /\ UNCHANGED lock
  <2>1. /\ pub' \in [Publishers -> Pubs] /\ \A q \in Publishers : q # p => pub'[q] = pub[q]
        /\ pub'[p].pc = "own" /\ pub'[p].want = pub[p].want
        /\ pub'[p].cur = pub[p].cur /\ pub'[p].prev = pub[p].prev /\ pub'[p].freeze = pub[p].freeze
    BY <1>2, <1>6, GoFacts DEF PLabels, Working
  <2>2. /\ gens' \in [P!Versions -> Gens] /\ \A v \in P!Versions : v # g => gens'[v] = gens[v]
        /\ gens'[g].dir /\ gens'[g].files = {}
    <3>1. gens[g] \in Gens /\ gens[g].files = {}
      BY <1>2, <1>3, <1>6 DEF PTyped, Absent
    <3> DEFINE h == [gens[g] EXCEPT !.dir = TRUE]
    <3>2. h \in Gens /\ h.dir /\ h.files = {}
      BY <3>1 DEF Gens
    <3>3. gens' = [gens EXCEPT ![g] = h]
      BY <1>6
    <3> HIDE DEF h
    <3> QED
      BY <1>2, <1>3, <3>2, <3>3 DEF PTyped
  <2>3. PTyped'
    BY <1>1, <1>2, <2>1, <2>2 DEF PTyped
  <2>4. Absent'
    BY <1>2, <2>2 DEF Absent
  <2>5. \A v \in {pub[p].cur, pub[p].prev} \ {0} : P!Whole(v) => P!Whole(v)'
    <3>1. \A v \in {pub[p].cur, pub[p].prev} \ {0} : v \in P!Versions
      BY <1>2, VersionsAreCounted DEF Pubs, Numbers, P!Versions
    <3> QED
      BY <1>6, <2>2, <3>1 DEF P!Whole
  <2>6. Led'
    BY <1>1, <2>5, GensKeep DEF Working
  <2>7. P!Target(p)' = g
    BY <1>3, <2>1 DEF P!Target
  <2>8. Held(p)'
    BY <1>1, <1>2, <2>1, <2>2, <2>5, <2>7 DEF Held, Working
  <2> QED
    BY <1>1, <1>2, <1>6, <2>1, <2>3, <2>4, <2>6, <2>8, OnePublisher DEF Working
<1> QED
  BY <1>4, <1>5, <1>6 DEF P!Prepare

LEMMA OwnerKeeps ==
    ASSUME PInv, NEW p \in Publishers, P!_owner_document(p) PROVE PInv'
<1> DEFINE g == P!Target(p)
           m == pub[p].freeze /\ pub[p].mixed
           h == [gens[g] EXCEPT !.owner = TRUE, !.mixed = m]
<1>1. /\ pub[p].pc = "own" /\ P!Go(p, "write") /\ gens' = [gens EXCEPT ![g] = h]
      /\ UNCHANGED <<journal, index, pages, mirror, lock, cli>>
  BY DEF P!_owner_document
<1>2. PTyped /\ Led /\ Absent /\ Held(p) /\ pub[p] \in Pubs /\ lock = p
  BY <1>1 DEF PInv, PTyped, Locked, Working
<1>3. g \in P!Versions /\ g = IF pub[p].freeze THEN pub[p].cur ELSE pub[p].want
  BY <1>1, TargetIsVersion
<1>4. gens[g] \in Gens /\ gens[g].files = {} /\ gens[g].dir
  BY <1>1, <1>2, <1>3 DEF PTyped, Held
<1>5. m \in BOOLEAN
  BY <1>2 DEF Pubs
<1> HIDE DEF m
<1>6. h \in Gens /\ h.dir /\ h.files = {}
  BY <1>4, <1>5 DEF Gens
<1> HIDE DEF h
<1>7. /\ gens' \in [P!Versions -> Gens] /\ \A v \in P!Versions : v # g => gens'[v] = gens[v]
      /\ gens'[g].dir /\ gens'[g].files = {}
  BY <1>1, <1>2, <1>3, <1>6 DEF PTyped
<1>8. /\ pub' \in [Publishers -> Pubs] /\ \A q \in Publishers : q # p => pub'[q] = pub[q]
      /\ pub'[p].pc = "write" /\ pub'[p].want = pub[p].want
      /\ pub'[p].cur = pub[p].cur /\ pub'[p].prev = pub[p].prev /\ pub'[p].freeze = pub[p].freeze
  BY <1>1, <1>2, GoFacts DEF PLabels, Working
<1>9. PTyped'
  BY <1>1, <1>2, <1>7, <1>8 DEF PTyped
<1>10. Absent'
  BY <1>2, <1>7 DEF Absent
<1>11. \A v \in {pub[p].cur, pub[p].prev} \ {0} : P!Whole(v) => P!Whole(v)'
  <2>1. \A v \in {pub[p].cur, pub[p].prev} \ {0} : v \in P!Versions
    BY <1>2, VersionsAreCounted DEF Pubs, Numbers, P!Versions
  <2>2. ~P!Whole(g)
    BY <1>4 DEF P!Whole, P!Files, P!Docs
  <2> QED
    BY <1>7, <2>1, <2>2 DEF P!Whole
<1>12. Led'
  BY <1>1, <1>11, GensKeep DEF Working
<1>13. P!Target(p)' = g
  BY <1>3, <1>8 DEF P!Target
<1>14. Held(p)'
  BY <1>1, <1>2, <1>7, <1>8, <1>11, <1>13 DEF Held, Working
<1> QED
  BY <1>1, <1>2, <1>8, <1>9, <1>10, <1>12, <1>14, OnePublisher DEF Working

\* A file that is added to the generation at hand, a temporary one too, takes nothing from
\* another.
LEMMA AddingKeeps ==
    ASSUME PInv, NEW p \in Publishers, pub[p].pc = "write",
           NEW f \in {"page", "index", "manifest", "temporary"},
           gens' = [gens EXCEPT ![P!Target(p)].files = @ \cup {f}]
    PROVE  /\ gens' \in [P!Versions -> Gens]
           /\ Absent'
           /\ gens'[P!Target(p)].dir
           /\ \A v \in P!Versions : P!Whole(v) => P!Whole(v)'
<1> DEFINE g == P!Target(p)
           h == [gens[g] EXCEPT !.files = @ \cup {f}]
<1>1. PTyped /\ Absent /\ Held(p)
  BY DEF PInv
<1>2. g \in P!Versions
  BY TargetIsVersion
<1>3. gens[g] \in Gens /\ gens[g].dir
  BY <1>1, <1>2 DEF PTyped, Held
<1>4. h \in Gens /\ h.dir /\ h.files = gens[g].files \cup {f} /\ h.mixed = gens[g].mixed
  BY <1>3 DEF Gens
<1>5. gens' = [gens EXCEPT ![g] = h]
  OBVIOUS
<1> HIDE DEF h
<1>6. /\ gens' \in [P!Versions -> Gens] /\ gens'[g] = h
      /\ \A v \in P!Versions : v # g => gens'[v] = gens[v]
  <2>1. gens \in [P!Versions -> Gens]
    BY <1>1 DEF PTyped
  <2> QED
    BY <1>2, <1>4, <1>5, <2>1
<1>7. Absent' /\ gens'[g].dir
  BY <1>1, <1>4, <1>6 DEF Absent
<1>8. \A v \in P!Versions : P!Whole(v) => P!Whole(v)'
  BY <1>2, <1>4, <1>6 DEF P!Whole
<1> QED
  BY <1>6, <1>7, <1>8

LEMMA WriteFileKeeps ==
    ASSUME PInv, NEW p \in Publishers, P!WriteFile(p) PROVE PInv'
<1> DEFINE g == P!Target(p)
           missing == {i \in 1..Len(P!Docs) : P!Docs[i] \notin gens[g].files}
<1>1. pub[p].pc = "write" /\ UNCHANGED <<journal, index, pages, mirror, cli>>
  BY DEF P!WriteFile
<1>2. PTyped /\ Led /\ Absent /\ Held(p) /\ pub[p] \in Pubs /\ lock = p
  BY <1>1 DEF PInv, PTyped, Locked, Working
<1>3. g \in P!Versions /\ g = IF pub[p].freeze THEN pub[p].cur ELSE pub[p].want
  BY <1>1, TargetIsVersion
<1>4. \A v \in {pub[p].cur, pub[p].prev} \ {0} : v \in P!Versions
  BY <1>2, VersionsAreCounted DEF Pubs, Numbers, P!Versions
<1>5. ASSUME NEW i \in missing, gens' = [gens EXCEPT ![g].files = @ \cup {P!Docs[i]}],
             UNCHANGED <<pub, lock>>
      PROVE  PInv'
  <2>1. P!Docs[i] \in {"page", "index", "manifest", "temporary"}
    BY <1>5 DEF P!Docs
  <2>2. /\ gens' \in [P!Versions -> Gens] /\ Absent' /\ gens'[g].dir
        /\ \A v \in P!Versions : P!Whole(v) => P!Whole(v)'
    BY <1>1, <1>5, <2>1, AddingKeeps
  <2>3. PTyped'
    BY <1>1, <1>2, <1>5, <2>2 DEF PTyped
  <2>4. Led'
    BY <1>1, <1>4, <2>2, GensKeep DEF Working
  <2>5. P!Target(p)' = g
    BY <1>5 DEF P!Target
  <2>6. Held(p)'
    BY <1>1, <1>2, <1>4, <1>5, <2>2, <2>5 DEF Held, Working
  <2> QED
    BY <1>1, <1>2, <1>5, <2>2, <2>3, <2>4, <2>6, OnePublisher DEF Working
<1>6. CASE P!Fail(p) /\ UNCHANGED gens
  BY <1>1, <1>6, FailKeeps DEF Working
<1>7. CASE /\ missing = {} /\ ~gens[g].mixed /\ UNCHANGED <<gens, lock>>
           /\ pub' = IF pub[p].freeze THEN [pub EXCEPT ![p].freeze = FALSE, ![p].pc = "clean"]
                     ELSE [pub EXCEPT ![p].pc = "publish"]
  <2>1. P!Whole(g)
    <3>1. \A i \in 1..Len(P!Docs) : P!Docs[i] \in gens[g].files
      BY <1>7
    <3>2. P!Files \subseteq gens[g].files
      BY <3>1 DEF P!Files
    <3> QED
      BY <1>1, <1>2, <1>7, <3>2 DEF P!Whole, Held
  <2>2. Led' /\ Absent' /\ \A v : P!Whole(v)' <=> P!Whole(v)
    BY <1>1, <1>2, <1>7, WholeSame DEF Led
  <2>3. CASE pub[p].freeze
    <3> DEFINE b == [pub[p] EXCEPT !.freeze = FALSE, !.pc = "clean"]
    <3>1. /\ b \in Pubs /\ b.pc = "clean" /\ b.want = pub[p].want /\ b.cur = pub[p].cur
          /\ b.prev = pub[p].prev /\ b.freeze = FALSE
      BY <1>2 DEF Pubs, PLabels, Working
    <3>2. pub' = [pub EXCEPT ![p] = b]
      BY <1>7, <2>3
    <3> HIDE DEF b
    <3>3. /\ pub' \in [Publishers -> Pubs] /\ pub'[p] = b /\ \A q \in Publishers : q # p => pub'[q] = pub[q]
      BY <1>2, <3>1, <3>2 DEF PTyped
    <3>4. PTyped'
      BY <1>1, <1>2, <1>7, <3>3 DEF PTyped
    <3>5. Held(p)'
      BY <1>1, <1>2, <1>3, <2>1, <2>2, <2>3, <3>1, <3>3 DEF Held, Working
    <3> QED
      BY <1>1, <1>2, <1>7, <2>2, <3>1, <3>3, <3>4, <3>5, OnePublisher DEF Working
  <2>4. CASE ~pub[p].freeze
    <3>1. P!Go(p, "publish")
      BY <1>7, <2>4 DEF P!Go
    <3>2. /\ pub' \in [Publishers -> Pubs] /\ \A q \in Publishers : q # p => pub'[q] = pub[q]
          /\ pub'[p].pc = "publish" /\ pub'[p].want = pub[p].want
          /\ pub'[p].cur = pub[p].cur /\ pub'[p].prev = pub[p].prev /\ pub'[p].freeze = pub[p].freeze
      BY <1>2, <3>1, GoFacts DEF PLabels, Working
    <3>3. PTyped'
      BY <1>1, <1>2, <1>7, <3>2 DEF PTyped
    <3>4. Held(p)'
      BY <1>1, <1>2, <1>3, <2>1, <2>2, <2>4, <3>2 DEF Held, Working
    <3> QED
      BY <1>1, <1>2, <1>7, <2>2, <3>2, <3>3, <3>4, OnePublisher DEF Working
  <2> QED
    BY <2>3, <2>4
<1> QED
  BY <1>5, <1>6, <1>7 DEF P!WriteFile

LEMMA PublishKeeps ==
    ASSUME PInv, NEW p \in Publishers, P!Publish(p) PROVE PInv'
<1>1. /\ pub[p].pc = "publish" /\ P!Go(p, "mirror")
      /\ index' = [kind |-> "pointer", cur |-> pub[p].want,
                   prev |-> IF pub[p].cur = pub[p].want THEN pub[p].prev ELSE pub[p].cur]
      /\ UNCHANGED <<journal, gens, pages, mirror, lock, cli>>
  BY DEF P!Publish
<1>2. PTyped /\ Led /\ Absent /\ Held(p) /\ pub[p] \in Pubs /\ lock = p
  BY <1>1 DEF PInv, PTyped, Locked, Working
<1>3. /\ pub' \in [Publishers -> Pubs] /\ \A q \in Publishers : q # p => pub'[q] = pub[q]
      /\ pub'[p].pc = "mirror" /\ pub'[p].want = pub[p].want
      /\ pub'[p].cur = pub[p].cur /\ pub'[p].prev = pub[p].prev /\ pub'[p].freeze = pub[p].freeze
  BY <1>1, <1>2, GoFacts DEF PLabels, Working
<1>4. /\ pub[p].want # 0 /\ ~pub[p].freeze /\ P!Whole(pub[p].want)
      /\ pub[p].cur # 0 => P!Whole(pub[p].cur)
      /\ pub[p].prev # 0 => P!Whole(pub[p].prev)
      /\ mirror.kind = "link" => mirror.v = pub[p].cur
  BY <1>1, <1>2 DEF Held, Working
<1>5. /\ index' \in [kind : {"none", "list", "pointer"}, cur : Numbers, prev : Numbers]
      /\ index'.kind = "pointer" /\ index'.cur = pub[p].want
      /\ index'.prev = IF pub[p].cur = pub[p].want THEN pub[p].prev ELSE pub[p].cur
  BY <1>1, <1>2 DEF Pubs
<1>6. PTyped'
  BY <1>1, <1>2, <1>3, <1>4, <1>5 DEF PTyped
<1>7. Absent' /\ \A v : P!Whole(v)' <=> P!Whole(v)
  BY <1>1, <1>2, WholeSame
<1>8. Led'
  BY <1>1, <1>2, <1>4, <1>5, <1>7 DEF Led
<1>9. Held(p)'
  BY <1>1, <1>2, <1>3, <1>4, <1>5, <1>7 DEF Held, Working
<1> QED
  BY <1>1, <1>2, <1>3, <1>6, <1>7, <1>8, <1>9, OnePublisher DEF Working

LEMMA WriteMirrorKeeps ==
    ASSUME PInv, NEW p \in Publishers, P!WriteMirror(p) PROVE PInv'
<1>1. /\ pub[p].pc = "mirror" /\ P!Fail(p) /\ mirror' = [kind |-> "link", v |-> pub[p].want]
      /\ UNCHANGED <<journal, gens, index, pages, cli>>
  BY DEF P!WriteMirror
<1>2. PTyped /\ Led /\ Absent /\ Held(p) /\ pub[p] \in Pubs
  BY <1>1 DEF PInv, PTyped
<1>3. /\ pub' \in [Publishers -> Pubs] /\ \A q \in Publishers : q # p => pub'[q] = pub[q]
      /\ pub'[p].pc = "idle" /\ pub'[p].freeze = FALSE
  BY <1>1, <1>2, FailFacts
<1>4. /\ mirror' \in [kind : {"none", "list", "link"}, v : Numbers]
      /\ mirror'.kind = "link" /\ mirror'.v = pub[p].want
  BY <1>1, <1>2 DEF Pubs
<1>5. PTyped'
  BY <1>1, <1>2, <1>3, <1>4 DEF PTyped
<1>6. Absent' /\ \A v : P!Whole(v)' <=> P!Whole(v)
  BY <1>1, <1>2, WholeSame
<1>7. Led'
  BY <1>1, <1>2, <1>4, <1>6 DEF Led, Held
<1>8. Held(p)'
  BY <1>3 DEF Held, Working
<1> QED
  BY <1>1, <1>3, <1>5, <1>6, <1>7, <1>8, OnePublisher DEF Working

\* The budget ends or the process dies, with a temporary file left behind or without.
LEMMA StopKeeps ==
    ASSUME PInv, NEW p \in Publishers, P!Stop(p) PROVE PInv'
<1>1. /\ pub[p].pc \notin {"idle", "wait"} /\ P!Fail(p) /\ UNCHANGED <<journal, index, pages, mirror, cli>>
  BY DEF P!Stop
<1>2. PTyped /\ Led /\ Absent /\ Held(p) /\ pub[p] \in Pubs
  BY <1>1 DEF PInv, PTyped
<1>3. pub[p].pc \in Working
  BY <1>1, <1>2 DEF Pubs, PLabels
<1>4. CASE UNCHANGED gens
  BY <1>1, <1>3, <1>4, FailKeeps
<1>5. CASE pub[p].pc = "write" /\ gens' = [gens EXCEPT ![P!Target(p)].files = @ \cup {"temporary"}]
  <2>1. /\ gens' \in [P!Versions -> Gens] /\ Absent'
        /\ \A v \in P!Versions : P!Whole(v) => P!Whole(v)'
    BY <1>5, AddingKeeps
  <2>2. /\ pub' \in [Publishers -> Pubs] /\ \A q \in Publishers : q # p => pub'[q] = pub[q]
        /\ pub'[p].pc = "idle" /\ pub'[p].freeze = FALSE
    BY <1>1, <1>2, FailFacts
  <2>3. PTyped'
    BY <1>1, <1>2, <2>1, <2>2 DEF PTyped
  <2>4. \A v \in {pub[p].cur, pub[p].prev} \ {0} : v \in P!Versions
    BY <1>2, VersionsAreCounted DEF Pubs, Numbers, P!Versions
  <2>5. Led'
    BY <1>1, <1>5, <2>1, <2>4, GensKeep DEF Working
  <2>6. Held(p)'
    BY <2>2 DEF Held, Working
  <2> QED
    BY <1>3, <2>1, <2>2, <2>3, <2>5, <2>6, OnePublisher DEF Working
<1> QED
  BY <1>4, <1>5 DEF P!Stop

\* The journal, the command line and the readers leave generations and publishers alone;
\* the command line only replaces the index and its page by lists.
LEMMA OthersKeep ==
    ASSUME PInv, UNCHANGED <<gens, lock, pub>>, PTyped',
           index' = index \/ index'.kind = "list",
           mirror' = mirror \/ mirror'.kind = "list",
           pages.manifest # 0 => pages'.manifest # 0
    PROVE  PInv'
<1>1. PTyped /\ Led /\ Absent /\ Locked
  BY DEF PInv
<1>2. Absent' /\ \A v : P!Whole(v)' <=> P!Whole(v)
  BY <1>1, WholeSame
<1>3. Led'
  BY <1>1, <1>2 DEF Led
<1>4. Locked'
  BY <1>1 DEF Locked
<1>5. ASSUME NEW p \in Publishers PROVE Held(p)'
  BY HeldSame DEF PInv
<1> QED
  BY <1>2, <1>3, <1>4, <1>5 DEF PInv

LEMMA CommandKeeps ==
    ASSUME PInv, P!Grow \/ P!_project_events_legacy \/ P!CliDies PROVE PInv'
<1>1. PTyped
  BY DEF PInv
<1>2. UNCHANGED <<gens, lock, pub>>
  BY DEF P!Grow, P!_project_events_legacy, P!CliDies
<1>3. CASE P!Grow
  <2>1. journal' \in P!Versions /\ UNCHANGED <<gens, index, pages, mirror, pub, cli>>
    BY <1>1, <1>3, VersionsAreCounted DEF P!Grow, PTyped, P!Versions
  <2>2. PTyped'
    BY <1>1, <2>1 DEF PTyped
  <2> QED
    BY <1>2, <2>1, <2>2, OthersKeep
<1>4. CASE P!CliDies
  <2>1. /\ cli' = [pc |-> "idle", v |-> 0] /\ UNCHANGED <<journal, gens, index, pages, mirror, pub>>
    BY <1>4 DEF P!CliDies
  <2>2. cli' \in [pc : {"idle", "page", "mirror", "index", "manifest"}, v : Numbers] /\ cli'.pc = "idle"
    BY <2>1, VersionsAreCounted DEF Numbers
  <2>3. PTyped'
    BY <1>1, <2>1, <2>2 DEF PTyped
  <2> QED
    BY <1>2, <2>1, <2>3, OthersKeep
<1>5. CASE P!_project_events_legacy
  <2>1. UNCHANGED <<journal, gens, lock, pub>>
    BY <1>5 DEF P!_project_events_legacy
  <2>2. CASE cli.pc = "idle" /\ cli' = [pc |-> "page", v |-> journal] /\ UNCHANGED <<index, pages, mirror>>
    <3>1. /\ cli' \in [pc : {"idle", "page", "mirror", "index", "manifest"}, v : Numbers] /\ cli'.v # 0
      BY <1>1, <2>2, VersionsAreCounted DEF PTyped, P!Versions, Numbers
    <3>2. PTyped'
      BY <1>1, <2>1, <2>2, <3>1 DEF PTyped
    <3> QED
      BY <2>1, <2>2, <3>2, OthersKeep
  <2>3. CASE /\ cli.pc = "page" /\ cli' = [cli EXCEPT !.pc = "mirror"]
             /\ pages' = [pages EXCEPT !.page = cli.v] /\ UNCHANGED <<index, mirror>>
    <3>1. /\ cli' \in [pc : {"idle", "page", "mirror", "index", "manifest"}, v : Numbers] /\ cli'.v # 0
          /\ pages' \in [page : Numbers, manifest : Numbers] /\ pages'.manifest = pages.manifest
      BY <1>1, <2>3 DEF PTyped
    <3>2. PTyped'
      BY <1>1, <2>1, <2>3, <3>1 DEF PTyped
    <3> QED
      BY <2>1, <2>3, <3>1, <3>2, OthersKeep
  <2>4. CASE /\ cli.pc = "mirror" /\ cli' = [cli EXCEPT !.pc = "index"]
             /\ mirror' = [kind |-> "list", v |-> cli.v] /\ UNCHANGED <<index, pages>>
    <3>1. /\ cli' \in [pc : {"idle", "page", "mirror", "index", "manifest"}, v : Numbers] /\ cli'.v # 0
          /\ mirror' \in [kind : {"none", "list", "link"}, v : Numbers] /\ mirror'.kind = "list"
      BY <1>1, <2>4 DEF PTyped
    <3>2. PTyped'
      BY <1>1, <2>1, <2>4, <3>1 DEF PTyped
    <3> QED
      BY <2>1, <2>4, <3>1, <3>2, OthersKeep
  <2>5. CASE /\ cli.pc = "index" /\ cli' = [cli EXCEPT !.pc = "manifest"]
             /\ index' = [kind |-> "list", cur |-> cli.v, prev |-> 0] /\ UNCHANGED <<pages, mirror>>
    <3>1. /\ cli' \in [pc : {"idle", "page", "mirror", "index", "manifest"}, v : Numbers] /\ cli'.v # 0
          /\ index' \in [kind : {"none", "list", "pointer"}, cur : Numbers, prev : Numbers]
          /\ index'.kind = "list" /\ index'.cur # 0 /\ index'.prev = 0
      BY <1>1, <2>5, VersionsAreCounted DEF PTyped, Numbers
    <3>2. PTyped'
      BY <1>1, <2>1, <2>5, <3>1 DEF PTyped
    <3> QED
      BY <2>1, <2>5, <3>1, <3>2, OthersKeep
  <2>6. CASE /\ cli.pc = "manifest" /\ cli' = [pc |-> "idle", v |-> 0]
             /\ pages' = [pages EXCEPT !.manifest = cli.v] /\ UNCHANGED <<index, mirror>>
    <3>1. /\ cli' \in [pc : {"idle", "page", "mirror", "index", "manifest"}, v : Numbers] /\ cli'.pc = "idle"
      BY <2>6, VersionsAreCounted DEF Numbers
    <3>2. pages' \in [page : Numbers, manifest : Numbers] /\ pages'.manifest # 0
      BY <1>1, <2>6 DEF PTyped
    <3>3. PTyped'
      BY <1>1, <2>1, <2>6, <3>1, <3>2 DEF PTyped
    <3> QED
      BY <2>1, <2>6, <3>2, <3>3, OthersKeep
  <2> QED
    BY <1>5, <2>2, <2>3, <2>4, <2>5, <2>6 DEF P!_project_events_legacy
<1> QED
  BY <1>3, <1>4, <1>5

LEMMA ReadersKeep ==
    ASSUME PInv, NEW r \in Readers, P!Read(r) PROVE PInv'
<1>1. UNCHANGED <<journal, gens, index, pages, mirror, lock, pub, cli>>
  BY DEF P!Read, P!Open, P!Resolve, P!_validate_projection_files, P!_bound_document, P!_read_item
<1>2. PTyped'
  BY <1>1 DEF PInv, PTyped
<1> QED
  BY <1>1, <1>2, OthersKeep

LEMMA PInit == P!Init => PInv
<1> SUFFICES ASSUME P!Init PROVE PInv
  OBVIOUS
<1>1. P!Rest \in Pubs /\ P!Rest.pc = "idle" /\ ~P!Rest.freeze
  BY VersionsAreCounted DEF P!Rest, Pubs, PLabels, Numbers
<1>2. P!NoGen \in Gens /\ ~P!NoGen.dir /\ P!NoGen.files = {}
  BY DEF P!NoGen, Gens
<1>3. /\ pub = [p \in Publishers |-> P!Rest] /\ gens = [g \in P!Versions |-> P!NoGen]
      /\ index = [kind |-> "none", cur |-> 0, prev |-> 0] /\ journal = 1
      /\ pages = [page |-> 0, manifest |-> 0] /\ mirror = [kind |-> "none", v |-> 0]
      /\ cli = [pc |-> "idle", v |-> 0]
  BY DEF P!Init, P!Shut
<1>4. PTyped
  BY <1>1, <1>2, <1>3, VersionsAreCounted DEF PTyped, Numbers, P!Versions
<1>5. Locked /\ Led /\ Absent
  BY <1>1, <1>2, <1>3 DEF Locked, Led, Absent, Working
<1>6. ASSUME NEW p \in Publishers PROVE Held(p)
  BY <1>1, <1>3 DEF Held, Working
<1> QED
  BY <1>4, <1>5, <1>6 DEF PInv

LEMMA PStep == PInv /\ [P!Next]_(P!vars) => PInv'
<1> SUFFICES ASSUME PInv, [P!Next]_(P!vars) PROVE PInv'
  OBVIOUS
<1>1. ASSUME NEW p \in Publishers, P!Project(p) \/ P!Stop(p) PROVE PInv'
  BY <1>1, ReadEventsKeeps, BeginKeeps, RepairKeeps, FreezeKeeps, CleanKeeps, RemoveKeeps, PrepareKeeps,
     OwnerKeeps, WriteFileKeeps, PublishKeeps, WriteMirrorKeeps, StopKeeps DEF P!Project
<1>2. CASE UNCHANGED P!vars
  <2>1. UNCHANGED <<journal, gens, index, pages, mirror, lock, pub, cli>>
    BY <1>2 DEF P!vars
  <2>2. PTyped'
    BY <2>1 DEF PInv, PTyped
  <2> QED
    BY <2>1, <2>2, OthersKeep
<1> QED
  BY <1>1, <1>2, CommandKeeps, ReadersKeep DEF P!Next

LEMMA PShown == PInv => P!PointerIsComplete /\ P!MirrorIsReadable
  BY DEF PInv, Led, P!PointerIsComplete, P!MirrorIsReadable

-----------------------------------------------------------------------------
(* Maintenance.                                                            *)

UpToSync == {"snapshot", "pending", "source_recovery", "closeout_recovery", "spool_gc", "queue_drain",
             "journal", "lifecycle", "reread", "projection", "quality_audit", "team", "freshness", "sync"}
MLabels == UpToSync \cup {"idle", "scheduler", "operation_health", "operation_service"}

\* How late a stage can begin when all before it took all they were given and noticed late.
InTime ==
    /\ pc = "snapshot" => clock = 0
    /\ pc = "pending" => clock <= 2 + Slack
    /\ pc = "source_recovery" => clock <= 5 + 2 * Slack
    /\ pc = "closeout_recovery" => clock <= 13 + Slack
    /\ pc = "spool_gc" => clock <= 15 + Slack
    /\ pc = "queue_drain" => clock <= 20 + Slack
    /\ pc = "journal" => clock <= 60 + Slack
    /\ pc \in {"lifecycle", "reread", "projection", "quality_audit", "team", "freshness", "sync",
               "scheduler", "operation_health"} => clock <= 95 + Slack

\* What the run has in hand covers what it found and appended, or an error says otherwise.
Covered(x) == errs = {} => x # M!None /\ x >= base

MInv ==
    /\ pc \in MLabels
    /\ clock \in Nat /\ InTime
    /\ journal \in 0..MaxRunVersion /\ base \in 0..journal
    /\ pc \in UpToSync => sync = "none"
    /\ pc \in {"lifecycle", "projection"} => Covered(events)
    /\ pc \in {"quality_audit", "team", "freshness", "sync"} => Covered(projection)

LEMMA StagesDiffer ==
    /\ DOMAIN M!Stages = 1..17
    /\ \A i, j \in 1..17 : M!Stages[i] = M!Stages[j] => i = j
  BY DEF M!Stages

LEMMA AfterStage ==
    ASSUME NEW n \in 1..16
    PROVE  M!After(M!Stages[n]) = M!Stages[n + 1]
<1>1. \A i \in 1..17 : M!Stages[i] = M!Stages[n] <=> i = n
  BY StagesDiffer
<1>2. (CHOOSE i \in DOMAIN M!Stages : M!Stages[i] = M!Stages[n]) = n
  BY <1>1, StagesDiffer
<1>3. M!Stages[n] # "operation_service"
  BY <1>1 DEF M!Stages
<1> QED
  BY <1>2, <1>3 DEF M!After

LEMMA AfterTable ==
    /\ M!After("snapshot") = "pending" /\ M!After("pending") = "source_recovery"
    /\ M!After("source_recovery") = "closeout_recovery" /\ M!After("closeout_recovery") = "spool_gc"
    /\ M!After("spool_gc") = "queue_drain" /\ M!After("queue_drain") = "journal"
    /\ M!After("journal") = "lifecycle" /\ M!After("lifecycle") = "reread"
    /\ M!After("reread") = "projection" /\ M!After("projection") = "quality_audit"
    /\ M!After("quality_audit") = "team" /\ M!After("team") = "freshness"
    /\ M!After("freshness") = "sync" /\ M!After("sync") = "scheduler"
    /\ M!After("scheduler") = "operation_health" /\ M!After("operation_health") = "operation_service"
    /\ M!After("operation_service") = "idle"
<1>1. \A n \in 1..16 : M!After(M!Stages[n]) = M!Stages[n + 1]
  BY AfterStage
<1>2. /\ M!Stages[1] = "snapshot" /\ M!Stages[2] = "pending" /\ M!Stages[3] = "source_recovery"
      /\ M!Stages[4] = "closeout_recovery" /\ M!Stages[5] = "spool_gc" /\ M!Stages[6] = "queue_drain"
      /\ M!Stages[7] = "journal" /\ M!Stages[8] = "lifecycle" /\ M!Stages[9] = "reread"
      /\ M!Stages[10] = "projection" /\ M!Stages[11] = "quality_audit" /\ M!Stages[12] = "team"
      /\ M!Stages[13] = "freshness" /\ M!Stages[14] = "sync" /\ M!Stages[15] = "scheduler"
      /\ M!Stages[16] = "operation_health" /\ M!Stages[17] = "operation_service"
  BY DEF M!Stages
<1>3. M!After("operation_service") = "idle"
  BY DEF M!After
<1> QED
  BY <1>1, <1>2, <1>3

\* A stage ends at once, or Slack after its time; one that was not done leaves an error.
LEMMA PhaseFacts ==
    ASSUME MInv, NEW s \in MLabels \ {"idle"}, pc = s, NEW o \in M!phase(s)
    PROVE  /\ clock + o.time = clock \/ clock + o.time = M!End(s) + Slack
           /\ clock + o.time \in Nat
           /\ ~o.done => o.why # {}
<1>1. clock \in Nat /\ Slack \in Nat /\ M!End(s) \in Nat
  BY SlackIsSmall DEF MInv, M!End, M!Earlier, M!Total
<1>2. CASE clock >= M!End(s)
  BY <1>1, <1>2 DEF M!phase, M!Outcome
<1>3. CASE clock < M!End(s)
  <2>1. M!Late(s) \in Nat /\ clock + M!Late(s) = M!End(s) + Slack
    BY <1>1, <1>3 DEF M!Late
  <2> QED
    BY <1>1, <1>3, <2>1 DEF M!phase, M!Outcome
<1> QED
  BY <1>1, <1>2, <1>3

\* The clock of the next stage, whatever became of this one.
LEMMA PassInTime ==
    ASSUME MInv, NEW s \in MLabels \ {"idle"}, NEW o \in M!phase(s), pc = s, pc' = M!After(s),
           clock' = clock + o.time
    PROVE  /\ clock' \in Nat /\ InTime'
           /\ pc' \in MLabels /\ (pc' \in UpToSync => pc \in UpToSync)
<1>1. clock' \in Nat /\ (clock' = clock \/ clock' = M!End(s) + Slack)
  BY PhaseFacts
<1>2. Slack \in {0, 1} /\ clock \in Nat /\ InTime
  BY SlackIsSmall DEF MInv
<1> QED
  BY <1>1, <1>2, AfterTable DEF InTime, M!End, M!Earlier, M!Total, MLabels, UpToSync

\* A stage that reads nothing the later ones rely on.
LEMMA PassKeeps ==
    ASSUME MInv, NEW s \in MLabels \ {"idle", "journal", "lifecycle", "reread", "projection"},
           NEW o \in M!phase(s), pc = s, pc' = M!After(s), clock' = clock + o.time, errs \subseteq errs',
           journal' \in 0..MaxRunVersion, base' \in 0..journal',
           UNCHANGED base \/ s \in {"source_recovery", "queue_drain"},
           UNCHANGED sync \/ s = "sync",
           UNCHANGED <<events, projection>>
    PROVE  MInv'
<1>1. clock' \in Nat /\ InTime' /\ pc' \in MLabels /\ (pc' \in UpToSync => pc \in UpToSync)
  BY PassInTime
<1>2. pc' \in UpToSync => sync' = "none"
  BY <1>1, AfterTable DEF MInv, UpToSync
<1>3. pc' \notin {"lifecycle", "projection"}
  BY AfterTable DEF MLabels, UpToSync
<1>4. pc' \in {"quality_audit", "team", "freshness", "sync"} => Covered(projection)'
  <2>1. pc' \in {"quality_audit", "team", "freshness", "sync"} => s \in {"quality_audit", "team", "freshness"}
    BY AfterTable DEF MLabels, UpToSync
  <2>2. s \in {"quality_audit", "team", "freshness"} => Covered(projection)
    BY DEF MInv
  <2> QED
    BY <2>1, <2>2 DEF Covered
<1> QED
  BY <1>1, <1>2, <1>3, <1>4 DEF MInv

LEMMA QuietKeeps ==
    ASSUME MInv, \/ M!last_maintenance_activity \/ M!reconcile_pending \/ M!gc_expired_spool
                 \/ M!_quality_audits \/ M!inspect_scheduler_opportunities
                 \/ M!_maintain_team \/ M!CloseoutRecovery
    PROVE  MInv'
<1>1. \E s \in {"snapshot", "pending", "spool_gc", "quality_audit", "scheduler", "team", "closeout_recovery"} :
        \E o \in M!phase(s) : pc = s /\ pc' = M!After(s) /\ clock' = clock + o.time /\ errs \subseteq errs'
  BY DEF M!last_maintenance_activity, M!reconcile_pending, M!gc_expired_spool, M!_quality_audits,
         M!inspect_scheduler_opportunities, M!_maintain_team, M!CloseoutRecovery, M!Quiet, M!Pass
<1>2. UNCHANGED <<journal, base, events, projection, sync>>
  BY DEF M!last_maintenance_activity, M!reconcile_pending, M!gc_expired_spool, M!_quality_audits,
         M!inspect_scheduler_opportunities, M!_maintain_team, M!CloseoutRecovery, M!Quiet, M!result
<1>3. PICK s \in {"snapshot", "pending", "spool_gc", "quality_audit", "scheduler", "team", "closeout_recovery"} :
        \E o \in M!phase(s) : pc = s /\ pc' = M!After(s) /\ clock' = clock + o.time /\ errs \subseteq errs'
  BY <1>1
<1>4. PICK o \in M!phase(s) : pc = s /\ pc' = M!After(s) /\ clock' = clock + o.time /\ errs \subseteq errs'
  BY <1>3
<1>5. s \in MLabels \ {"idle", "journal", "lifecycle", "reread", "projection"}
  BY DEF MLabels, UpToSync
<1>6. journal' \in 0..MaxRunVersion /\ base' \in 0..journal'
  BY <1>2 DEF MInv
<1> QED
  BY <1>2, <1>4, <1>5, <1>6, PassKeeps

\* What a run appends is part of what it must cover.
LEMMA AppendFacts ==
    ASSUME MInv, NEW n \in 0..1, M!Append(n)
    PROVE  /\ journal' \in 0..MaxRunVersion /\ base' \in 0..journal'
           /\ n = 0 => base' = base /\ journal' = journal
  BY RunsAreCounted DEF MInv, M!Append

LEMMA AppendingKeeps ==
    ASSUME MInv, M!_ingest \/ M!QueueDrain PROVE MInv'
<1>1. PICK s \in {"source_recovery", "queue_drain"}, n \in 0..1 :
        /\ M!Append(n)
        /\ \E o \in M!phase(s) : pc = s /\ pc' = M!After(s) /\ clock' = clock + o.time /\ errs \subseteq errs'
  BY DEF M!_ingest, M!QueueDrain, M!Pass
<1>2. PICK o \in M!phase(s) : pc = s /\ pc' = M!After(s) /\ clock' = clock + o.time /\ errs \subseteq errs'
  BY <1>1
<1>3. UNCHANGED <<events, projection, sync>>
  BY DEF M!_ingest, M!QueueDrain, M!result
<1>4. s \in MLabels \ {"idle", "journal", "lifecycle", "reread", "projection"}
  BY DEF MLabels, UpToSync
<1>5. journal' \in 0..MaxRunVersion /\ base' \in 0..journal'
  BY <1>1, AppendFacts
<1> QED
  BY <1>2, <1>3, <1>4, <1>5, PassKeeps

LEMMA ReadJournalKeeps ==
    ASSUME MInv, NEW s \in {"journal", "reread"}, M!ReadJournal(s) PROVE MInv'
<1>1. PICK o \in M!phase(s) : /\ pc = s /\ pc' = M!After(s) /\ clock' = clock + o.time
                              /\ errs' = errs \cup o.why
                              /\ events' = IF o.done THEN journal ELSE M!None
  BY DEF M!ReadJournal, M!Pass
<1>2. UNCHANGED <<projection, sync, journal, base>>
  BY DEF M!ReadJournal
<1>3. s \in MLabels \ {"idle"} /\ s \in UpToSync
  BY DEF MLabels, UpToSync
<1>4. clock' \in Nat /\ InTime' /\ pc' \in MLabels
  BY <1>1, <1>3, PassInTime
<1>5. ~o.done => errs' # {}
  BY <1>1, <1>3, PhaseFacts
<1>6. Covered(events)'
  <2>1. journal >= base /\ journal # M!None
    BY RunsAreCounted DEF MInv, M!None
  <2> QED
    BY <1>1, <1>2, <1>5, <2>1 DEF Covered
<1>7. pc' \in {"lifecycle", "projection"}
  BY <1>1, AfterTable
<1> QED
  BY <1>1, <1>2, <1>3, <1>4, <1>6, <1>7 DEF MInv

LEMMA LifecycleKeeps ==
    ASSUME MInv, M!Lifecycle PROVE MInv'
<1>1. pc = "lifecycle" /\ UNCHANGED <<events, projection, sync>> /\ Covered(events) /\ sync = "none"
  BY DEF M!Lifecycle, M!Pass, M!result, MInv, UpToSync
<1>2. CASE events = M!None
  <2>1. pc' = "projection" /\ UNCHANGED <<clock, errs, journal, base>>
    BY <1>2 DEF M!Lifecycle
  <2>2. Covered(events)' /\ InTime'
    BY <1>1, <2>1 DEF Covered, MInv, InTime
  <2> QED
    BY <1>1, <2>1, <2>2 DEF MInv, MLabels, UpToSync
<1>3. CASE events # M!None
  <2>1. PICK o \in M!phase("lifecycle"), n \in 0..1 :
          /\ M!Append(n) /\ clock' = clock + o.time
          /\ IF o.done /\ n = 0 THEN pc' = "projection" /\ UNCHANGED errs
             ELSE pc' = M!After("lifecycle")
    BY <1>3 DEF M!Lifecycle, M!Pass
  <2>2. /\ journal' \in 0..MaxRunVersion /\ base' \in 0..journal'
        /\ n = 0 => base' = base /\ journal' = journal
    BY <2>1, AppendFacts
  <2>3. clock' \in Nat /\ (clock' = clock \/ clock' = M!End("lifecycle") + Slack)
    BY <1>1, <2>1, PhaseFacts DEF MLabels, UpToSync
  <2>4. pc' \in {"projection", "reread"} /\ (pc' = "projection" => n = 0 /\ UNCHANGED errs)
    BY <2>1, AfterTable
  <2>5. InTime'
    BY <1>1, <2>3, <2>4, SlackIsSmall DEF InTime, MInv, M!End, M!Total
  <2>6. pc' = "projection" => Covered(events)'
    BY <1>1, <2>2, <2>4 DEF Covered
  <2> QED
    BY <1>1, <2>2, <2>3, <2>4, <2>5, <2>6 DEF MInv, MLabels, UpToSync
<1> QED
  BY <1>2, <1>3

LEMMA ProjectKeeps ==
    ASSUME MInv, M!Project PROVE MInv'
<1>1. pc = "projection" /\ UNCHANGED <<events, sync, journal, base>> /\ Covered(events) /\ sync = "none"
  BY DEF M!Project, M!Pass, MInv, UpToSync
<1>2. CASE events = M!None
  <2>1. pc' = "quality_audit" /\ UNCHANGED <<clock, errs, projection>> /\ errs # {}
    BY <1>1, <1>2 DEF M!Project, Covered
  <2>2. InTime'
    BY <1>1, <2>1 DEF MInv, InTime
  <2> QED
    BY <1>1, <2>1, <2>2 DEF MInv, MLabels, UpToSync, Covered
<1>3. CASE events # M!None
  <2>1. PICK o \in M!phase("projection") :
          /\ pc' = M!After("projection") /\ clock' = clock + o.time /\ errs' = errs \cup o.why
          /\ projection' = IF o.done THEN events ELSE M!None
    BY <1>3 DEF M!Project, M!Pass
  <2>2. clock' \in Nat /\ InTime'
    BY <1>1, <2>1, PassInTime DEF MLabels, UpToSync
  <2>3. ~o.done => errs' # {}
    BY <1>1, <2>1, PhaseFacts DEF MLabels, UpToSync
  <2>4. Covered(projection)'
    BY <1>1, <1>3, <2>1, <2>3 DEF Covered
  <2>5. pc' = "quality_audit"
    BY <2>1, AfterTable
  <2> QED
    BY <1>1, <2>2, <2>4, <2>5 DEF MInv, MLabels, UpToSync
<1> QED
  BY <1>2, <1>3

LEMMA FreshnessKeeps ==
    ASSUME MInv, M!CheckFreshness PROVE MInv'
<1>1. pc = "freshness" /\ UNCHANGED <<events, projection, sync, journal, base>> /\ journal' \in 0..MaxRunVersion
      /\ base' \in 0..journal'
  BY DEF M!CheckFreshness, M!Pass, MInv
<1>2. CASE projection = M!None
  <2>1. pc' = "sync" /\ UNCHANGED <<clock, errs>>
    BY <1>2 DEF M!CheckFreshness
  <2>2. InTime' /\ Covered(projection)'
    BY <1>1, <2>1 DEF MInv, InTime, Covered
  <2> QED
    BY <1>1, <2>1, <2>2 DEF MInv, MLabels, UpToSync
<1>3. CASE projection # M!None
  <2>1. PICK o \in M!phase("freshness") :
          pc' = M!After("freshness") /\ clock' = clock + o.time /\ errs \subseteq errs'
    BY <1>3 DEF M!CheckFreshness, M!Pass
  <2> QED
    BY <1>1, <2>1, PassKeeps DEF MLabels, UpToSync
<1> QED
  BY <1>2, <1>3

\* Only a run without an error synchronises.
LEMMA SyncKeeps ==
    ASSUME MInv, M!SyncGate PROVE MInv' /\ M!SyncIsCurrent
<1>1. pc = "sync" /\ UNCHANGED <<events, projection, journal, base>> /\ journal' \in 0..MaxRunVersion
      /\ base' \in 0..journal' /\ Covered(projection)
  BY DEF M!SyncGate, M!Pass, MInv
<1>2. CASE errs # {}
  <2>1. pc' = "scheduler" /\ sync' = "blocked" /\ UNCHANGED <<clock, errs>>
    BY <1>2 DEF M!SyncGate
  <2>2. InTime'
    BY <1>1, <2>1 DEF MInv, InTime
  <2> QED
    BY <1>1, <2>1, <2>2 DEF MInv, MLabels, UpToSync, M!SyncIsCurrent
<1>3. CASE errs = {}
  <2>1. PICK o \in M!phase("sync") :
          pc' = M!After("sync") /\ clock' = clock + o.time /\ errs \subseteq errs'
    BY <1>3 DEF M!SyncGate, M!Pass
  <2>2. MInv'
    BY <1>1, <2>1, PassKeeps DEF MLabels, UpToSync
  <2> QED
    BY <1>1, <1>3, <2>2 DEF Covered, M!SyncIsCurrent
<1> QED
  BY <1>2, <1>3

LEMMA ReportKeeps ==
    ASSUME MInv, M!OperationHealth \/ M!OperationService PROVE MInv'
<1>1. PICK s \in {"operation_health", "operation_service"} : \E o \in M!phase(s) :
        pc = s /\ pc' = M!After(s) /\ clock' = clock + o.time /\ errs \subseteq errs'
  BY DEF M!OperationHealth, M!OperationService, M!Pass
<1>2. PICK o \in M!phase(s) : pc = s /\ pc' = M!After(s) /\ clock' = clock + o.time /\ errs \subseteq errs'
  BY <1>1
<1>3. UNCHANGED <<events, projection, sync, journal, base>>
  BY DEF M!OperationHealth, M!OperationService, M!result
<1>4. journal' \in 0..MaxRunVersion /\ base' \in 0..journal'
  BY <1>3 DEF MInv
<1>5. s \in MLabels \ {"idle", "journal", "lifecycle", "reread", "projection"}
  BY DEF MLabels, UpToSync
<1> QED
  BY <1>2, <1>3, <1>4, <1>5, PassKeeps

LEMMA StartKeeps ==
    ASSUME MInv, M!Start PROVE MInv'
<1>1. /\ pc' = "snapshot" /\ clock' = 0 /\ base' = journal /\ journal' = journal /\ sync' = "none"
  BY DEF M!Start
<1>2. InTime'
  BY <1>1 DEF InTime
<1> QED
  BY <1>1, <1>2 DEF MInv, MLabels, UpToSync

\* Captures and drains from the command line append meanwhile.
LEMMA MeanwhileKeeps ==
    ASSUME MInv, M!Capture \/ M!Drain PROVE MInv'
<1>1. UNCHANGED <<pc, clock, errs, base, events, projection, sync>>
  BY DEF M!Capture, M!Drain, M!result
<1>2. journal' \in 0..MaxRunVersion /\ journal' >= journal
  BY RunsAreCounted DEF M!Capture, M!Drain, MInv
<1>3. InTime' /\ base' \in 0..journal'
  BY <1>1, <1>2, RunsAreCounted DEF MInv, InTime
<1> QED
  BY <1>1, <1>2, <1>3 DEF MInv, Covered

LEMMA MInit == M!Init => MInv
  BY RunsAreCounted DEF M!Init, MInv, InTime, Covered, MLabels, UpToSync

LEMMA MStep == MInv /\ [M!Next]_(M!vars) => MInv'
<1> SUFFICES ASSUME MInv, [M!Next]_(M!vars) PROVE MInv'
  OBVIOUS
<1>1. CASE M!Step
  BY <1>1, QuietKeeps, AppendingKeeps, ReadJournalKeeps, LifecycleKeeps, ProjectKeeps, FreshnessKeeps,
     SyncKeeps, ReportKeeps DEF M!Step
<1>2. CASE UNCHANGED M!vars
  <2>1. UNCHANGED <<pc, clock, errs, base, journal, events, projection, sync>>
    BY <1>2 DEF M!vars
  <2>2. InTime'
    BY <2>1 DEF MInv, InTime
  <2> QED
    BY <2>1, <2>2 DEF MInv, Covered
<1> QED
  BY <1>1, <1>2, StartKeeps, MeanwhileKeeps DEF M!Next

\* Where sync succeeds, it succeeds in this step.
LEMMA MCurrent == MInv /\ [M!Next]_(M!vars) => M!SyncIsCurrent
<1> SUFFICES ASSUME MInv, [M!Next]_(M!vars), pc = "sync" PROVE M!SyncIsCurrent
  BY DEF M!SyncIsCurrent
<1>1. sync = "none"
  BY DEF MInv, UpToSync
<1>2. CASE M!SyncGate
  BY <1>2, SyncKeeps
<1>3. CASE M!Step /\ ~M!SyncGate
  <2>1. FALSE
    BY <1>3 DEF M!Step, M!last_maintenance_activity, M!reconcile_pending, M!gc_expired_spool,
       M!_quality_audits, M!inspect_scheduler_opportunities, M!_maintain_team, M!CloseoutRecovery, M!Quiet,
       M!_ingest, M!QueueDrain, M!ReadJournal, M!Lifecycle, M!Project, M!CheckFreshness, M!OperationHealth,
       M!OperationService, M!Pass
  <2> QED
    BY <2>1
<1>4. CASE M!Start \/ M!Capture \/ M!Drain \/ UNCHANGED M!vars
  <2>1. sync' = "none"
    BY <1>1, <1>4 DEF M!Start, M!Capture, M!Drain, M!result, M!vars
  <2> QED
    BY <2>1 DEF M!SyncIsCurrent
<1> QED
  BY <1>2, <1>3, <1>4 DEF M!Next

LEMMA MTurns == MInv => M!StagesGetTheirTurn
  BY SlackIsSmall DEF MInv, InTime, M!StagesGetTheirTurn, M!End, M!Earlier, M!Total

-----------------------------------------------------------------------------
(* KnowledgeSetup.                                                         *)

Cloning == {"clone", "ownClone", "cloning", "moveClone"}
Staged == {"own", "build", "move"}
KStages == {"PLANNED", "KNOWLEDGE_LOCAL_READY", "REMOTE_CREATED_OR_VERIFIED", "REMOTE_CONNECTED",
            "INITIAL_PUSH_VERIFIED"}
KLabels == {"idle", "inspect", "local", "recover", "disown", "files", "init", "commit", "ready", "create",
            "created", "verify", "connect", "push", "fetch", "complete", "join", "fail"} \cup Cloning \cup Staged
Hists == {"none", "ours", "other"}

KRuns == [pc : KLabels, mode : K!Modes \cup {"none"},
          act : {"none", "initialize-local", "reuse-local", "refused"}, stage : KStages]
KRoots == [kind : {"absent", "empty", "partial", "layout", "whole"}, hist : Hists]
KRemotes == [exists : BOOLEAN, private : BOOLEAN, hist : Hists]

KTyped ==
    /\ root \in KRoots
    /\ remote \in KRemotes
    /\ run \in KRuns
    /\ K!_validate_operation_receipt(receipt)

\* What others made: a root with something else in it is never set up, a staging directory
\* of theirs has no record of ours, and the directory a setup works on is not theirs.
Foreign ==
    /\ origin = "partial" => root = K!Bare("partial") /\ run = K!Idle
    /\ staging = "theirs" => owner = FALSE /\ run.pc \notin Staged \cup (Cloning \ {"clone"})
    /\ remote.hist = "other" => remote.exists

\* A root is filled in place only where there was one; a root that is whole has a history.
Filled ==
    /\ origin = "absent" => root.kind \in {"absent", "whole"} /\ run.pc \notin {"files", "init", "commit"}
    /\ root.kind = "whole" => root.hist # "none"

\* The repository at hand is private, and what is to be reported as pushed is there.
Pushed == root.kind = "whole" /\ link /\ remote.private /\ remote.hist = root.hist
There == remote.exists /\ remote.private
Private ==
    /\ run.mode = "github-existing" /\ run.pc \notin {"idle", "inspect", "fail"} => There
    /\ run.pc \in Cloning => run.mode = "github-existing" /\ remote.hist # "none"
    /\ run.pc = "disown" /\ run.mode = "github-existing" /\ link => Pushed
    /\ run.pc \in {"inspect", "join"} => run.mode = "github-existing"
    /\ run.pc = "connect" => There
    /\ run.pc = "push" => There /\ link
    /\ run.pc \in {"fetch", "complete"} => Pushed
    /\ run.pc = "idle" => run = K!Idle

KInv == KTyped /\ Foreign /\ Filled /\ Private

LEMMA KGo ==
  ASSUME KTyped, NEW to \in KLabels, K!Goto(to)
  PROVE  run' \in KRuns /\ run'.pc = to /\ run'.mode = run.mode
  BY DEF KTyped, K!Goto, KRuns

LEMMA KProgress ==
  ASSUME KTyped, NEW to \in KLabels, NEW st \in KStages, K!Progress(st, to)
  PROVE  run' \in KRuns /\ run'.pc = to /\ run'.mode = run.mode /\ K!_validate_operation_receipt(receipt)'
  BY DEF KTyped, K!Progress, K!_persist_progress, K!_validate_operation_receipt, KRuns, KStages

LEMMA KIdle == K!Idle \in KRuns /\ K!Idle.pc = "idle" /\ K!Idle.mode = "none"
  BY DEF K!Idle, KRuns, KLabels, KStages

LEMMA KEnd ==
  ASSUME KTyped, NEW s \in {"COMPLETE", "FAILED", "BLOCKED"}, NEW st \in KStages,
         K!_persist_progress(s, st), run' = K!Idle
  PROVE  run' \in KRuns /\ run'.pc = "idle" /\ run'.mode = "none" /\ K!_validate_operation_receipt(receipt)'
  BY KIdle DEF KTyped, K!_persist_progress, K!_validate_operation_receipt, KRuns, KStages

LEMMA KStop ==
  ASSUME KTyped, NEW s \in {"FAILED", "BLOCKED"}, K!Stop(s)
  PROVE  run' = K!Idle /\ run' \in KRuns /\ run'.pc = "idle" /\ run'.mode = "none" /\ K!_validate_operation_receipt(receipt)'
<1>1. run.stage \in KStages
  BY DEF KTyped, KRuns
<1> QED
  BY <1>1, KEnd DEF K!Stop

LEMMA KWhole ==
  ASSUME NEW h \in Hists
  PROVE  K!Whole(h) \in KRoots /\ K!Whole(h).kind = "whole" /\ K!Whole(h).hist = h
  BY DEF K!Whole, KRoots

LEMMA KBare ==
  ASSUME NEW k \in {"absent", "empty", "partial", "layout", "whole"}
  PROVE  K!Bare(k) \in KRoots /\ K!Bare(k).kind = k /\ K!Bare(k).hist = "none"
  BY DEF K!Bare, KRoots, Hists

\* A receipt that is not written stays readable.
LEMMA KSameReceipt ==
  ASSUME KTyped, UNCHANGED receipt PROVE K!_validate_operation_receipt(receipt)'
  BY DEF KTyped, K!_validate_operation_receipt

LEMMA K_safe_move == ASSUME KInv, K!safe_move PROVE KInv'
<1>1. CASE root.kind # "absent"
  <2>1. UNCHANGED <<root, origin, staging, owner, remote, link, receipt>> /\ K!Goto("fail")
    BY <1>1 DEF K!safe_move
  <2>2. run' \in KRuns /\ run'.pc = "fail" /\ origin # "partial"
    BY <2>1, KGo, KIdle DEF KInv, KLabels, K!safe_move, Foreign
  <2> QED
    BY <2>1, <2>2, KSameReceipt DEF KInv, KTyped, Foreign, Filled, Private, Cloning, Staged, Pushed, There
<1>2. CASE root.kind = "absent"
  <2>1. PICK h \in Hists : root' = K!Whole(h) /\ (run.pc = "moveClone" => h = remote.hist) /\ h # "none"
    BY <1>2 DEF K!safe_move, KInv, KTyped, Private, Cloning, KRemotes, Hists
  <2>2. /\ run.pc \in {"move", "moveClone"} /\ K!Goto("disown") /\ staging' = "absent"
        /\ UNCHANGED <<origin, owner, remote, receipt>> /\ link' = (run.pc = "moveClone")
    BY <1>2 DEF K!safe_move
  <2>3. /\ root' \in KRoots /\ root'.kind = "whole" /\ root'.hist = h
        /\ run' \in KRuns /\ run'.pc = "disown" /\ run'.mode = run.mode
    BY <2>1, <2>2, KWhole, KGo DEF KInv, KLabels
  <2>4. origin # "partial"
    BY <2>2, KIdle DEF KInv, Foreign
  <2> QED
    BY <2>1, <2>2, <2>3, <2>4, KSameReceipt DEF KInv, KTyped, Foreign, Filled, Private, Cloning,
       Staged, Pushed, There
<1> QED BY <1>1, <1>2

LEMMA K_bootstrap_knowledge_repository == ASSUME KInv, K!bootstrap_knowledge_repository PROVE KInv'
<1>1. /\ run.pc \in {"files", "init", "commit"}
      /\ UNCHANGED <<origin, staging, owner, remote, link, receipt>>
  BY DEF K!bootstrap_knowledge_repository
<1>2. root' \in KRoots /\ (root'.kind = "whole" => root'.hist = "ours")
  <2>1. root' \in {K!Bare("partial"), K!Bare("layout"), K!Whole("ours")}
    BY DEF K!bootstrap_knowledge_repository
  <2> QED BY <2>1, KBare, KWhole DEF Hists
<1>3. PICK to \in {"init", "commit", "join", "ready"} : K!Goto(to) /\ (to = "join" => run.mode = "github-existing")
  BY DEF K!bootstrap_knowledge_repository, K!AfterLocal
<1>4. run' \in KRuns /\ run'.pc = to /\ run'.mode = run.mode
  BY <1>3, KGo DEF KInv, KLabels
<1>5. origin \notin {"partial", "absent"}
  BY <1>1, KIdle DEF KInv, Foreign, Filled
<1> QED
  BY <1>1, <1>2, <1>3, <1>4, <1>5, KSameReceipt
     DEF KInv, KTyped, Foreign, Filled, Private, Cloning, Staged, Pushed, There

LEMMA K_LocalReady == ASSUME KInv, K!LocalReady PROVE KInv'
<1>1. KTyped'
  BY KEnd, KProgress DEF K!LocalReady, K!Complete, KInv, KTyped, K!local, KStages, KLabels, Cloning,
     Staged, Hists, KRemotes, KRoots
<1>2. Foreign'
  BY KEnd, KProgress, KBare, KIdle DEF K!LocalReady, K!Complete, KInv, KTyped, K!local, KStages,
     KLabels, Cloning, Staged, Foreign, KRemotes
<1>3. Filled'
  BY KEnd, KProgress, KBare DEF K!LocalReady, K!Complete, KInv, KTyped, K!local, KStages, KLabels,
     Cloning, Staged, Filled, KRoots
<1>4. Private'
  BY KEnd, KProgress DEF K!LocalReady, K!Complete, KInv, KTyped, K!local, KStages, KLabels, Cloning,
     Staged, Private, Pushed, There, Hists, KRemotes, KRoots
<1> QED BY <1>1, <1>2, <1>3, <1>4 DEF KInv

LEMMA K_Created == ASSUME KInv, K!Created PROVE KInv'
<1>1. KTyped'
  BY KProgress DEF K!Created, KInv, KTyped, K!local, KStages, KLabels, Cloning, Staged, Hists,
     KRemotes, KRoots
<1>2. Foreign'
  BY KProgress, KBare, KIdle DEF K!Created, KInv, KTyped, K!local, KStages, KLabels, Cloning, Staged,
     Foreign, KRemotes
<1>3. Filled'
  BY KProgress, KBare DEF K!Created, KInv, KTyped, K!local, KStages, KLabels, Cloning, Staged, Filled, KRoots
<1>4. Private'
  BY KProgress DEF K!Created, KInv, KTyped, K!local, KStages, KLabels, Cloning, Staged, Private,
     Pushed, There, Hists, KRemotes, KRoots
<1> QED BY <1>1, <1>2, <1>3, <1>4 DEF KInv

LEMMA K_assure_github_remote == ASSUME KInv, K!_assure_github_remote PROVE KInv'
<1>1. KTyped'
  BY KProgress, KStop DEF K!_assure_github_remote, KInv, KTyped, K!local, KStages, KLabels, Cloning,
     Staged, Hists, KRemotes, KRoots
<1>2. Foreign'
  BY KProgress, KStop, KBare, KIdle DEF K!_assure_github_remote, KInv, KTyped, K!local, KStages,
     KLabels, Cloning, Staged, Foreign, KRemotes
<1>3. Filled'
  BY KProgress, KStop, KBare DEF K!_assure_github_remote, KInv, KTyped, K!local, KStages, KLabels,
     Cloning, Staged, Filled, KRoots
<1>4. Private'
  BY KProgress, KStop DEF K!_assure_github_remote, KInv, KTyped, K!local, KStages, KLabels, Cloning,
     Staged, Private, Pushed, There, Hists, KRemotes, KRoots
<1> QED BY <1>1, <1>2, <1>3, <1>4 DEF KInv

LEMMA K_connect_exact_remote == ASSUME KInv, K!connect_exact_remote PROVE KInv'
<1>1. KTyped'
  BY KProgress DEF K!connect_exact_remote, KInv, KTyped, K!local, KStages, KLabels, Cloning, Staged,
     Hists, KRemotes, KRoots
<1>2. Foreign'
  BY KProgress, KBare, KIdle DEF K!connect_exact_remote, KInv, KTyped, K!local, KStages, KLabels,
     Cloning, Staged, Foreign, KRemotes
<1>3. Filled'
  BY KProgress, KBare DEF K!connect_exact_remote, KInv, KTyped, K!local, KStages, KLabels, Cloning,
     Staged, Filled, KRoots
<1>4. Private'
  BY KProgress DEF K!connect_exact_remote, KInv, KTyped, K!local, KStages, KLabels, Cloning, Staged,
     Private, Pushed, There, Hists, KRemotes, KRoots
<1> QED BY <1>1, <1>2, <1>3, <1>4 DEF KInv

LEMMA K_InspectExisting == ASSUME KInv, K!InspectExisting PROVE KInv'
<1>1. run.pc = "inspect" /\ UNCHANGED <<root, origin, staging, owner, remote, link>>
  BY DEF K!InspectExisting, K!local
<1>2. CASE ~There
  <2>1. K!Stop("BLOCKED")
    BY <1>2 DEF K!InspectExisting, There
  <2> QED
    BY <1>1, <2>1, KStop DEF KInv, KTyped, Foreign, Filled, Private, Cloning, Staged, Pushed, There
<1>3. CASE There
  <2>1. PICK to \in {"clone", "local"} :
            K!Progress("REMOTE_CREATED_OR_VERIFIED", to) /\ (to = "clone" => remote.hist # "none")
    BY <1>3 DEF K!InspectExisting, There
  <2>2. run' \in KRuns /\ run'.pc = to /\ run'.mode = run.mode /\ K!_validate_operation_receipt(receipt)'
    BY <2>1, KProgress DEF KInv, KLabels, KStages, Cloning
  <2>3. origin # "partial" /\ run.mode = "github-existing"
    BY <1>1, KIdle DEF KInv, Foreign, Private
  <2> QED
    BY <1>1, <1>3, <2>1, <2>2, <2>3 DEF KInv, KTyped, Foreign, Filled, Private, Cloning, Staged, Pushed, There
<1> QED BY <1>2, <1>3

LEMMA K_create_private_repository ==
  ASSUME KInv, NEW a \in {"ok", "late"}, K!create_private_repository(a) PROVE KInv'
<1>1. run.pc = "create" /\ UNCHANGED <<root, origin, staging, owner, link>>
  BY DEF K!create_private_repository, K!local
<1>2. origin # "partial"
  BY <1>1, KIdle DEF KInv, Foreign
<1>3. CASE K!Stop("BLOCKED") /\ UNCHANGED remote
  BY <1>1, <1>3, KStop DEF KInv, KTyped, Foreign, Filled, Private, Cloning, Staged, Pushed, There
<1>4. CASE \E to \in {"verify", "created", "fail"} : K!Goto(to) /\ UNCHANGED receipt
  <2>1. PICK to \in {"verify", "created", "fail"} : K!Goto(to) /\ UNCHANGED receipt
    BY <1>4
  <2>2. run' \in KRuns /\ run'.pc = to /\ run'.mode = run.mode
    BY <2>1, KGo DEF KInv, KLabels
  <2>3. remote' \in KRemotes /\ (remote'.hist = "other" => remote'.exists) /\ (There => There')
    <3>1. remote' = remote \/ remote' = [exists |-> TRUE, private |-> TRUE, hist |-> "none"]
      BY DEF K!create_private_repository
    <3>2. CASE remote' = remote
      BY <3>2 DEF KInv, KTyped, Foreign, There
    <3>3. CASE remote' = [exists |-> TRUE, private |-> TRUE, hist |-> "none"]
      BY <3>3 DEF KRemotes, Hists, There
    <3> QED BY <3>1, <3>2, <3>3
  <2> QED
    BY <1>1, <1>2, <2>1, <2>2, <2>3, KSameReceipt DEF KInv, KTyped, Foreign, Filled, Private,
       Cloning, Staged, Pushed
<1> QED BY <1>3, <1>4 DEF K!create_private_repository

LEMMA K_ensure_local_knowledge == ASSUME KInv, K!ensure_local_knowledge PROVE KInv'
  BY DEF K!ensure_local_knowledge, K!AfterLocal, K!Usable, K!Goto, K!local, KInv, KTyped, Foreign,
     Filled, Private, Pushed, There, Cloning, Staged, KStages, KLabels, Hists, KRuns, KRoots, KRemotes,
     K!Modes, K!Bare, K!_validate_operation_receipt, K!Idle

LEMMA K_recover_owned_staging == ASSUME KInv, K!_recover_owned_staging PROVE KInv'
  BY DEF K!_recover_owned_staging, K!Goto, K!local, KInv, KTyped, Foreign, Filled, Private, Pushed,
     There, Cloning, Staged, KStages, KLabels, Hists, KRuns, KRoots, KRemotes, K!Modes, K!Bare,
     K!_validate_operation_receipt, K!Idle

LEMMA K_write_ownership_record == ASSUME KInv, K!write_ownership_record PROVE KInv'
  BY DEF K!write_ownership_record, K!Goto, K!local, KInv, KTyped, Foreign, Filled, Private, Pushed,
     There, Cloning, Staged, KStages, KLabels, Hists, KRuns, KRoots, KRemotes, K!Modes, K!Bare,
     K!_validate_operation_receipt, K!Idle

LEMMA K_Disown == ASSUME KInv, K!Disown PROVE KInv'
  BY DEF K!Disown, K!AfterLocal, K!Goto, K!local, KInv, KTyped, Foreign, Filled, Private, Pushed,
     There, Cloning, Staged, KStages, KLabels, Hists, KRuns, KRoots, KRemotes, K!Modes, K!Bare,
     K!_validate_operation_receipt, K!Idle

LEMMA K_VerifyPush == ASSUME KInv, K!VerifyPush PROVE KInv'
  BY DEF K!VerifyPush, K!Goto, K!local, KInv, KTyped, Foreign, Filled, Private, Pushed, There,
     Cloning, Staged, KStages, KLabels, Hists, KRuns, KRoots, KRemotes, K!Modes, K!Bare,
     K!_validate_operation_receipt, K!Idle

LEMMA K_Finish == ASSUME KInv, K!Finish PROVE KInv'
  BY DEF K!Finish, K!Complete, K!_persist_progress, K!Idle, K!Goto, K!local, KInv, KTyped, Foreign,
     Filled, Private, Pushed, There, Cloning, Staged, KStages, KLabels, Hists, KRuns, KRoots, KRemotes,
     K!Modes, K!Bare, K!_validate_operation_receipt

LEMMA K_verify_existing_alignment == ASSUME KInv, K!_verify_existing_alignment PROVE KInv'
  BY DEF K!_verify_existing_alignment, K!Stop, K!_persist_progress, K!Idle, K!Goto, K!local, KInv,
     KTyped, Foreign, Filled, Private, Pushed, There, Cloning, Staged, KStages, KLabels, Hists, KRuns,
     KRoots, KRemotes, K!Modes, K!Bare, K!_validate_operation_receipt

LEMMA K_GiveUp == ASSUME KInv, K!GiveUp PROVE KInv'
  BY DEF K!GiveUp, K!Stop, K!_persist_progress, K!Idle, K!Goto, K!local, KInv, KTyped, Foreign,
     Filled, Private, Pushed, There, Cloning, Staged, KStages, KLabels, Hists, KRuns, KRoots, KRemotes,
     K!Modes, K!Bare, K!_validate_operation_receipt

LEMMA K_Build == ASSUME KInv, NEW ok \in BOOLEAN, K!Build(ok) PROVE KInv'
  BY DEF K!Build, K!Fault, K!Goto, K!local, KInv, KTyped, Foreign, Filled, Private, Pushed, There,
     Cloning, Staged, KStages, KLabels, Hists, KRuns, KRoots, KRemotes, K!Modes, K!Bare,
     K!_validate_operation_receipt, K!Idle

LEMMA K_clone_existing_repository == ASSUME KInv, NEW ok \in BOOLEAN, K!_clone_existing_repository(ok) PROVE KInv'
  BY DEF K!_clone_existing_repository, K!Fault, K!Goto, K!local, KInv, KTyped, Foreign, Filled,
     Private, Pushed, There, Cloning, Staged, KStages, KLabels, Hists, KRuns, KRoots, KRemotes, K!Modes,
     K!Bare, K!_validate_operation_receipt, K!Idle

LEMMA K_push_and_verify == ASSUME KInv, NEW a \in {"ok", "late"}, K!push_and_verify(a) PROVE KInv'
  BY DEF K!push_and_verify, K!Fault, K!Goto, K!local, KInv, KTyped, Foreign, Filled, Private, Pushed,
     There, Cloning, Staged, KStages, KLabels, Hists, KRuns, KRoots, KRemotes, K!Modes, K!Bare,
     K!_validate_operation_receipt, K!Idle

LEMMA K_CommandFails == ASSUME KInv, K!CommandFails PROVE KInv'
  BY DEF K!CommandFails, K!Fault, K!Goto, K!local, KInv, KTyped, Foreign, Filled, Private, Pushed,
     There, Cloning, Staged, KStages, KLabels, Hists, KRuns, KRoots, KRemotes, K!Modes, K!Bare,
     K!_validate_operation_receipt, K!Idle

LEMMA K_OtherPushes == ASSUME KInv, K!OtherPushes PROVE KInv'
  BY DEF K!OtherPushes, K!Fault, K!Goto, K!local, KInv, KTyped, Foreign, Filled, Private, Pushed,
     There, Cloning, Staged, KStages, KLabels, Hists, KRuns, KRoots, KRemotes, K!Modes, K!Bare,
     K!_validate_operation_receipt, K!Idle

LEMMA K_Die == ASSUME KInv, K!Die PROVE KInv'
  BY DEF K!Die, K!Fault, K!Idle, K!Goto, K!local, KInv, KTyped, Foreign, Filled, Private, Pushed,
     There, Cloning, Staged, KStages, KLabels, Hists, KRuns, KRoots, KRemotes, K!Modes, K!Bare,
     K!_validate_operation_receipt

LEMMA K_plan_knowledge_setup == ASSUME KInv, NEW m \in K!Modes, K!plan_knowledge_setup(m) PROVE KInv'
  BY DEF K!plan_knowledge_setup, K!_local_action, K!Usable, K!Idle, K!Goto, K!local, KInv, KTyped,
     Foreign, Filled, Private, Pushed, There, Cloning, Staged, KStages, KLabels, Hists, KRuns, KRoots,
     KRemotes, K!Modes, K!Bare, K!_validate_operation_receipt

LEMMA KInit == K!Init => KInv
<1> SUFFICES ASSUME K!Init PROVE KInv
  OBVIOUS
<1>1. root \in KRoots /\ root.kind = origin /\ root.hist = "none" /\ root = K!Bare(origin)
  BY KBare DEF K!Init
<1>2. remote \in KRemotes /\ (remote.hist = "other" => remote.exists)
  <2>1. CASE remote \in [exists : {TRUE}, private : BOOLEAN, hist : {"none", "other"}]
    BY <2>1 DEF KRemotes, Hists
  <2>2. CASE remote = [exists |-> FALSE, private |-> TRUE, hist |-> "none"]
    BY <2>2 DEF KRemotes, Hists
  <2> QED BY <2>1, <2>2 DEF K!Init
<1>3. run = K!Idle /\ owner = FALSE /\ K!_validate_operation_receipt(receipt) /\ origin \in {"absent", "empty", "partial"}
  BY DEF K!Init, K!_validate_operation_receipt, K!Modes
<1> QED
  BY <1>1, <1>2, <1>3, KIdle DEF KInv, KTyped, Foreign, Filled, Private, Cloning, Staged

LEMMA KStep == KInv /\ [K!Next]_(K!vars) => KInv'
<1> SUFFICES ASSUME KInv, [K!Next]_(K!vars) PROVE KInv'
  OBVIOUS
<1>1. CASE UNCHANGED K!vars
  BY <1>1, KSameReceipt
     DEF K!vars, KInv, KTyped, Foreign, Filled, Private, Pushed, There
<1>2. CASE K!Step
  BY <1>2, K_ensure_local_knowledge, K_recover_owned_staging, K_write_ownership_record, K_safe_move,
     K_Disown, K_bootstrap_knowledge_repository, K_LocalReady, K_Created, K_assure_github_remote,
     K_connect_exact_remote, K_VerifyPush, K_Finish, K_InspectExisting, K_verify_existing_alignment,
     K_GiveUp, K_Build, K_clone_existing_repository, K_create_private_repository, K_push_and_verify
     DEF K!Step
<1> QED
  BY <1>1, <1>2, K_CommandFails, K_OtherPushes, K_Die, K_plan_knowledge_setup DEF K!Next

LEMMA KRoot == KInv => K!RootIsWhole
  BY DEF KInv, KTyped, Filled, K!RootIsWhole

LEMMA KReported == KInv /\ [K!Next]_(K!vars) => K!CompleteIsPushed
<1> SUFFICES ASSUME KInv, [K!Next]_(K!vars), receipt'.status = "COMPLETE", receipt' # receipt, run.mode # "local"
             PROVE  Pushed
  BY DEF K!CompleteIsPushed, Pushed
<1>1. K!Next
  BY DEF K!vars
<1>2. \/ K!LocalReady \/ K!Created \/ K!_assure_github_remote \/ K!connect_exact_remote \/ K!Finish
      \/ K!InspectExisting \/ K!_verify_existing_alignment \/ K!GiveUp
      \/ \E a \in {"ok", "late"} : K!create_private_repository(a)
  BY <1>1 DEF K!Next, K!Step, K!ensure_local_knowledge, K!_recover_owned_staging, K!write_ownership_record,
     K!safe_move, K!Disown, K!bootstrap_knowledge_repository, K!VerifyPush, K!Build,
     K!_clone_existing_repository, K!push_and_verify, K!CommandFails, K!OtherPushes, K!Die,
     K!plan_knowledge_setup
<1>3. run.pc = "complete"
  <2>1. ASSUME NEW s \in {"IN_PROGRESS", "FAILED", "BLOCKED"}, NEW st, K!_persist_progress(s, st) PROVE FALSE
    BY <2>1 DEF K!_persist_progress
  <2>2. ASSUME NEW s \in {"FAILED", "BLOCKED"}, K!Stop(s) PROVE FALSE
    BY <2>1, <2>2 DEF K!Stop
  <2>3. ASSUME NEW st, NEW to, K!Progress(st, to) PROVE FALSE
    BY <2>1, <2>3 DEF K!Progress
  <2>4. ASSUME K!LocalReady PROVE FALSE
    BY <2>3, <2>4 DEF K!LocalReady
  <2>5. ASSUME K!_assure_github_remote PROVE FALSE
    BY <2>2, <2>3, <2>5 DEF K!_assure_github_remote
  <2>6. ASSUME K!InspectExisting PROVE FALSE
    BY <2>2, <2>3, <2>6 DEF K!InspectExisting
  <2>7. ASSUME K!_verify_existing_alignment PROVE FALSE
    BY <2>2, <2>7 DEF K!_verify_existing_alignment
  <2>8. ASSUME K!GiveUp PROVE FALSE
    BY <2>2, <2>8 DEF K!GiveUp
  <2>9. ASSUME NEW a \in {"ok", "late"}, K!create_private_repository(a) PROVE FALSE
    BY <2>2, <2>9 DEF K!create_private_repository
  <2> QED
    BY <1>2, <2>3, <2>4, <2>5, <2>6, <2>7, <2>8, <2>9 DEF K!Created, K!connect_exact_remote, K!Finish
<1> QED BY <1>3 DEF KInv, Private

LEMMA KKept == KInv /\ [K!Next]_(K!vars) => K!OthersAreKept
<1> SUFFICES ASSUME KInv, [K!Next]_(K!vars) PROVE K!OthersAreKept
  OBVIOUS
<1>1. CASE UNCHANGED K!vars
  BY <1>1 DEF K!vars, K!OthersAreKept
<1>2. CASE K!Next
  <2>1. ASSUME staging = "theirs" PROVE staging' = "theirs"
    <3>1. run.pc \notin Staged \cup (Cloning \ {"clone"}) /\ owner = FALSE
      BY <2>1 DEF KInv, Foreign
    <3> QED
      BY <1>2, <2>1, <3>1 DEF K!Next, K!Step, K!ensure_local_knowledge, K!_recover_owned_staging,
         K!write_ownership_record,
         K!safe_move, K!Disown, K!bootstrap_knowledge_repository, K!VerifyPush, K!Build,
         K!_clone_existing_repository, K!push_and_verify, K!CommandFails, K!OtherPushes, K!Die,
         K!plan_knowledge_setup, K!LocalReady, K!Created, K!_assure_github_remote, K!connect_exact_remote,
         K!Finish, K!InspectExisting, K!_verify_existing_alignment, K!GiveUp, K!create_private_repository,
         K!local, Staged, Cloning
  <2>2. ASSUME remote.hist = "other" PROVE remote'.hist = "other"
    <3>1. remote.exists /\ remote \in KRemotes
      BY <2>2 DEF KInv, Foreign, KTyped
    <3>2. remote' = remote \/ \E a \in {"ok", "late"} : K!create_private_repository(a) \/ K!push_and_verify(a)
      BY <1>2, <2>2 DEF K!Next, K!Step, K!ensure_local_knowledge, K!_recover_owned_staging,
         K!write_ownership_record,
         K!safe_move, K!Disown, K!bootstrap_knowledge_repository, K!VerifyPush, K!Build,
         K!_clone_existing_repository, K!CommandFails, K!OtherPushes, K!Die,
         K!plan_knowledge_setup, K!LocalReady, K!Created, K!_assure_github_remote, K!connect_exact_remote,
         K!Finish, K!InspectExisting, K!_verify_existing_alignment, K!GiveUp
    <3>3. ASSUME NEW a \in {"ok", "late"}, K!create_private_repository(a) PROVE remote' = remote
      BY <3>1, <3>3 DEF K!create_private_repository
    <3>4. ASSUME NEW a \in {"ok", "late"}, K!push_and_verify(a) PROVE remote'.hist = "other"
      BY <3>1, <2>2, <3>4 DEF K!push_and_verify, KRemotes
    <3> QED BY <2>2, <3>2, <3>3, <3>4
  <2>3. ASSUME root = K!Bare("partial"), origin = "partial" PROVE root' = root
    <3>1. run = K!Idle /\ run.pc = "idle"
      BY <2>3, KIdle DEF KInv, Foreign
    <3> QED
      BY <1>2, <3>1 DEF K!Next, K!Step, K!ensure_local_knowledge, K!_recover_owned_staging,
         K!write_ownership_record,
         K!safe_move, K!Disown, K!bootstrap_knowledge_repository, K!VerifyPush, K!Build,
         K!_clone_existing_repository, K!push_and_verify, K!CommandFails, K!OtherPushes, K!Die,
         K!plan_knowledge_setup, K!LocalReady, K!Created, K!_assure_github_remote, K!connect_exact_remote,
         K!Finish, K!InspectExisting, K!_verify_existing_alignment, K!GiveUp, K!create_private_repository,
         K!local
  <2> QED BY <2>1, <2>2, <2>3 DEF K!OthersAreKept
<1> QED BY <1>1, <1>2

-----------------------------------------------------------------------------
(* Journal.                                                                *)

OpNames == {"CREATE_OBSERVATION", "CREATE_CANDIDATE", "ATTACH_EVIDENCE", "DEPRECATE_PATTERN", "REVISE_PATTERN"}
Operations == [op : OpNames, pat : {"none", "curated", "reconciled"}]
Uncurated(c) == curated[c].t = 0
JPcs == {"rest", "validate", "check", "replace", "report"}

\* A sequence, of whatever.
Listed(s) == \E E : s \in Seq(E)

JTyped ==
    /\ curated \in [Candidates -> [ops : Seq(Operations), t : Nat]]
    /\ now \in Nat \ {0}
    /\ claim \in [Candidates -> [by : Workers \cup {"none"}, twice : BOOLEAN]]
    /\ run = [w \in Workers |-> [pc |-> run[w].pc, c |-> run[w].c, built |-> run[w].built, left |-> run[w].left]]
    /\ \A w \in Workers : run[w].pc \in JPcs /\ Listed(run[w].built) /\ Listed(run[w].left)

\* The event of operation i of c's change set, and its marker, as they must be to prove it.
Proves(e, c, i) ==
    /\ e.c = c /\ e.i = i /\ e.t = curated[c].t
    /\ IF i <= Len(curated[c].ops) THEN e.type \in J!Permitted(curated[c].ops[i].op)
       ELSE e.type = "applied"

\* What a worker applies is the change set as it was curated, and another who applies it too
\* was there when it was claimed last, or has claimed it since.
Applies(w) ==
    LET c == run[w].c
    IN run[w].pc # "rest" =>
        /\ c \in Candidates /\ ~Uncurated(c)
        /\ \A v \in Workers \ {w} : run[v].c = c => claim[c].twice
        /\ Len(run[w].built) = Len(curated[c].ops) + 1
        /\ \A i \in 1..Len(run[w].built) : Proves(run[w].built[i], c, i)

\* What is left of a change set is its end.
Ending(l, b) ==
    /\ Len(b) - Len(l) \in 0..Len(b) - 1
    /\ \A j \in 1..Len(l) : l[j] = b[Len(b) - Len(l) + j]

\* Operation i of c has its event.
Recorded(c, i) == \E e \in journal : Proves(e, c, i)

\* What comes before the rest of a change set is in the journal, from this worker or another;
\* the file about to be replaced is not there or has that content, or another holds it too.
Appending(w) ==
    /\ run[w].pc \in {"check", "replace"} =>
          /\ Ending(run[w].left, run[w].built)
          /\ \A j \in 1..Len(run[w].built) - Len(run[w].left) : Recorded(run[w].c, j)
    /\ run[w].pc = "replace" =>
          \A f \in journal : J!SameFile(run[w].left[1], f) => f = run[w].left[1] \/ claim[run[w].c].twice

Proven(c) == \A i \in 1..Len(curated[c].ops) : Recorded(c, i)
Journaled ==
    \A e \in journal :
        \/ e.c = "none"
        \/ /\ e.c \in Candidates /\ ~Uncurated(e.c) /\ (e.type = "applied" => Proven(e.c))
           /\ \E i \in 1..Len(curated[e.c].ops) + 1 : Proves(e, e.c, i)

\* Only a candidate that was not curated has no time.
Curated == \A c \in Candidates : curated[c] # J!None => ~Uncurated(c)

JInv == JTyped /\ Curated /\ Journaled /\ \A w \in Workers : Applies(w) /\ Appending(w)

LEMMA TailFacts ==
    ASSUME NEW s, Listed(s), Len(s) > 0
    PROVE  /\ Listed(Tail(s)) /\ Len(s) \in Nat /\ Len(Tail(s)) = Len(s) - 1
           /\ Head(s) = s[1]
           /\ \A j \in 1..Len(s) - 1 : Tail(s)[j] = s[j + 1]
<1>1. PICK E : s \in Seq(E)
  BY DEF Listed
<1>2. Tail(s) \in Seq(E) /\ Len(s) \in Nat /\ Len(Tail(s)) = Len(s) - 1 /\ Head(s) = s[1]
      /\ \A j \in 1..Len(s) - 1 : Tail(s)[j] = s[j + 1]
  BY <1>1
<1> QED BY <1>2 DEF Listed

LEMMA BuiltFacts ==
    ASSUME NEW c \in Candidates, NEW S, curated[c].ops \in Seq(Operations), curated[c].t \in Nat
    PROVE  /\ Listed(J!Built(c, S)) /\ Len(J!Built(c, S)) = Len(curated[c].ops) + 1
           /\ \A i \in 1..Len(curated[c].ops) + 1 : Proves(J!Built(c, S)[i], c, i)
<1> DEFINE ops == curated[c].ops
           t == curated[c].t
           n == Len(ops)
           F == [i \in 1..n |-> J!_event_payload(c, i, ops[i], t, S)]
           m == J!Marker(c, n, t)
           E == {F[i] : i \in 1..n} \cup {m}
<1>1. n \in Nat
  OBVIOUS
<1>2. F \in Seq(E) /\ Len(F) = n
  BY <1>1
<1>3. J!Built(c, S) = F \o <<m>>
  BY DEF J!Built
<1>4. <<m>> \in Seq(E) /\ Len(<<m>>) = 1 /\ <<m>>[1] = m
  OBVIOUS
<1>5. ASSUME NEW i \in 1..n PROVE Proves(F[i], c, i)
  <2>1. /\ F[i].c = c /\ F[i].i = i /\ F[i].t = t
        /\ F[i].type \in J!Permitted(ops[i].op)
    BY DEF J!_event_payload, J!Permitted
  <2> QED BY <2>1 DEF Proves
<1>6. Proves(m, c, n + 1)
  BY <1>1 DEF Proves, J!Marker
<1> HIDE DEF F, m, E
<1>7. J!Built(c, S) \in Seq(E) /\ Len(J!Built(c, S)) = n + 1
  BY <1>1, <1>2, <1>3, <1>4
<1>8. ASSUME NEW i \in 1..n + 1 PROVE J!Built(c, S)[i] = IF i <= n THEN F[i] ELSE m
  BY <1>1, <1>2, <1>3, <1>4
<1>9. ASSUME NEW i \in 1..n + 1 PROVE Proves(J!Built(c, S)[i], c, i)
  <2>1. CASE i <= n
    BY <1>1, <1>5, <1>8, <2>1
  <2>2. CASE ~(i <= n)
    <3>1. i = n + 1
      BY <1>1, <2>2
    <3> QED BY <1>6, <1>8, <2>2, <3>1
  <2> QED BY <2>1, <2>2
<1> QED BY <1>7, <1>9 DEF Listed

LEMMA LengthIs == ASSUME NEW s, Listed(s) PROVE Len(s) \in Nat
<1>1. PICK E : s \in Seq(E)
  BY DEF Listed
<1> QED BY <1>1

LEMMA EndingHead ==
    ASSUME NEW l, NEW b, Listed(l), Listed(b), Ending(l, b)
    PROVE  /\ Len(l) > 0
           /\ Len(b) - Len(l) + 1 \in 1..Len(b)
           /\ l[1] = b[Len(b) - Len(l) + 1]
<1>1. Len(l) \in Nat /\ Len(b) \in Nat
  BY LengthIs
<1> QED BY <1>1 DEF Ending

LEMMA EndingTail ==
    ASSUME NEW l, NEW b, Listed(l), Listed(b), Ending(l, b), Len(l) > 1
    PROVE  Ending(Tail(l), b) /\ Len(b) - Len(Tail(l)) = Len(b) - Len(l) + 1
<1>1. Len(l) \in Nat /\ Len(b) \in Nat /\ Len(l) > 0
  BY LengthIs, EndingHead
<1> DEFINE m == Len(l)
           n == Len(b)
<1>2. Len(Tail(l)) = m - 1 /\ \A j \in 1..m - 1 : Tail(l)[j] = l[j + 1]
  BY <1>1, TailFacts
<1>3. n - m \in 0..n - 1 /\ \A j \in 1..m : l[j] = b[n - m + j]
  BY DEF Ending
<1>4. n - (m - 1) \in 0..n - 1 /\ n - (m - 1) = n - m + 1
  <2>1. m \in Nat /\ n \in Nat /\ m > 1
    BY <1>1
  <2> HIDE DEF m, n
  <2> QED BY <1>3, <2>1
<1>5. ASSUME NEW j \in 1..m - 1 PROVE Tail(l)[j] = b[n - (m - 1) + j]
  <2>1. j + 1 \in 1..m /\ n - m + (j + 1) = n - (m - 1) + j
    BY <1>1, <1>3
  <2> QED BY <1>2, <1>3, <2>1
<1> QED BY <1>2, <1>4, <1>5 DEF Ending

LEMMA EndingWhole ==
    ASSUME NEW b, Listed(b), Len(b) > 0
    PROVE  Ending(b, b) /\ Len(b) - Len(b) = 0
<1>1. Len(b) \in Nat
  BY LengthIs
<1> QED BY <1>1 DEF Ending

\* No event of an operation is a marker.
LEMMA NoMarker == \A o : "applied" \notin J!Permitted(o)
  BY DEF J!Permitted

\* No operation loses its event, whatever becomes of the files.
Kept == \A c, i : Recorded(c, i) => \E e \in journal' : Proves(e, c, i)

LEMMA Growing == ASSUME journal \subseteq journal' PROVE Kept
  BY DEF Kept, Recorded

\* What is proven stays proven while operations keep their events and the change sets stand.
LEMMA ProvenStays ==
    ASSUME Kept, UNCHANGED curated
    PROVE  /\ \A e, c, i : Proves(e, c, i)' <=> Proves(e, c, i)
           /\ \A c, i : Recorded(c, i) => Recorded(c, i)'
           /\ \A c : Proven(c) => Proven(c)'
           /\ \A c : Uncurated(c)' <=> Uncurated(c)
<1>1. \A e, c, i : Proves(e, c, i)' <=> Proves(e, c, i)
  BY DEF Proves, J!Permitted
<1>2. \A c, i : Recorded(c, i) => Recorded(c, i)'
  BY <1>1 DEF Kept, Recorded
<1> QED BY <1>1, <1>2 DEF Proven, Uncurated

LEMMA JournaledStays ==
    ASSUME JInv, UNCHANGED <<journal, curated>>
    PROVE  Journaled'
<1>1. Kept
  BY Growing
<1> QED BY <1>1, ProvenStays DEF JInv, Journaled

LEMMA JSame ==
    ASSUME JInv, UNCHANGED <<journal, curated, claim, run>>, now' \in Nat \ {0}
    PROVE  JInv'
<1>0. Kept
  BY Growing
<1>1. JTyped' /\ Curated'
  BY DEF JInv, JTyped, Curated, Uncurated
<1>2. Journaled'
  BY JournaledStays
<1>3. ASSUME NEW w \in Workers PROVE Applies(w)' /\ Appending(w)'
  <2>1. Applies(w)'
    BY <1>0, ProvenStays DEF JInv, Applies
  <2>2. Appending(w)'
    BY <1>0, ProvenStays DEF JInv, Appending, J!SameFile
  <2> QED BY <2>1, <2>2
<1> QED BY <1>1, <1>2, <1>3 DEF JInv

\* A worker that steps leaves the others what they have: what is new in the journal belongs
\* to it or to nobody, and a candidate it takes from another is then held twice.
LEMMA OthersApply ==
    ASSUME JInv, NEW w \in Workers, Kept, UNCHANGED curated,
           NEW v \in Workers \ {w},
           \A x \in Workers \ {w} : run'[x] = run[x],
           \A f \in journal' \ journal : f.c = run[w].c \/ f.c = "none",
           run[v].c \in Candidates => claim'[run[v].c] = claim[run[v].c] \/ claim'[run[v].c].twice,
           \/ run'[w].c \in {"none", run[w].c}
           \/ run[v].c \in Candidates => (run'[w].c = run[v].c => claim'[run[v].c].twice)
    PROVE  Applies(v)' /\ Appending(v)'
<1>1. run'[v] = run[v] /\ Applies(v) /\ Appending(v)
  BY DEF JInv
<1>2. CASE run[v].pc = "rest"
  BY <1>1, <1>2 DEF Applies, Appending
<1>3. CASE run[v].pc # "rest"
  <2>1. run[v].c \in Candidates /\ run[v].c # "none"
    BY <1>1, <1>3, NobodyIsNamed DEF Applies
  <2>2. claim[run[v].c].twice => claim'[run[v].c].twice
    BY <2>1
  <2>3. \A x \in Workers \ {v} : run'[x].c = run[v].c => claim'[run[v].c].twice
    <3>1. ASSUME NEW x \in Workers \ {v}, run'[x].c = run[v].c PROVE claim'[run[v].c].twice
      <4>1. CASE x # w
        BY <1>1, <1>3, <2>2, <3>1, <4>1 DEF Applies
      <4>2. CASE x = w /\ run'[w].c = run[w].c
        BY <1>1, <1>3, <2>2, <3>1, <4>2 DEF Applies
      <4>3. CASE x = w /\ run'[w].c # run[w].c
        BY <2>1, <3>1, <4>3
      <4> QED BY <4>1, <4>2, <4>3
    <3> QED BY <3>1
  <2>4. Applies(v)'
    <3>1. \A e, c, i : Proves(e, c, i)' <=> Proves(e, c, i)
      BY ProvenStays
    <3>2. ~Uncurated(run[v].c)'
      BY <1>1, <1>3, ProvenStays DEF Applies
    <3> QED BY <1>1, <1>3, <2>1, <2>3, <3>1, <3>2 DEF Applies
  <2>5. Appending(v)'
    <3>1. run[v].pc \in {"check", "replace"} =>
              \A j \in 1..Len(run[v].built) - Len(run[v].left) : Recorded(run[v].c, j)'
      BY <1>1, ProvenStays DEF Appending
    <3>2. ASSUME run[v].pc = "replace", NEW f \in journal', J!SameFile(run[v].left[1], f)
          PROVE  f = run[v].left[1] \/ claim'[run[v].c].twice
      <4>1. CASE f \in journal
        BY <1>1, <2>2, <3>2, <4>1 DEF Appending
      <4>2. CASE f \notin journal
        <5>1. run[v].left[1].c = run[v].c
          <6>0. Listed(run[v].left) /\ Listed(run[v].built) /\ Ending(run[v].left, run[v].built)
            BY <1>1, <3>2 DEF Appending, JInv, JTyped
          <6>1. PICK k \in 1..Len(run[v].built) : run[v].left[1] = run[v].built[k]
            BY <6>0, EndingHead
          <6> QED BY <1>1, <1>3, <6>1 DEF Applies, Proves
        <5>2. f.c = run[v].c
          BY <3>2, <5>1 DEF J!SameFile
        <5>3. run[w].c = run[v].c
          BY <2>1, <4>2, <5>2
        <5> QED BY <1>1, <1>3, <2>2, <5>3 DEF Applies
      <4> QED BY <4>1, <4>2
    <3> QED BY <1>1, <3>1, <3>2 DEF Appending, J!SameFile
  <2> QED BY <2>4, <2>5
<1> QED BY <1>2, <1>3

\* The candidate of a worker, and where it stands, while the journal is left alone.
LEMMA WorkerKeeps ==
    ASSUME JInv, NEW w \in Workers, UNCHANGED <<journal, curated, now>>,
           claim' \in [Candidates -> [by : Workers \cup {"none"}, twice : BOOLEAN]],
           NEW r, run' = [run EXCEPT ![w] = r],
           r = [pc |-> r.pc, c |-> r.c, built |-> r.built, left |-> r.left],
           r.pc \in JPcs, Listed(r.built), Listed(r.left),
           \/ r.c \in {"none", run[w].c} /\ claim' = claim
           \/ \A v \in Workers \ {w} :
                 run[v].c \in Candidates =>
                     /\ claim'[run[v].c] = claim[run[v].c] \/ claim'[run[v].c].twice
                     /\ r.c = run[v].c => claim'[run[v].c].twice,
           Applies(w)', Appending(w)'
    PROVE  JInv'
<1>0. Kept
  BY Growing
<1>1. \A v \in Workers \ {w} : run'[v] = run[v]
  BY DEF JInv, JTyped
<1>2. run'[w] = r
  BY DEF JInv, JTyped
<1>3. JTyped'
  <2>1. \A v \in Workers : run'[v] = [pc |-> run'[v].pc, c |-> run'[v].c, built |-> run'[v].built, left |-> run'[v].left]
    BY <1>1, <1>2 DEF JInv, JTyped
  <2>2. run' = [v \in Workers |-> run'[v]]
    BY DEF JInv, JTyped
  <2>3. run' = [v \in Workers |-> [pc |-> run'[v].pc, c |-> run'[v].c, built |-> run'[v].built, left |-> run'[v].left]]
    BY <2>1, <2>2
  <2> QED BY <1>1, <1>2, <2>3 DEF JInv, JTyped
<1>4. Journaled'
  BY JournaledStays
<1>5. ASSUME NEW v \in Workers \ {w} PROVE Applies(v)' /\ Appending(v)'
  BY <1>0, <1>1, <1>2, OthersApply
<1>6. Curated'
  BY DEF JInv, Curated, Uncurated
<1> QED BY <1>3, <1>4, <1>5, <1>6 DEF JInv

LEMMA RestKeeps ==
    ASSUME JInv, NEW w \in Workers, UNCHANGED <<journal, curated, claim, now>>,
           run' = [run EXCEPT ![w] = J!Rest]
    PROVE  JInv'
<1>1. /\ J!Rest = [pc |-> J!Rest.pc, c |-> J!Rest.c, built |-> J!Rest.built, left |-> J!Rest.left]
      /\ J!Rest.pc = "rest" /\ J!Rest.c = "none" /\ J!Rest.built = <<>> /\ J!Rest.left = <<>>
  BY DEF J!Rest
<1>2. Listed(<<>>)
  <2>1. <<>> \in Seq({})
    OBVIOUS
  <2> QED BY <2>1 DEF Listed
<1>3. run'[w] = J!Rest
  BY DEF JInv, JTyped
<1>4. Applies(w)' /\ Appending(w)'
  BY <1>1, <1>3 DEF Applies, Appending
<1>5. claim' \in [Candidates -> [by : Workers \cup {"none"}, twice : BOOLEAN]]
  BY DEF JInv, JTyped
<1> QED BY <1>1, <1>2, <1>4, <1>5, WorkerKeeps DEF JPcs

LEMMA BeginApplies ==
    ASSUME JInv, NEW w \in Workers, NEW c \in Candidates, J!Begin(w, c) PROVE JInv'
<1>1. CASE J!Marked(journal, c)
  <2>1. UNCHANGED <<journal, curated, claim, now, run>>
    BY <1>1 DEF J!Begin
  <2> QED
    BY <2>1, JSame DEF JInv, JTyped
<1>2. CASE ~J!Marked(journal, c)
  <2>0. PICK B, held : B = J!Built(c, J!_states(journal)) /\ held = J!HeldElsewhere(w, c)
    OBVIOUS
  <2> DEFINE r == [pc |-> "validate", c |-> c, built |-> B, left |-> <<>>]
             m == [by |-> w, twice |-> held]
  <2>1. /\ run' = [run EXCEPT ![w] = r] /\ UNCHANGED <<journal, curated, now>>
        /\ claim' = [claim EXCEPT ![c] = m] /\ curated[c] # J!None
    BY <1>2, <2>0 DEF J!Begin
  <2>2. curated[c].ops \in Seq(Operations) /\ curated[c].t \in Nat
    BY DEF JInv, JTyped
  <2>3. /\ Listed(B) /\ Len(B) = Len(curated[c].ops) + 1
        /\ \A i \in 1..Len(curated[c].ops) + 1 : Proves(B[i], c, i)
    BY <2>0, <2>2, BuiltFacts
  <2>4. Listed(<<>>)
    <3>1. <<>> \in Seq({})
      OBVIOUS
    <3> QED BY <3>1 DEF Listed
  <2>5. ~Uncurated(c)
    BY <2>1 DEF Uncurated, JInv, Curated
  <2>6. run'[w] = r /\ \A v \in Workers \ {w} : run'[v] = run[v]
    BY <2>1 DEF JInv, JTyped
  <2>7. held \in BOOLEAN /\ \A v \in Workers \ {w} : run[v].c = c => held
    BY <2>0 DEF J!HeldElsewhere
  <2>8. /\ claim' \in [Candidates -> [by : Workers \cup {"none"}, twice : BOOLEAN]]
        /\ claim'[c].twice = held
        /\ \A d \in Candidates : d # c => claim'[d] = claim[d]
    <3>1. m \in [by : Workers \cup {"none"}, twice : BOOLEAN] /\ m.twice = held
      BY <2>7
    <3> HIDE DEF m
    <3> QED BY <2>1, <3>1 DEF JInv, JTyped
  <2>9. Kept
    BY <2>1, Growing
  <2>10. Applies(w)'
    <3>1. \A i \in 1..Len(B) : Proves(B[i], c, i)'
      BY <2>1, <2>3, <2>9, ProvenStays
    <3>2. ~Uncurated(c)'
      BY <2>1, <2>5, <2>9, ProvenStays
    <3> QED BY <2>1, <2>3, <2>6, <2>7, <2>8, <3>1, <3>2 DEF Applies
  <2>11. Appending(w)'
    BY <2>6 DEF Appending
  <2>12. \A v \in Workers \ {w} :
            run[v].c \in Candidates =>
                /\ claim'[run[v].c] = claim[run[v].c] \/ claim'[run[v].c].twice
                /\ c = run[v].c => claim'[run[v].c].twice
    BY <2>7, <2>8
  <2> QED
    <3>1. /\ r = [pc |-> r.pc, c |-> r.c, built |-> r.built, left |-> r.left] /\ r.pc \in JPcs
          /\ Listed(r.built) /\ Listed(r.left) /\ r.c = c
      BY <2>3, <2>4 DEF JPcs
    <3> HIDE DEF r, m
    <3> QED BY <2>1, <2>8, <2>10, <2>11, <2>12, <3>1, WorkerKeeps
<1> QED BY <1>1, <1>2

LEMMA RunRecord ==
    ASSUME JTyped, NEW w \in Workers
    PROVE  run[w] = [pc |-> run[w].pc, c |-> run[w].c, built |-> run[w].built, left |-> run[w].left]
  BY DEF JTyped

LEMMA ValidateApplies ==
    ASSUME JInv, NEW w \in Workers, J!Validate(w) PROVE JInv'
<1>1. run[w].pc = "validate" /\ UNCHANGED <<journal, curated, claim, now>>
  BY DEF J!Validate
<1>0. Kept
  BY <1>1, Growing
<1>2. CASE run' = [run EXCEPT ![w] = J!Rest]
  BY <1>1, <1>2, RestKeeps
<1>3. CASE run' = [run EXCEPT ![w].pc = "check", ![w].left = run[w].built]
  <2> DEFINE r == [pc |-> "check", c |-> run[w].c, built |-> run[w].built, left |-> run[w].built]
  <2>1. run' = [run EXCEPT ![w] = r]
    <3>1. run[w] = [pc |-> run[w].pc, c |-> run[w].c, built |-> run[w].built, left |-> run[w].left]
      BY RunRecord DEF JInv
    <3>2. [run[w] EXCEPT !.pc = "check", !.left = run[w].built] = r
      <4>1. PICK x, p, c, b, l : x = run[w] /\ p = x.pc /\ c = x.c /\ b = x.built /\ l = x.left
        OBVIOUS
      <4>2. x = [pc |-> p, c |-> c, built |-> b, left |-> l]
        BY <3>1, <4>1
      <4>3. [x EXCEPT !.pc = "check", !.left = b] = [pc |-> "check", c |-> c, built |-> b, left |-> b]
        <5>1. [x EXCEPT !.pc = "check"] = [pc |-> "check", c |-> c, built |-> b, left |-> l]
          BY <4>2
        <5>2. [x EXCEPT !.pc = "check", !.left = b] = [[x EXCEPT !.pc = "check"] EXCEPT !.left = b]
          BY <4>2
        <5>3. [[pc |-> "check", c |-> c, built |-> b, left |-> l] EXCEPT !.left = b] = [pc |-> "check", c |-> c, built |-> b, left |-> b]
          OBVIOUS
        <5> QED BY <5>1, <5>2, <5>3
      <4> QED BY <4>1, <4>3
    <3>3. run' = [run EXCEPT ![w] = [run[w] EXCEPT !.pc = "check", !.left = run[w].built]]
      BY <1>3
    <3> QED BY <3>2, <3>3
  <2>2. run'[w] = r /\ \A v \in Workers \ {w} : run'[v] = run[v]
    BY <2>1 DEF JInv, JTyped
  <2>3. /\ r = [pc |-> r.pc, c |-> r.c, built |-> r.built, left |-> r.left] /\ r.pc = "check"
        /\ Listed(r.built) /\ r.left = r.built /\ r.c = run[w].c /\ r.built = run[w].built
    BY DEF JInv, JTyped
  <2> HIDE DEF r
  <2>4. Applies(w) /\ claim' \in [Candidates -> [by : Workers \cup {"none"}, twice : BOOLEAN]]
    BY <1>1 DEF JInv, JTyped
  <2>5. Applies(w)'
    BY <1>0, <1>1, <2>2, <2>3, <2>4, ProvenStays DEF Applies
  <2>6. Len(r.built) > 0
    <3>1. Len(run[w].built) = Len(curated[run[w].c].ops) + 1 /\ curated[run[w].c].ops \in Seq(Operations)
      BY <1>1, <2>4 DEF Applies, JInv, JTyped
    <3> QED BY <2>3, <3>1
  <2>7. Appending(w)'
    <3>1. Ending(r.left, r.built) /\ Len(r.built) - Len(r.left) = 0
      BY <2>3, <2>6, EndingWhole
    <3>0. 1..0 = {}
      OBVIOUS
    <3>2. 1..(Len(r.built) - Len(r.left)) = {}
      BY <3>0, <3>1, Zenon
    <3> QED BY <2>2, <2>3, <3>1, <3>2 DEF Appending
  <2> QED BY <1>1, <2>1, <2>3, <2>4, <2>5, <2>7, WorkerKeeps DEF JPcs
<1> QED BY <1>2, <1>3 DEF J!Validate, J!Finish

LEMMA CheckApplies ==
    ASSUME JInv, NEW w \in Workers, J!Check(w) PROVE JInv'
<1>1. run[w].pc = "check" /\ UNCHANGED <<journal, curated, claim, now>>
  BY DEF J!Check
<1>0. Kept
  BY <1>1, Growing
<1>2. CASE run' = [run EXCEPT ![w] = J!Rest]
  BY <1>1, <1>2, RestKeeps
<1>3. CASE /\ run' = [run EXCEPT ![w].pc = "replace"]
           /\ \A f \in journal : J!SameFile(Head(run[w].left), f) => f = Head(run[w].left)
  <2> DEFINE r == [pc |-> "replace", c |-> run[w].c, built |-> run[w].built, left |-> run[w].left]
  <2>1. run' = [run EXCEPT ![w] = r]
    <3>1. run[w] = [pc |-> run[w].pc, c |-> run[w].c, built |-> run[w].built, left |-> run[w].left]
      BY RunRecord DEF JInv
    <3>2. [run[w] EXCEPT !.pc = "replace"] = r
      BY <3>1
    <3>3. run' = [run EXCEPT ![w] = [run[w] EXCEPT !.pc = "replace"]]
      BY <1>3
    <3> QED BY <3>2, <3>3
  <2>2. run'[w] = r /\ \A v \in Workers \ {w} : run'[v] = run[v]
    BY <2>1 DEF JInv, JTyped
  <2>3. /\ r = [pc |-> r.pc, c |-> r.c, built |-> r.built, left |-> r.left] /\ r.pc = "replace"
        /\ Listed(r.built) /\ Listed(r.left) /\ r.left = run[w].left /\ r.c = run[w].c /\ r.built = run[w].built
    BY DEF JInv, JTyped
  <2> HIDE DEF r
  <2>4. Applies(w) /\ Appending(w) /\ claim' \in [Candidates -> [by : Workers \cup {"none"}, twice : BOOLEAN]]
    BY <1>1 DEF JInv, JTyped
  <2>5. Applies(w)'
    BY <1>0, <1>1, <2>2, <2>3, <2>4, ProvenStays DEF Applies
  <2>6. Head(run[w].left) = run[w].left[1]
    <3>1. Len(run[w].left) > 0 /\ Listed(run[w].left)
      BY <1>1, <2>3, <2>4, EndingHead DEF Appending
    <3> QED BY <3>1, TailFacts
  <2>7. Appending(w)'
    <3>0. PICK d : d = run[w].c
      OBVIOUS
    <3>1. /\ Ending(run[w].left, run[w].built)
          /\ \A j \in 1..Len(run[w].built) - Len(run[w].left) : Recorded(d, j)'
      BY <1>0, <1>1, <2>4, <3>0, ProvenStays DEF Appending
    <3>2. \A f \in journal : J!SameFile(run[w].left[1], f) => f = run[w].left[1]
      BY <1>3, <2>6
    <3> QED BY <1>1, <2>2, <2>3, <3>0, <3>1, <3>2 DEF Appending, J!SameFile
  <2> QED BY <1>1, <2>1, <2>3, <2>4, <2>5, <2>7, WorkerKeeps DEF JPcs
<1> QED BY <1>2, <1>3 DEF J!Check, J!Finish

\* The only step that writes: what it replaces has the same content unless the candidate is held
\* twice, it is an event of the same operation, and a marker comes last.
LEMMA ReplaceApplies ==
    ASSUME JInv, NEW w \in Workers, J!Replace(w) PROVE JInv' /\ J!ReplacedWhileHeldTwice
<1>0. PICK e, c, built, left : e = Head(run[w].left) /\ c = run[w].c /\ built = run[w].built /\ left = run[w].left
  OBVIOUS
<1>1. /\ run[w].pc = "replace" /\ UNCHANGED <<curated, claim, now>>
      /\ journal' = {f \in journal : ~J!SameFile(e, f)} \cup {e}
  BY <1>0 DEF J!Replace
<1> DEFINE r == [pc |-> IF Len(left) = 1 THEN "report" ELSE "check", c |-> c, built |-> built, left |-> Tail(left)]
<1>2. Listed(built) /\ Listed(left)
  BY <1>0 DEF JInv, JTyped
<1>3. Applies(w) /\ Ending(left, built) /\ c \in Candidates /\ ~Uncurated(c) /\ c # "none"
  BY <1>0, <1>1, NobodyIsNamed DEF JInv, Applies, Appending
<1> DEFINE k == Len(built) - Len(left) + 1
<1>4. k \in 1..Len(built) /\ left[1] = built[k] /\ \A j \in 1..k - 1 : Recorded(c, j)
  <2>1. Len(built) \in Nat /\ Len(left) \in Nat
    BY <1>2, LengthIs
  <2>2. k \in 1..Len(built) /\ left[1] = built[k]
    BY <1>2, <1>3, EndingHead
  <2>3. k - 1 = Len(built) - Len(left)
    BY <2>1
  <2> HIDE DEF k
  <2> QED BY <1>0, <1>1, <2>2, <2>3 DEF JInv, Appending
<1>5. Len(left) > 0 /\ Listed(Tail(left)) /\ e = left[1]
  BY <1>0, <1>2, <1>3, EndingHead, TailFacts
<1> HIDE DEF k
<1>6. Proves(e, c, k) /\ Len(built) = Len(curated[c].ops) + 1 /\ \A i \in 1..Len(built) : Proves(built[i], c, i)
  BY <1>0, <1>1, <1>3, <1>4, <1>5 DEF Applies
<1>7. \A f \in journal : J!SameFile(e, f) => f = e \/ claim[c].twice
  BY <1>0, <1>1, <1>5 DEF JInv, Appending
<1>8. /\ e.c = c /\ e \in journal' /\ e \in journal' /\ Kept
      /\ \A f \in journal' \ journal : f = e
  <2>1. ASSUME NEW d, NEW i, Recorded(d, i) PROVE \E f \in journal' : Proves(f, d, i)
    <3>1. PICK f \in journal : Proves(f, d, i)
      BY <2>1 DEF Recorded
    <3>2. CASE J!SameFile(e, f)
      <4>1. d = c /\ i = k
        BY <1>6, <3>1, <3>2 DEF Proves, J!SameFile
      <4> QED BY <1>1, <1>6, <4>1
    <3>3. CASE ~J!SameFile(e, f)
      BY <1>1, <3>1, <3>3
    <3> QED BY <3>2, <3>3
  <2> QED BY <1>1, <1>6, <2>1 DEF Proves, Kept
<1>9. run' = [run EXCEPT ![w] = r]
  <2>1. run[w] = [pc |-> run[w].pc, c |-> c, built |-> built, left |-> left]
    BY <1>0, RunRecord DEF JInv
  <2>0. PICK to, tail : to = (IF Len(left) = 1 THEN "report" ELSE "check") /\ tail = Tail(left)
    OBVIOUS
  <2>2. run' = [run EXCEPT ![w] = [run[w] EXCEPT !.pc = to, !.left = tail]]
    BY <1>0, <2>0 DEF J!Replace
  <2>3. [run[w] EXCEPT !.pc = to, !.left = tail] = r
    <3>1. PICK x, p : x = run[w] /\ p = x.pc
      OBVIOUS
    <3>2. x = [pc |-> p, c |-> c, built |-> built, left |-> left]
      BY <2>1, <3>1
    <3>3. [x EXCEPT !.pc = to, !.left = tail] = [pc |-> to, c |-> c, built |-> built, left |-> tail]
      <4>1. [x EXCEPT !.pc = to] = [pc |-> to, c |-> c, built |-> built, left |-> left]
        BY <3>2
      <4>2. [x EXCEPT !.pc = to, !.left = tail] = [[x EXCEPT !.pc = to] EXCEPT !.left = tail]
        BY <3>2
      <4>3. [[pc |-> to, c |-> c, built |-> built, left |-> left] EXCEPT !.left = tail] = [pc |-> to, c |-> c, built |-> built, left |-> tail]
        OBVIOUS
      <4> QED BY <4>1, <4>2, <4>3
    <3> QED BY <2>0, <3>1, <3>3
  <2> QED BY <2>2, <2>3
<1>10. run'[w] = r /\ \A v \in Workers \ {w} : run'[v] = run[v]
  BY <1>9 DEF JInv, JTyped
<1>11. \A v \in Workers \ {w} : run[v].c = c => claim[c].twice
  BY <1>0, <1>1, <1>3 DEF Applies
<1>12. /\ r = [pc |-> r.pc, c |-> r.c, built |-> r.built, left |-> r.left] /\ r.pc \in {"report", "check"}
       /\ r.left = Tail(left) /\ r.c = c /\ r.built = built /\ (r.pc = "check" => Len(left) # 1)
  OBVIOUS
<1> HIDE DEF r
<1>13. ASSUME NEW v \in Workers \ {w} PROVE Applies(v)' /\ Appending(v)'
  BY <1>0, <1>1, <1>8, <1>10, <1>12, OthersApply
<1>14. Applies(w)'
  BY <1>0, <1>1, <1>3, <1>6, <1>8, <1>10, <1>11, <1>12, ProvenStays DEF Applies
<1>15. Appending(w)'
  <2>1. r.pc = "check" => Len(left) > 1
    <3>1. PICK n \in Nat : n = Len(left)
      BY <1>2, LengthIs
    <3>2. n > 0 /\ (r.pc = "check" => n # 1)
      BY <1>5, <1>12, <3>1
    <3>3. r.pc = "check" => n > 1
      BY <3>2
    <3> QED BY <3>1, <3>3
  <2>2. ASSUME r.pc = "check"
        PROVE  /\ Ending(Tail(left), built)
               /\ \A j \in 1..Len(built) - Len(Tail(left)) : Recorded(c, j)'
    <3>1. Ending(Tail(left), built) /\ Len(built) - Len(Tail(left)) = k
      BY <1>2, <1>3, <2>1, <2>2, EndingTail DEF k
    <3>2. ASSUME NEW j \in 1..k PROVE Recorded(c, j)'
      <4>1. CASE j = k
        <5>1. Proves(e, c, k)'
          BY <1>1, <1>6, <1>8, ProvenStays
        <5> QED BY <1>8, <4>1, <5>1 DEF Recorded
      <4>2. CASE j # k
        <5>1. j \in 1..k - 1
          <6>1. Len(built) \in Nat
            BY <1>2, LengthIs
          <6> QED BY <1>4, <3>2, <4>2, <6>1
        <5> QED BY <1>1, <1>4, <1>8, <5>1, ProvenStays
      <4> QED BY <4>1, <4>2
    <3> QED BY <3>1, <3>2
  <2> QED BY <1>10, <1>12, <2>2 DEF Appending
<1>16. JTyped'
  <2>1. \A v \in Workers : run'[v] = [pc |-> run'[v].pc, c |-> run'[v].c, built |-> run'[v].built, left |-> run'[v].left]
    BY <1>10, <1>12, RunRecord DEF JInv
  <2>2. run' = [v \in Workers |-> run'[v]]
    BY <1>9 DEF JInv, JTyped
  <2>3. run' = [v \in Workers |-> [pc |-> run'[v].pc, c |-> run'[v].c, built |-> run'[v].built, left |-> run'[v].left]]
    BY <2>1, <2>2
  <2>4. \A v \in Workers : run'[v].pc \in JPcs /\ Listed(run'[v].built) /\ Listed(run'[v].left)
    BY <1>2, <1>5, <1>10, <1>12 DEF JInv, JTyped, JPcs
  <2> QED BY <1>1, <2>3, <2>4 DEF JInv, JTyped
<1>17. Journaled'
  <2>1. ASSUME e.type = "applied" PROVE Proven(c)'
    <3>1. Len(curated[c].ops) \in Nat
      <4>1. curated[c].ops \in Seq(Operations)
        BY <1>3 DEF JInv, JTyped
      <4> QED BY <4>1
    <3>2. ~(k <= Len(curated[c].ops))
      BY <1>6, <2>1, NoMarker DEF Proves
    <3>3. ASSUME NEW i \in 1..Len(curated[c].ops) PROVE Recorded(c, i)
      <4>1. i \in 1..k - 1
        BY <1>4, <1>6, <3>1, <3>2
      <4> QED BY <1>4, <4>1
    <3>4. Proven(c)
      BY <3>3 DEF Proven
    <3> QED BY <1>1, <1>8, <3>4, ProvenStays
  <2>2. ~Uncurated(c)' /\ \A f, d, i : Proves(f, d, i)' <=> Proves(f, d, i)
    BY <1>1, <1>3, <1>8, ProvenStays
  <2>3. ASSUME NEW f \in journal, f.c # "none"
        PROVE  /\ f.c \in Candidates /\ ~Uncurated(f.c)' /\ (f.type = "applied" => Proven(f.c)')
               /\ \E i \in 1..Len(curated[f.c].ops) + 1 : Proves(f, f.c, i)
    BY <1>1, <1>8, <2>3, ProvenStays DEF JInv, Journaled
  <2>4. \E i \in 1..Len(curated[c].ops) + 1 : Proves(e, c, i)
    BY <1>4, <1>6
  <2>5. ASSUME NEW f \in journal', f.c # "none"
        PROVE  /\ f.c \in Candidates /\ ~Uncurated(f.c)' /\ (f.type = "applied" => Proven(f.c)')
               /\ \E i \in 1..Len(curated[f.c].ops) + 1 : Proves(f, f.c, i)
    <3>1. CASE f \in journal
      BY <2>3, <2>5, <3>1
    <3>2. CASE f = e
      BY <1>3, <1>8, <2>1, <2>2, <2>4, <3>2
    <3> QED BY <1>8, <3>1, <3>2
  <2> QED
    BY <1>1, <2>2, <2>5 DEF Journaled
<1>18. Curated'
  BY <1>1 DEF JInv, Curated, Uncurated
<1>19. J!ReplacedWhileHeldTwice
  <2> SUFFICES ASSUME NEW f \in journal, f \notin journal'
               PROVE  f.c \in Candidates /\ claim[f.c].twice /\ J!SameOperation(f, e)
    BY <1>8 DEF J!ReplacedWhileHeldTwice
  <2>1. J!SameFile(e, f) /\ f # e
    BY <1>1
  <2>2. f.c = c /\ f.i = k /\ e.i = k /\ claim[c].twice
    BY <1>6, <1>7, <2>1 DEF J!SameFile, Proves
  <2>3. Proves(f, c, k)
    <3>1. PICK i \in 1..Len(curated[c].ops) + 1 : Proves(f, c, i)
      BY <1>3, <2>2 DEF JInv, Journaled
    <3>2. i = k
      BY <2>2, <3>1 DEF Proves
    <3> QED BY <3>1, <3>2
  <2>4. J!SameFile(f, e) /\ e.t = f.t
    BY <1>6, <2>1, <2>3 DEF J!SameFile, Proves
  <2>5. CASE k <= Len(curated[c].ops)
    <3>1. {f.type, e.type} \subseteq J!Permitted(curated[c].ops[k].op)
      BY <1>6, <2>3, <2>5 DEF Proves
    <3>2. k \in 1..Len(curated[c].ops)
      <4>1. Len(curated[c].ops) \in Nat
        <5>1. curated[c].ops \in Seq(Operations)
          BY <1>3 DEF JInv, JTyped
        <5> QED BY <5>1
      <4> QED BY <1>4, <1>6, <2>5, <4>1
    <3> QED BY <1>3, <2>2, <2>4, <3>1, <3>2 DEF J!SameOperation
  <2>6. CASE ~(k <= Len(curated[c].ops))
    <3>1. {f.type, e.type} = {"applied"}
      BY <1>6, <2>3, <2>6 DEF Proves
    <3> QED BY <1>3, <2>2, <2>4, <3>1 DEF J!SameOperation
  <2> QED BY <1>3, <2>2, <2>5, <2>6
<1> QED BY <1>13, <1>14, <1>15, <1>16, <1>17, <1>18, <1>19 DEF JInv

LEMMA ReportApplies ==
    ASSUME JInv, NEW w \in Workers, J!Report(w) \/ J!Stop(w) PROVE JInv'
<1>1. UNCHANGED <<journal, curated, claim, now>> /\ run' = [run EXCEPT ![w] = J!Rest]
  BY DEF J!Report, J!Finish, J!Stop
<1> QED BY <1>1, RestKeeps

\* A change set is kept once, before anybody applies it.
LEMMA CurateApplies ==
    ASSUME JInv, NEW c \in Candidates, J!Curate(c) PROVE JInv'
<1>1. curated[c] = J!None /\ UNCHANGED <<journal, claim, run>> /\ now' = now + 1 /\ now \in Nat \ {0}
  BY DEF J!Curate, JInv, JTyped
<1>2. CASE curated' = curated
  BY <1>1, <1>2, JSame
<1>3. CASE curated' # curated
  <2>1. PICK p \in {"none", "curated", "reconciled"} :
            curated' = [curated EXCEPT ![c] = [ops |-> J!curate_candidate(c, J!_states(journal), p), t |-> now]]
    BY <1>3 DEF J!Curate, J!Eligible, J!_states
  <2>2. PICK o : o = J!curate_candidate(c, J!_states(journal), p)
    OBVIOUS
  <2>3. o \in Seq(Operations)
    <3>1. ASSUME NEW op \in OpNames, NEW q \in {"none", "curated", "reconciled"} PROVE <<J!Op(op, q)>> \in Seq(Operations)
      <4>1. J!Op(op, q) \in Operations
        BY DEF J!Op, Operations
      <4> QED BY <4>1
    <3>2. <<>> \in Seq(Operations)
      OBVIOUS
    <3>3. \A s, t \in Seq(Operations) : s \o t \in Seq(Operations)
      OBVIOUS
    <3>4. /\ <<J!Op("ATTACH_EVIDENCE", p)>> \in Seq(Operations) /\ <<J!Op("DEPRECATE_PATTERN", p)>> \in Seq(Operations)
          /\ <<J!Op("REVISE_PATTERN", p)>> \in Seq(Operations)
          /\ <<J!Op("CREATE_OBSERVATION", "none")>> \in Seq(Operations)
          /\ <<J!Op("CREATE_CANDIDATE", "curated")>> \in Seq(Operations)
      BY <3>1 DEF OpNames
    <3> QED BY <2>2, <3>2, <3>3, <3>4 DEF J!curate_candidate
  <2>4. /\ curated' \in [Candidates -> [ops : Seq(Operations), t : Nat]]
        /\ curated'[c].t = now /\ \A d \in Candidates \ {c} : curated'[d] = curated[d]
    <3> DEFINE x == [ops |-> o, t |-> now]
    <3>1. x \in [ops : Seq(Operations), t : Nat] /\ x.t = now
      BY <1>1, <2>3
    <3>2. curated' = [curated EXCEPT ![c] = x]
      BY <2>1, <2>2
    <3> HIDE DEF x
    <3> QED BY <3>1, <3>2 DEF JInv, JTyped
  <2>5. Uncurated(c) /\ ~Uncurated(c)'
    BY <1>1, <2>4 DEF Uncurated, J!None
  <2>6. ASSUME NEW d \in Candidates, ~Uncurated(d)
        PROVE  /\ d # c /\ ~Uncurated(d)' /\ curated'[d] = curated[d]
               /\ \A e, i : Proves(e, d, i)' <=> Proves(e, d, i)
               /\ \A i : Recorded(d, i)' <=> Recorded(d, i)
               /\ Proven(d) => Proven(d)'
    <3>1. d # c /\ curated'[d] = curated[d]
      BY <2>4, <2>5, <2>6
    <3>2. \A e, i : Proves(e, d, i)' <=> Proves(e, d, i)
      BY <3>1 DEF Proves, J!Permitted
    <3>3. \A i : Recorded(d, i)' <=> Recorded(d, i)
      BY <1>1, <3>2 DEF Recorded
    <3> QED BY <1>1, <2>6, <3>1, <3>2, <3>3 DEF Uncurated, Proven
  <2>7. Curated'
    BY <2>4, <2>5, <2>6 DEF JInv, Curated, Uncurated
  <2>8. Journaled'
    BY <1>1, <2>6 DEF JInv, Journaled
  <2>9. ASSUME NEW w \in Workers PROVE Applies(w)' /\ Appending(w)'
    <3>1. Applies(w)'
      BY <1>1, <2>6 DEF JInv, Applies
    <3>2. Appending(w)'
      BY <1>1, <2>6 DEF JInv, Applies, Appending, J!SameFile
    <3> QED BY <3>1, <3>2
  <2>10. JTyped'
    BY <1>1, <2>4 DEF JInv, JTyped
  <2> QED BY <2>7, <2>8, <2>9, <2>10 DEF JInv
<1> QED BY <1>2, <1>3

\* What a maintenance run writes belongs to no change set.
LEMMA ReconcileApplies ==
    ASSUME JInv, J!reconcile_lifecycle PROVE JInv' /\ J!ReplacedWhileHeldTwice
<1>1. /\ UNCHANGED <<curated, claim, run>> /\ journal \subseteq journal' /\ now' = now + 1
      /\ \A f \in journal' \ journal : f.c = "none"
  BY DEF J!reconcile_lifecycle, J!Written
<1>2. JTyped' /\ Curated'
  BY <1>1 DEF JInv, JTyped, Curated, Uncurated
<1>3. Kept /\ Journaled'
  BY <1>1, Growing, ProvenStays DEF JInv, Journaled
<1>4. ASSUME NEW w \in Workers PROVE Applies(w)' /\ Appending(w)'
  <2>1. Applies(w) /\ Appending(w) /\ Listed(run[w].left) /\ Listed(run[w].built)
    BY DEF JInv, JTyped
  <2>2. Applies(w)'
    BY <1>1, <1>3, <2>1, ProvenStays DEF Applies
  <2>3. ASSUME run[w].pc = "replace", NEW f \in journal', J!SameFile(run[w].left[1], f) PROVE f \in journal
    <3>1. PICK k \in 1..Len(run[w].built) : run[w].left[1] = run[w].built[k]
      BY <2>1, <2>3, EndingHead DEF Appending
    <3>2. run[w].left[1].c = run[w].c /\ run[w].c # "none"
      BY <2>1, <2>3, <3>1, NobodyIsNamed DEF Applies, Proves
    <3> QED BY <1>1, <2>3, <3>2 DEF J!SameFile
  <2>4. run[w].pc \in {"check", "replace"} =>
            \A j \in 1..Len(run[w].built) - Len(run[w].left) : Recorded(run[w].c, j)'
    BY <1>1, <1>3, <2>1, ProvenStays DEF Appending
  <2>5. Appending(w)'
    BY <1>1, <2>1, <2>3, <2>4 DEF Appending, J!SameFile
  <2> QED BY <2>2, <2>5
<1> QED BY <1>1, <1>2, <1>3, <1>4 DEF JInv, J!ReplacedWhileHeldTwice

LEMMA JInit == J!Init => JInv
<1> SUFFICES ASSUME J!Init PROVE JInv
  OBVIOUS
<1>1. /\ J!Rest = [pc |-> J!Rest.pc, c |-> J!Rest.c, built |-> J!Rest.built, left |-> J!Rest.left]
      /\ J!Rest.pc = "rest" /\ Listed(J!Rest.built) /\ Listed(J!Rest.left)
  <2>1. <<>> \in Seq({})
    OBVIOUS
  <2> QED BY <2>1 DEF J!Rest, Listed
<1>2. \A w \in Workers : run[w] = J!Rest
  BY DEF J!Init
<1>3. run = [w \in Workers |-> [pc |-> run[w].pc, c |-> run[w].c, built |-> run[w].built, left |-> run[w].left]]
  <2>1. run = [w \in Workers |-> run[w]]
    BY DEF J!Init
  <2> QED BY <1>1, <1>2, <2>1
<1>4. curated \in [Candidates -> [ops : Seq(Operations), t : Nat]] /\ \A c \in Candidates : curated[c] = J!None
  <2>1. J!None \in [ops : Seq(Operations), t : Nat]
    BY DEF J!None
  <2> QED BY <2>1 DEF J!Init
<1>5. \A e \in journal : e.c = "none"
  BY DEF J!Init, J!Earlier
<1>6. JTyped
  <2>1. J!Unclaimed \in [by : Workers \cup {"none"}, twice : BOOLEAN]
    BY DEF J!Unclaimed
  <2> QED BY <1>1, <1>2, <1>3, <1>4, <2>1 DEF J!Init, JTyped, JPcs
<1> QED BY <1>1, <1>2, <1>4, <1>5, <1>6 DEF JInv, Curated, Journaled, Applies, Appending

LEMMA JStep == JInv /\ [J!Next]_(J!vars) => JInv' /\ J!ReplacedWhileHeldTwice
<1> SUFFICES ASSUME JInv, [J!Next]_(J!vars) PROVE JInv' /\ J!ReplacedWhileHeldTwice
  OBVIOUS
<1>1. ASSUME NEW w \in Workers, J!Apply(w) \/ J!Stop(w) PROVE JInv' /\ J!ReplacedWhileHeldTwice
  <2>1. JInv'
    BY <1>1, BeginApplies, ValidateApplies, CheckApplies, ReplaceApplies, ReportApplies DEF J!Apply
  <2>2. CASE J!Replace(w)
    BY <2>2, ReplaceApplies
  <2>3. CASE ~J!Replace(w)
    <3>1. journal' = journal
      BY <1>1, <2>3 DEF J!Apply, J!Begin, J!Validate, J!Check, J!Report, J!Finish, J!Stop
    <3> QED BY <2>1, <3>1 DEF J!ReplacedWhileHeldTwice
  <2> QED BY <2>1, <2>2, <2>3
<1>2. ASSUME NEW c \in Candidates, J!Curate(c) PROVE JInv' /\ J!ReplacedWhileHeldTwice
  BY <1>2, CurateApplies DEF J!Curate, J!ReplacedWhileHeldTwice
<1>3. CASE UNCHANGED J!vars
  <2>1. UNCHANGED <<journal, curated, claim, run, now>>
    BY <1>3 DEF J!vars
  <2> QED
    BY <2>1, JSame DEF JInv, JTyped, J!ReplacedWhileHeldTwice
<1> QED BY <1>1, <1>2, <1>3, ReconcileApplies DEF J!Next

LEMMA JProven == JInv => J!AppliedIsProven
<1> SUFFICES ASSUME JInv, NEW c \in Candidates, J!Marked(journal, c) PROVE J!read_application_proof(c)
  BY DEF J!AppliedIsProven
<1>1. PICK e \in journal : e.type = "applied" /\ e.c = c
  BY DEF J!Marked
<1>2. Proven(c)
  BY <1>1, NobodyIsNamed DEF JInv, Journaled
<1>3. curated[c].ops \in Seq(Operations)
  BY DEF JInv, JTyped
<1> QED BY <1>2, <1>3 DEF Proven, Recorded, Proves, J!read_application_proof

-----------------------------------------------------------------------------
(* The composition: a behaviour is one of the component its part names.    *)

LEMMA Starts ==
    Init => /\ part = "journal" => J!Init
            /\ part = "locks" => L!Init
            /\ part = "projection" => P!Init
            /\ part = "maintenance" => M!Init
            /\ part = "setup" => K!Init
  BY DEF Init

\* The variables beside the component of the behaviour stay, and so does part.
LEMMA Steps ==
    [Next]_vars => /\ part' = part
                   /\ part = "journal" => [J!Next]_(J!vars)
                   /\ part = "locks" => [L!Next]_(L!vars)
                   /\ part = "projection" => [P!Next]_(P!vars)
                   /\ part = "maintenance" => [M!Next]_(M!vars)
                   /\ part = "setup" => [K!Next]_(K!vars)
<1> SUFFICES ASSUME [Next]_vars
             PROVE  /\ part' = part
                    /\ part = "journal" => [J!Next]_(J!vars)
                    /\ part = "locks" => [L!Next]_(L!vars)
                    /\ part = "projection" => [P!Next]_(P!vars)
                    /\ part = "maintenance" => [M!Next]_(M!vars)
                    /\ part = "setup" => [K!Next]_(K!vars)
  OBVIOUS
<1>1. CASE Next
  BY <1>1 DEF Next, BesideJ, BesideL, BesideP, BesideM, BesideK
<1>2. CASE UNCHANGED vars
  BY <1>2 DEF vars, J!vars, L!vars, P!vars, M!vars, K!vars
<1> QED BY <1>1, <1>2

\* FileLock and the locks that go by age: while no process dies and none holds a lock longer
\* than its limit, at most one process is inside and the file is its own, whatever the others
\* read before (sync.py FileLock, queue.py _release), for any number of processes.
THEOREM LocksExclude == Spec => []ExclusiveWithoutFaults
<1> DEFINE I == part = "locks" => LInv
<1>1. Init => I
  BY Starts, LInit
<1>2. I /\ [Next]_vars => I'
  BY Steps, LStep
<1>3. I => ExclusiveWithoutFaults
  BY OneHolder DEF ExclusiveWithoutFaults
<1> QED BY <1>1, <1>2, <1>3, PTL DEF Spec

\* project_events: however publishers, the unbounded projection of the command line, deaths and
\* budgets that end interleave, both generations the index names are whole, and so is the one
\* the page for people leads to, for any number of publishers, readers and journal states.
THEOREM PublishedStaysReadable == Spec => []PublishedIsReadable
<1> DEFINE I == part = "projection" => PInv
<1>1. Init => I
  BY Starts, PInit
<1>2. I /\ [Next]_vars => I'
  BY Steps, PStep
<1>3. I => PublishedIsReadable
  BY PShown DEF PublishedIsReadable
<1> QED BY <1>1, <1>2, <1>3, PTL DEF Spec

\* run_maintenance: whatever each stage takes of what it is given, the reserves leave every
\* stage its turn, and a run synchronises only when its projection covers the journal it
\* found and appended to.
THEOREM RunStaysComplete == Spec => RunIsComplete
<1> DEFINE I == part = "maintenance" => MInv
<1>1. Init => I
  BY Starts, MInit
<1>2. I /\ [Next]_vars => I'
  BY Steps, MStep
<1>3. I => (part = "maintenance" => M!StagesGetTheirTurn)
  BY MTurns
<1>4. I /\ [Next]_vars => (part = "maintenance" => M!SyncIsCurrent)
  BY Steps, MCurrent
<1> QED BY <1>1, <1>2, <1>3, <1>4, PTL DEF Spec, RunIsComplete

\* bootstrap_knowledge_repository and apply_github_knowledge_setup, with any number of failures,
\* deaths and pushes of others: a root that did not exist is whole once it exists, COMPLETE is
\* reported only of a root pushed to a private repository, and what others made stays.
THEOREM RootStaysWhole == Spec => RootIsWhole
<1> DEFINE I == part = "setup" => KInv
<1>1. Init => I
  BY Starts, KInit
<1>2. I /\ [Next]_vars => I'
  BY Steps, KStep
<1>3. I => (part = "setup" => K!RootIsWhole)
  BY KRoot
<1>4. I /\ [Next]_vars => (part = "setup" => K!CompleteIsPushed /\ K!OthersAreKept)
  BY Steps, KReported, KKept
<1> QED BY <1>1, <1>2, <1>3, <1>4, PTL DEF Spec, RootIsWhole

\* apply_changeset and append_event, with any number of candidates and workers, of which two
\* may hold one candidate, and through every death and retry: the marker of a change set is in
\* the journal only with an event of a permitted type for every operation, and an event file
\* is replaced only while two workers hold its candidate, by an event of the same operation.
THEOREM AppliedStaysProven ==
    Spec => /\ [](part = "journal" => J!AppliedIsProven)
            /\ [][part = "journal" => J!ReplacedWhileHeldTwice]_vars
<1> DEFINE I == part = "journal" => JInv
<1>1. Init => I
  BY Starts, JInit
<1>2. I /\ [Next]_vars => I'
  BY Steps, JStep
<1>3. I => (part = "journal" => J!AppliedIsProven)
  BY JProven
<1>4. I /\ [Next]_vars => (part = "journal" => J!ReplacedWhileHeldTwice)
  BY Steps, JStep
<1> QED BY <1>1, <1>2, <1>3, <1>4, PTL DEF Spec
=============================================================================
