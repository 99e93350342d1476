-------------------------- MODULE PublishingProofs --------------------------
(***************************************************************************)
(* What holds of what is read or leaves the machine, for every number of   *)
(* machines, readers, workflows, sessions and failures, and for every tree *)
(* of files.  For each component an inductive invariant, that its initial  *)
(* states have it and every action keeps it, and what follows from it; the *)
(* theorems at the end are about the composition of Publishing.            *)
(***************************************************************************)
EXTENDS Publishing, FiniteSetTheorems, WellFoundedInduction, TLAPS

-----------------------------------------------------------------------------
(* Synchronisation (sync.py).  What a rebase makes of two histories is a       *)
(* history again; that, and what a commit projects, is all the proofs use.     *)

Changes == [ev : SUBSET Events, kn : SUBSET Events]
Histories == Seq(Changes)

\* Everything the projections along a history ever showed, and a history that has the
\* events of all of it.
KnsOf(h) == UNION {h[i].kn : i \in 1..Len(h)}
Backed(h) == KnsOf(h) \subseteq Y!EventsOf(h)

\* Every set of numbers has a least one: induction, for the definitions by recursion below.
LEMMA LeastNumber ==
    ASSUME NEW T \in SUBSET Nat, T # {}
    PROVE  \E x \in T : \A y \in T : x <= y
<1> DEFINE R == OpToRel(<, Nat)
<1>1. IsWellFoundedOn(R, Nat)
  BY NatLessThanWellFounded, Zenon
<1>2. PICK x \in T : \A y \in T : ~(<<y, x>> \in R)
  <2> HIDE DEF R
  <2> QED BY <1>1, WFMin
<1>3. \A y \in T : ~(y < x)
  BY <1>2 DEF OpToRel
<1> QED BY <1>3

LEMMA ProjectedTyped ==
    ASSUME NEW h \in Histories
    PROVE  Y!Projected(h) \in SUBSET Events /\ Y!EventsOf(h) \in SUBSET Events
<1>1. \A i \in 1..Len(h) : h[i] \in Changes
  BY DEF Histories
<1>2. Y!EventsOf(h) \in SUBSET Events
  BY <1>1 DEF Y!EventsOf, Changes
<1>3. h # <<>> => Len(h) \in 1..Len(h)
  BY DEF Histories
<1>4. Y!Projected(h) \in SUBSET Events
  BY <1>1, <1>3 DEF Y!Projected, Y!Last, Changes
<1> QED BY <1>2, <1>4

LEMMA ProjectedShown ==
    ASSUME NEW h \in Histories
    PROVE  Y!Projected(h) \subseteq KnsOf(h)
<1>1. h # <<>> => Len(h) \in 1..Len(h)
  BY DEF Histories
<1> QED BY <1>1 DEF Y!Projected, Y!Last, KnsOf

LEMMA CommitMade ==
    ASSUME NEW h \in Histories, NEW ev \in SUBSET Events, NEW k \in SUBSET Events
    PROVE  /\ Y!Commit(h, ev, k) \in Histories
           /\ Y!Projected(Y!Commit(h, ev, k)) = k
           /\ Y!EventsOf(Y!Commit(h, ev, k)) = Y!EventsOf(h) \cup ev
           /\ Y!IsPrefix(h, Y!Commit(h, ev, k))
<1> DEFINE new == [ev |-> ev, kn |-> k]
           c == Append(h, new)
<1>1. new \in Changes /\ new.ev = ev /\ new.kn = k
  BY DEF Changes
<1> HIDE DEF new
<1>2. PICK n \in Nat : n = Len(h)
  BY DEF Histories
<1>3. /\ c \in Histories /\ Len(c) = n + 1 /\ c[n + 1] = new /\ c # <<>>
      /\ \A i \in 1..n : c[i] = h[i]
  BY <1>1, <1>2 DEF Histories
<1>4. Y!Commit(h, ev, k) = c
  BY DEF Y!Commit, new
<1> HIDE DEF c
<1>5. Y!Projected(c) = k
  BY <1>1, <1>3 DEF Y!Projected, Y!Last
<1>6. Y!EventsOf(c) = Y!EventsOf(h) \cup ev
  <2>1. \A i : i \in 1..(n + 1) <=> i \in 1..n \/ i = n + 1
    BY <1>2
  <2>2. \A e : e \in Y!EventsOf(c) <=> \E i \in 1..(n + 1) : e \in c[i].ev
    BY <1>3 DEF Y!EventsOf
  <2>3. \A e : e \in Y!EventsOf(h) <=> \E i \in 1..n : e \in h[i].ev
    BY <1>2 DEF Y!EventsOf
  <2>4. \A e : e \in Y!EventsOf(c) <=> (e \in Y!EventsOf(h) \/ e \in ev)
    BY <2>1, <2>2, <2>3, <1>1, <1>3
  <2> QED BY <2>4
<1>7. Y!IsPrefix(h, c)
  <2>1. SubSeq(h, 1, n) = SubSeq(c, 1, n)
    BY <1>2, <1>3 DEF Histories
  <2> QED BY <2>1, <1>2, <1>3 DEF Y!IsPrefix
<1> QED BY <1>3, <1>4, <1>5, <1>6, <1>7

LEMMA CommitShows ==
    ASSUME NEW h \in Histories, NEW ev \in SUBSET Events, NEW k \in SUBSET Events, NEW c,
           c = Y!Commit(h, ev, k)
    PROVE  KnsOf(c) = KnsOf(h) \cup k
<1> DEFINE new == [ev |-> ev, kn |-> k]
<1>1. new.kn = k
  OBVIOUS
<1>2. PICK n \in Nat : n = Len(h)
  BY DEF Histories
<1>3. c = Append(h, new)
  BY DEF Y!Commit
<1> HIDE DEF new
<1>4. Len(c) = n + 1 /\ c[n + 1] = new /\ \A i \in 1..n : c[i] = h[i]
  BY <1>2, <1>3 DEF Histories
<1>5. \A i : i \in 1..(n + 1) <=> i \in 1..n \/ i = n + 1
  BY <1>2
<1>6. \A e : e \in KnsOf(c) <=> \E i \in 1..(n + 1) : e \in c[i].kn
  BY <1>4 DEF KnsOf
<1>7. \A e : e \in KnsOf(h) <=> \E i \in 1..n : e \in h[i].kn
  BY <1>2 DEF KnsOf
<1>8. \A e : e \in KnsOf(c) <=> (e \in KnsOf(h) \/ e \in k)
  BY <1>1, <1>4, <1>5, <1>6, <1>7
<1> QED BY <1>8

LEMMA PrefixOfItself == \A h \in Histories : Y!IsPrefix(h, h)
  BY DEF Y!IsPrefix, Histories

\* The longest common prefix exists: lengths are bounded by that of the history.
LEMMA BaseTyped ==
    ASSUME NEW h \in Histories, NEW up \in Histories
    PROVE  /\ Y!Base(h, up) \in Histories /\ Len(Y!Base(h, up)) <= Len(h)
           /\ Y!IsPrefix(Y!Base(h, up), h) /\ Y!IsPrefix(Y!Base(h, up), up)
<1> DEFINE Cs == Y!CommonPrefixes({h, up})
<1>1. \A p \in Cs : /\ p \in Histories /\ Len(p) \in Nat /\ Len(p) <= Len(h)
                   /\ Y!IsPrefix(p, h) /\ Y!IsPrefix(p, up)
  <2> SUFFICES ASSUME NEW p \in Cs
               PROVE  /\ p \in Histories /\ Len(p) \in Nat /\ Len(p) <= Len(h)
                      /\ Y!IsPrefix(p, h) /\ Y!IsPrefix(p, up)
    OBVIOUS
  <2>1. PICK s \in {h, up} : p \in Y!Prefixes(s)
    BY DEF Y!CommonPrefixes
  <2>2. PICK l \in 0..Len(s) : p = SubSeq(s, 1, l)
    BY <2>1 DEF Y!Prefixes
  <2>3. s \in Seq(Changes)
    BY DEF Histories
  <2>4. p \in Seq(Changes)
    BY <2>2, <2>3
  <2>5. Y!IsPrefix(p, h) /\ Y!IsPrefix(p, up)
    BY DEF Y!CommonPrefixes
  <2>6. Len(p) \in Nat /\ Len(p) <= Len(h)
    BY <2>4, <2>5 DEF Y!IsPrefix
  <2> QED BY <2>4, <2>5, <2>6 DEF Histories
<1>2. <<>> \in Cs
  <2>1. SubSeq(h, 1, 0) = <<>> /\ 0 \in 0..Len(h)
    BY DEF Histories
  <2>2. <<>> \in Y!Prefixes(h)
    BY <2>1 DEF Y!Prefixes
  <2>3. \A t \in {h, up} : Y!IsPrefix(<<>>, t)
    BY DEF Y!IsPrefix, Histories
  <2> QED BY <2>2, <2>3 DEF Y!CommonPrefixes
<1> HIDE DEF Cs
<1>3. PICK n \in Nat : n = Len(h)
  BY DEF Histories
<1> DEFINE T == {k \in Nat : \E p \in Cs : k + Len(p) = n}
<1>4. T \in SUBSET Nat /\ T # {}
  <2>1. n \in T
    <3>1. n + Len(<<>>) = n
      OBVIOUS
    <3> QED BY <3>1, <1>2
  <2> QED BY <2>1
<1>5. PICK k \in T : \A y \in T : k <= y
  BY <1>4, LeastNumber
<1>6. PICK p \in Cs : k + Len(p) = n
  BY <1>5
<1>7. \A q \in Cs : Len(q) <= Len(p)
  <2> SUFFICES ASSUME NEW q \in Cs
               PROVE  Len(q) <= Len(p)
    OBVIOUS
  <2>1. PICK l \in Nat : l = Len(q) /\ l <= n
    BY <1>1, <1>3
  <2>2. n - l \in T
    <3>1. n - l \in Nat /\ (n - l) + Len(q) = n
      BY <2>1
    <3> QED BY <3>1
  <2>3. k <= n - l
    BY <2>2, <1>5
  <2>4. Len(p) \in Nat /\ k \in Nat
    BY <1>1
  <2> QED BY <2>1, <2>3, <2>4, <1>6
<1>8. Y!Base(h, up) \in Cs
  BY <1>6, <1>7 DEF Y!Base, Y!LongestCommonPrefix, Cs
<1> QED BY <1>1, <1>8

\* A prefix of a history has its commits.
LEMMA PrefixIs ==
    ASSUME NEW p \in Histories, NEW h \in Histories, Y!IsPrefix(p, h)
    PROVE  Len(p) <= Len(h) /\ \A i \in 1..Len(p) : p[i] = h[i]
<1>1. PICK n \in Nat : n = Len(p)
  BY DEF Histories
<1>2. n <= Len(h) /\ Len(h) \in Nat /\ SubSeq(p, 1, n) = SubSeq(h, 1, n)
  BY <1>1 DEF Y!IsPrefix, Histories
<1>3. \A i \in 1..n : SubSeq(p, 1, n)[i] = p[i]
  BY <1>1 DEF Histories
<1>4. \A i \in 1..n : SubSeq(h, 1, n)[i] = h[i]
  BY <1>2 DEF Histories
<1> QED BY <1>1, <1>2, <1>3, <1>4

LEMMA PrefixHolds ==
    ASSUME NEW p \in Histories, NEW h \in Histories, Y!IsPrefix(p, h)
    PROVE  Y!EventsOf(p) \subseteq Y!EventsOf(h) /\ KnsOf(p) \subseteq KnsOf(h)
<1>1. Len(p) \in Nat /\ Len(h) \in Nat /\ Len(p) <= Len(h) /\ \A i \in 1..Len(p) : p[i] = h[i]
  BY PrefixIs DEF Histories
<1>2. \A i \in 1..Len(p) : i \in 1..Len(h)
  BY <1>1
<1> QED BY <1>1, <1>2 DEF Y!EventsOf, KnsOf

\* What a history has beyond its base is the rest of it.
LEMMA OwnIs ==
    ASSUME NEW h \in Histories, NEW up \in Histories
    PROVE  LET own == Y!Own(h, up)
               base == Y!Base(h, up)
           IN /\ own \in Histories
              /\ Y!EventsOf(h) = Y!EventsOf(base) \cup Y!EventsOf(own)
              /\ KnsOf(own) \subseteq KnsOf(h)
              /\ own # <<>> => Y!Projected(h) = own[Len(own)].kn
              /\ own = <<>> => Y!Projected(h) = Y!Projected(base)
<1> DEFINE own == Y!Own(h, up)
           base == Y!Base(h, up)
<1>1. PICK b \in Nat : b = Len(base) /\ b <= Len(h)
  BY BaseTyped DEF Histories
<1>2. PICK n \in Nat : n = Len(h)
  BY DEF Histories
<1>3. h \in Seq(Changes) /\ b + 1 \in Int /\ own = SubSeq(h, b + 1, n)
  BY <1>1, <1>2 DEF Y!Own, Histories
<1>4. own \in Seq(Changes) /\ Len(own) = n - b
  BY <1>1, <1>2, <1>3
<1>5. \A i \in 1..(n - b) : own[i] = h[b + i]
  BY <1>1, <1>2, <1>3
<1>6. base \in Histories /\ \A i \in 1..b : base[i] = h[i]
  BY <1>1, BaseTyped, PrefixIs
<1> HIDE DEF own, base
<1>7. \A i : i \in 1..n <=> (i \in 1..b \/ \E j \in 1..(n - b) : i = b + j)
  <2> SUFFICES ASSUME NEW i
               PROVE  i \in 1..n <=> (i \in 1..b \/ \E j \in 1..(n - b) : i = b + j)
    OBVIOUS
  <2>1. ASSUME i \in 1..n, i \notin 1..b
        PROVE  \E j \in 1..(n - b) : i = b + j
    <3>1. i - b \in 1..(n - b) /\ i = b + (i - b)
      BY <2>1, <1>1, <1>2
    <3> QED BY <3>1
  <2>2. ASSUME NEW j \in 1..(n - b), i = b + j
        PROVE  i \in 1..n
    BY <2>2, <1>1, <1>2
  <2>3. i \in 1..b => i \in 1..n
    BY <1>1, <1>2
  <2> QED BY <2>1, <2>2, <2>3
<1>8. Y!EventsOf(h) = Y!EventsOf(base) \cup Y!EventsOf(own)
  <2>1. \A e : e \in Y!EventsOf(h) <=> \E i \in 1..n : e \in h[i].ev
    BY <1>2 DEF Y!EventsOf
  <2>2. \A e : e \in Y!EventsOf(base) <=> \E i \in 1..b : e \in h[i].ev
    BY <1>1, <1>6 DEF Y!EventsOf
  <2>3. \A e : e \in Y!EventsOf(own) <=> \E j \in 1..(n - b) : e \in h[b + j].ev
    BY <1>4, <1>5 DEF Y!EventsOf
  <2>4. \A e : e \in Y!EventsOf(h) <=> (e \in Y!EventsOf(base) \/ e \in Y!EventsOf(own))
    BY <1>7, <2>1, <2>2, <2>3
  <2> QED BY <2>4
<1>9. KnsOf(own) \subseteq KnsOf(h)
  <2>1. \A e : e \in KnsOf(h) <=> \E i \in 1..n : e \in h[i].kn
    BY <1>2 DEF KnsOf
  <2>2. \A e : e \in KnsOf(own) <=> \E j \in 1..(n - b) : e \in h[b + j].kn
    BY <1>4, <1>5 DEF KnsOf
  <2> QED BY <1>7, <2>1, <2>2
<1>10. own # <<>> => Y!Projected(h) = own[Len(own)].kn
  <2> SUFFICES ASSUME own # <<>>
               PROVE  Y!Projected(h) = own[Len(own)].kn
    OBVIOUS
  <2>1. n - b \in Nat /\ n - b # 0
    BY <1>1, <1>2, <1>4
  <2>2. n - b \in 1..(n - b) /\ b + (n - b) = n /\ n # 0
    BY <2>1, <1>1, <1>2
  <2>3. own[n - b] = h[n]
    BY <2>2, <1>5
  <2>4. h # <<>>
    BY <2>2, <1>2
  <2> QED BY <2>3, <2>4, <1>2, <1>4 DEF Y!Projected, Y!Last
<1>11. own = <<>> => Y!Projected(h) = Y!Projected(base)
  <2> SUFFICES ASSUME own = <<>>
               PROVE  Y!Projected(h) = Y!Projected(base)
    OBVIOUS
  <2>1. n = b
    BY <1>1, <1>2, <1>4
  <2>2. h = <<>> <=> base = <<>>
    BY <2>1, <1>1, <1>2, <1>3, <1>6 DEF Histories
  <2>3. h # <<>> => n \in 1..b
    BY <2>1, <1>2, <1>3
  <2> QED BY <2>1, <2>2, <2>3, <1>1, <1>2, <1>6 DEF Y!Projected, Y!Last
<1> QED BY <1>4, <1>8, <1>9, <1>10, <1>11 DEF own, base, Histories

LEMMA ReplayIs ==
    ASSUME NEW acc \in Histories, NEW c \in Changes, NEW before
    PROVE  LET r == Y!Replay(acc, c, before)
           IN /\ r \in Histories
              /\ Y!Projected(r) = IF c.kn = before THEN Y!Projected(acc) ELSE c.kn
              /\ Y!EventsOf(r) = Y!EventsOf(acc) \cup c.ev
              /\ KnsOf(r) \subseteq KnsOf(acc) \cup c.kn
<1> DEFINE ev == c.ev \ Y!EventsOf(acc)
           k == IF c.kn = before THEN Y!Projected(acc) ELSE c.kn
<1>1. /\ ev \in SUBSET Events /\ k \in SUBSET Events /\ k \subseteq KnsOf(acc) \cup c.kn
      /\ Y!EventsOf(acc) \cup ev = Y!EventsOf(acc) \cup c.ev
  BY ProjectedTyped, ProjectedShown DEF Changes
<1>2. Y!Replay(acc, c, before) = IF ev = {} /\ k = Y!Projected(acc) THEN acc ELSE Y!Commit(acc, ev, k)
  BY DEF Y!Replay
<1>3. k = IF c.kn = before THEN Y!Projected(acc) ELSE c.kn
  OBVIOUS
<1> HIDE DEF ev, k
<1>4. CASE ev = {} /\ k = Y!Projected(acc)
  BY <1>1, <1>2, <1>3, <1>4
<1>5. CASE ~(ev = {} /\ k = Y!Projected(acc))
  <2>1. Y!Replay(acc, c, before) = Y!Commit(acc, ev, k)
    BY <1>2, <1>5
  <2>2. PICK r : r = Y!Commit(acc, ev, k)
    OBVIOUS
  <2>3. /\ r \in Histories /\ Y!Projected(r) = k /\ Y!EventsOf(r) = Y!EventsOf(acc) \cup ev
    BY <1>1, <2>2, CommitMade
  <2>4. KnsOf(r) = KnsOf(acc) \cup k
    BY <1>1, <2>2, CommitShows
  <2> QED BY <1>1, <1>3, <2>1, <2>2, <2>3, <2>4
<1> QED BY <1>4, <1>5

\* What i replayed commits of own have made of the upstream up.
Replayed(f, up, own, old, i) ==
    /\ f \in Histories
    /\ \A e : e \in Y!EventsOf(f) <=> e \in Y!EventsOf(up) \/ \E j \in 1..i : e \in own[j].ev
    /\ \A e \in KnsOf(f) : e \in KnsOf(up) \/ \E j \in 1..i : e \in own[j].kn
    /\ Y!Projected(f) = IF \E j \in 1..i : own[j].kn # old THEN own[i].kn ELSE Y!Projected(up)

LEMMA ReplayGoesOn ==
    ASSUME NEW up \in Histories, NEW own \in Histories, NEW old, NEW i \in 1..Len(own), NEW f,
           Replayed(f, up, own, old, i - 1)
    PROVE  Replayed(Y!Replay(f, own[i], IF i = 1 THEN old ELSE own[i - 1].kn), up, own, old, i)
<1> DEFINE before == IF i = 1 THEN old ELSE own[i - 1].kn
<1>1. PICK x : x = before
  OBVIOUS
<1>2. PICK c \in Changes : c = own[i]
  BY DEF Histories
<1>3. PICK g : g = Y!Replay(f, c, x)
  OBVIOUS
<1>4. /\ g \in Histories /\ Y!EventsOf(g) = Y!EventsOf(f) \cup c.ev
      /\ KnsOf(g) \subseteq KnsOf(f) \cup c.kn
      /\ Y!Projected(g) = IF c.kn = x THEN Y!Projected(f) ELSE c.kn
  BY <1>3, ReplayIs DEF Replayed
<1>5. \A j : j \in 1..i <=> (j \in 1..(i - 1) \/ j = i)
  BY DEF Histories
<1>6. \A e : e \in Y!EventsOf(g) <=> e \in Y!EventsOf(up) \/ \E j \in 1..i : e \in own[j].ev
  <2>1. \A e : (\E j \in 1..i : e \in own[j].ev)
                <=> (\E j \in 1..(i - 1) : e \in own[j].ev) \/ e \in c.ev
    BY <1>2, <1>5
  <2>2. \A e : e \in Y!EventsOf(g) <=> e \in Y!EventsOf(f) \/ e \in c.ev
    BY <1>4
  <2> QED BY <2>1, <2>2 DEF Replayed
<1>7. \A e \in KnsOf(g) : e \in KnsOf(up) \/ \E j \in 1..i : e \in own[j].kn
  <2>1. \A e : (\E j \in 1..i : e \in own[j].kn)
                <=> (\E j \in 1..(i - 1) : e \in own[j].kn) \/ e \in c.kn
    BY <1>2, <1>5
  <2>2. \A e \in KnsOf(g) : e \in KnsOf(f) \/ e \in c.kn
    BY <1>4
  <2> QED BY <2>1, <2>2 DEF Replayed
<1>8. Y!Projected(g) = IF \E j \in 1..i : own[j].kn # old THEN c.kn ELSE Y!Projected(up)
  <2>1. CASE \E j \in 1..(i - 1) : own[j].kn # old
    <3>1. i # 1
      BY <2>1
    <3>2. Y!Projected(f) = x
      BY <2>1, <3>1, <1>1 DEF Replayed
    <3>3. \E j \in 1..i : own[j].kn # old
      BY <2>1, <1>5
    <3> QED BY <3>2, <3>3, <1>4
  <2>2. CASE ~\E j \in 1..(i - 1) : own[j].kn # old
    <3>1. Y!Projected(f) = Y!Projected(up)
      BY <2>2 DEF Replayed
    <3>2. i # 1 => i - 1 \in 1..(i - 1)
      BY DEF Histories
    <3>3. x = old
      BY <2>2, <3>2, <1>1
    <3>4. (\E j \in 1..i : own[j].kn # old) <=> c.kn # old
      BY <2>2, <1>2, <1>5
    <3> QED BY <3>1, <3>3, <3>4, <1>4
  <2> QED BY <2>1, <2>2
<1>9. Replayed(g, up, own, old, i)
  BY <1>2, <1>4, <1>6, <1>7, <1>8 DEF Replayed
<1> QED BY <1>1, <1>2, <1>3, <1>9

\* git rebase as a recursion over the commits to replay: it is defined, by induction on how
\* many have been replayed; its result has the events of both sides, and its projection is
\* the upstream's unless an own commit changed it.
LEMMA RebasedIs ==
    ASSUME NEW h \in Histories, NEW up \in Histories
    PROVE  LET own == Y!Own(h, up)
           IN  Replayed(Y!Rebased(h, up), up, own, Y!Projected(Y!Base(h, up)), Len(own))
<1> DEFINE own == Y!Own(h, up)
           old == Y!Projected(Y!Base(h, up))
           n == Len(own)
           Prev(i) == IF i = 1 THEN old ELSE own[i - 1].kn
           Fill(m, g) == [i \in 0..m |-> IF i = 0 THEN up ELSE Y!Replay(g[i - 1], own[i], Prev(i))]
           Good(m) == \E g \in [0..m -> Histories] : g = Fill(m, g)
<1>1. own \in Histories /\ n \in Nat /\ \A i \in 1..n : own[i] \in Changes
  BY OwnIs DEF Histories
<1>9. \A i, f : Y!Replay(f, own[i], Prev(i)) = Y!Replay(f, own[i], IF i = 1 THEN old ELSE own[i - 1].kn)
  OBVIOUS
<1>10. Y!Rebased(h, up) = LET replay == CHOOSE f : f = Fill(n, f) IN replay[n]
  BY DEF Y!Rebased
<1> HIDE DEF own, old, n, Prev
<1>2. Good(0)
  <2> DEFINE g == [i \in 0..0 |-> up]
  <2>1. g \in [0..0 -> Histories]
    OBVIOUS
  <2>2. g = Fill(0, g)
    <3>1. \A i \in 0..0 : i = 0
      OBVIOUS
    <3> QED BY <3>1
  <2> QED BY <2>1, <2>2
<1>3. ASSUME NEW m \in Nat, m < n, Good(m)
      PROVE  Good(m + 1)
  <2>1. PICK g \in [0..m -> Histories] : g = Fill(m, g)
    BY <1>3
  <2> DEFINE x == Y!Replay(g[m], own[m + 1], Prev(m + 1))
             f == [i \in 0..(m + 1) |-> IF i = m + 1 THEN x ELSE g[i]]
  <2>2. x \in Histories
    <3>1. g[m] \in Histories /\ own[m + 1] \in Changes
      BY <1>1, <1>3
    <3> QED BY <3>1, ReplayIs
  <2>3. \A i \in 0..(m + 1) : i \in 0..m \/ i = m + 1
    OBVIOUS
  <2>4. f \in [0..(m + 1) -> Histories]
    <3> HIDE DEF x
    <3> QED BY <2>2, <2>3
  <2>5. f[m + 1] = x /\ (\A i \in 0..m : f[i] = g[i])
    <3> HIDE DEF x
    <3> QED OBVIOUS
  <2> HIDE DEF f
  <2>6. ASSUME NEW i \in 0..(m + 1)
        PROVE  f[i] = IF i = 0 THEN up ELSE Y!Replay(f[i - 1], own[i], Prev(i))
    <3>1. CASE i = m + 1
      <4>1. f[i - 1] = g[m] /\ i # 0
        BY <2>5, <3>1
      <4> QED BY <4>1, <3>1, <2>5
    <3>2. CASE i \in 0..m
      <4>1. g[i] = IF i = 0 THEN up ELSE Y!Replay(g[i - 1], own[i], Prev(i))
        BY <2>1, <3>2
      <4>2. i # 0 => f[i - 1] = g[i - 1]
        BY <2>5, <3>2
      <4> QED BY <4>1, <4>2, <2>5, <3>2
    <3> QED BY <3>1, <3>2, <2>3
  <2>7. f = Fill(m + 1, f)
    BY <2>4, <2>6
  <2> QED BY <2>4, <2>7
<1>4. Good(n)
  <2> SUFFICES ASSUME ~Good(n)
               PROVE  FALSE
    OBVIOUS
  <2> DEFINE T == {m \in 0..n : ~Good(m)}
  <2>1. T \in SUBSET Nat /\ n \in T
    BY <1>1
  <2>2. PICK m \in T : \A y \in T : m <= y
    BY <2>1, LeastNumber
  <2>3. m # 0
    BY <1>2, <2>2
  <2>4. m - 1 \in Nat /\ m - 1 < n /\ m - 1 \in 0..n /\ ~(m <= m - 1) /\ (m - 1) + 1 = m
    BY <2>2, <2>3, <1>1
  <2>5. Good(m - 1)
    BY <2>2, <2>4
  <2>6. Good(m)
    BY <2>4, <2>5, <1>3
  <2> QED BY <2>2, <2>6
<1>5. PICK g \in [0..n -> Histories] : g = Fill(n, g)
  BY <1>4
<1> DEFINE replay == CHOOSE f : f = Fill(n, f)
<1>6. replay = Fill(n, replay)
  BY <1>5
<1>7. Y!Rebased(h, up) = replay[n]
  BY <1>10
<1> HIDE DEF replay
<1>8. \A i \in 0..n : Replayed(replay[i], up, own, old, i)
  <2> SUFFICES ASSUME NEW z \in 0..n, ~Replayed(replay[z], up, own, old, z)
               PROVE  FALSE
    OBVIOUS
  <2> DEFINE T == {m \in 0..n : ~Replayed(replay[m], up, own, old, m)}
  <2>1. T \in SUBSET Nat /\ z \in T
    BY <1>1
  <2>2. PICK m \in T : \A y \in T : m <= y
    BY <2>1, LeastNumber
  <2>3. replay[m] = IF m = 0 THEN up ELSE Y!Replay(replay[m - 1], own[m], Prev(m))
    BY <1>6, <2>2
  <2>4. m # 0
    <3> SUFFICES ASSUME m = 0
                 PROVE  FALSE
      OBVIOUS
    <3>1. replay[m] = up /\ 1..0 = {}
      BY <2>3
    <3>2. Replayed(up, up, own, old, 0)
      BY <3>1 DEF Replayed
    <3> QED BY <2>2, <3>1, <3>2
  <2>5. m - 1 \in 0..n /\ ~(m <= m - 1) /\ m \in 1..n
    BY <2>2, <2>4, <1>1
  <2>6. Replayed(replay[m - 1], up, own, old, m - 1)
    BY <2>2, <2>5
  <2>7. m \in 1..Len(own)
    BY <2>5 DEF n
  <2>8. Replayed(Y!Replay(replay[m - 1], own[m], IF m = 1 THEN old ELSE own[m - 1].kn), up, own, old, m)
    BY <2>6, <2>7, <1>1, ReplayGoesOn
  <2> QED BY <2>2, <2>3, <2>4, <2>8, <1>9
<1>11. Replayed(Y!Rebased(h, up), up, own, old, n)
  BY <1>1, <1>7, <1>8
<1> QED BY <1>11 DEF own, old, n

\* A history whose last projection is that of all its events.
Fits(h) == Y!Projected(h) = Y!EventsOf(h) \cap Shown

\* A rebase keeps the events of both sides, and shows nothing either side did not.
LEMMA RebasedHolds ==
    ASSUME NEW h \in Histories, NEW up \in Histories
    PROVE  LET g == Y!Rebased(h, up)
           IN /\ g \in Histories /\ Y!EventsOf(g) = Y!EventsOf(up) \cup Y!EventsOf(h)
              /\ KnsOf(g) \subseteq KnsOf(up) \cup KnsOf(h)
<1> DEFINE own == Y!Own(h, up)
           base == Y!Base(h, up)
           old == Y!Projected(base)
           n == Len(own)
<1>1. PICK g : g = Y!Rebased(h, up)
  OBVIOUS
<1>2. Replayed(g, up, own, old, n)
  BY <1>1, RebasedIs
<1>3. /\ Y!EventsOf(h) = Y!EventsOf(base) \cup Y!EventsOf(own)
      /\ KnsOf(own) \subseteq KnsOf(h)
  BY OwnIs
<1>4. Y!EventsOf(base) \subseteq Y!EventsOf(up)
  BY BaseTyped, PrefixHolds
<1> HIDE DEF own, base, old
<1>5. /\ g \in Histories /\ Y!EventsOf(g) = Y!EventsOf(up) \cup Y!EventsOf(own)
      /\ KnsOf(g) \subseteq KnsOf(up) \cup KnsOf(own)
  BY <1>2 DEF Replayed, Y!EventsOf, KnsOf
<1> QED BY <1>1, <1>3, <1>4, <1>5

\* A rebase without conflict of a history that fits on one that fits makes one that fits: no
\* projection is needed to publish it.
LEMMA RebasedFits ==
    ASSUME NEW h \in Histories, NEW up \in Histories, Fits(h), Fits(up), Backed(h), Backed(up),
           ~Y!Conflicts(h, up)
    PROVE  Fits(Y!Rebased(h, up))
<1> DEFINE own == Y!Own(h, up)
           base == Y!Base(h, up)
           old == Y!Projected(base)
           n == Len(own)
           touched == {i \in 1..n : own[i].kn # old}
<1>1. PICK g : g = Y!Rebased(h, up)
  OBVIOUS
<1>2. Replayed(g, up, own, old, n)
  BY <1>1, RebasedIs
<1>3. Y!EventsOf(g) = Y!EventsOf(up) \cup Y!EventsOf(h)
  BY <1>1, RebasedHolds
<1>4. /\ own \in Histories /\ KnsOf(own) \subseteq KnsOf(h)
      /\ own # <<>> => Y!Projected(h) = own[n].kn
      /\ own = <<>> => Y!Projected(h) = old
  BY OwnIs
<1>5. old \subseteq KnsOf(up) /\ old \subseteq KnsOf(h)
  <2>1. base \in Histories /\ KnsOf(base) \subseteq KnsOf(up) /\ KnsOf(base) \subseteq KnsOf(h)
    BY BaseTyped, PrefixHolds
  <2> QED BY <2>1, ProjectedShown
<1>6. touched # {} =>
          \E i \in touched : Y!Projected(up) \in {old, own[i].kn}
  <2> DEFINE first == CHOOSE i \in touched : \A j \in touched : i <= j
  <2>1. touched \in SUBSET Nat
    BY <1>4 DEF Histories
  <2>2. touched # {} => first \in touched
    <3>1. touched # {} => \E i \in touched : \A j \in touched : i <= j
      BY <2>1, LeastNumber
    <3> HIDE DEF touched
    <3> QED BY <3>1
  <2>3. touched # {} => Y!Projected(up) \in {old, own[first].kn}
    BY DEF Y!Conflicts
  <2> HIDE DEF touched, first
  <2> QED BY <2>2, <2>3
<1>7. n \in Nat /\ (own # <<>> => n \in 1..n)
  BY <1>4 DEF Histories
<1>8. \A i \in 1..n : own[i].kn \subseteq KnsOf(own)
  BY DEF KnsOf
<1>9. \A i : i \in touched <=> (i \in 1..n /\ own[i].kn # old)
  OBVIOUS
<1> HIDE DEF own, base, old, n, touched
<1>10. CASE touched = {}
  <2>1. Y!Projected(g) = Y!Projected(up)
    BY <1>2, <1>9, <1>10 DEF Replayed
  <2>2. Y!Projected(h) = old
    BY <1>4, <1>7, <1>9, <1>10
  <2> QED BY <1>1, <1>3, <1>5, <2>1, <2>2 DEF Fits, Backed
<1>11. CASE touched # {}
  <2>1. PICK i \in touched : Y!Projected(up) \in {old, own[i].kn}
    BY <1>6, <1>11
  <2>2. i \in 1..n /\ own[i].kn # old
    BY <1>9
  <2>3. own # <<>>
    BY <2>2 DEF n
  <2>4. Y!Projected(g) = Y!Projected(h)
    BY <1>2, <1>4, <2>2, <2>3 DEF Replayed
  <2>5. Y!Projected(up) \subseteq Y!EventsOf(h)
    BY <1>4, <1>5, <1>8, <2>1, <2>2 DEF Backed
  <2> QED BY <1>1, <1>3, <2>4, <2>5 DEF Fits
<1> QED BY <1>10, <1>11

Attempts == [pc : {"idle", "cleanup", "planned", "owned", "ready", "copy", "push", "reconcile",
                   "merge"},
             plan : SUBSET Events, proj : BOOLEAN, tree : Histories, races : Nat,
             pushed : BOOLEAN]

STyped == /\ remote \in Histories /\ head \in [Machines -> Histories]
          /\ disk \in [Machines -> SUBSET Events] /\ kn \in [Machines -> SUBSET Events]
          /\ wt \in [Machines -> SUBSET {"dir", "owner"}]
          /\ run \in [Machines -> Attempts]

\* What an attempt carries: until it is projected, what its history shows has its events there
\* or in the plan; then there; and what is about to be pushed fits.
Carried(b) ==
    /\ b.pc \in {"planned", "owned", "ready", "copy"} =>
           KnsOf(b.tree) \subseteq Y!EventsOf(b.tree) \cup b.plan
    /\ b.pc \in {"push", "reconcile", "merge"} => Backed(b.tree)
    /\ b.pc = "push" => Fits(b.tree)

\* What an attempt may rely on: its source shows nothing whose event is not on disk, what it
\* merges continues its HEAD, and its worktree is on record.
Attempting(m) ==
    /\ kn[m] \subseteq disk[m] /\ KnsOf(head[m]) \subseteq disk[m]
    /\ Carried(run[m])
    /\ run[m].pc = "merge" => Y!IsPrefix(head[m], run[m].tree)
    /\ run[m].pc = "owned" \/ "dir" \in wt[m] => "owner" \in wt[m]

SInv == STyped /\ Fits(remote) /\ Backed(remote) /\ \A m \in Machines : Attempting(m)

LEMMA EmptyFits == <<>> \in Histories /\ Fits(<<>>) /\ Backed(<<>>) /\ KnsOf(<<>>) = {}
<1>1. Y!EventsOf(<<>>) = {} /\ KnsOf(<<>>) = {}
  BY DEF Y!EventsOf, KnsOf
<1> QED BY <1>1 DEF Fits, Backed, Y!Projected, Histories

LEMMA IdleAttempt ==
    /\ Y!Idle \in Attempts /\ Y!Idle.pc = "idle"
    /\ [Y!Idle EXCEPT !.pc = "cleanup"] \in Attempts
    /\ [Y!Idle EXCEPT !.pc = "cleanup"].pc = "cleanup"
    /\ [Y!Idle EXCEPT !.pc = "idle"] = Y!Idle
<1>1. Y!Idle \in Attempts /\ Y!Idle.pc = "idle"
  BY EmptyFits DEF Y!Idle, Attempts
<1>2. /\ [Y!Idle EXCEPT !.pc = "cleanup"] \in Attempts
      /\ [Y!Idle EXCEPT !.pc = "cleanup"].pc = "cleanup"
  BY <1>1 DEF Attempts
<1>3. [Y!Idle EXCEPT !.pc = "idle"] = Y!Idle
  BY DEF Y!Idle
<1> QED BY <1>1, <1>2, <1>3

LEMMA SInit == Y!Init => SInv
<1> SUFFICES ASSUME Y!Init
             PROVE  SInv
  OBVIOUS
<1>1. STyped
  BY EmptyFits, IdleAttempt DEF Y!Init, STyped
<1>2. ASSUME NEW m \in Machines
      PROVE  Attempting(m)
  BY IdleAttempt, EmptyFits DEF Y!Init, Attempting, Carried
<1> QED BY <1>1, <1>2, EmptyFits DEF SInv, Y!Init

\* What a projected commit shows is the projection of everything that is there.
LEMMA CommittedFits ==
    ASSUME NEW h \in Histories, NEW ev \in SUBSET Events,
           KnsOf(h) \subseteq Y!EventsOf(h) \cup ev
    PROVE  /\ Y!Committed(h, ev) \in Histories /\ Fits(Y!Committed(h, ev))
           /\ Backed(Y!Committed(h, ev))
<1> DEFINE new == ev \ Y!EventsOf(h)
           all == Y!projection_source_state(Y!EventsOf(h) \cup ev)
<1>1. /\ Y!EventsOf(h) \in SUBSET Events /\ new \in SUBSET Events /\ all \in SUBSET Events
      /\ all = (Y!EventsOf(h) \cup ev) \cap Shown
  BY ProjectedTyped DEF Y!projection_source_state
<1>2. CASE new = {} /\ Y!Projected(h) = all
  <2>1. Y!EventsOf(h) \cup ev = Y!EventsOf(h)
    BY <1>2
  <2>2. Y!Committed(h, ev) = h
    BY <1>2 DEF Y!Committed
  <2> QED BY <1>1, <1>2, <2>1, <2>2 DEF Fits, Backed
<1>3. CASE ~(new = {} /\ Y!Projected(h) = all)
  <2>1. Y!Committed(h, ev) = Y!Commit(h, new, all)
    BY <1>3 DEF Y!Committed
  <2>2. Y!EventsOf(h) \cup new = Y!EventsOf(h) \cup ev
    OBVIOUS
  <2> HIDE DEF new, all
  <2>3. PICK c : c = Y!Commit(h, new, all)
    OBVIOUS
  <2>5. new \in SUBSET Events /\ all \in SUBSET Events
    BY <1>1
  <2>4. /\ c \in Histories /\ Y!Projected(c) = all /\ Y!EventsOf(c) = Y!EventsOf(h) \cup new
        /\ KnsOf(c) = KnsOf(h) \cup all
    <3>1. c \in Histories /\ Y!Projected(c) = all
      BY <2>3, <2>5, CommitMade, Zenon
    <3>2. Y!EventsOf(c) = Y!EventsOf(h) \cup new
      BY <2>3, <2>5, CommitMade, Zenon
    <3>3. KnsOf(c) = KnsOf(h) \cup all
      BY <2>3, <2>5, CommitShows
    <3> QED BY <3>1, <3>2, <3>3
  <2> QED BY <1>1, <2>1, <2>2, <2>3, <2>4 DEF Fits, Backed
<1> QED BY <1>2, <1>3

\* What a step of one machine may change: its own attempt, and the stores by the rules of git.
LEMMA OwnStep ==
    ASSUME SInv, NEW m \in Machines, NEW b \in Attempts, run' = [run EXCEPT ![m] = b],
           STyped', Fits(remote'), Backed(remote'), Y!IsPrefix(remote, remote'),
           \A q \in Machines : q # m => UNCHANGED <<head[q], disk[q], kn[q], wt[q]>>,
           Y!IsPrefix(head[m], head'[m]), disk[m] \subseteq disk'[m],
           kn'[m] \subseteq disk'[m], KnsOf(head'[m]) \subseteq disk'[m], Carried(b),
           b.pc = "merge" => Y!IsPrefix(head'[m], b.tree),
           b.pc = "owned" \/ "dir" \in wt'[m] => "owner" \in wt'[m]
    PROVE  SInv' /\ Y!NothingPublishedIsLost
<1>1. /\ run'[m] = b
      /\ \A q \in Machines : q # m => run'[q] = run[q]
  BY DEF SInv, STyped
<1>2. Attempting(m)'
  BY <1>1 DEF Attempting, Carried, Fits, Backed
<1>3. ASSUME NEW q \in Machines, q # m
      PROVE  Attempting(q)'
  <2>1. Attempting(q)
    BY DEF SInv
  <2>2. /\ run'[q] = run[q] /\ head'[q] = head[q] /\ wt'[q] = wt[q]
        /\ disk'[q] = disk[q] /\ kn'[q] = kn[q]
    BY <1>1, <1>3
  <2> QED BY <2>1, <2>2 DEF Attempting, Carried, Fits, Backed
<1>4. \A q \in Machines : disk[q] \subseteq disk'[q] /\ Y!IsPrefix(head[q], head'[q])
  <2>1. \A q \in Machines : Y!IsPrefix(head[q], head[q])
    BY PrefixOfItself DEF SInv, STyped
  <2> QED BY <2>1
<1> QED BY <1>2, <1>3, <1>4 DEF SInv, Fits, Backed, Y!NothingPublishedIsLost

\* An attempt that only goes on: its stores stay.
LEMMA GoesOn ==
    ASSUME SInv, NEW m \in Machines, NEW b \in Attempts, run' = [run EXCEPT ![m] = b],
           UNCHANGED <<remote, head, disk, kn, wt>>, Carried(b),
           b.pc = "merge" => Y!IsPrefix(head[m], b.tree),
           b.pc = "owned" => "owner" \in wt[m]
    PROVE  SInv' /\ Y!NothingPublishedIsLost
<1>1. STyped' /\ Fits(remote') /\ Backed(remote')
  BY DEF SInv, STyped, Fits, Backed
<1>2. Y!IsPrefix(remote, remote') /\ Y!IsPrefix(head[m], head'[m])
  BY PrefixOfItself DEF SInv, STyped
<1>3. /\ "dir" \in wt'[m] => "owner" \in wt'[m]
      /\ kn'[m] \subseteq disk'[m] /\ KnsOf(head'[m]) \subseteq disk'[m]
  BY DEF SInv, Attempting
<1> QED BY <1>1, <1>2, <1>3, OwnStep

\* The end of an attempt: idle, or the cleanup of its worktree.
LEMMA FinishShape ==
    ASSUME NEW m \in Machines, NEW why, Y!Finish(m, why)
    PROVE  \E b \in Attempts : b.pc \in {"idle", "cleanup"} /\ run' = [run EXCEPT ![m] = b]
<1>1. \/ run' = [run EXCEPT ![m] = [Y!Idle EXCEPT !.pc = "idle"]]
      \/ run' = [run EXCEPT ![m] = [Y!Idle EXCEPT !.pc = "cleanup"]]
  BY DEF Y!Finish
<1> QED BY <1>1, IdleAttempt

LEMMA FinishKeeps ==
    ASSUME SInv, NEW m \in Machines, NEW why, Y!Finish(m, why),
           UNCHANGED <<remote, head, disk, kn, wt>>
    PROVE  SInv' /\ Y!NothingPublishedIsLost
<1>1. PICK b \in Attempts : b.pc \in {"idle", "cleanup"} /\ run' = [run EXCEPT ![m] = b]
  BY FinishShape
<1> QED BY <1>1, GoesOn DEF Carried

\* The next label of an attempt.
LEMMA StepShape ==
    ASSUME SInv, NEW m \in Machines,
           NEW pcn \in {"cleanup", "owned", "ready", "merge"}, Y!Step(m, pcn)
    PROVE  \E b \in Attempts : /\ b.pc = pcn /\ b.tree = run[m].tree /\ b.plan = run[m].plan
                               /\ run' = [run EXCEPT ![m] = b]
<1> DEFINE b == [run[m] EXCEPT !.pc = pcn]
<1>1. run[m] \in Attempts
  BY DEF SInv, STyped
<1>2. b \in Attempts /\ b.pc = pcn /\ b.tree = run[m].tree /\ b.plan = run[m].plan
  BY <1>1 DEF Attempts
<1>3. run' = [run EXCEPT ![m] = b]
  BY DEF Y!Step
<1> QED BY <1>2, <1>3

LEMMA SourceKeeps ==
    ASSUME SInv, NEW m \in Machines,
           Y!ProjectSource(m) \/ (\E e \in Events : Y!AppendEvent(m, e))
                              \/ (\E p \in Paths : Y!UserFile(m, p))
    PROVE  SInv' /\ Y!NothingPublishedIsLost
<1>1. UNCHANGED <<remote, head, wt, run>>
  BY DEF Y!ProjectSource, Y!AppendEvent, Y!UserFile
<1>2. /\ disk' \in [Machines -> SUBSET Events] /\ kn' \in [Machines -> SUBSET Events]
      /\ \A q \in Machines : disk[q] \subseteq disk'[q] /\ kn'[q] \subseteq disk'[q]
  <2>0. \A q \in Machines : kn[q] \subseteq disk[q]
    BY DEF SInv, Attempting
  <2>1. CASE Y!ProjectSource(m)
    BY <2>0, <2>1 DEF Y!ProjectSource, Y!projection_source_state, SInv, STyped
  <2>2. ASSUME NEW e \in Events, Y!AppendEvent(m, e)
        PROVE  /\ disk' \in [Machines -> SUBSET Events] /\ UNCHANGED kn
               /\ \A q \in Machines : disk[q] \subseteq disk'[q]
    BY <2>2 DEF Y!AppendEvent, SInv, STyped
  <2>3. ASSUME NEW p \in Paths, Y!UserFile(m, p)
        PROVE  UNCHANGED <<disk, kn>>
    BY <2>3 DEF Y!UserFile
  <2> QED BY <2>0, <2>1, <2>2, <2>3 DEF SInv, STyped
<1>3. Y!IsPrefix(remote, remote') /\ \A q \in Machines : Y!IsPrefix(head[q], head'[q])
  BY <1>1, PrefixOfItself DEF SInv, STyped
<1>4. SInv'
  <2>1. STyped' /\ Fits(remote') /\ Backed(remote')
    BY <1>1, <1>2 DEF SInv, STyped, Fits, Backed
  <2>2. ASSUME NEW q \in Machines
        PROVE  Attempting(q)'
    BY <1>1, <1>2 DEF SInv, Attempting, Carried, Fits, Backed
  <2> QED BY <2>1, <2>2 DEF SInv, Fits, Backed
<1> QED BY <1>2, <1>3, <1>4 DEF Y!NothingPublishedIsLost

LEMMA WorktreeKeeps ==
    ASSUME SInv, NEW m \in Machines,
           Y!WriteOwnership(m) \/ Y!AddWorktree(m) \/ Y!RemoveWorktree(m)
    PROVE  SInv' /\ Y!NothingPublishedIsLost
<1>0. UNCHANGED <<remote, head, disk, kn>>
  BY DEF Y!WriteOwnership, Y!AddWorktree, Y!RemoveWorktree
<1>1. ASSUME NEW b \in Attempts, NEW w \in SUBSET {"dir", "owner"}, run' = [run EXCEPT ![m] = b],
             wt' = [wt EXCEPT ![m] = w],
             b.pc \in {"idle", "cleanup", "owned", "ready"}, Carried(b),
             b.pc = "owned" \/ "dir" \in w => "owner" \in w
      PROVE  SInv' /\ Y!NothingPublishedIsLost
  <2>1. STyped' /\ Fits(remote') /\ Backed(remote')
    BY <1>0, <1>1 DEF SInv, STyped, Fits, Backed
  <2>2. /\ Y!IsPrefix(remote, remote') /\ Y!IsPrefix(head[m], head'[m])
        /\ kn'[m] \subseteq disk'[m] /\ KnsOf(head'[m]) \subseteq disk'[m]
    BY <1>0, PrefixOfItself DEF SInv, STyped, Attempting
  <2>3. wt'[m] = w /\ \A q \in Machines : q # m => wt'[q] = wt[q]
    BY <1>1 DEF SInv, STyped
  <2> QED BY <1>0, <1>1, <2>1, <2>2, <2>3, OwnStep
<1>2. wt[m] \in SUBSET {"dir", "owner"} /\ Attempting(m) /\ run \in [Machines -> Attempts]
  BY DEF SInv, STyped
<1>3. CASE Y!WriteOwnership(m)
  <2>1. PICK b \in Attempts : /\ b.pc = "owned" /\ run' = [run EXCEPT ![m] = b]
                              /\ b.tree = run[m].tree /\ b.plan = run[m].plan
    BY <1>3, StepShape DEF Y!WriteOwnership
  <2>3. Carried(b)
    BY <1>2, <1>3, <2>1 DEF Attempting, Carried, Y!WriteOwnership
  <2>2. wt' = [wt EXCEPT ![m] = wt[m] \cup {"owner"}]
    BY <1>3 DEF Y!WriteOwnership
  <2> QED BY <2>1, <2>2, <2>3, <1>1, <1>2
<1>4. CASE Y!AddWorktree(m)
  <2>1. PICK b \in Attempts : /\ b.pc = "ready" /\ run' = [run EXCEPT ![m] = b]
                              /\ b.tree = run[m].tree /\ b.plan = run[m].plan
    BY <1>4, StepShape DEF Y!AddWorktree
  <2>3. Carried(b)
    BY <1>2, <1>4, <2>1 DEF Attempting, Carried, Y!AddWorktree
  <2>2. wt' = [wt EXCEPT ![m] = wt[m] \cup {"dir"}] /\ "owner" \in wt[m]
    BY <1>4, <1>2 DEF Y!AddWorktree, Attempting
  <2> QED BY <2>1, <2>2, <2>3, <1>1, <1>2
<1>5. CASE Y!RemoveWorktree(m)
  <2>1. CASE wt' = [wt EXCEPT ![m] = @ \ {"dir"}] /\ UNCHANGED run
    <3>1. wt' = [wt EXCEPT ![m] = wt[m] \ {"dir"}] /\ run' = [run EXCEPT ![m] = run[m]]
      BY <2>1, <1>2
    <3>2. run[m] \in Attempts /\ run[m].pc = "cleanup"
      BY <1>2, <1>5 DEF Y!RemoveWorktree
    <3> QED BY <3>1, <3>2, <1>1, <1>2 DEF Attempting
  <2>2. CASE wt' = [wt EXCEPT ![m] = {}] /\ run' = [run EXCEPT ![m] = Y!Idle]
    BY <2>2, <1>1, IdleAttempt DEF Carried
  <2> QED BY <2>1, <2>2, <1>5 DEF Y!RemoveWorktree
<1> QED BY <1>3, <1>4, <1>5

LEMMA BeginsAttempt ==
    ASSUME SInv, NEW m \in Machines, Y!Recover(m) \/ Y!Begin(m)
    PROVE  SInv' /\ Y!NothingPublishedIsLost
<1>0. UNCHANGED <<remote, head, disk, kn, wt>>
  BY DEF Y!Recover, Y!Begin
<1>1. CASE UNCHANGED run
  <2>1. run' = [run EXCEPT ![m] = run[m]] /\ run[m] \in Attempts /\ Attempting(m)
    BY <1>1 DEF SInv, STyped
  <2> QED BY <2>1, <1>0, GoesOn DEF Attempting
<1>2. CASE Y!Recover(m)
  <2>1. CASE Y!Step(m, "cleanup")
    <3>1. PICK b \in Attempts : b.pc = "cleanup" /\ run' = [run EXCEPT ![m] = b]
      BY <2>1, StepShape
    <3> QED BY <3>1, <1>0, GoesOn DEF Carried
  <2> QED BY <2>1, <1>1, <1>2 DEF Y!Recover
<1>3. CASE Y!Begin(m)
  <2> DEFINE b == [pc |-> "planned", plan |-> Y!Dirty(m), proj |-> Y!ProjectionDirty(m),
                   tree |-> head[m], races |-> 0, pushed |-> FALSE]
  <2>1. CASE run' = [run EXCEPT ![m] = b]
    <3>1. /\ Y!Dirty(m) \in SUBSET Events /\ head[m] \in Histories
          /\ Y!ProjectionDirty(m) \in BOOLEAN
      BY DEF SInv, STyped, Y!Dirty, Y!ProjectionDirty
    <3>2. b \in Attempts /\ b.pc = "planned" /\ b.tree = head[m] /\ b.plan = Y!Dirty(m)
      BY <3>1 DEF Attempts
    <3> HIDE DEF b
    <3>3. KnsOf(head[m]) \subseteq Y!EventsOf(head[m]) \cup Y!Dirty(m)
      BY DEF SInv, Attempting, Y!Dirty
    <3>4. Carried(b)
      BY <3>2, <3>3 DEF Carried
    <3> QED BY <2>1, <3>2, <3>4, <1>0, GoesOn
  <2> QED BY <2>1, <1>1, <1>3 DEF Y!Begin
<1> QED BY <1>2, <1>3

LEMMA FailsKeeps ==
    ASSUME SInv, NEW m \in Machines, Y!Unassured(m) \/ Y!PushFails(m) \/ Y!ReconcileFails(m)
    PROVE  SInv' /\ Y!NothingPublishedIsLost
<1>0. UNCHANGED <<remote, head, disk, kn, wt>>
  BY DEF Y!Unassured, Y!PushFails, Y!ReconcileFails
<1>1. PICK why : Y!Finish(m, why)
  BY DEF Y!Unassured, Y!PushFails, Y!ReconcileFails
<1> QED BY <1>0, <1>1, FinishKeeps

LEMMA FetchKeeps ==
    ASSUME SInv, NEW m \in Machines, Y!Fetch(m)
    PROVE  SInv' /\ Y!NothingPublishedIsLost
<1>0. UNCHANGED <<remote, head, disk, kn, wt>>
  BY DEF Y!Fetch
<1>1. CASE Y!Finish(m, "BLOCKED")
  BY <1>0, <1>1, FinishKeeps
<1>2. CASE run' = [run EXCEPT ![m].pc = "copy", ![m].tree = Y!Rebased(@, remote)]
  <2>1. run[m] \in Attempts /\ remote \in Histories /\ run \in [Machines -> Attempts]
    BY DEF SInv, STyped
  <2>2. PICK t \in Histories : /\ t = Y!Rebased(run[m].tree, remote)
                               /\ Y!EventsOf(t) = Y!EventsOf(remote) \cup Y!EventsOf(run[m].tree)
                               /\ KnsOf(t) \subseteq KnsOf(remote) \cup KnsOf(run[m].tree)
    BY <2>1, RebasedHolds DEF Attempts
  <2> DEFINE b == [run[m] EXCEPT !.pc = "copy", !.tree = t]
  <2>3. b \in Attempts /\ b.pc = "copy" /\ b.tree = t /\ b.plan = run[m].plan
    BY <2>1 DEF Attempts
  <2>4. run' = [run EXCEPT ![m] = b]
    BY <1>2, <2>1, <2>2
  <2> HIDE DEF b
  <2>5. KnsOf(run[m].tree) \subseteq Y!EventsOf(run[m].tree) \cup run[m].plan
    BY DEF SInv, Attempting, Carried, Y!Fetch
  <2>6. Carried(b)
    BY <2>2, <2>3, <2>5 DEF Carried, SInv, Backed
  <2> QED BY <2>3, <2>4, <2>6, <1>0, GoesOn
<1> QED BY <1>1, <1>2 DEF Y!Fetch

LEMMA FetchFailsKeeps ==
    ASSUME SInv, NEW m \in Machines, Y!FetchFails(m)
    PROVE  SInv' /\ Y!NothingPublishedIsLost
<1>0. UNCHANGED <<remote, disk, kn, wt>>
  BY DEF Y!FetchFails
<1>1. CASE UNCHANGED head /\ Y!Finish(m, "BLOCKED")
  BY <1>0, <1>1, FinishKeeps
<1>2. CASE head' = [head EXCEPT ![m] = Y!_local_commit_for_retry(m)] /\ Y!Finish(m, "OFFLINE")
  <2>1. /\ head[m] \in Histories /\ run[m] \in Attempts /\ kn[m] \in SUBSET Events
        /\ head \in [Machines -> Histories]
        /\ kn[m] \subseteq disk[m] /\ KnsOf(head[m]) \subseteq disk[m]
    BY DEF SInv, STyped, Attempting
  <2> DEFINE ev == run[m].plan \ Y!EventsOf(head[m])
             k == IF run[m].proj THEN kn[m] ELSE Y!Projected(head[m])
  <2>2. ev \in SUBSET Events /\ k \in SUBSET Events /\ k \subseteq disk[m]
    BY <2>1, ProjectedTyped, ProjectedShown DEF Attempts
  <2>3. Y!_local_commit_for_retry(m) \in {head[m], Y!Commit(head[m], ev, k)}
    BY DEF Y!_local_commit_for_retry
  <2> HIDE DEF ev, k
  <2>9. PICK c : c = Y!Commit(head[m], ev, k)
    OBVIOUS
  <2>10. c \in Histories /\ KnsOf(c) = KnsOf(head[m]) \cup k /\ Y!IsPrefix(head[m], c)
    <3>1. head[m] \in Histories /\ ev \in SUBSET Events /\ k \in SUBSET Events
      BY <2>1, <2>2
    <3>2. c \in Histories
      BY <3>1, <2>9, CommitMade, Zenon
    <3>3. KnsOf(c) = KnsOf(head[m]) \cup k
      BY <3>1, <2>9, CommitShows
    <3>4. Y!IsPrefix(head[m], c)
      BY <3>1, <2>9, CommitMade, Zenon
    <3> QED BY <3>2, <3>3, <3>4
  <2>4. PICK h \in Histories : /\ h = Y!_local_commit_for_retry(m) /\ Y!IsPrefix(head[m], h)
                               /\ KnsOf(h) \subseteq disk[m]
    BY <2>1, <2>2, <2>3, <2>9, <2>10, PrefixOfItself
  <2>5. /\ head' \in [Machines -> Histories] /\ head'[m] = h
        /\ \A q \in Machines : q # m => head'[q] = head[q]
    BY <1>2, <2>1, <2>4
  <2>6. PICK b \in Attempts : b.pc \in {"idle", "cleanup"} /\ run' = [run EXCEPT ![m] = b]
    BY <1>2, FinishShape
  <2>7. STyped' /\ Fits(remote') /\ Backed(remote') /\ Carried(b)
    BY <1>0, <2>5, <2>6 DEF SInv, STyped, Fits, Backed, Carried
  <2>8. Y!IsPrefix(remote, remote') /\ ("dir" \in wt'[m] => "owner" \in wt'[m])
    BY <1>0, PrefixOfItself DEF SInv, STyped, Attempting
  <2> QED BY <1>0, <2>1, <2>4, <2>5, <2>6, <2>7, <2>8, OwnStep
<1> QED BY <1>1, <1>2 DEF Y!FetchFails

LEMMA CopyAndCommitKeeps ==
    ASSUME SInv, NEW m \in Machines, Y!CopyAndCommit(m)
    PROVE  SInv' /\ Y!NothingPublishedIsLost
<1>0. UNCHANGED <<remote, head, disk, kn, wt>>
  BY DEF Y!CopyAndCommit
<1>1. run[m] \in Attempts /\ run \in [Machines -> Attempts]
  BY DEF SInv, STyped
<1>6. KnsOf(run[m].tree) \subseteq Y!EventsOf(run[m].tree) \cup run[m].plan
  BY DEF SInv, Attempting, Carried, Y!CopyAndCommit
<1>2. PICK h \in Histories : /\ h = Y!Committed(run[m].tree, run[m].plan)
                             /\ Fits(h) /\ Backed(h)
  BY <1>1, <1>6, CommittedFits DEF Attempts
<1>3. PICK v \in {"reconcile", "push"} : run' = [run EXCEPT ![m].tree = h, ![m].pc = v]
  BY <1>2 DEF Y!CopyAndCommit
<1> DEFINE b == [run[m] EXCEPT !.tree = h, !.pc = v]
<1>4. b \in Attempts /\ b.pc = v /\ b.tree = h
  BY <1>1 DEF Attempts
<1>5. run' = [run EXCEPT ![m] = b]
  BY <1>1, <1>3
<1> HIDE DEF b
<1>7. Carried(b)
  BY <1>2, <1>4 DEF Carried
<1> QED BY <1>0, <1>4, <1>5, <1>7, GoesOn

\* A push, answered or not: the branch moves on to a history that fits.
LEMMA PushesOn ==
    ASSUME SInv, NEW m \in Machines, NEW b \in Attempts, run' = [run EXCEPT ![m] = b],
           b.pc \in {"idle", "reconcile"}, Carried(b), run[m].pc = "push", Y!IsPrefix(remote, run[m].tree),
           remote' = run[m].tree, UNCHANGED <<head, disk, kn, wt>>
    PROVE  SInv' /\ Y!NothingPublishedIsLost
<1>1. run[m] \in Attempts /\ Attempting(m) /\ head[m] \in Histories
  BY DEF SInv, STyped
<1>2. remote' \in Histories /\ Fits(remote') /\ Backed(remote')
  BY <1>1 DEF Attempting, Carried, Attempts
<1>3. STyped'
  BY <1>2 DEF SInv, STyped
<1>4. /\ Y!IsPrefix(head[m], head'[m]) /\ ("dir" \in wt'[m] => "owner" \in wt'[m])
      /\ kn'[m] \subseteq disk'[m] /\ KnsOf(head'[m]) \subseteq disk'[m]
  BY <1>1, PrefixOfItself DEF Attempting
<1> QED BY <1>2, <1>3, <1>4, OwnStep

LEMMA PushKeeps ==
    ASSUME SInv, NEW m \in Machines, Y!Push(m)
    PROVE  SInv' /\ Y!NothingPublishedIsLost
<1>1. run[m] \in Attempts /\ run \in [Machines -> Attempts]
  BY DEF SInv, STyped
<1> DEFINE b == [run[m] EXCEPT !.pc = "reconcile", !.pushed = TRUE]
<1>2. b \in Attempts /\ b.pc = "reconcile" /\ b.tree = run[m].tree
  BY <1>1 DEF Attempts
<1>3. run' = [run EXCEPT ![m] = b]
  BY <1>1 DEF Y!Push
<1> HIDE DEF b
<1>4. Carried(b)
  BY <1>2 DEF SInv, Attempting, Carried, Y!Push
<1> QED BY <1>2, <1>3, <1>4, PushesOn DEF Y!Push

LEMMA PushRacesKeeps ==
    ASSUME SInv, NEW m \in Machines, Y!PushRaces(m)
    PROVE  SInv' /\ Y!NothingPublishedIsLost
<1>0. UNCHANGED <<remote, head, disk, kn, wt>>
  BY DEF Y!PushRaces
<1>1. ASSUME NEW why, Y!Finish(m, why)
      PROVE  SInv' /\ Y!NothingPublishedIsLost
  BY <1>0, <1>1, FinishKeeps
<1>2. ASSUME ~Y!Conflicts(run[m].tree, remote),
             NEW t, t \in {Y!Rebased(run[m].tree, remote),
                           Y!Committed(Y!Rebased(run[m].tree, remote),
                                       Y!EventsOf(Y!Rebased(run[m].tree, remote)))},
             Y!PushNext(m, t)
      PROVE  SInv' /\ Y!NothingPublishedIsLost
  <2>1. /\ run[m] \in Attempts /\ remote \in Histories /\ run \in [Machines -> Attempts]
        /\ Fits(remote) /\ Backed(remote)
    BY DEF SInv, STyped
  <2>2. /\ run[m].pc = "push" /\ run[m].tree \in Histories
        /\ Fits(run[m].tree) /\ Backed(run[m].tree)
    BY <2>1 DEF SInv, Attempting, Carried, Attempts, Y!PushRaces
  <2>3. PICK h \in Histories : /\ h = Y!Rebased(run[m].tree, remote) /\ Fits(h)
                               /\ Y!EventsOf(h) = Y!EventsOf(remote) \cup Y!EventsOf(run[m].tree)
                               /\ KnsOf(h) \subseteq KnsOf(remote) \cup KnsOf(run[m].tree)
    BY <1>2, <2>1, <2>2, RebasedHolds, RebasedFits
  <2>4. Backed(h) /\ Y!EventsOf(h) \in SUBSET Events
    BY <2>1, <2>2, <2>3, ProjectedTyped DEF Backed
  <2>5. /\ Y!Committed(h, Y!EventsOf(h)) \in Histories /\ Fits(Y!Committed(h, Y!EventsOf(h)))
        /\ Backed(Y!Committed(h, Y!EventsOf(h)))
    BY <2>4, CommittedFits DEF Backed
  <2>6. t \in Histories /\ Fits(t) /\ Backed(t)
    BY <1>2, <2>3, <2>4, <2>5
  <2>7. PICK n \in Nat : n = run[m].races
    BY <2>1 DEF Attempts
  <2>8. PICK r \in Nat : r = n + 1
    OBVIOUS
  <2> DEFINE b == [run[m] EXCEPT !.tree = t, !.races = r]
  <2>9. b \in Attempts /\ b.pc = "push" /\ b.tree = t
    BY <2>1, <2>2, <2>6 DEF Attempts
  <2>10. run' = [run EXCEPT ![m] = b]
    BY <1>2, <2>1, <2>7, <2>8 DEF Y!PushNext
  <2> HIDE DEF b
  <2>11. Carried(b)
    BY <2>6, <2>9 DEF Carried
  <2> QED BY <1>0, <2>9, <2>10, <2>11, GoesOn
<1> QED BY <1>1, <1>2 DEF Y!PushRaces

LEMMA SourceStaged ==
    ASSUME SInv, NEW m \in Machines, Y!StageSource(m)
    PROVE  SInv' /\ Y!NothingPublishedIsLost
<1>0. UNCHANGED <<remote, head, disk, kn, wt>>
  BY DEF Y!StageSource
<1>1. CASE Y!Finish(m, "PENDING")
  BY <1>0, <1>1, FinishKeeps
<1>2. CASE Y!Step(m, "merge") /\ Y!AncestryAllows(m)
  <2>1. PICK b \in Attempts : b.pc = "merge" /\ b.tree = run[m].tree /\ run' = [run EXCEPT ![m] = b]
    BY <1>2, StepShape
  <2>3. Carried(b)
    BY <2>1 DEF SInv, Attempting, Carried, Y!StageSource
  <2>2. Y!IsPrefix(head[m], b.tree)
    BY <1>2, <2>1 DEF Y!AncestryAllows
  <2> QED BY <1>0, <2>1, <2>2, <2>3, GoesOn
<1> QED BY <1>1, <1>2 DEF Y!StageSource

LEMMA MergeKeeps ==
    ASSUME SInv, NEW m \in Machines, Y!MergeSource(m)
    PROVE  SInv' /\ Y!NothingPublishedIsLost
<1>0. UNCHANGED <<remote, wt>>
  BY DEF Y!MergeSource
<1>1. CASE Y!Finish(m, "PENDING") /\ UNCHANGED <<head, disk, kn>>
  BY <1>0, <1>1, FinishKeeps
<1>2. CASE /\ head' = [head EXCEPT ![m] = run[m].tree]
           /\ disk' = [disk EXCEPT ![m] = @ \cup Y!EventsOf(run[m].tree)]
           /\ kn' = [kn EXCEPT ![m] = Y!Projected(run[m].tree)]
           /\ \E why : Y!Finish(m, why)
  <2>1. run[m] \in Attempts /\ Attempting(m) /\ run[m].pc = "merge"
    BY DEF SInv, STyped, Y!MergeSource
  <2>2. PICK t \in Histories : /\ t = run[m].tree /\ Y!IsPrefix(head[m], t)
                               /\ Y!EventsOf(t) \in SUBSET Events
                               /\ Y!Projected(t) \in SUBSET Events
                               /\ Y!Projected(t) \subseteq KnsOf(t) /\ Backed(t)
    BY <2>1, ProjectedTyped, ProjectedShown DEF Attempts, Attempting, Carried
  <2>3. /\ head' \in [Machines -> Histories] /\ head'[m] = t
        /\ \A q \in Machines : q # m => head'[q] = head[q]
    BY <1>2, <2>2 DEF SInv, STyped
  <2>4. /\ disk' \in [Machines -> SUBSET Events] /\ disk[m] \subseteq disk'[m]
        /\ \A q \in Machines : q # m => disk'[q] = disk[q]
        /\ disk'[m] = disk[m] \cup Y!EventsOf(t)
    BY <1>2, <2>2 DEF SInv, STyped
  <2>5. /\ kn' \in [Machines -> SUBSET Events] /\ kn'[m] = Y!Projected(t)
        /\ \A q \in Machines : q # m => kn'[q] = kn[q]
    BY <1>2, <2>2 DEF SInv, STyped
  <2>9. kn'[m] \subseteq disk'[m] /\ KnsOf(head'[m]) \subseteq disk'[m]
    BY <2>2, <2>3, <2>4, <2>5 DEF Backed
  <2>6. PICK b \in Attempts : b.pc \in {"idle", "cleanup"} /\ run' = [run EXCEPT ![m] = b]
    BY <1>2, FinishShape
  <2>7. STyped' /\ Fits(remote') /\ Backed(remote') /\ Carried(b)
    BY <1>0, <2>3, <2>4, <2>5, <2>6 DEF SInv, STyped, Fits, Backed, Carried
  <2>8. Y!IsPrefix(remote, remote') /\ ("dir" \in wt'[m] => "owner" \in wt'[m])
    BY <1>0, <2>1, PrefixOfItself DEF SInv, STyped, Attempting
  <2> QED BY <1>0, <2>2, <2>3, <2>4, <2>5, <2>6, <2>7, <2>8, <2>9, OwnStep
<1> QED BY <1>1, <1>2 DEF Y!MergeSource

LEMMA InterruptKeeps ==
    ASSUME SInv, NEW m \in Machines, Y!Interrupt(m)
    PROVE  SInv' /\ Y!NothingPublishedIsLost
<1>0. UNCHANGED <<head, disk, kn, wt>> /\ run' = [run EXCEPT ![m] = Y!Idle]
  BY DEF Y!Interrupt
<1>1. CASE UNCHANGED remote
  BY <1>0, <1>1, GoesOn, IdleAttempt DEF Carried
<1>2. CASE run[m].pc = "push" /\ Y!IsPrefix(remote, run[m].tree) /\ remote' = run[m].tree
  BY <1>0, <1>2, PushesOn, IdleAttempt DEF Carried
<1> QED BY <1>1, <1>2 DEF Y!Interrupt

LEMMA SStep == SInv /\ [Y!Next]_(Y!vars) => SInv' /\ Y!NothingPublishedIsLost
<1> SUFFICES ASSUME SInv, [Y!Next]_(Y!vars)
             PROVE  SInv' /\ Y!NothingPublishedIsLost
  OBVIOUS
<1>1. CASE UNCHANGED Y!vars
  <2>1. UNCHANGED <<remote, head, disk, kn, wt, run>>
    BY <1>1 DEF Y!vars
  <2>2. SInv'
    BY <2>1 DEF SInv, STyped, Attempting, Carried, Fits, Backed
  <2>3. Y!NothingPublishedIsLost
    BY <2>1, PrefixOfItself DEF SInv, STyped, Y!NothingPublishedIsLost
  <2> QED BY <2>2, <2>3
<1>2. ASSUME NEW m \in Machines, Y!Attempt(m)
      PROVE  SInv' /\ Y!NothingPublishedIsLost
  BY <1>2, BeginsAttempt, WorktreeKeeps, FetchKeeps, CopyAndCommitKeeps, PushKeeps,
     PushRacesKeeps, SourceStaged, MergeKeeps DEF Y!Attempt
<1> QED BY <1>1, <1>2, FailsKeeps, FetchFailsKeeps, InterruptKeeps, SourceKeeps DEF Y!Next

LEMMA SFits == SInv => Y!PublishedProjection /\ Y!LeftoverIsOwned
  BY DEF SInv, Fits, Backed, Attempting, Y!PublishedProjection, Y!projection_source_state,
     Y!LeftoverIsOwned

-----------------------------------------------------------------------------
(* Readers of the projection (_read_item): what a reader holds on to was       *)
(* current at some moment of its read, and so is what is current now.          *)

ReaderFields == {"pc", "doc", "h", "since", "got"}
DocFields == {"kind", "cur", "prev"}

Reading(r) ==
    /\ r \in DOMAIN rd /\ DOMAIN rd[r] = ReaderFields
    /\ rd[r].pc # "idle" => /\ index.cur \in rd[r].since
                            /\ rd[r].doc.cur \in rd[r].since
    /\ rd[r].pc \in {"handle", "item"} => rd[r].h \in rd[r].since

RInv == \A r \in Readers : Reading(r)

LEMMA RInit == P!Init => RInv
  BY DEF P!Init, P!Shut, RInv, Reading, ReaderFields

\* What a step may do to the readers: nothing, or let those at work see what becomes current.
LEMMA SeenKeeps ==
    ASSUME RInv, NEW v, rd' = P!Seen(v), index'.cur = v
    PROVE  /\ RInv'
           /\ \A r \in Readers : rd'[r].got = rd[r].got
<1> SUFFICES ASSUME NEW r \in Readers
             PROVE  Reading(r)' /\ rd'[r].got = rd[r].got
  BY DEF RInv
<1>1. Reading(r)
  BY DEF RInv
<1>2. r \in DOMAIN rd'
  BY DEF P!Seen
<1>3. CASE rd[r].pc = "idle"
  <2>1. rd'[r] = rd[r]
    BY <1>3 DEF P!Seen
  <2> QED BY <2>1, <1>1, <1>2, <1>3 DEF Reading
<1>4. CASE rd[r].pc # "idle"
  <2>1. rd'[r] = [rd[r] EXCEPT !.since = @ \cup {v}]
    BY <1>4 DEF P!Seen
  <2>2. /\ DOMAIN rd'[r] = ReaderFields
        /\ rd'[r].since = rd[r].since \cup {v}
        /\ rd'[r].pc = rd[r].pc /\ rd'[r].doc = rd[r].doc /\ rd'[r].h = rd[r].h
        /\ rd'[r].got = rd[r].got
    BY <2>1, <1>1 DEF Reading, ReaderFields
  <2> QED BY <2>2, <1>1, <1>2, <1>4 DEF Reading
<1> QED BY <1>3, <1>4

LEMMA StillKeeps ==
    ASSUME RInv, UNCHANGED <<rd, index>>
    PROVE  RInv' /\ \A r \in Readers : rd'[r].got = rd[r].got
  BY DEF RInv, Reading

\* A reader's own step: the others stay as they are.
LEMMA OneReads ==
    ASSUME RInv, NEW r \in Readers, NEW b, rd' = [rd EXCEPT ![r] = b], UNCHANGED index,
           DOMAIN b = ReaderFields,
           b.pc # "idle" => index.cur \in b.since /\ b.doc.cur \in b.since,
           b.pc \in {"handle", "item"} => b.h \in b.since,
           b.got \notin {0, rd[r].got} => b.got \in rd[r].since
    PROVE  RInv' /\ P!ReadWasCurrent
<1>1. \A q \in Readers : q \in DOMAIN rd
  BY DEF RInv, Reading
<1>2. /\ rd'[r] = b
      /\ \A q \in Readers : q # r => rd'[q] = rd[q]
      /\ \A q \in Readers : q \in DOMAIN rd'
  BY <1>1
<1>3. Reading(r)'
  BY <1>2 DEF Reading
<1>4. \A q \in Readers : q # r => Reading(q)'
  BY <1>2 DEF RInv, Reading
<1>5. P!ReadWasCurrent
  BY <1>2 DEF P!ReadWasCurrent
<1> QED BY <1>3, <1>4, <1>5 DEF RInv

LEMMA ReadKeeps ==
    ASSUME RInv, NEW r \in Readers, P!Read(r)
    PROVE  RInv' /\ P!ReadWasCurrent
<1> USE DEF ReaderFields
<1>0. /\ Reading(r) /\ r \in DOMAIN rd
  BY DEF RInv, Reading
<1>1. ASSUME NEW v, P!Answer(r, v), UNCHANGED index, v \in {0} \cup rd[r].since
      PROVE  RInv' /\ P!ReadWasCurrent
  <2> DEFINE b == [P!Shut EXCEPT !.got = v]
  <2>1. /\ DOMAIN b = ReaderFields /\ b.pc = "idle" /\ b.got = v
    BY DEF P!Shut
  <2>2. rd' = [rd EXCEPT ![r] = b]
    BY <1>1 DEF P!Answer
  <2> HIDE DEF b
  <2> QED BY <2>1, <2>2, <1>1, OneReads
<1>2. CASE P!Open(r)
  <2> DEFINE b == [P!Shut EXCEPT !.pc = "resolve", !.doc = index, !.since = {index.cur}]
  <2>1. /\ DOMAIN b = ReaderFields /\ b.pc = "resolve" /\ b.got = 0 /\ b.doc = index
        /\ b.since = {index.cur}
    BY DEF P!Shut
  <2>2. rd' = [rd EXCEPT ![r] = b] /\ UNCHANGED index
    BY <1>2 DEF P!Open
  <2> HIDE DEF b
  <2> QED BY <2>1, <2>2, OneReads
<1>3. CASE P!Resolve(r)
  <2>1. CASE rd' = [rd EXCEPT ![r].pc = "validate"]
    <3> DEFINE b == [rd[r] EXCEPT !.pc = "validate"]
    <3>1. /\ DOMAIN b = ReaderFields /\ b.pc = "validate" /\ b.got = rd[r].got
          /\ b.doc = rd[r].doc /\ b.since = rd[r].since
      BY <1>0 DEF Reading
    <3>2. rd' = [rd EXCEPT ![r] = b]
      BY <2>1
    <3>3. index.cur \in rd[r].since /\ rd[r].doc.cur \in rd[r].since /\ UNCHANGED index
      BY <1>0, <1>3 DEF Reading, P!Resolve
    <3> HIDE DEF b
    <3> QED BY <3>1, <3>2, <3>3, OneReads
  <2>2. CASE P!Answer(r, 0)
    BY <2>2, <1>1, <1>3 DEF P!Resolve
  <2> QED BY <2>1, <2>2, <1>3 DEF P!Resolve
<1>4. CASE P!_validate_projection_files(r)
  <2>1. CASE rd' = [rd EXCEPT ![r].pc = "handle", ![r].h = rd[r].doc.cur]
    <3> DEFINE b == [rd[r] EXCEPT !.pc = "handle", !.h = rd[r].doc.cur]
    <3>1. /\ DOMAIN b = ReaderFields /\ b.pc = "handle" /\ b.got = rd[r].got
          /\ b.doc = rd[r].doc /\ b.since = rd[r].since /\ b.h = rd[r].doc.cur
      BY <1>0 DEF Reading
    <3>2. rd' = [rd EXCEPT ![r] = b]
      BY <2>1, <1>0
    <3>3. index.cur \in rd[r].since /\ rd[r].doc.cur \in rd[r].since /\ UNCHANGED index
      BY <1>0, <1>4 DEF Reading, P!_validate_projection_files
    <3> HIDE DEF b
    <3> QED BY <3>1, <3>2, <3>3, OneReads
  <2>2. CASE P!Answer(r, 0)
    BY <2>2, <1>1, <1>4 DEF P!_validate_projection_files
  <2> QED BY <2>1, <2>2, <1>4 DEF P!_validate_projection_files
<1>5. CASE P!_bound_document(r)
  <2> DEFINE doc == IF rd[r].doc.kind = "pointer" \/ index.kind = "pointer"
                    THEN [kind |-> "pointer", cur |-> rd[r].h, prev |-> 0] ELSE index
  <2>0. /\ index.cur \in rd[r].since /\ rd[r].h \in rd[r].since /\ UNCHANGED index
    BY <1>0, <1>5 DEF Reading, P!_bound_document
  <2>1. doc.cur \in rd[r].since
    BY <2>0
  <2>2. (rd' = [rd EXCEPT ![r].pc = "item", ![r].doc = doc]) \/ P!Answer(r, 0)
    BY <1>5 DEF P!_bound_document
  <2> HIDE DEF doc
  <2>3. CASE rd' = [rd EXCEPT ![r].pc = "item", ![r].doc = doc]
    <3> DEFINE b == [rd[r] EXCEPT !.pc = "item", !.doc = doc]
    <3>1. /\ DOMAIN b = ReaderFields /\ b.pc = "item" /\ b.got = rd[r].got
          /\ b.doc = doc /\ b.since = rd[r].since /\ b.h = rd[r].h
      BY <1>0 DEF Reading
    <3>2. rd' = [rd EXCEPT ![r] = b]
      BY <2>3, <1>0
    <3> HIDE DEF b
    <3> QED BY <3>1, <3>2, <2>0, <2>1, OneReads
  <2>4. CASE P!Answer(r, 0)
    BY <2>4, <1>1, <2>0
  <2> QED BY <2>2, <2>3, <2>4
<1>6. CASE P!_read_item(r)
  <2>1. /\ rd[r].doc.cur \in rd[r].since /\ UNCHANGED index
    BY <1>0, <1>6 DEF Reading, P!_read_item
  <2>2. \E v \in {0, rd[r].doc.cur} : P!Answer(r, v)
    BY <1>6 DEF P!_read_item
  <2> QED BY <2>1, <2>2, <1>1
<1> QED BY <1>2, <1>3, <1>4, <1>5, <1>6 DEF P!Read

LEMMA RStep == RInv /\ [P!Next]_(P!vars) => RInv' /\ P!ReadWasCurrent
<1> SUFFICES ASSUME RInv, [P!Next]_(P!vars)
             PROVE  RInv' /\ P!ReadWasCurrent
  OBVIOUS
<1>0. (\A r \in Readers : rd'[r].got = rd[r].got) => P!ReadWasCurrent
  BY DEF P!ReadWasCurrent
<1>1. CASE UNCHANGED <<rd, index>>
  BY <1>0, <1>1, StillKeeps
<1>2. ASSUME NEW p \in Publishers, P!Publish(p)
      PROVE  RInv' /\ P!ReadWasCurrent
  <2>1. rd' = P!Seen(pub[p].want) /\ index'.cur = pub[p].want
    BY <1>2 DEF P!Publish
  <2> QED BY <2>1, SeenKeeps, <1>0
<1>3. CASE P!_project_events_legacy
  <2>1. CASE UNCHANGED <<rd, index>>
    BY <2>1, <1>1
  <2>2. CASE rd' = P!Seen(cli.v) /\ index'.cur = cli.v
    BY <2>2, SeenKeeps, <1>0
  <2> QED BY <2>1, <2>2, <1>3 DEF P!_project_events_legacy
<1>4. ASSUME NEW p \in Publishers, P!Project(p), ~P!Publish(p)
      PROVE  UNCHANGED <<rd, index>>
  BY <1>4 DEF P!Project, P!ReadEvents, P!Begin, P!_repair_mirror, P!Freeze, P!Clean, P!Remove,
     P!Prepare, P!_owner_document, P!WriteFile, P!WriteMirror
<1>5. ASSUME NEW p \in Publishers, P!Stop(p)
      PROVE  UNCHANGED <<rd, index>>
  BY <1>5 DEF P!Stop
<1>6. CASE P!Grow \/ P!CliDies
  BY <1>1, <1>6 DEF P!Grow, P!CliDies
<1>7. CASE UNCHANGED P!vars
  BY <1>1, <1>7 DEF P!vars
<1> QED BY <1>1, <1>2, <1>3, <1>4, <1>5, <1>6, <1>7, ReadKeeps DEF P!Next

-----------------------------------------------------------------------------
(* Export (public_export.py).  The source moves while it is copied, so what an *)
(* export holds is said of its own lists, never of the source; and others may  *)
(* change the root at any time, so what it holds is said of what they left.    *)

Dates == {0} \cup DOMAIN Tree
Named == Allowed \cup Forbidden
Commits == [date : Dates, files : SUBSET Named]
Phases == {"none", "entries", "copy", "commit", "digest", "check", "validate", "audited",
           "certified"}
Roots == [files : SUBSET Named, log : Seq(Commits), dirty : BOOLEAN, placed : SUBSET Named]
ExportReceipts == [root : Commits, listed : SUBSET Named, source : Dates, tree : Dates,
                   status : {"missing", "exported", "validated"}, disturbed : BOOLEAN]
Exports == [kind : {"none", "export", "resume"}, phase : Phases, commit : Dates, tree : Dates,
            files : SUBSET Allowed, todo : SUBSET Allowed, root : Commits,
            listed : SUBSET Named, disturbed : BOOLEAN]

ETyped == head \in DOMAIN Tree /\ dest \in Roots /\ receipt \in ExportReceipts /\ run \in Exports

\* What is in the root is selected and no key, or somebody else put it there.
Selected == /\ dest.files \ dest.placed \subseteq Allowed \ Keys
            /\ dest.log # <<>> => Head(dest.log).files \ dest.placed \subseteq Allowed \ Keys
\* What a run relies on at its phase; of a root it has committed or compared, only
\* while nobody else has changed it.
Exporting ==
    /\ run.phase = "none" => run = B!Idle
    /\ run.phase = "commit" => run.kind = "export"
    /\ run.kind = "export" /\ run.phase \in {"entries", "copy", "commit"} =>
           dest.log = <<>> /\ ~dest.dirty
    /\ run.kind = "export" /\ run.phase = "digest" => dest.log # <<>>
    /\ B!Settled /\ ~run.disturbed => ~dest.dirty /\ dest.log = <<run.root>>
    /\ run.phase \in {"audited", "certified"} /\ ~run.disturbed =>
           run.root.files \cap Forbidden = {}
\* A receipt of a validated export that nobody disturbed names a commit that passed the audit.
Audited == receipt.status = "validated" /\ ~receipt.disturbed =>
               receipt.root.files \cap Forbidden = {}

EInv == ETyped /\ Selected /\ Exporting /\ Audited

LEMMA EInit == B!Init => EInv
<1> SUFFICES ASSUME B!Init
             PROVE  EInv
  OBVIOUS
<1> USE DEF B!Init, B!Empty, B!NoReceipt, B!NoCommit, B!Idle
<1>1. ETyped
  <2>1. receipt \in ExportReceipts
    BY DEF ExportReceipts, Commits, Dates
  <2>2. run \in Exports
    BY DEF Exports, Phases, Commits, Dates
  <2>3. head \in DOMAIN Tree
    BY DEF B!Revisions
  <2>4. dest \in Roots
    BY DEF Roots
  <2> QED BY <2>1, <2>2, <2>3, <2>4 DEF ETyped
<1>2. Selected /\ Exporting /\ Audited
  BY DEF Selected, Exporting, Audited, B!Settled
<1> QED BY <1>1, <1>2 DEF EInv

LEMMA EStill == EInv /\ UNCHANGED <<head, dest, receipt, run>> => EInv'
  BY DEF EInv, ETyped, Selected, Exporting, Audited, B!Settled

LEMMA IdleTyped == B!Idle \in Exports /\ B!Idle.phase = "none" /\ B!Idle.kind = "none"
  BY DEF B!Idle, B!NoCommit, Exports, Commits, Phases, Dates

\* A run ends, whatever it was doing.
LEMMA EndKeeps ==
    ASSUME EInv, run' = B!Idle, UNCHANGED <<head, dest, receipt>>
    PROVE  EInv'
<1>1. ETyped'
  BY IdleTyped DEF EInv, ETyped
<1>2. Exporting'
  BY IdleTyped DEF Exporting, B!Settled
<1> QED BY <1>1, <1>2 DEF EInv, Selected, Audited

\* A run goes on to a phase that relies on nothing yet.
LEMMA BeginKeeps ==
    ASSUME EInv, B!create_public_export \/ B!resume_public_export_validation
    PROVE  EInv' /\ run' # B!Idle
<1>1. PICK k \in {"export", "resume"} :
         /\ run' = [B!Idle EXCEPT !.kind = k, !.phase = "entries", !.commit = head]
         /\ (k = "export" => dest = B!Empty)
         /\ UNCHANGED <<head, dest, receipt>>
  BY DEF B!create_public_export, B!resume_public_export_validation, B!_source_revision,
     B!validate_export_destination
<1>2. head \in Dates
  BY DEF EInv, ETyped, Dates
<1>3. run' \in Exports /\ run'.phase = "entries" /\ run'.kind = k
  BY <1>1, <1>2, IdleTyped DEF Exports, Phases
<1>4. ETyped'
  BY <1>1, <1>3 DEF EInv, ETyped
<1>5. Exporting'
  <2>1. k = "export" => dest.log = <<>> /\ ~dest.dirty
    BY <1>1 DEF B!Empty
  <2> QED BY <2>1, <1>1, <1>3 DEF Exporting, B!Settled
<1>6. run' # B!Idle
  BY <1>3, IdleTyped
<1> QED BY <1>1, <1>4, <1>5, <1>6 DEF EInv, Selected, Audited

LEMMA EntriesKeeps ==
    ASSUME EInv, B!_tracked_entries
    PROVE  EInv' /\ (run' = B!Idle => result' = "failed")
<1>1. CASE run' = B!Idle /\ result' = "failed"
  BY <1>1, EndKeeps DEF B!_tracked_entries
<1>2. ASSUME NEW sel \in SUBSET Allowed,
             run' = [run EXCEPT !.phase = "copy", !.files = sel, !.todo = sel]
      PROVE  EInv' /\ run' # B!Idle
  <2>0. UNCHANGED <<head, dest, receipt>> /\ run.phase = "entries"
    BY DEF B!_tracked_entries
  <2>1. run' \in Exports /\ run'.phase = "copy" /\ run'.kind = run.kind
    BY <1>2 DEF EInv, ETyped, Exports, Phases
  <2>2. ETyped'
    BY <2>0, <2>1 DEF EInv, ETyped
  <2>3. Exporting'
    BY <2>0, <2>1 DEF EInv, Exporting, B!Settled
  <2> QED BY <2>0, <2>1, <2>2, <2>3, IdleTyped DEF EInv, Selected, Audited
<1>3. B!select_public_paths(Tree[head]) \in SUBSET Allowed
  BY DEF B!select_public_paths
<1> QED BY <1>1, <1>2, <1>3 DEF B!_tracked_entries

LEMMA CopyKeeps ==
    ASSUME EInv, B!_copy_selected_files
    PROVE  EInv' /\ (run' = B!Idle => result' = "failed")
<1>0. UNCHANGED <<head, receipt>> /\ run.phase = "copy"
  BY DEF B!_copy_selected_files
<1>1. CASE B!Fails
  BY <1>0, <1>1, EndKeeps DEF B!Fails
<1>2. ASSUME NEW f \in run.todo, f \notin Keys, run.kind = "export",
             dest' = [dest EXCEPT !.files = @ \cup {f}],
             run' = [run EXCEPT !.todo = @ \ {f},
                                !.phase = IF run.todo = {f} THEN "commit" ELSE "copy"]
      PROVE  EInv' /\ run' # B!Idle
  <2>0. f \in Allowed
    BY DEF EInv, ETyped, Exports
  <2>1. /\ dest' \in Roots /\ dest'.files = dest.files \cup {f}
        /\ dest'.log = dest.log /\ dest'.dirty = dest.dirty /\ dest'.placed = dest.placed
    BY <1>2, <2>0 DEF EInv, ETyped, Roots, Named
  <2>2. PICK ph \in {"commit", "copy"} : run' = [run EXCEPT !.todo = @ \ {f}, !.phase = ph]
    BY <1>2
  <2>3. run' \in Exports /\ run'.phase = ph /\ run'.kind = run.kind
    BY <2>2 DEF EInv, ETyped, Exports, Phases
  <2>4. ETyped'
    BY <1>0, <2>1, <2>3 DEF EInv, ETyped
  <2>5. Selected'
    BY <1>2, <2>0, <2>1 DEF EInv, Selected
  <2>6. Exporting'
    BY <1>0, <1>2, <2>1, <2>3 DEF EInv, Exporting, B!Settled
  <2> QED BY <1>0, <2>3, <2>4, <2>5, <2>6, IdleTyped DEF EInv, Audited
<1>3. CASE /\ run.kind = "resume" /\ UNCHANGED dest
           /\ run' = [run EXCEPT !.todo = {}, !.phase = "digest",
                                 !.root = [date |-> run.commit, files |-> run.files]]
  <2>0. [date |-> run.commit, files |-> run.files] \in Commits
    BY DEF EInv, ETyped, Exports, Commits, Named
  <2>1. run' \in Exports /\ run'.phase = "digest" /\ run'.kind = "resume"
    BY <1>3, <2>0 DEF EInv, ETyped, Exports, Phases
  <2>2. ETyped'
    BY <1>0, <1>3, <2>1 DEF EInv, ETyped
  <2>3. Exporting'
    BY <1>0, <1>3, <2>1 DEF EInv, Exporting, B!Settled
  <2> QED BY <1>0, <1>3, <2>1, <2>2, <2>3, IdleTyped DEF EInv, Selected, Audited
<1> QED BY <1>1, <1>2, <1>3 DEF B!_copy_selected_files

LEMMA CommitKeeps ==
    ASSUME EInv, B!_commit_root
    PROVE  EInv' /\ run' # B!Idle
<1>0. /\ UNCHANGED <<head, receipt>> /\ run.phase = "commit" /\ run.kind = "export" /\ ~dest.dirty
  BY DEF B!_commit_root, EInv, Exporting
<1>1. PICK c \in Commits : /\ c = [date |-> run.commit, files |-> dest.files]
                           /\ dest' = [dest EXCEPT !.log = <<c>>]
                           /\ run' = [run EXCEPT !.phase = "digest", !.root = c]
  BY DEF B!_commit_root, EInv, ETyped, Exports, Roots, Commits
<1>2. c.files = dest.files
  BY <1>1
<1>3. <<c>> \in Seq(Commits) /\ Head(<<c>>) = c /\ <<c>> # <<>>
  OBVIOUS
<1>4. /\ dest' \in Roots /\ dest'.files = dest.files /\ dest'.log = <<c>>
      /\ dest'.dirty = dest.dirty /\ dest'.placed = dest.placed
  BY <1>1, <1>3 DEF EInv, ETyped, Roots
<1>5. run' \in Exports /\ run'.phase = "digest" /\ run'.kind = "export" /\ run'.root = c
  BY <1>0, <1>1 DEF EInv, ETyped, Exports, Phases
<1>6. ETyped'
  BY <1>0, <1>4, <1>5 DEF EInv, ETyped
<1>7. Selected'
  BY <1>2, <1>3, <1>4 DEF EInv, Selected
<1>8. Exporting'
  BY <1>0, <1>3, <1>4, <1>5 DEF Exporting, B!Settled
<1> QED BY <1>0, <1>5, <1>6, <1>7, <1>8, IdleTyped DEF EInv, Audited

LEMMA DigestKeeps ==
    ASSUME EInv, B!ReadDigests
    PROVE  EInv' /\ run' # B!Idle
<1>0. UNCHANGED <<head, dest, receipt>> /\ run.phase = "digest"
  BY DEF B!ReadDigests
<1>1. PICK ph \in {"validate", "check"}, listed \in SUBSET Named :
         /\ run' = [run EXCEPT !.tree = head, !.listed = listed, !.phase = ph]
         /\ (ph = "validate" => run.kind = "export")
  <2>1. CASE run.kind = "export"
    <3>1. dest.log \in Seq(Commits) /\ dest.log # <<>>
      BY <1>0, <2>1 DEF EInv, ETyped, Exporting, Roots
    <3>2. dest.log[Len(dest.log)] \in Commits
      BY <3>1
    <3>3. dest.log[Len(dest.log)].files \in SUBSET Named
      BY <3>2 DEF Commits
    <3>4. run' = [run EXCEPT !.tree = head, !.listed = dest.log[Len(dest.log)].files,
                             !.phase = "validate"]
      BY <2>1 DEF B!ReadDigests
    <3> QED BY <2>1, <3>3, <3>4
  <2>2. CASE run.kind # "export"
    <3>1. run.files \in SUBSET Named
      BY DEF EInv, ETyped, Exports, Named
    <3>2. run' = [run EXCEPT !.tree = head, !.listed = run.files, !.phase = "check"]
      BY <2>2 DEF B!ReadDigests
    <3> QED BY <3>1, <3>2
  <2> QED BY <2>1, <2>2
<1>2. head \in Dates
  BY DEF EInv, ETyped, Dates
<1>3. /\ run' \in Exports /\ run'.phase = ph /\ run'.kind = run.kind /\ run'.root = run.root
      /\ run'.disturbed = run.disturbed
  BY <1>1, <1>2 DEF EInv, ETyped, Exports, Phases
<1>4. ETyped'
  BY <1>0, <1>3 DEF EInv, ETyped
<1>5. Exporting'
  BY <1>0, <1>1, <1>3 DEF EInv, Exporting, B!Settled
<1> QED BY <1>0, <1>3, <1>4, <1>5, IdleTyped DEF EInv, Selected, Audited

\* The audit of one commit.
LEMMA OneCommitClean ==
    ASSUME NEW c
    PROVE  B!Clean(<<c>>) <=> c.files \cap Forbidden = {}
<1>1. Len(<<c>>) = 1 /\ <<c>>[1] = c
  OBVIOUS
<1>2. \A i \in 1..1 : i = 1
  OBVIOUS
<1> QED BY <1>1, <1>2 DEF B!Clean

LEMMA ReceiptMade ==
    ASSUME ETyped, NEW status \in {"exported", "validated"}
    PROVE  LET r == B!_make_receipt(status)
           IN /\ r \in ExportReceipts
              /\ r.root = run.root /\ r.status = status /\ r.disturbed = run.disturbed
  BY DEF ETyped, Exports, ExportReceipts, B!_make_receipt

LEMMA CheckKeeps ==
    ASSUME EInv, B!CheckResumable
    PROVE  EInv' /\ B!ValidatedIsExact
<1>0. UNCHANGED <<head, dest, receipt>> /\ run.phase = "check"
  BY DEF B!CheckResumable
<1>1. CASE run' = B!Idle /\ result' = "failed"
  BY <1>0, <1>1, EndKeeps DEF B!ValidatedIsExact
<1>2. CASE /\ B!_verify_resumable_export /\ B!_receipt_identity_matches(receipt)
           /\ receipt.status = "validated" /\ run' = B!Idle
  <2>1. [receipt EXCEPT !.status = "exported", !.disturbed = run.disturbed].root = receipt.root
    BY DEF EInv, ETyped, ExportReceipts
  <2>2. B!_make_receipt("exported").root = run.root
    BY ReceiptMade DEF EInv
  <2>3. receipt.root = run.root
    BY <1>2, <2>1, <2>2 DEF B!_receipt_identity_matches
  <2>4. ~dest.dirty /\ dest.log = <<run.root>>
    BY <1>2 DEF B!_verify_resumable_export
  <2>5. ~receipt.disturbed => B!Clean(<<run.root>>)
    BY <1>2, <2>3, OneCommitClean DEF EInv, Audited
  <2>6. B!ValidatedIsExact
    BY <1>0, <1>2, <2>3, <2>4, <2>5 DEF B!ValidatedIsExact
  <2> QED BY <2>6, <1>0, <1>2, EndKeeps
<1>3. CASE B!_verify_resumable_export /\ run' = [run EXCEPT !.phase = "validate"]
  <2>1. /\ run' \in Exports /\ run'.phase = "validate" /\ run'.root = run.root
        /\ run'.kind = run.kind
    BY <1>3 DEF EInv, ETyped, Exports, Phases
  <2>2. ~dest.dirty /\ dest.log = <<run.root>>
    BY <1>3 DEF B!_verify_resumable_export
  <2>3. ETyped'
    BY <1>0, <2>1 DEF EInv, ETyped
  <2>4. Exporting'
    BY <1>0, <2>1, <2>2 DEF Exporting
  <2>5. run' # B!Idle
    BY <2>1, IdleTyped
  <2> QED BY <1>0, <2>3, <2>4, <2>5 DEF EInv, Selected, Audited, B!ValidatedIsExact
<1> QED BY <1>1, <1>2, <1>3 DEF B!CheckResumable

\* The audit and the certification read the root as it is; what they found is still so,
\* unless it was disturbed.
LEMMA AuditKeeps ==
    ASSUME EInv, B!run_public_export_validation \/ B!CertifyClone
    PROVE  EInv' /\ (run' = B!Idle => result' = "failed")
<1>0. UNCHANGED <<head, dest, receipt>> /\ run.phase \in {"validate", "audited"}
  BY DEF B!run_public_export_validation, B!CertifyClone, B!StepFails
<1>1. CASE run' = B!Idle /\ result' = "failed"
  BY <1>0, <1>1, EndKeeps
<1>2. ASSUME NEW ph \in {"audited", "certified"}, run' = [run EXCEPT !.phase = ph],
             run.phase = "audited" \/ B!Clean(dest.log)
      PROVE  EInv' /\ run' # B!Idle
  <2>1. /\ run' \in Exports /\ run'.phase = ph /\ run'.root = run.root
        /\ run'.kind = run.kind /\ run'.disturbed = run.disturbed
    BY <1>2 DEF EInv, ETyped, Exports, Phases
  <2>2. ~run.disturbed => ~dest.dirty /\ dest.log = <<run.root>>
    BY <1>0 DEF EInv, Exporting, B!Settled
  <2>3. ~run.disturbed => run.root.files \cap Forbidden = {}
    BY <1>2, <2>2, OneCommitClean DEF EInv, Exporting
  <2>4. ETyped'
    BY <1>0, <2>1 DEF EInv, ETyped
  <2>5. Exporting'
    BY <1>0, <2>1, <2>2, <2>3 DEF Exporting
  <2> QED BY <1>0, <2>1, <2>4, <2>5, IdleTyped DEF EInv, Selected, Audited
<1> QED BY <1>1, <1>2 DEF B!run_public_export_validation, B!CertifyClone, B!StepFails

LEMMA WriteKeeps ==
    ASSUME EInv, B!WriteReceipt
    PROVE  EInv' /\ B!ValidatedIsExact
<1>0. UNCHANGED <<head, dest>> /\ run' = B!Idle
  BY DEF B!WriteReceipt
<1>1. PICK status \in {"validated", "exported"} :
         /\ receipt' = B!_make_receipt(status) /\ result' = status
         /\ status = "validated" => run.phase = "certified"
  BY DEF B!WriteReceipt
<1>2. /\ receipt' \in ExportReceipts /\ receipt'.root = run.root
      /\ receipt'.status = status /\ receipt'.disturbed = run.disturbed
  BY <1>1, ReceiptMade DEF EInv
<1>3. status = "validated" /\ ~run.disturbed =>
        /\ ~dest.dirty /\ dest.log = <<run.root>> /\ run.root.files \cap Forbidden = {}
  BY <1>1 DEF EInv, Exporting, B!Settled
<1>4. ETyped'
  BY <1>0, <1>2, IdleTyped DEF EInv, ETyped
<1>5. Exporting'
  BY <1>0, IdleTyped DEF Exporting, B!Settled
<1>6. Audited'
  BY <1>2, <1>3 DEF Audited
<1>7. B!ValidatedIsExact
  BY <1>0, <1>1, <1>2, <1>3, OneCommitClean DEF B!ValidatedIsExact
<1> QED BY <1>0, <1>4, <1>5, <1>6, <1>7 DEF EInv, Selected

LEMMA MovesKeeps == EInv /\ B!SourceMoves => EInv'
  BY DEF B!SourceMoves, B!Revisions, B!expvars, EInv, ETyped, Selected, Exporting, Audited,
     B!Settled

\* What somebody puts into the root is on record as theirs, and an export that relies on the
\* root is on record as disturbed.
LEMMA RootChangesKeeps ==
    ASSUME EInv, B!RootChanges
    PROVE  EInv' /\ (run' = B!Idle => run = B!Idle)
<1>0. /\ UNCHANGED <<head, receipt>> /\ run' = [run EXCEPT !.disturbed = @ \/ B!Settled]
  BY DEF B!RootChanges
<1>1. PICK d \in BOOLEAN : d = (run.disturbed \/ B!Settled)
  BY DEF B!Settled, EInv, ETyped, Exports
<1>2. /\ run' \in Exports /\ run'.phase = run.phase /\ run'.kind = run.kind
      /\ run'.disturbed = d
  BY <1>0, <1>1 DEF EInv, ETyped, Exports
<1>3. run.phase = "none" => run' = run
  <2>1. run.phase = "none" => ~B!Settled /\ d = run.disturbed
    BY <1>1 DEF B!Settled, EInv, ETyped, Exports
  <2> QED BY <1>0, <1>1, <2>1 DEF EInv, ETyped, Exports
<1>4. run' = B!Idle => run = B!Idle
  BY <1>2, <1>3, IdleTyped
<1>5. ASSUME dest' \in Roots, Selected',
             dest.log = <<>> => dest'.log = <<>> /\ dest'.dirty = dest.dirty,
             dest.log # <<>> => dest'.log # <<>>
      PROVE  EInv'
  <2>1. ETyped'
    BY <1>0, <1>2, <1>5 DEF EInv, ETyped
  <2>2. B!Settled' <=> B!Settled
    BY <1>2 DEF B!Settled
  <2>3. B!Settled' => run'.disturbed
    BY <1>1, <1>2, <2>2
  <2>4. run'.phase \in {"audited", "certified"} => B!Settled'
    BY DEF B!Settled
  <2>5. Exporting'
    BY <1>2, <1>3, <1>5, <2>3, <2>4 DEF EInv, Exporting
  <2> QED BY <1>0, <1>5, <2>1, <2>5 DEF EInv, Audited
<1>6. CASE dest.log # <<>> /\ dest' = [dest EXCEPT !.dirty = ~@]
  <2>1. /\ dest' \in Roots /\ dest'.files = dest.files /\ dest'.log = dest.log
        /\ dest'.placed = dest.placed
    BY <1>6 DEF EInv, ETyped, Roots
  <2> QED BY <1>4, <1>5, <1>6, <2>1 DEF EInv, Selected
<1>7. ASSUME NEW f \in Named, dest.log = <<>>,
             dest' = [dest EXCEPT !.files = @ \cup {f}, !.placed = @ \cup {f}]
      PROVE  EInv'
  <2>1. /\ dest' \in Roots /\ dest'.files = dest.files \cup {f} /\ dest'.log = dest.log
        /\ dest'.placed = dest.placed \cup {f} /\ dest'.dirty = dest.dirty
    BY <1>7 DEF EInv, ETyped, Roots
  <2>2. Selected'
    BY <1>7, <2>1 DEF EInv, Selected
  <2> QED BY <1>5, <1>7, <2>1, <2>2
<1>8. ASSUME NEW f \in Named, NEW c, c = [date |-> 0, files |-> dest.files \cup {f}],
             NEW moved \in {<<c>>, Append(dest.log, c)}, Len(dest.log) = 1,
             dest' = [dest EXCEPT !.placed = @ \cup {f}, !.log = moved]
      PROVE  EInv'
  <2>1. c \in Commits /\ c.files = dest.files \cup {f} /\ dest.log \in Seq(Commits)
    BY <1>8 DEF EInv, ETyped, Roots, Commits, Dates, Named
  <2>2. moved \in Seq(Commits) /\ moved # <<>> /\ Head(moved) \in {c, Head(dest.log)}
    <3>1. CASE moved = <<c>>
      BY <2>1, <3>1
    <3>2. CASE moved = Append(dest.log, c)
      <4>1. moved[1] = dest.log[1]
        BY <1>8, <2>1, <3>2
      <4> QED BY <2>1, <3>2, <4>1
    <3> QED BY <1>8, <3>1, <3>2
  <2>3. dest.log # <<>>
    <3>1. Len(dest.log) = 1 /\ Len(<<>>) = 0
      BY <1>8
    <3> QED BY <3>1
  <2>4. /\ dest' \in Roots /\ dest'.files = dest.files /\ dest'.log = moved
        /\ dest'.placed = dest.placed \cup {f}
    BY <1>8, <2>2 DEF EInv, ETyped, Roots
  <2>5. Selected'
    BY <2>1, <2>2, <2>3, <2>4 DEF EInv, Selected
  <2> QED BY <1>5, <2>2, <2>3, <2>4, <2>5
<1> QED BY <1>4, <1>6, <1>7, <1>8 DEF B!RootChanges, Named

LEMMA RemoveKeeps == EInv /\ B!RemoveRoot => EInv'
<1> SUFFICES ASSUME EInv, B!RemoveRoot
             PROVE  EInv'
  OBVIOUS
<1>0. /\ UNCHANGED <<head, run>> /\ run = B!Idle
      /\ dest' = B!Empty /\ receipt' = B!NoReceipt
  BY DEF B!RemoveRoot, B!Quiet
<1>1. B!NoReceipt \in ExportReceipts /\ B!Empty \in Roots
  BY DEF B!NoReceipt, B!NoCommit, B!Empty, ExportReceipts, Roots, Commits, Dates
<1>2. ETyped'
  BY <1>0, <1>1 DEF EInv, ETyped
<1>3. Selected' /\ Audited'
  BY <1>0 DEF Selected, Audited, B!Empty, B!NoReceipt
<1>4. Exporting'
  BY <1>0, IdleTyped DEF Exporting, B!Settled
<1> QED BY <1>2, <1>3, <1>4 DEF EInv

LEMMA EStep == EInv /\ [B!Next]_(B!vars) => EInv' /\ B!ValidatedIsExact
<1> SUFFICES ASSUME EInv, [B!Next]_(B!vars)
             PROVE  EInv' /\ B!ValidatedIsExact
  OBVIOUS
<1>0. run' = run \/ run' # B!Idle \/ result' = "failed" => B!ValidatedIsExact
  BY DEF B!ValidatedIsExact
<1>1. CASE \/ B!build_publication_plan \/ B!Approve \/ B!publish_publication_plan
           \/ B!_create_repository \/ B!ConfigureRepository \/ B!_push_fresh_root
           \/ B!FinishPublish \/ B!verify_publication \/ B!ForeignRepository
           \/ UNCHANGED B!vars
  <2>1. UNCHANGED <<head, dest, receipt, run>>
    BY <1>1 DEF B!build_publication_plan, B!Approve, B!publish_publication_plan,
       B!_create_repository, B!ConfigureRepository, B!_push_fresh_root, B!FinishPublish,
       B!verify_publication, B!ForeignRepository, B!vars, B!expvars
  <2> QED BY <2>1, <1>0, EStill
<1>2. CASE B!Dies
  <2>1. /\ UNCHANGED <<head, dest, receipt>> /\ run' = B!Idle
        /\ run # B!Idle => result' = "failed"
    BY <1>2 DEF B!Dies
  <2> QED BY <2>1, EndKeeps DEF B!ValidatedIsExact
<1>3. CASE B!SourceMoves
  <2>1. run' = run
    BY <1>3 DEF B!SourceMoves, B!expvars
  <2> QED BY <2>1, <1>0, <1>3, MovesKeeps
<1>4. CASE B!RootChanges
  BY <1>4, RootChangesKeeps DEF B!ValidatedIsExact
<1>5. CASE B!RemoveRoot
  <2>1. run' = run
    BY <1>5 DEF B!RemoveRoot
  <2> QED BY <2>1, <1>0, <1>5, RemoveKeeps
<1>6. CASE B!create_public_export \/ B!resume_public_export_validation
  BY <1>0, <1>6, BeginKeeps
<1>7. CASE B!_tracked_entries
  BY <1>0, <1>7, EntriesKeeps
<1>8. CASE B!_copy_selected_files
  BY <1>0, <1>8, CopyKeeps
<1>9. CASE B!_commit_root
  BY <1>0, <1>9, CommitKeeps
<1>10. CASE B!ReadDigests
  BY <1>0, <1>10, DigestKeeps
<1>11. CASE B!run_public_export_validation \/ B!CertifyClone
  BY <1>0, <1>11, AuditKeeps
<1> QED BY <1>1, <1>2, <1>3, <1>4, <1>5, <1>6, <1>7, <1>8, <1>9, <1>10, <1>11, CheckKeeps,
        WriteKeeps DEF B!Next

LEMMA ESelected == EInv => B!ExportIsSelected
  BY DEF EInv, Selected, B!ExportIsSelected

(* Publication (github_publication.py).  Once a command runs, or has published, *)
(* the approval is of the plan on record and the repository is ours.            *)

QTyped == /\ plan \in [status : {"missing", "ready_for_confirmation", "blocked", "published",
                                 "verified"}, log : Seq(Commits)]
          /\ remote \in [owner : {"none", "ours", "foreign"}, log : Seq(Commits)]
          /\ job \in {"none", "create", "settings", "push", "readback"}
Approved == /\ job # "none" => plan.status = "ready_for_confirmation" /\ approved = plan.log
            /\ job \in {"settings", "push", "readback"} => remote.owner = "ours"
            /\ plan.status \in {"published", "verified"} =>
                   approved = plan.log /\ remote.owner = "ours"
QInv == QTyped /\ Approved

LEMMA QInit == B!Init => QInv
  BY DEF B!Init, B!NoPlan, QInv, QTyped, Approved

LEMMA QStep ==
    EInv /\ QInv /\ [B!Next]_(B!vars) => QInv' /\ B!VerifiedWasApproved /\ B!ForeignIsUntouched
<1> SUFFICES ASSUME EInv, QInv, [B!Next]_(B!vars)
             PROVE  QInv' /\ B!VerifiedWasApproved /\ B!ForeignIsUntouched
  OBVIOUS
<1> USE DEF QInv
<1>0. dest.log \in Seq(Commits)
  BY DEF EInv, ETyped, Roots
<1>1. UNCHANGED plan => B!VerifiedWasApproved
  BY DEF B!VerifiedWasApproved
<1>2. UNCHANGED remote => B!ForeignIsUntouched
  BY DEF B!ForeignIsUntouched
<1>3. CASE \/ B!create_public_export \/ B!resume_public_export_validation \/ B!_tracked_entries
           \/ B!_copy_selected_files \/ B!_commit_root \/ B!ReadDigests \/ B!CheckResumable
           \/ B!run_public_export_validation \/ B!CertifyClone \/ B!WriteReceipt \/ B!SourceMoves \/ B!RootChanges \/ B!RemoveRoot
           \/ UNCHANGED B!vars
  <2>1. UNCHANGED <<plan, approved, job, remote>>
    BY <1>3 DEF B!create_public_export, B!resume_public_export_validation, B!_tracked_entries,
       B!_copy_selected_files, B!_commit_root, B!ReadDigests, B!CheckResumable,
       B!run_public_export_validation, B!CertifyClone, B!WriteReceipt, B!SourceMoves, B!RootChanges, B!RemoveRoot, B!vars,
       B!pubvars
  <2> QED BY <2>1, <1>1, <1>2 DEF QTyped, Approved
<1>4. CASE B!build_publication_plan
  <2>1. PICK st \in {"ready_for_confirmation", "blocked"} :
           plan' = [status |-> st, log |-> dest.log]
    BY <1>4 DEF B!build_publication_plan
  <2>2. job = "none" /\ UNCHANGED <<approved, job, remote>>
    BY <1>4 DEF B!build_publication_plan, B!Quiet
  <2>3. QTyped' /\ Approved'
    BY <1>0, <2>1, <2>2 DEF QTyped, Approved
  <2> QED BY <2>1, <2>2, <2>3, <1>2 DEF B!VerifiedWasApproved
<1>5. CASE B!Approve
  BY <1>1, <1>2, <1>5 DEF B!Approve, B!Quiet, QTyped, Approved
<1>6. CASE B!publish_publication_plan
  BY <1>1, <1>2, <1>6 DEF B!publish_publication_plan, B!Quiet, B!confirm_plan_approval, QTyped,
     Approved
<1>7. CASE B!_create_repository
  <2>0. UNCHANGED <<plan, approved>> /\ job = "create"
    BY <1>7 DEF B!_create_repository
  <2>1. CASE remote.owner = "none" /\ remote' = [owner |-> "ours", log |-> <<>>] /\ job' = "settings"
    BY <2>0, <2>1, <1>1 DEF QTyped, Approved, B!ForeignIsUntouched
  <2>2. CASE job' = "none" /\ UNCHANGED remote
    BY <2>0, <2>2, <1>1, <1>2 DEF QTyped, Approved
  <2> QED BY <2>1, <2>2, <1>7 DEF B!_create_repository
<1>8. CASE B!ConfigureRepository
  BY <1>1, <1>2, <1>8 DEF B!ConfigureRepository, QTyped, Approved
<1>9. CASE B!_push_fresh_root
  <2>1. /\ remote' = [remote EXCEPT !.log = dest.log] /\ job = "push" /\ job' = "readback"
        /\ UNCHANGED <<plan, approved>>
    BY <1>9 DEF B!_push_fresh_root
  <2>2. /\ remote' \in [owner : {"none", "ours", "foreign"}, log : Seq(Commits)]
        /\ remote'.owner = remote.owner /\ remote.owner = "ours"
    BY <1>0, <2>1 DEF QTyped, Approved
  <2> QED BY <2>1, <2>2, <1>1 DEF QTyped, Approved, B!ForeignIsUntouched
<1>10. CASE B!FinishPublish
  <2>1. /\ plan' = [plan EXCEPT !.status = "published"] /\ job = "readback" /\ job' = "none"
        /\ UNCHANGED <<approved, remote>>
    BY <1>10 DEF B!FinishPublish
  <2>2. plan' \in [status : {"missing", "ready_for_confirmation", "blocked", "published",
                             "verified"}, log : Seq(Commits)]
        /\ plan'.status = "published" /\ plan'.log = plan.log
    BY <2>1 DEF QTyped
  <2> QED BY <2>1, <2>2, <1>2 DEF QTyped, Approved, B!VerifiedWasApproved
<1>11. CASE B!verify_publication
  <2>1. /\ plan' = [plan EXCEPT !.status = "verified"] /\ plan.status = "published"
        /\ job = "none" /\ B!Clean(remote.log) /\ remote.log = plan.log
        /\ UNCHANGED <<approved, remote, job>>
    BY <1>11 DEF B!verify_publication, B!Quiet, B!_source_snapshot
  <2>2. plan' \in [status : {"missing", "ready_for_confirmation", "blocked", "published",
                             "verified"}, log : Seq(Commits)]
        /\ plan'.status = "verified" /\ plan'.log = plan.log
    BY <2>1 DEF QTyped
  <2>3. approved = plan.log /\ remote.owner = "ours"
    BY <2>1 DEF Approved
  <2>4. B!VerifiedWasApproved
    BY <2>1, <2>3 DEF B!VerifiedWasApproved
  <2> QED BY <2>1, <2>2, <2>3, <2>4, <1>2 DEF QTyped, Approved
<1>12. CASE B!ForeignRepository
  <2>1. /\ remote.owner = "none" /\ remote' = [owner |-> "foreign", log |-> <<>>]
        /\ UNCHANGED <<plan, approved, job>>
    BY <1>12 DEF B!ForeignRepository
  <2>2. remote' \in [owner : {"none", "ours", "foreign"}, log : Seq(Commits)]
    BY <2>1
  <2> QED BY <2>1, <2>2, <1>1 DEF QTyped, Approved, B!ForeignIsUntouched
<1>13. CASE B!Dies
  <2>1. job' = "none" /\ UNCHANGED <<plan, approved, remote>>
    BY <1>13 DEF B!Dies
  <2> QED BY <2>1, <1>1, <1>2 DEF QTyped, Approved
<1> QED BY <1>3, <1>4, <1>5, <1>6, <1>7, <1>8, <1>9, <1>10, <1>11, <1>12, <1>13 DEF B!Next

-----------------------------------------------------------------------------
(* Releases (release.py).  Runs are only added, so what was read of a run      *)
(* stays true of it; the numbers in receipts, index and attestation name runs  *)
(* of the right workflow.                                                      *)

Runs == [workflow : Workflows, head : Nat, ok : BOOLEAN]
Numbers == [Workflows -> Nat]
Statuses == {"awaiting_public_subject", "awaiting_post_push_attestation", "verified"}
Indexes == [status : Statuses, subject : Nat, evidence : Nat, runs : Numbers]

GTyped == /\ head \in Nat /\ runs \in Seq(Runs)
          /\ receipts \in [Receipts -> Nat] /\ reports \in [Kinds -> Nat]
          /\ index \in Indexes
          /\ attestation \in [index : Indexes, evidence : Nat, runs : Numbers]

\* The runs an index or an attestation names are there and of the workflow it names them for.
NamesRuns(named) ==
    \A w \in Workflows : named[w] # 0 => named[w] \in DOMAIN runs /\ runs[named[w]].workflow = w
Received == \A r \in Receipts : receipts[r] # 0 => /\ receipts[r] \in DOMAIN runs
                                                   /\ runs[receipts[r]].workflow = Producer[r]
Green(w, c) == \E n \in DOMAIN runs : runs[n] = [workflow |-> w, head |-> c, ok |-> TRUE]
\* The evidence of the last answer that says ready.
Ready ==
    /\ gates.release =>
          /\ \A w \in Workflows : Green(w, gates.subject)
          /\ \A r \in Receipts :
                /\ gates.receipts[r] \in DOMAIN runs
                /\ runs[gates.receipts[r]]
                     = [workflow |-> Producer[r], head |-> gates.subject, ok |-> TRUE]
          /\ \A k \in Kinds \ {"production"} : gates.reports[k] = gates.subject
    /\ gates.production => gates.release /\ \A k \in Kinds : gates.reports[k] = gates.subject
Attested == accepted # 0 => \A w \in Workflows : Green(w, accepted)

GInv == /\ GTyped /\ NamesRuns(index.runs) /\ NamesRuns(attestation.runs) /\ Received
        /\ Ready /\ Attested

LEMMA GInit == G!Init => GInv
<1> SUFFICES ASSUME G!Init
             PROVE  GInv
  OBVIOUS
<1> USE DEF G!Init, G!None, G!NoRuns, G!NoIndex, G!NoAttestation, G!NoGates
<1>1. GTyped
  <2>1. runs \in Seq(Runs)
    OBVIOUS
  <2>2. G!NoIndex \in Indexes
    BY DEF Indexes, Statuses, Numbers
  <2>3. attestation \in [index : Indexes, evidence : Nat, runs : Numbers]
    BY <2>2 DEF Numbers
  <2> QED BY <2>1, <2>2, <2>3 DEF GTyped
<1>2. NamesRuns(index.runs) /\ NamesRuns(attestation.runs) /\ Received
  BY DEF NamesRuns, Received
<1>3. Ready
  BY DEF Ready
<1>4. Attested
  BY DEF Attested
<1> QED BY <1>1, <1>2, <1>3, <1>4 DEF GInv

\* A run that is there stays, with what is known of it.
LEMMA RunsStay ==
    ASSUME GTyped, NEW w \in Workflows, NEW ok \in BOOLEAN, G!RunWorkflow(w, ok)
    PROVE  /\ runs' \in Seq(Runs)
           /\ \A n \in DOMAIN runs : n \in DOMAIN runs' /\ runs'[n] = runs[n]
<1> DEFINE new == [workflow |-> w, head |-> head, ok |-> ok]
<1>1. new \in Runs /\ runs' = Append(runs, new) /\ runs \in Seq(Runs)
  BY DEF G!RunWorkflow, GTyped, Runs
<1> HIDE DEF new
<1> QED BY <1>1

\* With the runs kept, what the other pieces say of them is kept.
LEMMA EvidenceStays ==
    ASSUME \A n \in DOMAIN runs : n \in DOMAIN runs' /\ runs'[n] = runs[n]
    PROVE  /\ Received /\ UNCHANGED receipts => Received'
           /\ NamesRuns(index.runs) /\ UNCHANGED index => NamesRuns(index.runs)'
           /\ NamesRuns(attestation.runs) /\ UNCHANGED attestation => NamesRuns(attestation.runs)'
           /\ Ready /\ UNCHANGED gates => Ready'
           /\ Attested /\ UNCHANGED accepted => Attested'
<1>0. \A w, c : Green(w, c) => Green(w, c)'
  BY DEF Green
<1>1. ASSUME Received, UNCHANGED receipts PROVE Received'
  BY <1>1 DEF Received
<1>2. ASSUME NamesRuns(index.runs), UNCHANGED index PROVE NamesRuns(index.runs)'
  BY <1>2 DEF NamesRuns
<1>3. ASSUME NamesRuns(attestation.runs), UNCHANGED attestation
      PROVE  NamesRuns(attestation.runs)'
  BY <1>3 DEF NamesRuns
<1>4. ASSUME Ready, UNCHANGED gates PROVE Ready'
  <2>1. ASSUME gates.release
        PROVE  /\ \A w \in Workflows : Green(w, gates.subject)'
               /\ \A r \in Receipts :
                     /\ gates.receipts[r] \in DOMAIN runs'
                     /\ runs'[gates.receipts[r]]
                          = [workflow |-> Producer[r], head |-> gates.subject, ok |-> TRUE]
    BY <1>0, <1>4, <2>1 DEF Ready, Green
  <2> QED BY <2>1, <1>4 DEF Ready
<1>5. ASSUME Attested, UNCHANGED accepted PROVE Attested'
  BY <1>0, <1>5 DEF Attested, Green
<1> QED BY <1>1, <1>2, <1>3, <1>4, <1>5

LEMMA GKeeps == GInv /\ UNCHANGED G!vars => GInv'
  BY DEF G!vars, GInv, GTyped, NamesRuns, Received, Ready, Attested, Green

\* A commit on which every named run succeeded is green for every workflow.
LEMMA ValidIsGreen ==
    ASSUME GTyped, NEW named \in Numbers, NEW c \in Nat, NamesRuns(named),
           G!validate_prerequisite_runs(named, c)
    PROVE  \A w \in Workflows : Green(w, c)
<1> SUFFICES ASSUME NEW w \in Workflows
             PROVE  Green(w, c)
  OBVIOUS
<1>1. PICK n \in DOMAIN runs : n = named[w] /\ runs[n].workflow = w /\ runs[n].ok
                               /\ runs[n].head = c
  BY DEF NamesRuns, G!validate_prerequisite_runs, G!None
<1>2. runs[n] \in Runs
  BY <1>1 DEF GTyped
<1>3. runs[n] = [workflow |-> w, head |-> c, ok |-> TRUE]
  BY <1>1, <1>2 DEF Runs
<1> QED BY <1>1, <1>3 DEF Green

LEMMA EvaluateKeeps == GInv /\ G!evaluate_public_completion => GInv'
<1> SUFFICES ASSUME GInv, G!evaluate_public_completion
             PROVE  GInv'
  OBVIOUS
<1>0. /\ UNCHANGED <<head, runs, receipts, reports, index, attestation, accepted>>
  BY DEF G!evaluate_public_completion, G!evidence
<1>1. GTyped' /\ NamesRuns(index.runs)' /\ NamesRuns(attestation.runs)' /\ Received' /\ Attested'
  BY <1>0 DEF GInv, GTyped, NamesRuns, Received, Attested, Green
<1>2. CASE gates' = G!NoGates
  <2>1. Ready'
    BY <1>2 DEF Ready, G!NoGates
  <2> QED BY <2>1, <1>1 DEF GInv
<1>3. CASE gates' # G!NoGates
  <2>1. /\ gates' = [release |-> TRUE, production |-> G!_production_evidence_valid,
                     subject |-> index.subject, receipts |-> receipts, reports |-> reports]
        /\ G!OfSubject("export") /\ G!OfSubject("security") /\ G!OfSubject("publication")
        /\ G!hosted_ci_ready /\ G!_validate_release_receipts
    BY <1>3 DEF G!evaluate_public_completion, G!_security_remediation_valid,
       G!_publication_receipt_valid
  <2>2. /\ gates'.release = TRUE /\ gates'.subject = index.subject
        /\ gates'.receipts = receipts /\ gates'.reports = reports
        /\ gates'.production = G!_production_evidence_valid
    BY <2>1
  <2>3. G!validate_prerequisite_runs(index.runs, index.subject)
    BY <2>1 DEF G!hosted_ci_ready, G!validate_prerequisite_runs
  <2>4. \A w \in Workflows : Green(w, index.subject)
    BY <2>3, ValidIsGreen DEF GInv, GTyped, Indexes
  <2>5. ASSUME NEW r \in Receipts
        PROVE  /\ receipts[r] \in DOMAIN runs
               /\ runs[receipts[r]] = [workflow |-> Producer[r], head |-> index.subject, ok |-> TRUE]
    <3>1. /\ receipts[r] # 0 /\ receipts[r] = index.runs[Producer[r]]
          /\ runs[receipts[r]].head = index.subject /\ runs[receipts[r]].ok
      BY <2>1 DEF G!_validate_release_receipts, G!None
    <3>2. receipts[r] \in DOMAIN runs /\ runs[receipts[r]].workflow = Producer[r]
      BY <3>1 DEF GInv, Received
    <3>3. runs[receipts[r]] \in Runs
      BY <3>2 DEF GInv, GTyped
    <3> QED BY <3>1, <3>2, <3>3 DEF Runs
  <2>6. \A k \in Kinds \ {"production"} : reports[k] = index.subject
    BY <2>1, KindsAreKnown DEF G!OfSubject
  <2>7. G!_production_evidence_valid => \A k \in Kinds : reports[k] = index.subject
    BY <2>6 DEF G!_production_evidence_valid, G!OfSubject
  <2>8. Ready'
    BY <1>0, <2>2, <2>4, <2>5, <2>6, <2>7 DEF Ready, Green
  <2> QED BY <2>8, <1>1 DEF GInv
<1> QED BY <1>2, <1>3

LEMMA VerifyKeeps ==
    ASSUME GInv, NEW c \in 1..head, G!verify_public_release_attestation(c)
    PROVE  GInv'
<1>0. UNCHANGED <<head, runs, receipts, reports, index, attestation, gates>>
  BY DEF G!verify_public_release_attestation, G!evidence
<1>1. GTyped' /\ NamesRuns(index.runs)' /\ NamesRuns(attestation.runs)' /\ Received' /\ Ready'
  BY <1>0 DEF GInv, GTyped, NamesRuns, Received, Ready, Green
<1>2. CASE accepted' = G!None
  BY <1>1, <1>2 DEF GInv, Attested, G!None
<1>3. CASE accepted' = c /\ G!validate_prerequisite_runs(attestation.runs, c)
  <2>1. attestation.runs \in Numbers /\ c \in Nat /\ NamesRuns(attestation.runs)
    BY DEF GInv, GTyped
  <2>2. \A w \in Workflows : Green(w, c)
    BY <2>1, <1>3, ValidIsGreen DEF GInv
  <2>3. Attested'
    BY <2>2, <1>0, <1>3 DEF Attested, Green
  <2> QED BY <2>3, <1>1 DEF GInv
<1> QED BY <1>2, <1>3 DEF G!verify_public_release_attestation

\* The runs an operator names of one workflow each.
LEMMA NamedRuns ==
    ASSUME GTyped, NEW named \in G!Named, G!Truthful(named)
    PROVE  named \in Numbers /\ NamesRuns(named)
<1>1. DOMAIN runs \subseteq Nat
  BY DEF GTyped
<1> QED BY <1>1 DEF G!Named, G!Truthful, G!None, Numbers, NamesRuns

LEMMA IndexKeeps ==
    ASSUME GInv, NEW subject \in 1..head, NEW commit \in 0..head, NEW named \in G!Named,
           G!build_public_evidence_index(subject, commit, named)
    PROVE  GInv'
<1>0. UNCHANGED <<head, runs, receipts, reports, attestation, gates, accepted>>
  BY DEF G!build_public_evidence_index, G!evidence
<1>1. NamesRuns(attestation.runs)' /\ Received' /\ Ready' /\ Attested'
  BY <1>0 DEF GInv, NamesRuns, Received, Ready, Attested, Green
<1>2. named \in Numbers /\ NamesRuns(named)
  BY NamedRuns DEF GInv, G!build_public_evidence_index
<1>3. PICK s \in Statuses : index' = [status |-> s, subject |-> subject, evidence |-> commit, runs |-> named]
  BY DEF G!build_public_evidence_index, Statuses
<1>4. subject \in Nat /\ commit \in Nat
  BY DEF GInv, GTyped
<1>5. index' \in Indexes /\ index'.runs = named
  BY <1>2, <1>3, <1>4 DEF Indexes
<1>6. GTyped'
  BY <1>0, <1>5 DEF GInv, GTyped
<1>7. NamesRuns(index.runs)'
  BY <1>0, <1>2, <1>5 DEF NamesRuns
<1> QED BY <1>1, <1>6, <1>7 DEF GInv

LEMMA AttestationKeeps ==
    ASSUME GInv, NEW commit \in 1..head, NEW named \in G!Named,
           G!build_public_release_attestation(commit, named)
    PROVE  GInv'
<1>0. UNCHANGED <<head, runs, receipts, reports, index, gates, accepted>>
  BY DEF G!build_public_release_attestation, G!evidence
<1>1. NamesRuns(index.runs)' /\ Received' /\ Ready' /\ Attested'
  BY <1>0 DEF GInv, NamesRuns, Received, Ready, Attested, Green
<1>2. named \in Numbers /\ NamesRuns(named)
  BY NamedRuns DEF GInv, G!build_public_release_attestation
<1>3. attestation' = [index |-> index, evidence |-> commit, runs |-> named]
  BY DEF G!build_public_release_attestation
<1>4. commit \in Nat /\ index \in Indexes
  BY DEF GInv, GTyped
<1>5. attestation' \in [index : Indexes, evidence : Nat, runs : Numbers]
  BY <1>2, <1>3, <1>4
<1>6. GTyped'
  BY <1>0, <1>5 DEF GInv, GTyped
<1>7. NamesRuns(attestation.runs)'
  BY <1>0, <1>2, <1>3 DEF NamesRuns
<1> QED BY <1>1, <1>6, <1>7 DEF GInv

LEMMA GStep == GInv /\ [G!Next]_(G!vars) => GInv'
<1> SUFFICES ASSUME GInv, [G!Next]_(G!vars)
             PROVE  GInv'
  OBVIOUS
<1>1. CASE G!Commit
  BY <1>1 DEF G!Commit, GInv, GTyped, NamesRuns, Received, Ready, Attested, Green
<1>2. ASSUME NEW w \in Workflows, NEW ok \in BOOLEAN, G!RunWorkflow(w, ok)
      PROVE  GInv'
  <2>1. /\ runs' \in Seq(Runs)
        /\ \A n \in DOMAIN runs : n \in DOMAIN runs' /\ runs'[n] = runs[n]
    BY <1>2, RunsStay DEF GInv
  <2>2. UNCHANGED <<head, receipts, reports, index, attestation, gates, accepted>>
    BY <1>2 DEF G!RunWorkflow
  <2>3. GTyped'
    BY <2>1, <2>2 DEF GInv, GTyped
  <2>4. Received' /\ NamesRuns(index.runs)' /\ NamesRuns(attestation.runs)'
    BY <2>1, <2>2, EvidenceStays DEF GInv
  <2>5. Ready' /\ Attested'
    BY <2>1, <2>2, EvidenceStays DEF GInv
  <2> QED BY <2>3, <2>4, <2>5 DEF GInv
<1>3. ASSUME NEW r \in Receipts, NEW n \in DOMAIN runs, G!Download(r, n)
      PROVE  GInv'
  <2>0. UNCHANGED <<head, runs, reports, index, attestation, gates, accepted>>
    BY <1>3 DEF G!Download
  <2>1. NamesRuns(index.runs)' /\ NamesRuns(attestation.runs)' /\ Ready' /\ Attested'
    BY <2>0 DEF GInv, NamesRuns, Ready, Attested, Green
  <2>2. n \in Nat
    BY DEF GInv, GTyped
  <2>3. GTyped'
    BY <2>0, <2>2, <1>3 DEF GInv, GTyped, G!Download
  <2>4. Received'
    BY <2>0, <1>3 DEF GInv, GTyped, Received, G!Download
  <2> QED BY <2>1, <2>3, <2>4 DEF GInv
<1>4. ASSUME NEW k \in Kinds, G!Collect(k)
      PROVE  GInv'
  BY <1>4 DEF G!Collect, GInv, GTyped, NamesRuns, Received, Ready, Attested, Green
<1>5. CASE UNCHANGED G!vars
  BY <1>5, GKeeps
<1> QED BY <1>1, <1>2, <1>3, <1>4, <1>5, IndexKeeps, AttestationKeeps, VerifyKeeps,
        EvaluateKeeps DEF G!Next

LEMMA GReady == GInv => G!ReadyIsOneCommit /\ G!AcceptedIsGreen
  BY DEF GInv, Ready, Attested, Green, G!ReadyIsOneCommit, G!AcceptedIsGreen, G!None

-----------------------------------------------------------------------------
(* The experiment (experiment.py).  A line of the log is the exposure of one   *)
(* prompt of one session, in the arm of that session's hash, and no prompt has *)
(* two: a hook that reads the log and a hook that appends are the same one.  A *)
(* line that lacks its newline is of a hook that is dead, and showed nothing.  *)

Hashes == Sessions \X {2}
ArmsGiven == {Arm[<<s, 1>>] : s \in Sessions}
Exposures == [session : Hashes, task : Nat, arm : ArmsGiven, protocol : Nat,
              whole : BOOLEAN, ended : BOOLEAN]
Outcomes == [session : Hashes, task : Nat, verified : BOOLEAN]

XTyped == /\ pc \in [Sessions -> {"idle", "scan", "append", "deliver"}]
          /\ prompts \in [Sessions -> Nat]
          /\ log \in Seq(Exposures) /\ outcomes \in Seq(Outcomes) /\ protocol \in Nat

IsOf(r, s, t) == r.session = <<s, 2>> /\ r.task = t
\* A record's arm is that of the hook that wrote it, and its prompt has been given.
OfHook(r) == \E s \in Sessions : r.session = <<s, 2>> /\ r.arm = Arm[<<s, 1>>]
Logged == \A i \in DOMAIN log :
             \E s \in Sessions : /\ log[i].session = <<s, 2>> /\ log[i].arm = Arm[<<s, 1>>]
                                 /\ log[i].task <= prompts[s]
Once == \A i, j \in DOMAIN log : X!Key(log[i]) = X!Key(log[j]) => i = j
\* Before its own record is written a prompt has none, and after it has one.
Turn(s) == /\ pc[s] \in {"scan", "append"} => \A i \in DOMAIN log : ~IsOf(log[i], s, prompts[s])
           /\ pc[s] = "deliver" => \E i \in DOMAIN log : IsOf(log[i], s, prompts[s])
ShownTo == \A x \in shown : /\ x \in Sessions \X Nat /\ Arm[<<x[1], 1>>] = "treatment"
                            /\ \E i \in DOMAIN log : IsOf(log[i], x[1], x[2])
\* The hook that left a line unended shows no context for it.
Over(r, s) == /\ IsOf(r, s, prompts[s]) => pc[s] = "idle"
              /\ \A t : IsOf(r, s, t) => <<s, t>> \notin shown
CutShort == \A i \in DOMAIN log : ~log[i].ended => \A s \in Sessions : Over(log[i], s)
\* A claim: every record it rests on has one outcome and the registered protocol.
Sound(exposures, results, version) ==
    /\ \A i \in DOMAIN exposures : exposures[i].whole =>
          /\ OfHook(exposures[i]) /\ exposures[i].protocol = version
          /\ Cardinality({j \in DOMAIN results : X!Key(results[j]) = X!Key(exposures[i])}) = 1
    /\ \A a \in {"control", "treatment"} :
          Cardinality({X!Key(exposures[i]) : i \in {k \in DOMAIN exposures :
                           exposures[k].whole /\ exposures[k].arm = a}}) >= Minimum
Claimed == report.claim => Sound(report.exposures, report.outcomes, report.protocol)

XInv == XTyped /\ Logged /\ Once /\ (\A s \in Sessions : Turn(s)) /\ ShownTo /\ CutShort /\ Claimed

LEMMA SameSize == \A S : X!Cardinality(S) = Cardinality(S)
  BY DEF X!Cardinality, Cardinality

\* The identifiers a hook works with: the session hashed once, and in the record twice.
LEMMA Ids ==
    ASSUME NEW s
    PROVE  /\ X!session_id_hash(s) = <<s, 1>>
           /\ X!fingerprint(X!session_id_hash(s)) = <<s, 2>>
           /\ X!assign_arm(X!session_id_hash(s)) = Arm[<<s, 1>>]
<1>1. X!session_id_hash(s) = <<s, 1>>
  BY DEF X!session_id_hash, X!fingerprint
<1>2. X!fingerprint(<<s, 1>>) = <<s, 2>>
  BY DEF X!fingerprint
<1>3. X!_canonical_session_hash(<<s, 1>>) = <<s, 1>>
  BY DEF X!_canonical_session_hash
<1> QED BY <1>1, <1>2, <1>3 DEF X!assign_arm

LEMMA XInit == X!Init => XInv
<1> SUFFICES ASSUME X!Init
             PROVE  XInv
  OBVIOUS
<1>1. XTyped
  BY DEF X!Init, XTyped
<1>2. Logged /\ Once /\ (\A s \in Sessions : Turn(s)) /\ ShownTo /\ CutShort
  BY DEF X!Init, Logged, Once, Turn, ShownTo, CutShort
<1>3. Claimed
  BY DEF X!Init, X!NoReport, Claimed
<1> QED BY <1>1, <1>2, <1>3 DEF XInv

LEMMA ClaimStays == Claimed /\ UNCHANGED report => Claimed'
  BY DEF Claimed

\* A session's step that writes no record and shows nothing new.
LEMMA QuietStep ==
    ASSUME XInv, NEW s \in Sessions, NEW v \in {"idle", "scan", "append"},
           pc' = [pc EXCEPT ![s] = v],
           UNCHANGED <<log, outcomes, protocol, report, shown>>,
           prompts' \in [Sessions -> Nat],
           \A q \in Sessions : q # s => prompts'[q] = prompts[q],
           prompts[s] <= prompts'[s],
           v # "idle" => \A i \in DOMAIN log : ~IsOf(log[i], s, prompts'[s])
    PROVE  XInv'
<1>1. XTyped'
  BY DEF XInv, XTyped
<1>2. Logged'
  <2> SUFFICES ASSUME NEW i \in DOMAIN log
               PROVE  \E q \in Sessions : /\ log[i].session = <<q, 2>> /\ log[i].arm = Arm[<<q, 1>>]
                                          /\ log[i].task <= prompts'[q]
    BY DEF Logged
  <2>1. PICK q \in Sessions : /\ log[i].session = <<q, 2>> /\ log[i].arm = Arm[<<q, 1>>]
                              /\ log[i].task <= prompts[q]
    BY DEF XInv, Logged
  <2>2. log[i].task \in Nat /\ prompts[q] \in Nat /\ prompts'[q] \in Nat
    <3>1. log[i] \in Exposures /\ prompts \in [Sessions -> Nat]
      BY DEF XInv, XTyped
    <3> QED BY <3>1 DEF Exposures
  <2>3. prompts[q] <= prompts'[q]
    BY <2>2
  <2>4. log[i].task <= prompts'[q]
    BY <2>1, <2>2, <2>3
  <2> QED BY <2>1, <2>4
<1>3. Once'
  BY DEF XInv, Once, X!Key
<1>4. ASSUME NEW q \in Sessions
      PROVE  Turn(q)'
  <2>1. CASE q = s
    <3>1. pc'[q] = v
      BY <2>1 DEF XInv, XTyped
    <3> QED BY <3>1, <2>1 DEF Turn, IsOf
  <2>2. CASE q # s
    <3>1. pc'[q] = pc[q] /\ prompts'[q] = prompts[q]
      BY <2>2 DEF XInv, XTyped
    <3>2. Turn(q)
      BY DEF XInv
    <3> QED BY <3>1, <3>2 DEF Turn, IsOf
  <2> QED BY <2>1, <2>2
<1>5. ShownTo'
  BY DEF XInv, ShownTo, IsOf
<1>6. CutShort'
  <2> SUFFICES ASSUME NEW i \in DOMAIN log, ~log[i].ended, NEW q \in Sessions
               PROVE  Over(log[i], q)'
    BY DEF CutShort, Over, IsOf
  <2>1. Over(log[i], q)
    BY DEF XInv, CutShort
  <2>2. IsOf(log[i], q, prompts'[q]) => pc'[q] = "idle"
    <3>1. CASE q = s
      <4>1. pc'[q] = v
        BY <3>1 DEF XInv, XTyped
      <4> QED BY <4>1, <3>1
    <3>2. CASE q # s
      <4>1. pc'[q] = pc[q] /\ prompts'[q] = prompts[q]
        BY <3>2 DEF XInv, XTyped
      <4> QED BY <4>1, <2>1 DEF Over
    <3> QED BY <3>1, <3>2
  <2> QED BY <2>1, <2>2 DEF Over, IsOf
<1>7. Claimed'
  BY ClaimStays DEF XInv
<1> QED BY <1>1, <1>2, <1>3, <1>4, <1>5, <1>6, <1>7 DEF XInv

LEMMA PromptKeeps ==
    ASSUME XInv, NEW s \in Sessions, X!Prompt(s)
    PROVE  XInv'
<1>1. /\ pc' = [pc EXCEPT ![s] = "scan"]
      /\ prompts' = [prompts EXCEPT ![s] = @ + 1]
      /\ UNCHANGED <<log, outcomes, protocol, report, shown>>
  BY DEF X!Prompt
<1>2. /\ prompts' \in [Sessions -> Nat] /\ prompts'[s] = prompts[s] + 1
      /\ \A q \in Sessions : q # s => prompts'[q] = prompts[q]
      /\ prompts[s] \in Nat
  BY <1>1 DEF XInv, XTyped
<1>3. \A i \in DOMAIN log : ~IsOf(log[i], s, prompts'[s])
  <2> SUFFICES ASSUME NEW i \in DOMAIN log, IsOf(log[i], s, prompts'[s])
               PROVE  FALSE
    OBVIOUS
  <2>1. PICK q \in Sessions : log[i].session = <<q, 2>> /\ log[i].task <= prompts[q]
    BY DEF XInv, Logged
  <2>2. q = s
    BY <2>1 DEF IsOf
  <2> QED BY <2>1, <2>2, <1>2 DEF IsOf
<1>4. prompts[s] <= prompts'[s] /\ "scan" \in {"idle", "scan", "append"}
  BY <1>2
<1> QED BY <1>1, <1>2, <1>3, <1>4, QuietStep

LEMMA ScanKeeps ==
    ASSUME XInv, NEW s \in Sessions, X!Scan(s) \/ X!Fail(s)
    PROVE  XInv'
<1>1. PICK v \in {"idle", "append"} :
         /\ pc' = [pc EXCEPT ![s] = v] /\ (v = "append" => pc[s] = "scan")
  BY DEF X!Scan, X!Fail
<1>2. UNCHANGED <<log, outcomes, protocol, report, shown, prompts>>
  BY DEF X!Scan, X!Fail
<1>3. /\ prompts' \in [Sessions -> Nat] /\ prompts[s] <= prompts'[s]
  BY <1>2 DEF XInv, XTyped
<1>4. v # "idle" => \A i \in DOMAIN log : ~IsOf(log[i], s, prompts'[s])
  BY <1>1, <1>2 DEF XInv, Turn
<1> QED BY <1>1, <1>2, <1>3, <1>4, QuietStep

LEMMA DeliverKeeps ==
    ASSUME XInv, NEW s \in Sessions, X!Deliver(s)
    PROVE  XInv'
<1>1. /\ pc[s] = "deliver" /\ pc' = [pc EXCEPT ![s] = "idle"]
      /\ UNCHANGED <<log, outcomes, protocol, report, prompts>>
  BY DEF X!Deliver
<1>2. \/ shown' = shown
      \/ Arm[<<s, 1>>] = "treatment" /\ shown' = shown \cup {<<s, prompts[s]>>}
  BY Ids DEF X!Deliver, X!Treated
<1>3. XTyped' /\ Logged' /\ Once' /\ Claimed'
  <2>1. Claimed'
    BY <1>1, ClaimStays DEF XInv
  <2> QED BY <2>1, <1>1 DEF XInv, XTyped, Logged, Once, X!Key
<1>4. ASSUME NEW q \in Sessions
      PROVE  Turn(q)'
  BY <1>1 DEF XInv, XTyped, Turn, IsOf
<1>5. ShownTo'
  <2> SUFFICES ASSUME NEW x \in shown'
               PROVE  /\ x \in Sessions \X Nat /\ Arm[<<x[1], 1>>] = "treatment"
                      /\ \E i \in DOMAIN log : IsOf(log[i], x[1], x[2])
    BY <1>1 DEF ShownTo, IsOf
  <2>1. CASE x \in shown
    BY <2>1 DEF XInv, ShownTo
  <2>2. CASE x = <<s, prompts[s]>> /\ Arm[<<s, 1>>] = "treatment"
    <3>1. \E i \in DOMAIN log : IsOf(log[i], s, prompts[s])
      BY <1>1 DEF XInv, Turn
    <3>2. prompts[s] \in Nat
      BY DEF XInv, XTyped
    <3> QED BY <2>2, <3>1, <3>2
  <2> QED BY <2>1, <2>2, <1>2
<1>6. CutShort'
  <2> SUFFICES ASSUME NEW i \in DOMAIN log, ~log[i].ended, NEW q \in Sessions
               PROVE  Over(log[i], q)'
    BY <1>1 DEF CutShort, Over, IsOf
  <2>1. Over(log[i], q)
    BY DEF XInv, CutShort
  <2>2. IsOf(log[i], q, prompts[q]) => pc'[q] = "idle"
    BY <2>1, <1>1 DEF Over, XInv, XTyped
  <2>3. ~IsOf(log[i], s, prompts[s])
    BY <1>1 DEF XInv, CutShort, Over
  <2>4. ASSUME NEW t, IsOf(log[i], q, t)
        PROVE  <<q, t>> \notin shown'
    <3>1. <<q, t>> \notin shown /\ <<q, t>> # <<s, prompts[s]>>
      BY <2>1, <2>3, <2>4 DEF Over
    <3> QED BY <3>1, <1>2
  <2> QED BY <2>2, <2>4, <1>1 DEF Over, IsOf
<1> QED BY <1>3, <1>4, <1>5, <1>6 DEF XInv

\* A write puts one line at m, a place behind the log or that of a line left unended.
LEMMA LineKeeps ==
    ASSUME XInv, NEW s \in Sessions, pc[s] = "append",
           NEW e \in Exposures, IsOf(e, s, prompts[s]), e.arm = Arm[<<s, 1>>],
           log' = X!Written(e),
           NEW v \in {"idle", "deliver"}, pc' = [pc EXCEPT ![s] = v], ~e.ended => v = "idle",
           UNCHANGED <<prompts, shown, outcomes, protocol, report>>
    PROVE  XInv'
<1>0. prompts[s] \in Nat
  BY DEF XInv, XTyped
<1>1. PICK n \in Nat : n = Len(log) /\ DOMAIN log = 1..n
  BY DEF XInv, XTyped
<1>2. PICK m \in Nat :
         /\ log' \in Seq(Exposures)
         /\ m \in DOMAIN log' /\ log'[m].session = e.session /\ log'[m].task = e.task
         /\ log'[m].arm = e.arm /\ log'[m].ended = e.ended
         /\ \A i \in DOMAIN log : i # m => i \in DOMAIN log' /\ log'[i] = log[i]
         /\ \A i \in DOMAIN log' : i = m \/ i \in DOMAIN log
         /\ m \in DOMAIN log => ~log[m].ended
  <2>1. CASE log # <<>> /\ ~log[Len(log)].ended
    <3> DEFINE g == [e EXCEPT !.whole = FALSE]
    <3>1. g \in Exposures /\ g.session = e.session /\ g.task = e.task /\ g.arm = e.arm
          /\ g.ended = e.ended
      BY DEF Exposures
    <3> HIDE DEF g
    <3>2. log' = [log EXCEPT ![n] = g]
      BY <2>1, <1>1 DEF X!Written, g
    <3>3. n \in 1..n
      BY <2>1, <1>1 DEF XInv, XTyped
    <3>4. log' \in Seq(Exposures) /\ DOMAIN log' = 1..n
      BY <3>1, <3>2, <3>3, <1>1 DEF XInv, XTyped
    <3> QED BY <2>1, <1>1, <3>1, <3>2, <3>3, <3>4
  <2>2. CASE ~(log # <<>> /\ ~log[Len(log)].ended)
    <3>1. log' = Append(log, e)
      BY <2>2 DEF X!Written
    <3>2. log' \in Seq(Exposures) /\ DOMAIN log' = 1..(n + 1) /\ log'[n + 1] = e
          /\ \A i \in 1..n : log'[i] = log[i]
      BY <3>1, <1>1 DEF XInv, XTyped
    <3>3. \A i \in 1..(n + 1) : i = n + 1 \/ i \in 1..n
      OBVIOUS
    <3>4. n + 1 \in Nat /\ n + 1 \in 1..(n + 1) /\ n + 1 \notin 1..n
          /\ \A i \in 1..n : i \in 1..(n + 1)
      OBVIOUS
    <3> QED BY <1>1, <3>2, <3>3, <3>4
  <2> QED BY <2>1, <2>2
<1>3. XTyped'
  BY <1>2 DEF XInv, XTyped
<1>4. IsOf(log'[m], s, prompts[s]) /\ log'[m].arm = Arm[<<s, 1>>]
  BY <1>2 DEF IsOf
<1>5. \A i \in DOMAIN log : ~IsOf(log[i], s, prompts[s])
  BY DEF XInv, Turn
<1>6. Logged'
  <2> SUFFICES ASSUME NEW i \in DOMAIN log'
               PROVE  \E q \in Sessions : /\ log'[i].session = <<q, 2>>
                                          /\ log'[i].arm = Arm[<<q, 1>>]
                                          /\ log'[i].task <= prompts[q]
    BY DEF Logged
  <2>1. CASE i # m
    <3>1. i \in DOMAIN log /\ log'[i] = log[i]
      BY <2>1, <1>2
    <3> QED BY <3>1 DEF XInv, Logged
  <2>2. CASE i = m
    <3>1. log'[i].task = prompts[s] /\ prompts[s] <= prompts[s] /\ log'[i].session = <<s, 2>>
      BY <2>2, <1>4, <1>0 DEF IsOf
    <3> QED BY <2>2, <3>1, <1>4
  <2> QED BY <2>1, <2>2
<1>7. Once'
  <2> SUFFICES ASSUME NEW i \in DOMAIN log', NEW j \in DOMAIN log', i # j,
                      X!Key(log'[i]) = X!Key(log'[j])
               PROVE  FALSE
    BY DEF Once, X!Key
  <2>1. ASSUME NEW k \in DOMAIN log', k # m
        PROVE  X!Key(log'[k]) # X!Key(log'[m])
    <3>1. k \in DOMAIN log /\ log'[k] = log[k]
      BY <2>1, <1>2
    <3> QED BY <3>1, <1>4, <1>5 DEF IsOf, X!Key
  <2>2. CASE i # m /\ j # m
    <3>1. i \in DOMAIN log /\ j \in DOMAIN log /\ log'[i] = log[i] /\ log'[j] = log[j]
      BY <2>2, <1>2
    <3> QED BY <3>1 DEF XInv, Once
  <2>3. CASE i = m \/ j = m
    BY <2>1, <2>3
  <2> QED BY <2>2, <2>3
<1>8. ASSUME NEW q \in Sessions
      PROVE  Turn(q)'
  <2>1. CASE q = s
    <3>1. pc'[q] = v
      BY <2>1 DEF XInv, XTyped
    <3> QED BY <3>1, <2>1, <1>2, <1>4 DEF Turn, IsOf
  <2>2. CASE q # s
    <3>1. pc'[q] = pc[q] /\ Turn(q)
      BY <2>2 DEF XInv, XTyped
    <3>2. ~IsOf(log'[m], q, prompts[q])
      BY <2>2, <1>4 DEF IsOf
    <3>3. pc[q] \in {"scan", "append"} => \A i \in DOMAIN log' : ~IsOf(log'[i], q, prompts[q])
      BY <3>1, <3>2, <1>2 DEF Turn
    <3>4. ASSUME pc[q] = "deliver"
          PROVE  \E i \in DOMAIN log' : IsOf(log'[i], q, prompts[q])
      <4>1. PICK i \in DOMAIN log : IsOf(log[i], q, prompts[q])
        BY <3>1, <3>4 DEF Turn
      <4>2. i # m
        BY <4>1, <3>4, <1>2 DEF XInv, CutShort, Over
      <4> QED BY <4>1, <4>2, <1>2
    <3> QED BY <3>1, <3>3, <3>4 DEF Turn, IsOf
  <2> QED BY <2>1, <2>2
<1>9. ShownTo'
  <2> SUFFICES ASSUME NEW x \in shown
               PROVE  /\ x \in Sessions \X Nat /\ Arm[<<x[1], 1>>] = "treatment"
                      /\ \E i \in DOMAIN log' : IsOf(log'[i], x[1], x[2])
    BY DEF ShownTo, IsOf
  <2>1. x \in Sessions \X Nat /\ Arm[<<x[1], 1>>] = "treatment"
    BY DEF XInv, ShownTo
  <2>2. PICK i \in DOMAIN log : IsOf(log[i], x[1], x[2])
    BY DEF XInv, ShownTo
  <2>3. x = <<x[1], x[2]>> /\ x[1] \in Sessions
    BY <2>1
  <2>4. i # m
    BY <2>2, <2>3, <1>2 DEF XInv, CutShort, Over
  <2> QED BY <2>1, <2>2, <2>4, <1>2
<1>10. CutShort'
  <2> SUFFICES ASSUME NEW i \in DOMAIN log', ~log'[i].ended, NEW q \in Sessions
               PROVE  /\ IsOf(log'[i], q, prompts[q]) => pc'[q] = "idle"
                      /\ \A t : IsOf(log'[i], q, t) => <<q, t>> \notin shown
    BY DEF CutShort, Over, IsOf
  <2>1. CASE i # m
    <3>1. i \in DOMAIN log /\ log'[i] = log[i]
      BY <2>1, <1>2
    <3>2. Over(log[i], q)
      BY <3>1 DEF XInv, CutShort
    <3>3. q = s => ~IsOf(log[i], q, prompts[q])
      BY <3>1, <1>5
    <3>4. q # s => pc'[q] = pc[q]
      BY DEF XInv, XTyped
    <3> QED BY <3>1, <3>2, <3>3, <3>4 DEF Over, IsOf
  <2>2. CASE i = m
    <3>1. v = "idle"
      BY <2>2, <1>2
    <3>2. IsOf(log'[i], q, prompts[q]) => q = s
      BY <2>2, <1>4 DEF IsOf
    <3>3. pc'[s] = "idle"
      BY <3>1 DEF XInv, XTyped
    <3>4. ASSUME NEW t, IsOf(log'[i], q, t)
          PROVE  <<q, t>> \notin shown
      <4>1. q = s /\ t = prompts[s]
        BY <3>4, <2>2, <1>4 DEF IsOf
      <4> QED BY <4>1, <1>5 DEF XInv, ShownTo
    <3> QED BY <3>2, <3>3, <3>4 DEF Over, IsOf
  <2> QED BY <2>1, <2>2
<1>11. Claimed'
  BY ClaimStays DEF XInv
<1> QED BY <1>3, <1>6, <1>7, <1>8, <1>9, <1>10, <1>11 DEF XInv

LEMMA AppendKeeps ==
    ASSUME XInv, NEW s \in Sessions, X!AppendExposure(s) \/ X!CutAppend(s)
    PROVE  XInv'
<1> DEFINE e == X!Exposure(s)
<1>0. /\ pc[s] = "append"
      /\ UNCHANGED <<prompts, shown, outcomes, protocol, report>>
  BY DEF X!AppendExposure, X!CutAppend
<1>1. e = [session |-> <<s, 2>>, task |-> prompts[s], arm |-> Arm[<<s, 1>>], protocol |-> protocol,
           whole |-> TRUE, ended |-> TRUE]
  BY Ids DEF X!Exposure, X!ExposureRecord
<1>2. e \in Exposures /\ IsOf(e, s, prompts[s]) /\ e.arm = Arm[<<s, 1>>] /\ e.ended
  <2>1. prompts[s] \in Nat /\ protocol \in Nat
    BY DEF XInv, XTyped
  <2>2. <<s, 2>> \in Hashes /\ Arm[<<s, 1>>] \in ArmsGiven
    BY DEF Hashes, ArmsGiven
  <2>3. e \in Exposures
    BY <2>1, <2>2, <1>1 DEF Exposures
  <2> QED BY <2>1, <2>3, <1>1 DEF IsOf
<1>3. CASE X!AppendExposure(s)
  <2>1. pc' = [pc EXCEPT ![s] = "deliver"] /\ log' = X!Written(e)
    BY <1>3 DEF X!AppendExposure
  <2> HIDE DEF e
  <2> QED BY <2>1, <1>0, <1>2, LineKeeps
<1>4. CASE X!CutAppend(s)
  <2>1. PICK b \in BOOLEAN : log' = X!Written([e EXCEPT !.whole = b, !.ended = FALSE])
    BY <1>4 DEF X!CutAppend
  <2> DEFINE c == [e EXCEPT !.whole = b, !.ended = FALSE]
  <2>2. pc' = [pc EXCEPT ![s] = "idle"] /\ log' = X!Written(c)
    BY <1>4, <2>1 DEF X!CutAppend
  <2> HIDE DEF e
  <2>3. c \in Exposures /\ IsOf(c, s, prompts[s]) /\ c.arm = Arm[<<s, 1>>]
    BY <1>2 DEF Exposures, IsOf
  <2> HIDE DEF c
  <2> QED BY <2>2, <2>3, <1>0, LineKeeps
<1> QED BY <1>3, <1>4

LEMMA OutcomeKeeps ==
    ASSUME XInv, NEW s \in Sessions, NEW t \in 1..MaxPrompts, NEW v \in BOOLEAN,
           X!record_outcome(s, t, v)
    PROVE  XInv'
<1> DEFINE o == X!OutcomeRecord(X!fingerprint(X!session_id_hash(s)), t, v)
<1>0. /\ outcomes' = Append(outcomes, o)
      /\ UNCHANGED <<pc, prompts, log, shown, protocol, report>>
  BY DEF X!record_outcome
<1>1. o = [session |-> <<s, 2>>, task |-> t, verified |-> v]
  BY Ids DEF X!OutcomeRecord
<1>2. o \in Outcomes
  <2>1. <<s, 2>> \in Hashes /\ t \in Nat
    BY PromptsAreCounted DEF Hashes
  <2> QED BY <2>1, <1>1 DEF Outcomes
<1> HIDE DEF o
<1>3. outcomes' \in Seq(Outcomes)
  BY <1>0, <1>2 DEF XInv, XTyped
<1>4. XTyped' /\ Logged' /\ Once' /\ (\A q \in Sessions : Turn(q)') /\ ShownTo' /\ CutShort'
  BY <1>0, <1>3 DEF XInv, XTyped, Logged, Once, X!Key, Turn, IsOf, ShownTo, CutShort, Over
<1>5. Claimed'
  BY <1>0, ClaimStays DEF XInv
<1> QED BY <1>4, <1>5 DEF XInv

LEMMA EditKeeps == XInv /\ X!EditProtocol => XInv'
<1> SUFFICES ASSUME XInv, X!EditProtocol
             PROVE  XInv'
  OBVIOUS
<1>0. /\ protocol' = protocol + 1
      /\ UNCHANGED <<pc, prompts, log, shown, outcomes, report>>
  BY DEF X!EditProtocol
<1>1. XTyped' /\ Logged' /\ Once' /\ (\A q \in Sessions : Turn(q)') /\ ShownTo' /\ CutShort'
  <2>1. XTyped'
    <3>1. protocol' \in Nat
      BY <1>0 DEF XInv, XTyped
    <3> QED BY <1>0, <3>1 DEF XInv, XTyped
  <2> QED BY <2>1, <1>0 DEF XInv, Logged, Once, X!Key, Turn, IsOf, ShownTo, CutShort, Over
<1>2. Claimed'
  BY <1>0, ClaimStays DEF XInv
<1> QED BY <1>1, <1>2 DEF XInv

\* In a log without repetitions, readable records that nothing blocks are all counted.
LEMMA AllCount ==
    ASSUME XInv, ~X!Blocked
    PROVE  /\ X!Units = X!Readable
           /\ \A i \in X!Readable : log[i].protocol = protocol
<1>1. ASSUME NEW i \in X!Readable
      PROVE  X!Fresh(i)
  <2>1. DOMAIN log = 1..Len(log) /\ Len(log) \in Nat /\ i \in DOMAIN log
    BY DEF XInv, XTyped, X!Readable
  <2>2. \A k \in X!Readable \cap 1..(i - 1) : k \in DOMAIN log /\ k # i
    BY <2>1 DEF X!Readable
  <2> QED BY <2>1, <2>2 DEF X!Fresh, XInv, Once
<1>2. ASSUME NEW i \in X!Readable
      PROVE  log[i].protocol = protocol /\ ~X!Drifted(i)
  BY <1>1 DEF X!Blocked
<1> QED BY <1>1, <1>2 DEF X!Units, X!Valid

\* Each counted record has exactly one outcome: a second one would not be linked.
LEMMA OneOutcome ==
    ASSUME XInv, ~X!Blocked, NEW i \in X!Readable
    PROVE  Cardinality({j \in DOMAIN outcomes : X!Key(outcomes[j]) = X!Key(log[i])}) = 1
<1>1. i \in X!Units
  BY AllCount
<1>2. PICK j \in DOMAIN outcomes : X!Linked(j) /\ i \in X!Of(j)
  BY <1>1 DEF X!Blocked
<1>3. X!Key(outcomes[j]) = X!Key(log[i])
  BY <1>2 DEF X!Of
<1>4. ASSUME NEW m \in DOMAIN outcomes, X!Key(outcomes[m]) = X!Key(log[i])
      PROVE  m = j
  <2>1. X!Linked(m) /\ X!Linked(j)
    BY <1>2 DEF X!Blocked
  <2>2. m \in Nat /\ j \in Nat /\ m >= 1 /\ j >= 1
    BY DEF XInv, XTyped
  <2>3. CASE m < j
    <3>1. m \in 1..(j - 1)
      BY <2>2, <2>3
    <3> QED BY <3>1, <2>1, <1>3, <1>4 DEF X!Linked
  <2>4. CASE j < m
    <3>1. j \in 1..(m - 1)
      BY <2>2, <2>4
    <3> QED BY <3>1, <2>1, <1>3, <1>4 DEF X!Linked
  <2> QED BY <2>2, <2>3, <2>4
<1>5. {k \in DOMAIN outcomes : X!Key(outcomes[k]) = X!Key(log[i])} = {j}
  BY <1>3, <1>4
<1> QED BY <1>5, FS_Singleton

\* With distinct keys there are as many keys as records.
LEMMA KeysCount ==
    ASSUME XInv, NEW S \in SUBSET DOMAIN log
    PROVE  /\ Cardinality(S) \in Nat
           /\ Cardinality({X!Key(log[i]) : i \in S}) = Cardinality(S)
<1> DEFINE T == {X!Key(log[i]) : i \in S}
           f == [i \in S |-> X!Key(log[i])]
<1>1. IsFiniteSet(S)
  <2>1. DOMAIN log = 1..Len(log) /\ Len(log) \in Nat
    BY DEF XInv, XTyped
  <2>2. IsFiniteSet(1..Len(log))
    BY <2>1, FS_Interval
  <2> QED BY <2>1, <2>2, FS_Subset
<1>2. f \in [S -> T]
  OBVIOUS
<1>3. \A a, b \in S : f[a] = f[b] => a = b
  BY DEF XInv, Once
<1>4. \A t \in T : \E a \in S : f[a] = t
  OBVIOUS
<1>5. f \in Bijection(S, T)
  BY <1>2, <1>3, <1>4 DEF Bijection, Injection, Surjection, IsInjective
<1>6. ExistsBijection(S, T)
  BY <1>5 DEF ExistsBijection
<1>7. Cardinality(T) = Cardinality(S)
  BY <1>1, <1>6, FS_Bijection
<1> QED BY <1>1, <1>7, FS_CardinalityType

LEMMA SummaryKeeps == XInv /\ X!summarize_experiment => XInv'
<1> SUFFICES ASSUME XInv, X!summarize_experiment
             PROVE  XInv'
  OBVIOUS
<1>0. UNCHANGED <<pc, prompts, log, shown, outcomes, protocol>>
  BY DEF X!summarize_experiment
<1>1. XTyped' /\ Logged' /\ Once' /\ (\A q \in Sessions : Turn(q)') /\ ShownTo' /\ CutShort'
  BY <1>0 DEF XInv, XTyped, Logged, Once, X!Key, Turn, IsOf, ShownTo, CutShort, Over
<1>2. CASE report' = X!NoReport
  BY <1>1, <1>2 DEF XInv, Claimed, X!NoReport
<1>3. CASE /\ ~X!Blocked
           /\ report' = [claim |-> TRUE, exposures |-> log, outcomes |-> outcomes,
                         protocol |-> protocol]
  <2>1. report'.exposures = log /\ report'.outcomes = outcomes /\ report'.protocol = protocol
    BY <1>3
  <2>2. ASSUME NEW i \in DOMAIN log, log[i].whole
        PROVE  /\ OfHook(log[i]) /\ log[i].protocol = protocol
               /\ Cardinality({j \in DOMAIN outcomes : X!Key(outcomes[j]) = X!Key(log[i])}) = 1
    <3>1. OfHook(log[i])
      BY DEF XInv, Logged, OfHook
    <3>2. i \in X!Readable
      BY <2>2 DEF X!Readable
    <3> QED BY <3>1, <3>2, <1>3, AllCount, OneOutcome
  <2>3. ASSUME NEW a \in {"control", "treatment"}
        PROVE  Cardinality({X!Key(log[i]) : i \in {k \in DOMAIN log : log[k].whole /\ log[k].arm = a}})
                  >= Minimum
    <3> DEFINE S == {k \in DOMAIN log : log[k].whole /\ log[k].arm = a}
    <3>0. S = {k \in X!Readable : log[k].arm = a}
      BY DEF X!Readable
    <3>1. X!Count(a) = Cardinality(S)
      BY <3>0, <1>3, AllCount, SameSize DEF X!Count
    <3>2. ~(X!Count(a) < Minimum)
      BY <1>3 DEF X!Blocked
    <3>3. Cardinality(S) \in Nat /\ Cardinality({X!Key(log[i]) : i \in S}) = Cardinality(S)
      BY KeysCount
    <3> QED BY <3>1, <3>2, <3>3, MinimumIsCounted
  <2>4. Sound(log, outcomes, protocol)
    BY <2>2, <2>3 DEF Sound
  <2>5. Claimed'
    BY <2>1, <2>4 DEF Claimed
  <2> QED BY <2>5, <1>1 DEF XInv
<1> QED BY <1>2, <1>3 DEF X!summarize_experiment

LEMMA XStep == XInv /\ [X!Next]_(X!vars) => XInv'
<1> SUFFICES ASSUME XInv, [X!Next]_(X!vars)
             PROVE  XInv'
  OBVIOUS
<1>1. CASE UNCHANGED X!vars
  <2>1. XTyped' /\ Logged' /\ Once' /\ (\A q \in Sessions : Turn(q)') /\ ShownTo' /\ CutShort'
    BY <1>1 DEF X!vars, XInv, XTyped, Logged, Once, X!Key, Turn, IsOf, ShownTo, CutShort, Over
  <2>2. Claimed'
    BY <1>1, ClaimStays DEF X!vars, XInv
  <2> QED BY <2>1, <2>2 DEF XInv
<1> QED BY <1>1, PromptKeeps, ScanKeeps, AppendKeeps, DeliverKeeps, OutcomeKeeps, EditKeeps,
        SummaryKeeps DEF X!Next

\* A prompt shown and not recorded has a line nobody can read, and no two have the same one.
LEMMA LostIsSeen == XInv => X!ShownIsRecorded
<1> SUFFICES ASSUME XInv
             PROVE  X!ShownIsRecorded
  OBVIOUS
<1> DEFINE S == {x \in shown : ~X!Recorded(x)}
           T == DOMAIN log \ X!Readable
           f == [x \in S |-> CHOOSE i \in DOMAIN log : IsOf(log[i], x[1], x[2])]
<1>1. ASSUME NEW x \in S
      PROVE  /\ x = <<x[1], x[2]>> /\ f[x] \in T /\ IsOf(log[f[x]], x[1], x[2])
  <2>1. x \in Sessions \X Nat /\ Arm[<<x[1], 1>>] = "treatment"
    BY DEF XInv, ShownTo
  <2>2. \E i \in DOMAIN log : IsOf(log[i], x[1], x[2])
    BY DEF XInv, ShownTo
  <2>3. f[x] \in DOMAIN log /\ IsOf(log[f[x]], x[1], x[2])
    BY <2>2
  <2> HIDE DEF f
  <2>4. PICK i \in DOMAIN log : i = f[x] /\ IsOf(log[i], x[1], x[2])
    BY <2>3
  <2>5. PICK s \in Sessions : log[i].session = <<s, 2>> /\ log[i].arm = Arm[<<s, 1>>]
    BY DEF XInv, Logged
  <2>6. s = x[1]
    BY <2>4, <2>5 DEF IsOf
  <2>7. X!Key(log[i]) = <<X!fingerprint(X!session_id_hash(x[1])), x[2]>>
    BY <2>4, Ids DEF IsOf, X!Key
  <2>8. log[i].arm = "treatment"
    BY <2>1, <2>5, <2>6
  <2>9. i \notin X!Readable
    BY <2>7, <2>8 DEF X!Recorded
  <2> QED BY <2>1, <2>4, <2>9
<1> HIDE DEF f
<1>2. f \in [S -> T]
  BY <1>1 DEF f
<1>3. \A x, y \in S : f[x] = f[y] => x = y
  BY <1>1 DEF IsOf
<1>4. f \in Injection(S, T)
  BY <1>2, <1>3 DEF Injection, IsInjective
<1>5. IsFiniteSet(T)
  <2>1. DOMAIN log = 1..Len(log) /\ Len(log) \in Nat
    BY DEF XInv, XTyped
  <2>2. IsFiniteSet(1..Len(log))
    BY <2>1, FS_Interval
  <2>3. T \in SUBSET 1..Len(log)
    BY <2>1
  <2> QED BY <2>2, <2>3, FS_Subset
<1>6. Cardinality(S) <= Cardinality(T)
  BY <1>4, <1>5, FS_Injection
<1> QED BY <1>6, SameSize DEF X!ShownIsRecorded

LEMMA XClean == XInv => X!ShownIsRecorded /\ X!ClaimIsClean
<1> SUFFICES ASSUME XInv
             PROVE  X!ShownIsRecorded /\ X!ClaimIsClean
  OBVIOUS
<1>1. X!ShownIsRecorded
  BY LostIsSeen
<1>2. X!ClaimIsClean
  <2> SUFFICES ASSUME report.claim
               PROVE  X!ClaimIsClean
    BY DEF X!ClaimIsClean
  <2>1. Sound(report.exposures, report.outcomes, report.protocol)
    BY DEF XInv, Claimed
  <2>2. ASSUME NEW i \in DOMAIN report.exposures, report.exposures[i].whole,
               report.exposures[i].arm = "control"
        PROVE  <<report.exposures[i].session[1], report.exposures[i].task>> \notin shown
    <3>1. PICK s \in Sessions : /\ report.exposures[i].session = <<s, 2>>
                                /\ report.exposures[i].arm = Arm[<<s, 1>>]
      BY <2>1, <2>2 DEF Sound, OfHook
    <3>2. report.exposures[i].session[1] = s /\ Arm[<<s, 1>>] # "treatment"
      BY <3>1, <2>2
    <3> QED BY <3>2 DEF XInv, ShownTo
  <2> QED BY <2>1, <2>2, SameSize DEF X!ClaimIsClean, Sound
<1> QED BY <1>1, <1>2

-----------------------------------------------------------------------------
(* The composition: a behaviour is one of the component its part names.    *)

LEMMA Starts ==
    Init => /\ part = "sync" => Y!Init
            /\ part = "projection" => P!Init
            /\ part = "publication" => B!Init
            /\ part = "release" => G!Init
            /\ part = "experiment" => X!Init
  BY DEF Init

\* The variables beside the component of the behaviour stay, and so does part.
LEMMA Steps ==
    [Next]_vars => /\ part' = part
                   /\ part = "sync" => [Y!Next]_(Y!vars)
                   /\ part = "projection" => [P!Next]_(P!vars)
                   /\ part = "publication" => [B!Next]_(B!vars)
                   /\ part = "release" => [G!Next]_(G!vars)
                   /\ part = "experiment" => [X!Next]_(X!vars)
<1> SUFFICES ASSUME [Next]_vars
             PROVE  /\ part' = part
                    /\ part = "sync" => [Y!Next]_(Y!vars)
                    /\ part = "projection" => [P!Next]_(P!vars)
                    /\ part = "publication" => [B!Next]_(B!vars)
                    /\ part = "release" => [G!Next]_(G!vars)
                    /\ part = "experiment" => [X!Next]_(X!vars)
  OBVIOUS
<1>1. CASE Next
  BY <1>1 DEF Next, BesideY, BesideP, BesideB, BesideG, BesideX
<1>2. CASE UNCHANGED vars
  <2>1. part' = part /\ UNCHANGED Y!vars
    BY <1>2 DEF vars, Y!vars
  <2>2. UNCHANGED P!vars
    BY <1>2 DEF vars, P!vars
  <2>3. UNCHANGED B!vars
    BY <1>2 DEF vars, B!vars, B!expvars, B!pubvars
  <2>4. UNCHANGED G!vars
    BY <1>2 DEF vars, G!vars
  <2>5. UNCHANGED X!vars
    BY <1>2 DEF vars, X!vars
  <2> QED BY <2>1, <2>2, <2>3, <2>4, <2>5
<1> QED BY <1>1, <1>2

\* sync_once on any number of machines, with any number of failures, interruptions and lost
\* races: the knowledge the remote branch ends in is the one of its journal, a worktree
\* directory left behind has its ownership record, and no attempt rewrites the remote branch
\* or takes an event out of a repository.
THEOREM SynchronisationKeeps == Spec => SynchronisedIsKept
<1> DEFINE I == part = "sync" => SInv
<1>1. Init => I
  BY Starts, SInit
<1>2. I /\ [Next]_vars => I'
  BY Steps, SStep
<1>3. I => (part = "sync" => Y!PublishedProjection /\ Y!LeftoverIsOwned)
  BY SFits
<1>4. I /\ [Next]_vars => (part = "sync" => Y!NothingPublishedIsLost)
  BY Steps, SStep
<1> QED BY <1>1, <1>2, <1>3, <1>4, PTL DEF Spec, SynchronisedIsKept

\* _read_item beside any number of publishers, deaths and projections of the command line: what
\* a reader gets was what the index named at some moment between the reader's start and its
\* answer.
THEOREM ReadStaysCurrent == Spec => ReadWasCurrent
<1> DEFINE I == part = "projection" => RInv
<1>1. Init => I
  BY Starts, RInit
<1>2. I /\ [Next]_vars => I'
  BY Steps, RStep
<1>3. I /\ [Next]_vars => (part = "projection" => P!ReadWasCurrent)
  BY Steps, RStep
<1> QED BY <1>1, <1>2, <1>3, PTL DEF Spec, ReadWasCurrent

\* The export and the publication (_copy_selected_files, verify_publication,
\* _create_repository), of any tree that moves meanwhile, of a root others change at any moment,
\* and with any number of failures: the export itself adds only listed files without keys, a
\* receipt is validated only of the clean single commit it names unless the root was changed
\* after it was read, a publication is verified only as the history a person approved, and a
\* repository somebody else made is left alone.
THEOREM PublicationStaysApproved == Spec => PublishedWasApproved
<1> DEFINE I == part = "publication" => EInv /\ QInv
<1>1. Init => I
  BY Starts, EInit, QInit
<1>2. I /\ [Next]_vars => I'
  BY Steps, EStep, QStep
<1>3. I => (part = "publication" => B!ExportIsSelected)
  BY ESelected
<1>4. I /\ [Next]_vars =>
         (part = "publication" => B!ValidatedIsExact /\ B!VerifiedWasApproved /\ B!ForeignIsUntouched)
  BY Steps, EStep, QStep
<1> QED BY <1>1, <1>2, <1>3, <1>4, PTL DEF Spec, PublishedWasApproved

\* evaluate_public_completion and the attestation it reads: whatever is pushed, run again or
\* collected between two looks, a release is ready only when workflows, receipts and reports
\* are all of its subject, and an attested subject is green in every workflow.
THEOREM ReadyStaysOneCommit == Spec => []ReadyIsOneCommit
<1> DEFINE I == part = "release" => GInv
<1>1. Init => I
  BY Starts, GInit
<1>2. I /\ [Next]_vars => I'
  BY Steps, GStep
<1>3. I => ReadyIsOneCommit
  BY GReady DEF ReadyIsOneCommit
<1> QED BY <1>1, <1>2, <1>3, PTL DEF Spec

\* prepare_exposure and summarize_experiment: however the hooks of any number of sessions
\* interleave, fail, are cut while they append or see the protocol change, no more shown
\* prompts lack a readable exposure than the log has unreadable lines, and an effect is claimed
\* only of records that are complete and of one protocol.
THEOREM ClaimStaysClean == Spec => []ClaimIsClean
<1> DEFINE I == part = "experiment" => XInv
<1>1. Init => I
  BY Starts, XInit
<1>2. I /\ [Next]_vars => I'
  BY Steps, XStep
<1>3. I => ClaimIsClean
  BY XClean DEF ClaimIsClean
<1> QED BY <1>1, <1>2, <1>3, PTL DEF Spec
=============================================================================
