---------------------- MODULE SegmentedDownload_proofs ----------------------
(***************************************************************************)
(* For any file, workers, versions and bounds: the ranges handed to the    *)
(* workers tile the file and no two workers share one, the journal never   *)
(* claims what is not on disk, what completes is whole, and a file with    *)
(* holes always has its journal.                                           *)
(***************************************************************************)
EXTENDS SegmentedDownload, FiniteSetTheorems, WellFoundedInduction, TLAPS

(***************************************************************************)
(* Induction over the natural numbers: every set of them has a least       *)
(* element, so a set with 0 that is closed under successor has them all.   *)
(***************************************************************************)

LEMMA LeastOf ==
    ASSUME NEW T \in SUBSET Nat, T # {}
    PROVE  \E x \in T : \A y \in T : x <= y
<1>1. IsWellFoundedOn(OpToRel(<, Nat), Nat)
  BY NatLessThanWellFounded, Zenon
<1>2. PICK x \in T : \A y \in T : ~ (<<y, x>> \in OpToRel(<, Nat))
  BY <1>1, WFMin, Zenon
<1>3. ASSUME NEW y \in T, ~ (x <= y) PROVE FALSE
  <2>1. x \in Nat /\ y \in Nat
    OBVIOUS
  <2>2. y < x
    BY <1>3, <2>1
  <2>3. <<y, x>> \in {ss \in Nat \X Nat : ss[1] < ss[2]}
    BY <2>1, <2>2
  <2>4. <<y, x>> \in OpToRel(<, Nat)
    BY <2>3, Zenon DEF OpToRel
  <2>. QED BY <2>4, <1>2, Zenon
<1>. QED BY <1>3

LEMMA Induct ==
    ASSUME NEW n \in Nat, NEW S, 0 \in S, \A k \in 0..n-1 : k \in S => k + 1 \in S
    PROVE  0..n \subseteq S
<1>. SUFFICES ASSUME ~(0..n \subseteq S) PROVE FALSE
  OBVIOUS
<1>. DEFINE T == (0..n) \ S
<1>1. T \in SUBSET Nat /\ T # {}
  OBVIOUS
<1>2. \A k \in T : k \in 0..n /\ k \notin S
  OBVIOUS
<1>3. \A k \in 0..n : k \notin S => k \in T
  OBVIOUS
<1>. HIDE DEF T
<1>4. PICK x \in T : \A y \in T : x <= y
  BY <1>1, LeastOf
<1>5. x # 0 /\ x - 1 \in 0..n-1 /\ x \in 0..n
  BY <1>2
<1>6. x - 1 \in S
  BY <1>5, <1>4, <1>3
<1>7. (x - 1) + 1 \in S
  BY <1>5, <1>6
<1>. QED BY <1>7, <1>5, <1>2

(***************************************************************************)
(* Segments.                                                               *)
(***************************************************************************)

Sound(s) == \A i \in DOMAIN s : s[i].lo <= s[i].hi /\ s[i].got <= SegLen(s[i])

\* What a list of segments must be for an attempt or a journal to use it.
Good(s) == s \in Seq(Segments) /\ s # <<>> /\ Sound(s) /\ Tiles(s)

\* The segment of a block.
InOne(s, b) ==
    \E i \in DOMAIN s : \A k \in DOMAIN s : b \in s[k].lo .. s[k].hi <=> k = i

LEMMA SegmentFields ==
    ASSUME NEW s \in Seq(Segments)
    PROVE  /\ Len(s) \in Nat /\ DOMAIN s = 1..Len(s)
           /\ \A i \in DOMAIN s : /\ s[i] \in Segments
                                  /\ s[i].lo \in 1..Total /\ s[i].hi \in 1..Total
                                  /\ s[i].got \in 0..Total
           /\ Total \in Nat \ {0}
<1>1. Total \in Nat \ {0}
  BY SizesAssumption
<1>2. Len(s) \in Nat /\ DOMAIN s = 1..Len(s) /\ \A i \in DOMAIN s : s[i] \in Segments
  OBVIOUS
<1>3. ASSUME NEW x \in Segments
      PROVE  x.lo \in 1..Total /\ x.hi \in 1..Total /\ x.got \in 0..Total
  BY DEF Segments, Blocks
<1>. QED BY <1>1, <1>2, <1>3

LEMMA TilesMeans ==
    ASSUME NEW s \in Seq(Segments)
    PROVE  Tiles(s) <=> \A b \in Blocks : InOne(s, b)
<1>1. ASSUME NEW b \in Blocks
      PROVE  Cardinality({i \in DOMAIN s : b \in s[i].lo .. s[i].hi}) = 1 <=> InOne(s, b)
  <2>. DEFINE S == {i \in DOMAIN s : b \in s[i].lo .. s[i].hi}
  <2>1. IsFiniteSet(S)
    <3>1. Len(s) \in Int /\ 1 \in Int /\ DOMAIN s = 1..Len(s)
      OBVIOUS
    <3>2. IsFiniteSet(1..Len(s))
      BY <3>1, FS_Interval, Zenon
    <3>3. S \in SUBSET (1..Len(s))
      BY <3>1
    <3>. QED BY <3>2, <3>3, FS_Subset, Zenon
  <2>2. Cardinality(S) = 1 <=> \E x : S = {x}
    BY <2>1, FS_Singleton
  <2>3. (\E x : S = {x}) <=> InOne(s, b)
    <3>0. \A k : k \in S <=> k \in DOMAIN s /\ b \in s[k].lo .. s[k].hi
      OBVIOUS
    <3>. HIDE DEF S
    <3>1. ASSUME NEW x, S = {x} PROVE InOne(s, b)
      <4>1. x \in DOMAIN s /\ \A k \in DOMAIN s : b \in s[k].lo .. s[k].hi <=> k = x
        BY <3>0, <3>1
      <4>. QED BY <4>1 DEF InOne
    <3>2. ASSUME InOne(s, b) PROVE \E x : S = {x}
      <4>1. PICK x \in DOMAIN s : \A k \in DOMAIN s : b \in s[k].lo .. s[k].hi <=> k = x
        BY <3>2 DEF InOne
      <4>2. \A k : k \in S <=> k = x
        BY <3>0, <4>1
      <4>3. S = {x}
        BY <4>2
      <4>. QED BY <4>3
    <3>. QED BY <3>1, <3>2
  <2>. QED BY <2>2, <2>3
<1>. QED BY <1>1 DEF Tiles

LEMMA LargestIsIn ==
    ASSUME NEW s \in Seq(Segments), NEW cand, cand \subseteq DOMAIN s, cand # {}
    PROVE  Largest(s, cand) \in cand
<1>1. \A i \in cand : Remaining(s[i]) \in Int /\ Remaining(s[i]) <= 2 * Total /\ s[i].lo \in Nat
  BY SegmentFields DEF Remaining, SegLen
<1>. DEFINE rest == {2 * Total - Remaining(s[i]) : i \in cand}
<1>2. rest \in SUBSET Nat /\ rest # {}
  BY <1>1, SegmentFields
<1>3. PICK r \in rest : \A q \in rest : r <= q
  BY <1>2, LeastOf
<1>. DEFINE most == {i \in cand : 2 * Total - Remaining(s[i]) = r}
            lows == {s[i].lo : i \in most}
<1>4. lows \in SUBSET Nat /\ lows # {}
  BY <1>1, <1>3
<1>5. PICK l \in lows : \A q \in lows : l <= q
  BY <1>4, LeastOf
<1>6. PICK i \in most : s[i].lo = l
  BY <1>5
<1>7. ASSUME NEW j \in cand
      PROVE  \/ Remaining(s[i]) > Remaining(s[j])
             \/ Remaining(s[i]) = Remaining(s[j]) /\ s[i].lo <= s[j].lo
  <2>1. i \in cand /\ 2 * Total - Remaining(s[i]) = r /\ r <= 2 * Total - Remaining(s[j])
    BY <1>3, <1>6
  <2>2. CASE j \in most
    <3>1. s[j].lo \in lows /\ Remaining(s[j]) = Remaining(s[i])
      <4>1. 2 * Total - Remaining(s[j]) = r /\ s[j].lo \in lows
        BY <2>2
      <4>. QED BY <4>1, <2>1, <1>1, SegmentFields
    <3>2. l <= s[j].lo
      BY <3>1, <1>5
    <3>. QED BY <3>1, <3>2, <1>6
  <2>3. CASE j \notin most
    BY <2>1, <2>3, <1>1, SegmentFields
  <2>. QED BY <2>2, <2>3
<1>8. i \in cand
  BY <1>6
<1>. QED BY <1>7, <1>8 DEF Largest

\* t is s with some waiting segments split: those of act are as they were, and
\* nothing else is claimed than before.
Refines(t, s, act) ==
    /\ Len(s) <= Len(t)
    /\ \A i \in DOMAIN s : /\ t[i].lo = s[i].lo /\ t[i].got = s[i].got
                           /\ i \in act => t[i] = s[i]
    /\ \A i \in DOMAIN t \ DOMAIN s : t[i].got = 0

LEMMA RefinesSelf == \A s, act : s \in Seq(Segments) => Refines(s, s, act)
BY DEF Refines

LEMMA RefinesMore ==
    ASSUME NEW s \in Seq(Segments), NEW t \in Seq(Segments), NEW u \in Seq(Segments), NEW act,
           Refines(t, s, act), Refines(u, t, act)
    PROVE  Refines(u, s, act)
<1>1. DOMAIN s \subseteq DOMAIN t /\ DOMAIN t \subseteq DOMAIN u
  BY DEF Refines
<1>2. ASSUME NEW i \in DOMAIN u \ DOMAIN s PROVE u[i].got = 0
  BY <1>1 DEF Refines
<1>. QED BY <1>1, <1>2 DEF Refines

\* What is missing are blocks of the file, so the size of a lease is defined.
LEMMA LeaseIsSome ==
    ASSUME NEW s \in Seq(Segments), NEW cap \in Nat
    PROVE  LeaseSize(s, cap) \in Nat \ {0}
<1>1. Missing(s) \subseteq 1..Total
  <2>1. ASSUME NEW i \in DOMAIN s PROVE s[i].lo + s[i].got .. s[i].hi \subseteq 1..Total
    BY SegmentFields, SizesAssumption
  <2>. QED BY <2>1 DEF Missing
<1>2. Cardinality(Missing(s)) \in 0..Total
  <2>1. IsFiniteSet(1..Total) /\ Cardinality(1..Total) = Total
    BY FS_Interval, SizesAssumption
  <2>2. IsFiniteSet(Missing(s)) /\ Cardinality(Missing(s)) <= Total
    BY <1>1, <2>1, FS_Subset
  <2>. QED BY <2>2, FS_CardinalityType, SizesAssumption
<1>3. Lease[Cardinality(Missing(s))] \in Nat \ {0}
  BY <1>2, SizesAssumption
<1>. QED BY <1>3 DEF LeaseSize

LEMMA SplitRefines ==
    ASSUME NEW s, Good(s), NEW act, NEW size \in Nat \ {0}
    PROVE  Good(Split(s, act, size)) /\ Refines(Split(s, act, size), s, act)
<1>. DEFINE cand == Pending(s, act) \ Leases(s, act, size)
            i    == Largest(s, cand)
            last == s[i].lo + s[i].got + size - 1
            head == [s EXCEPT ![i].hi = last]
            tail == [lo |-> last + 1, hi |-> s[i].hi, got |-> 0]
            t    == Append(head, tail)
<1>0. s \in Seq(Segments) /\ s # <<>> /\ Sound(s) /\ Tiles(s)
  BY DEF Good
<1>1. CASE cand = {}
  BY <1>0, <1>1, RefinesSelf DEF Split
<1>2. CASE cand # {}
  <2>1. Split(s, act, size) = t
    BY <1>2 DEF Split
  <2>2. cand \subseteq DOMAIN s /\ cand \cap act = {}
    BY DEF Pending
  <2>3. i \in cand
    BY <1>0, <1>2, <2>2, LargestIsIn
  <2>4. i \in DOMAIN s /\ i \notin act
    BY <2>2, <2>3
  <2>5. Remaining(s[i]) > size /\ Remaining(s[i]) \in Int
    <3>1. Remaining(s[i]) \in Int
      BY <1>0, <2>4, SegmentFields DEF Remaining, SegLen
    <3>2. ~(Remaining(s[i]) <= size)
      BY <2>3 DEF Leases
    <3>. QED BY <3>1, <3>2
  <2>. HIDE DEF cand, i
  <2>6. /\ last \in Nat
        /\ s[i].lo <= last /\ s[i].lo + s[i].got <= last + 1
        /\ last + 1 <= s[i].hi
    <3>1. s[i].lo \in 1..Total /\ s[i].hi \in 1..Total /\ s[i].got \in 0..Total
      BY <1>0, <2>4, SegmentFields
    <3>2. Remaining(s[i]) = s[i].hi - s[i].lo + 1 - s[i].got
      BY <3>1 DEF Remaining, SegLen
    <3>. QED BY <3>1, <3>2, <2>5
  <2>7. /\ s[i] \in Segments /\ s[i].hi \in 1..Total /\ s[i].lo \in 1..Total
        /\ s[i].got \in 0..Total /\ DOMAIN s = 1..Len(s) /\ Len(s) \in Nat /\ Total \in Nat
    BY <1>0, <2>4, SegmentFields
  <2>. HIDE DEF last
  <2>8. /\ head \in Seq(Segments) /\ Len(head) = Len(s)
        /\ head[i].lo = s[i].lo /\ head[i].hi = last /\ head[i].got = s[i].got
        /\ \A k \in DOMAIN s : k # i => head[k] = s[k]
    <3>1. [s[i] EXCEPT !.hi = last] \in Segments
      BY <2>6, <2>7 DEF Segments, Blocks
    <3>2. head = [k \in 1..Len(s) |-> IF k = i THEN [s[i] EXCEPT !.hi = last] ELSE s[k]]
      BY <2>4, <2>7
    <3>3. s[i] = [lo |-> s[i].lo, hi |-> s[i].hi, got |-> s[i].got]
      BY <2>7 DEF Segments
    <3>. QED BY <1>0, <2>4, <2>7, <3>1, <3>2, <3>3
  <2>9. tail \in Segments /\ tail.lo = last + 1 /\ tail.hi = s[i].hi /\ tail.got = 0
    BY <2>6, <2>7 DEF Segments, Blocks
  <2>. HIDE DEF head, tail
  <2>10. /\ t \in Seq(Segments) /\ Len(t) = Len(s) + 1 /\ DOMAIN t = 1..Len(s) + 1
         /\ t[Len(s) + 1] = tail /\ \A k \in DOMAIN s : t[k] = head[k]
    BY <2>7, <2>8, <2>9, SMTT(60)
  <2>. DEFINE n == Len(s) + 1
  <2>11. /\ DOMAIN t = DOMAIN s \cup {n} /\ n \notin DOMAIN s /\ i # n
         /\ \A k \in DOMAIN s : k # i => t[k] = s[k]
         /\ t[i].lo = s[i].lo /\ t[i].hi = last /\ t[i].got = s[i].got
         /\ t[n].lo = last + 1 /\ t[n].hi = s[i].hi /\ t[n].got = 0
    BY <2>4, <2>7, <2>8, <2>9, <2>10
  <2>. HIDE DEF t, n
  <2>12. Refines(t, s, act)
    <3>1. Len(s) <= Len(t)
      BY <2>7, <2>10
    <3>2. ASSUME NEW k \in DOMAIN s
          PROVE  t[k].lo = s[k].lo /\ t[k].got = s[k].got /\ (k \in act => t[k] = s[k])
      BY <2>4, <2>11
    <3>3. ASSUME NEW k \in DOMAIN t \ DOMAIN s PROVE t[k].got = 0
      BY <2>11
    <3>. QED BY <3>1, <3>2, <3>3 DEF Refines
  <2>13. Sound(t)
    <3>1. ASSUME NEW k \in DOMAIN t PROVE t[k].lo <= t[k].hi /\ t[k].got <= SegLen(t[k])
      <4>1. CASE k = n
        BY <4>1, <2>11, <2>6, <2>7 DEF SegLen
      <4>2. CASE k = i
        BY <4>2, <2>11, <2>6, <2>7 DEF SegLen
      <4>3. CASE k \in DOMAIN s /\ k # i
        BY <4>3, <2>11, <1>0 DEF Sound
      <4>. QED BY <4>1, <4>2, <4>3, <2>11
    <3>. QED BY <3>1 DEF Sound
  <2>14. Tiles(t)
    <3>1. ASSUME NEW b \in Blocks PROVE InOne(t, b)
      <4>0. b \in Int
        BY <2>7 DEF Blocks
      <4>1. PICK h \in DOMAIN s : \A k \in DOMAIN s : b \in s[k].lo .. s[k].hi <=> k = h
        BY <1>0, TilesMeans DEF InOne
      <4>2. CASE h # i
        <5>1. b \notin s[i].lo .. s[i].hi
          BY <4>1, <4>2, <2>4
        <5>2. b \notin t[i].lo .. t[i].hi /\ b \notin t[n].lo .. t[n].hi
          BY <5>1, <4>0, <2>11, <2>6, <2>7
        <5>3. \A k \in DOMAIN t : b \in t[k].lo .. t[k].hi <=> k = h
          BY <5>2, <4>1, <4>2, <2>11
        <5>. QED BY <5>3, <2>11 DEF InOne
      <4>3. CASE h = i
        <5>1. b \in s[i].lo .. s[i].hi /\ \A k \in DOMAIN s : k # i => b \notin t[k].lo .. t[k].hi
          BY <4>1, <4>3, <2>11
        <5>2. CASE b <= last
          <6>1. b \in t[i].lo .. t[i].hi /\ b \notin t[n].lo .. t[n].hi
            BY <5>1, <5>2, <4>0, <2>11, <2>6, <2>7
          <6>2. \A k \in DOMAIN t : b \in t[k].lo .. t[k].hi <=> k = i
            BY <6>1, <5>1, <2>11
          <6>. QED BY <6>2, <2>11, <2>4 DEF InOne
        <5>3. CASE ~(b <= last)
          <6>1. b \notin t[i].lo .. t[i].hi /\ b \in t[n].lo .. t[n].hi
            BY <5>1, <5>3, <4>0, <2>11, <2>6, <2>7
          <6>2. \A k \in DOMAIN t : b \in t[k].lo .. t[k].hi <=> k = n
            BY <6>1, <5>1, <2>11
          <6>. QED BY <6>2, <2>11 DEF InOne
        <5>. QED BY <5>2, <5>3
      <4>. QED BY <4>2, <4>3
    <3>. QED BY <3>1, <2>10, TilesMeans
  <2>15. t # <<>>
    BY <2>10, <2>7
  <2>. QED BY <2>1, <2>10, <2>12, <2>13, <2>14, <2>15 DEF Good
<1>. QED BY <1>1, <1>2

\* The queue is filled by splitting at most QueueDepth times.
FillStep(t, act, size) ==
    IF Cardinality(Leases(t, act, size)) >= QueueDepth THEN t ELSE Split(t, act, size)

LEMMA FillExists ==
    ASSUME NEW s, NEW act, NEW size, NEW n \in Nat
    PROVE  \E g : g = [m \in 0..n |-> IF m = 0 THEN s ELSE FillStep(g[m - 1], act, size)]
<1>. DEFINE Run(g, m) == g = [k \in 0..m |-> IF k = 0 THEN s ELSE FillStep(g[k - 1], act, size)]
            S == {m \in 0..n : \E g : Run(g, m)}
<1>1. \E g : Run(g, 0)
  <2>1. [k \in 0..0 |-> s] =
          [k \in 0..0 |-> IF k = 0 THEN s ELSE FillStep([i \in 0..0 |-> s][k - 1], act, size)]
    OBVIOUS
  <2>. QED BY <2>1
<1>2. ASSUME NEW m \in 0..n-1, NEW g, Run(g, m) PROVE \E e : Run(e, m + 1)
  <2>. DEFINE e == [k \in 0..m+1 |-> IF k = m + 1 THEN FillStep(g[m], act, size) ELSE g[k]]
  <2>1. ASSUME NEW k \in 0..m+1
        PROVE  e[k] = IF k = 0 THEN s ELSE FillStep(e[k - 1], act, size)
    <3>1. CASE k = m + 1
      <4>1. e[k] = FillStep(g[m], act, size) /\ e[k - 1] = g[m] /\ k # 0
        BY <3>1
      <4>. QED BY <4>1
    <3>2. CASE k # m + 1
      <4>1. k \in 0..m /\ e[k] = g[k]
        BY <3>2
      <4>2. g[k] = IF k = 0 THEN s ELSE FillStep(g[k - 1], act, size)
        BY <4>1, <1>2
      <4>3. k # 0 => e[k - 1] = g[k - 1]
        BY <4>1
      <4>. HIDE DEF e
      <4>. QED BY <4>1, <4>2, <4>3
    <3>. QED BY <3>1, <3>2
  <2>2. e = [k \in 0..m+1 |-> e[k]]
    OBVIOUS
  <2>. HIDE DEF e
  <2>3. Run(e, m + 1)
    BY <2>1, <2>2
  <2>. QED BY <2>3
<1>. HIDE DEF Run
<1>3. 0 \in S
  BY <1>1
<1>4. \A m \in 0..n-1 : m \in S => m + 1 \in S
  BY <1>2
<1>. HIDE DEF S
<1>5. 0..n \subseteq S
  BY <1>3, <1>4, Induct
<1>6. n \in S
  BY <1>5
<1>. QED BY <1>6 DEF S, Run

LEMMA FillRefines ==
    ASSUME NEW s, Good(s), NEW act, NEW cap \in Nat
    PROVE  Good(Fill(s, act, cap)) /\ Refines(Fill(s, act, cap), s, act)
<1>. DEFINE size == LeaseSize(s, cap)
            run == CHOOSE g : g = [m \in 0..QueueDepth |->
                                     IF m = 0 THEN s ELSE FillStep(g[m - 1], act, size)]
<1>0. QueueDepth \in Nat /\ size \in Nat \ {0}
  BY SizesAssumption, LeaseIsSome DEF Good
<1>1. run = [m \in 0..QueueDepth |-> IF m = 0 THEN s ELSE FillStep(run[m - 1], act, size)]
  BY <1>0, FillExists
<1>2. Fill(s, act, cap) = run[QueueDepth]
  BY DEF Fill, FillStep
<1>. HIDE DEF run, size
<1>. DEFINE S == {m \in 0..QueueDepth : Good(run[m]) /\ Refines(run[m], s, act)}
<1>3. 0 \in S
  <2>1. run[0] = s
    BY <1>0, <1>1
  <2>2. s \in Seq(Segments)
    BY DEF Good
  <2>. QED BY <1>0, <2>1, <2>2, RefinesSelf
<1>4. ASSUME NEW m \in 0..QueueDepth-1, m \in S PROVE m + 1 \in S
  <2>1. m + 1 \in 0..QueueDepth /\ m + 1 # 0 /\ (m + 1) - 1 = m
    BY <1>0
  <2>2. run[m + 1] = FillStep(run[m], act, size)
    BY <1>1, <2>1
  <2>. DEFINE t == run[m]
              u == run[m + 1]
  <2>3. Good(t) /\ Refines(t, s, act)
    BY <1>4
  <2>4. u = t \/ u = Split(t, act, size)
    BY <2>2 DEF FillStep
  <2>. HIDE DEF t, u
  <2>5. Good(u) /\ Refines(u, s, act)
    <3>1. CASE u = t
      BY <3>1, <2>3
    <3>2. CASE u = Split(t, act, size)
      <4>1. Good(u) /\ Refines(u, t, act)
        BY <1>0, <3>2, <2>3, SplitRefines
      <4>2. s \in Seq(Segments) /\ t \in Seq(Segments) /\ u \in Seq(Segments)
        BY <4>1, <2>3 DEF Good
      <4>. QED BY <4>1, <4>2, <2>3, RefinesMore
    <3>. QED BY <2>4, <3>1, <3>2
  <2>. QED BY <2>1, <2>5 DEF u
<1>. HIDE DEF S
<1>5. 0..QueueDepth \subseteq S
  BY <1>0, <1>3, <1>4, Induct
<1>6. QueueDepth \in S
  BY <1>0, <1>5
<1>. QED BY <1>2, <1>6 DEF S

LEMMA Mono == ASSUME NEW a \in Nat, NEW b \in Nat, NEW d \in Nat, a <= b PROVE a * d <= b * d
OBVIOUS

LEMMA Division ==
    ASSUME NEW a \in Nat, NEW d \in Nat \ {0}
    PROVE  a \div d \in Nat /\ (a \div d) * d <= a /\ a < (a \div d + 1) * d
OBVIOUS

\* A new plan tiles the file.
LEMMA PlanGood == Good(Plan) /\ \A i \in DOMAIN Plan : Plan[i].got = 0
<1>. DEFINE n    == Planned
            size == Total \div n
            lo(i) == (i - 1) * size + 1
            hi(i) == IF i = n THEN Total ELSE i * size
<1>1. n \in 1..Total /\ Total \in Nat \ {0}
  BY SizesAssumption, WorkersAssumption DEF Planned
<1>2. Plan = [i \in 1..n |-> [lo |-> lo(i), hi |-> hi(i), got |-> 0]]
  BY DEF Plan
<1>. HIDE DEF n
<1>3. size \in Nat /\ size >= 1 /\ n * size <= Total
  <2>1. size \in Nat /\ size * n <= Total /\ Total < (size + 1) * n
    BY <1>1, Division
  <2>2. size # 0
    BY <2>1, <1>1
  <2>. QED BY <2>1, <2>2, <1>1
<1>. HIDE DEF size
<1>4. ASSUME NEW i \in 1..n
      PROVE  lo(i) \in 1..Total /\ hi(i) \in 1..Total /\ lo(i) <= hi(i)
  <2>1. (i - 1) * size \in Nat /\ i * size = (i - 1) * size + size
    BY <1>1, <1>3
  <2>2. i * size <= n * size
    BY <1>1, <1>3, Mono
  <2>. QED BY <1>1, <1>3, <2>1, <2>2
<1>5. /\ Plan \in Seq(Segments) /\ Len(Plan) = n /\ DOMAIN Plan = 1..n
      /\ \A i \in 1..n : Plan[i].lo = lo(i) /\ Plan[i].hi = hi(i) /\ Plan[i].got = 0
  <2>1. ASSUME NEW i \in 1..n
        PROVE  [lo |-> lo(i), hi |-> hi(i), got |-> 0] \in Segments
    BY <1>4, <1>1 DEF Segments, Blocks
  <2>. HIDE DEF lo, hi
  <2>. QED BY <1>1, <1>2, <2>1
<1>6. Plan # <<>>
  BY <1>1, <1>5
<1>7. Sound(Plan)
  <2>1. ASSUME NEW i \in 1..n
        PROVE  Plan[i].lo <= Plan[i].hi /\ Plan[i].got <= SegLen(Plan[i])
    <3>1. Plan[i].lo = lo(i) /\ Plan[i].hi = hi(i) /\ Plan[i].got = 0
      BY <1>5
    <3>2. lo(i) \in 1..Total /\ hi(i) \in 1..Total /\ lo(i) <= hi(i)
      BY <1>4
    <3>. HIDE DEF lo, hi
    <3>. QED BY <3>1, <3>2, <1>1 DEF SegLen
  <2>. QED BY <2>1, <1>5 DEF Sound
<1>8. ASSUME NEW b \in Blocks PROVE InOne(Plan, b)
  <2>. DEFINE q == (b - 1) \div size
              i == IF q + 1 < n THEN q + 1 ELSE n
  <2>1. b \in 1..Total /\ b - 1 \in Nat
    BY <1>1 DEF Blocks
  <2>2. q \in Nat /\ q * size <= b - 1 /\ b - 1 < (q + 1) * size
    BY <1>3, <2>1, Division
  <2>. HIDE DEF q
  <2>3. i \in 1..n /\ i - 1 <= q /\ (i # n => i = q + 1)
    BY <1>1, <2>2
  <2>4. lo(i) <= b /\ b <= hi(i)
    <3>1. (i - 1) * size <= q * size
      BY <1>3, <2>2, <2>3, Mono
    <3>2. (i - 1) * size \in Int /\ q * size \in Int
      BY <1>3, <2>2, <2>3
    <3>3. i # n => i * size = (q + 1) * size
      BY <2>3
    <3>4. i # n => b - 1 < i * size /\ i * size \in Int
      BY <3>3, <2>2, <2>3, <1>3
    <3>. QED BY <3>1, <3>2, <3>4, <2>1, <2>2
  <2>. HIDE DEF i
  <2>5. ASSUME NEW k \in 1..n, k # i, lo(k) <= b, b <= hi(k) PROVE FALSE
    <3>0. (i - 1) * size \in Int /\ i * size \in Int /\ (k - 1) * size \in Int /\ k * size \in Int
      BY <2>3, <1>1, <1>3
    <3>1. CASE k < i
      <4>1. k * size <= (i - 1) * size
        BY <3>1, <2>3, <1>1, <1>3, Mono
      <4>2. b <= k * size
        BY <3>1, <2>3, <2>5, <1>1
      <4>. QED BY <4>1, <4>2, <2>1, <2>4, <3>0
    <3>2. CASE i < k
      <4>1. i * size <= (k - 1) * size
        BY <3>2, <2>3, <1>1, <1>3, Mono
      <4>2. b <= i * size
        BY <3>2, <2>3, <2>4, <1>1
      <4>. QED BY <4>1, <4>2, <2>1, <2>5, <3>0
    <3>. QED BY <3>1, <3>2, <2>3, <2>5, <1>1
  <2>6. \A k \in 1..n : lo(k) \in 1..Total /\ hi(k) \in 1..Total
    BY <1>4
  <2>7. \A k \in 1..n : Plan[k].lo = lo(k) /\ Plan[k].hi = hi(k)
    BY <1>5
  <2>. HIDE DEF lo, hi
  <2>8. \A k \in 1..n : b \in Plan[k].lo .. Plan[k].hi <=> k = i
    BY <1>1, <2>1, <2>3, <2>4, <2>5, <2>6, <2>7
  <2>9. DOMAIN Plan = 1..n
    BY <1>5
  <2>. DEFINE plan == Plan
  <2>10. DOMAIN plan = 1..n /\ \A k \in 1..n : b \in plan[k].lo .. plan[k].hi <=> k = i
    BY <2>8, <2>9
  <2>. HIDE DEF plan
  <2>11. i \in DOMAIN plan /\ \A k \in DOMAIN plan : b \in plan[k].lo .. plan[k].hi <=> k = i
    BY <2>3, <2>10
  <2>12. InOne(plan, b)
    BY <2>11, Zenon DEF InOne
  <2>. QED BY <2>12 DEF plan
<1>9. Tiles(Plan)
  BY <1>5, <1>8, TilesMeans
<1>. QED BY <1>5, <1>6, <1>7, <1>9 DEF Good

\* Changing what is recorded changes no range.
LEMMA Regot ==
    ASSUME NEW s, Good(s), NEW t \in Seq(Segments), DOMAIN t = DOMAIN s,
           \A i \in DOMAIN s : /\ t[i].lo = s[i].lo /\ t[i].hi = s[i].hi
                               /\ t[i].got <= SegLen(s[i])
    PROVE  Good(t)
<1>1. s \in Seq(Segments) /\ s # <<>> /\ Sound(s) /\ Tiles(s)
  BY DEF Good
<1>2. Sound(t)
  BY <1>1 DEF Sound, SegLen
<1>3. t # <<>>
  BY <1>1
<1>4. ASSUME NEW b \in Blocks PROVE InOne(t, b)
  <2>1. InOne(s, b)
    BY <1>1, TilesMeans
  <2>2. PICK i \in DOMAIN s : \A k \in DOMAIN s : b \in s[k].lo .. s[k].hi <=> k = i
    BY <2>1 DEF InOne
  <2>3. i \in DOMAIN t /\ \A k \in DOMAIN t : b \in t[k].lo .. t[k].hi <=> k = i
    BY <2>2
  <2>. QED BY <2>3, Zenon DEF InOne
<1>5. Tiles(t)
  BY <1>4, TilesMeans
<1>. QED BY <1>2, <1>3, <1>5 DEF Good

LEMMA RefreshGood ==
    ASSUME NEW s, Good(s)
    PROVE  /\ Good(Refresh(s)) /\ DOMAIN Refresh(s) = DOMAIN s
           /\ part # NoFile => Refresh(s) = s
           /\ part = NoFile => \A i \in DOMAIN Refresh(s) : Refresh(s)[i].got = 0
<1>1. CASE part # NoFile
  BY <1>1 DEF Refresh
<1>2. CASE part = NoFile
  <2>. DEFINE t == [i \in DOMAIN s |-> [s[i] EXCEPT !.got = 0]]
  <2>1. Refresh(s) = t
    BY <1>2 DEF Refresh
  <2>2. s \in Seq(Segments) /\ Sound(s) /\ Len(s) \in Nat /\ DOMAIN s = 1..Len(s)
    BY DEF Good
  <2>3. ASSUME NEW i \in DOMAIN s
        PROVE  /\ [s[i] EXCEPT !.got = 0] \in Segments
               /\ t[i].lo = s[i].lo /\ t[i].hi = s[i].hi /\ t[i].got = 0 /\ 0 <= SegLen(s[i])
    <3>1. s[i] \in Segments /\ 0 \in 0..Total
      BY <2>2, SegmentFields
    <3>2. s[i].lo <= s[i].hi /\ s[i].lo \in Int /\ s[i].hi \in Int
      BY <2>2, SegmentFields DEF Sound
    <3>3. [s[i] EXCEPT !.got = 0] \in Segments
      BY <3>1 DEF Segments
    <3>4. t[i] = [s[i] EXCEPT !.got = 0]
      OBVIOUS
    <3>5. s[i] = [lo |-> s[i].lo, hi |-> s[i].hi, got |-> s[i].got]
      BY <3>1 DEF Segments
    <3>. QED BY <3>2, <3>3, <3>4, <3>5 DEF SegLen
  <2>4. t \in Seq(Segments) /\ DOMAIN t = DOMAIN s
    BY <2>2, <2>3
  <2>. HIDE DEF t
  <2>5. Good(t)
    BY <2>3, <2>4, Regot
  <2>. QED BY <1>2, <2>1, <2>3, <2>4, <2>5
<1>. QED BY <1>1, <1>2

\* What a worker records of its segment.
Recorded(s, i, g) == [s EXCEPT ![i].got = g]

LEMMA RecordGood ==
    ASSUME NEW s, Good(s), NEW i \in DOMAIN s, NEW g \in 0..Total, g <= SegLen(s[i]),
           NEW t, t = Recorded(s, i, g)
    PROVE  /\ Good(t) /\ DOMAIN t = DOMAIN s
           /\ t[i].lo = s[i].lo /\ t[i].hi = s[i].hi /\ t[i].got = g
           /\ \A k \in DOMAIN s : k # i => t[k] = s[k]
<1>1. s \in Seq(Segments) /\ Sound(s) /\ Len(s) \in Nat /\ DOMAIN s = 1..Len(s)
  BY DEF Good
<1>2. s[i] \in Segments
  BY <1>1
<1>3. [s[i] EXCEPT !.got = g] \in Segments
  BY <1>2 DEF Segments
<1>4. s[i] = [lo |-> s[i].lo, hi |-> s[i].hi, got |-> s[i].got]
  BY <1>2 DEF Segments
<1>5. t = [k \in 1..Len(s) |-> IF k = i THEN [s[i] EXCEPT !.got = g] ELSE s[k]]
  BY <1>1 DEF Recorded
<1>6. /\ DOMAIN t = DOMAIN s /\ t \in Seq(Segments)
      /\ t[i] = [s[i] EXCEPT !.got = g] /\ \A k \in DOMAIN s : k # i => t[k] = s[k]
  BY <1>1, <1>3, <1>5
<1>7. t[i].lo = s[i].lo /\ t[i].hi = s[i].hi /\ t[i].got = g
  BY <1>4, <1>6
<1>8. \A k \in DOMAIN s : t[k].lo = s[k].lo /\ t[k].hi = s[k].hi /\ t[k].got <= SegLen(s[k])
  BY <1>1, <1>6, <1>7 DEF Sound
<1>9. Good(t)
  BY <1>6, <1>8, Regot
<1>. QED BY <1>6, <1>7, <1>9

(***************************************************************************)
(* Types.                                                                  *)
(***************************************************************************)

LEMMA Constants ==
    /\ Total \in Nat \ {0} /\ MaxVersion \in Nat \ {0}
    /\ MaxEvents \in Nat
    /\ Cardinality(Workers) \in 1..Total
    /\ "nobody" \notin Workers /\ "loader" \notin Workers
BY SizesAssumption, WorkersAssumption, BoundsAssumption

LEMMA Blanks ==
    /\ NoFile \in Files /\ NoJournal \in Journals /\ NoWrite \in Writes /\ Off \in Tasks
    /\ [Off EXCEPT !.pc = "idle"] \in Tasks
    /\ Off.pc = "off" /\ Off.seg = 0 /\ Off.then = "none"
    /\ [Off EXCEPT !.pc = "idle"].pc = "idle" /\ [Off EXCEPT !.pc = "idle"].seg = 0
    /\ [Off EXCEPT !.pc = "idle"].then = "none"
<1>1. NoFile \in Files
  BY Constants DEF NoFile, Files, Hole
<1>2. NoJournal \in Journals
  BY Constants DEF NoJournal, Journals
<1>3. NoWrite \in Writes
  BY <1>2 DEF NoWrite, Writes
<1>4. Off \in Tasks /\ [Off EXCEPT !.pc = "idle"] \in Tasks
  BY Constants DEF Off, Tasks, Pcs
<1>5. /\ Off.pc = "off" /\ Off.seg = 0 /\ Off.then = "none"
      /\ [Off EXCEPT !.pc = "idle"].pc = "idle" /\ [Off EXCEPT !.pc = "idle"].seg = 0
      /\ [Off EXCEPT !.pc = "idle"].then = "none"
  BY DEF Off
<1>. QED BY <1>1, <1>2, <1>3, <1>4, <1>5

LEMMA TaskFields ==
    ASSUME NEW x \in Tasks
    PROVE  /\ x.pc \in Pcs /\ x.seg \in Nat /\ x.hi \in 0..Total /\ x.got \in 0..Total
           /\ x.rec \in 0..Total /\ x.then \in Thens \cup {"none"}
           /\ x = [pc |-> x.pc, seg |-> x.seg, hi |-> x.hi, got |-> x.got,
                   rec |-> x.rec, then |-> x.then]
BY DEF Tasks

\* Worker w, and no other, goes on with these fields.
Goes(w, pc, seg, hi, got, rec, then) ==
    /\ wk' \in [Workers -> Tasks]
    /\ wk'[w].pc = pc /\ wk'[w].seg = seg /\ wk'[w].hi = hi
    /\ wk'[w].got = got /\ wk'[w].rec = rec /\ wk'[w].then = then
    /\ \A v \in Workers \ {w} : wk'[v] = wk[v]

LEMMA TaskSet ==
    ASSUME wk \in [Workers -> Tasks], NEW w \in Workers, NEW x \in Tasks,
           wk' = [wk EXCEPT ![w] = x]
    PROVE  Goes(w, x.pc, x.seg, x.hi, x.got, x.rec, x.then)
BY DEF Goes

\* The fields that a step of a worker changes.
Changed(w, pc, got, rec, then) ==
    [wk[w] EXCEPT !.pc = pc, !.got = got, !.rec = rec, !.then = then]

LEMMA FieldsSet ==
    ASSUME wk \in [Workers -> Tasks], NEW w \in Workers, NEW pc \in Pcs, NEW got \in 0..Total,
           NEW rec \in 0..Total, NEW then \in Thens \cup {"none"},
           wk' = [wk EXCEPT ![w] = Changed(w, pc, got, rec, then)]
    PROVE  Goes(w, pc, wk[w].seg, wk[w].hi, got, rec, then)
<1>. DEFINE x == Changed(w, pc, got, rec, then)
<1>1. wk[w] \in Tasks
  OBVIOUS
<1>2. x \in Tasks
  BY <1>1 DEF Tasks, Changed
<1>3. /\ x.pc = pc /\ x.seg = wk[w].seg /\ x.hi = wk[w].hi /\ x.got = got /\ x.rec = rec
      /\ x.then = then
  BY <1>1 DEF Tasks, Changed
<1>. HIDE DEF x
<1>4. wk' = [wk EXCEPT ![w] = x]
  BY DEF x
<1>5. Goes(w, x.pc, x.seg, x.hi, x.got, x.rec, x.then)
  BY <1>2, <1>4, TaskSet
<1>. QED BY <1>3, <1>5

LEMMA PcSet ==
    ASSUME wk \in [Workers -> Tasks], NEW w \in Workers, NEW p \in Pcs,
           wk' = [wk EXCEPT ![w].pc = p]
    PROVE  Goes(w, p, wk[w].seg, wk[w].hi, wk[w].got, wk[w].rec, wk[w].then)
<1>1. wk[w] \in Tasks
  OBVIOUS
<1>2. [wk[w] EXCEPT !.pc = p] = Changed(w, p, wk[w].got, wk[w].rec, wk[w].then)
  BY <1>1 DEF Tasks, Changed
<1>3. wk' = [wk EXCEPT ![w] = Changed(w, p, wk[w].got, wk[w].rec, wk[w].then)]
  BY <1>1, <1>2
<1>4. /\ wk[w].pc \in Pcs /\ wk[w].got \in 0..Total /\ wk[w].rec \in 0..Total
      /\ wk[w].then \in Thens \cup {"none"}
  BY <1>1, TaskFields
<1>. QED BY <1>1, <1>3, <1>4, FieldsSet

\* What a worker knew of a segment it gave back is forgotten.
LEMMA ReleasedSet ==
    ASSUME wk \in [Workers -> Tasks], NEW w \in Workers, NEW p \in Pcs,
           wk' = [wk EXCEPT ![w] = [Off EXCEPT !.pc = p]]
    PROVE  Goes(w, p, 0, 0, 0, 0, "none")
<1>. DEFINE x == [Off EXCEPT !.pc = p]
<1>1. x \in Tasks
  BY SizesAssumption DEF Off, Tasks
<1>2. x.pc = p /\ x.seg = 0 /\ x.hi = 0 /\ x.got = 0 /\ x.rec = 0 /\ x.then = "none"
  BY DEF Off
<1>. HIDE DEF x
<1>3. wk' = [wk EXCEPT ![w] = x]
  BY DEF x
<1>4. Goes(w, x.pc, x.seg, x.hi, x.got, x.rec, x.then)
  BY <1>1, <1>3, TaskSet
<1>. QED BY <1>2, <1>4

LEMMA GotSet ==
    ASSUME wk \in [Workers -> Tasks], NEW w \in Workers, wk[w].got + 1 \in 0..Total,
           wk' = [wk EXCEPT ![w].got = @ + 1]
    PROVE  Goes(w, wk[w].pc, wk[w].seg, wk[w].hi, wk[w].got + 1, wk[w].rec, wk[w].then)
<1>1. wk[w] \in Tasks
  OBVIOUS
<1>2. [wk[w] EXCEPT !.got = @ + 1] = Changed(w, wk[w].pc, wk[w].got + 1, wk[w].rec, wk[w].then)
  BY <1>1 DEF Tasks, Changed
<1>3. wk' = [wk EXCEPT ![w] = Changed(w, wk[w].pc, wk[w].got + 1, wk[w].rec, wk[w].then)]
  BY <1>1, <1>2
<1>4. /\ wk[w].pc \in Pcs /\ wk[w].got \in 0..Total /\ wk[w].rec \in 0..Total
      /\ wk[w].then \in Thens \cup {"none"}
  BY <1>1, TaskFields
<1>. QED BY <1>1, <1>3, <1>4, FieldsSet

LEMMA PcThenSet ==
    ASSUME wk \in [Workers -> Tasks], NEW w \in Workers, NEW p \in Pcs,
           NEW t \in Thens \cup {"none"}, wk' = [wk EXCEPT ![w].pc = p, ![w].then = t]
    PROVE  Goes(w, p, wk[w].seg, wk[w].hi, wk[w].got, wk[w].rec, t)
<1>1. wk[w] \in Tasks
  OBVIOUS
<1>2. [wk[w] EXCEPT !.pc = p, !.then = t] = Changed(w, p, wk[w].got, wk[w].rec, t)
  BY <1>1 DEF Tasks, Changed
<1>3. wk' = [wk EXCEPT ![w] = Changed(w, p, wk[w].got, wk[w].rec, t)]
  BY <1>1, <1>2
<1>4. /\ wk[w].pc \in Pcs /\ wk[w].got \in 0..Total /\ wk[w].rec \in 0..Total
      /\ wk[w].then \in Thens \cup {"none"}
  BY <1>1, TaskFields
<1>. QED BY <1>1, <1>3, <1>4, FieldsSet

(***************************************************************************)
(* The inductive invariant.                                                *)
(***************************************************************************)

Cleaning == phase \in {"clean", "clean_meta", "clean_bak"}
Loaded   == phase \in {"restore", "fill", "persist", "prepare"}
Working  == phase \in {"run", "drain"}
Sealing  == phase \in {"seal_meta", "seal_bak", "rename"}
Bare     == phase \in {"idle", "load", "connect", "single"} \/ Cleaning

JournalOK(j) == j = NoJournal \/ (j.ver # 0 /\ Good(j.segs))

JournalsOK ==
    /\ JournalOK(meta) /\ JournalOK(bak) /\ JournalOK(side.snap)
    /\ segs = <<>> \/ Good(segs)

\* Where the attempt is, and what it then has in memory.
ControlOK ==
    /\ Bare => segs = <<>>
    /\ Loaded \/ Working \/ Sealing => segs # <<>>
    /\ phase = "prepare" => meta = [ver |-> ver, segs |-> segs] /\ bak = NoJournal
    /\ Cleaning => after \in {"single", "fresh", "queued", "canceled"}
    /\ phase = "drain" => after \in {"restart", "failed"}
    /\ ~Cleaning /\ phase # "drain" => after = "none"
    /\ outcome = "canceled" => phase = "idle" \/ after = "queued"

\* Who writes the sidecar, and what.
SideOK ==
    /\ \A w \in Workers : wk[w].pc # "off" => Working
    /\ \A w \in Workers : wk[w].pc \in {"lock", "saving"} => wk[w].then # "none"
    /\ side.step = "free" <=> side.by = "nobody"
    /\ side.by = "nobody" => side = NoWrite
    /\ side.by = "loader" <=> phase \in {"restore", "persist"}
    /\ \A w \in Workers : side.by = w <=> wk[w].pc = "saving"
    /\ side # NoWrite => side.snap.ver = ver
    /\ side.by = "loader" => side.snap.segs = segs

HolderOK(w) ==
    LET s == wk[w].seg IN
    /\ s \in active
    /\ wk[w].hi = segs[s].hi
    /\ wk[w].rec = segs[s].got
    /\ wk[w].rec <= wk[w].got
    /\ wk[w].got <= SegLen(segs[s])
    /\ \A v \in Holders \ {w} : wk[v].seg # s

HoldersOK == \A w \in Holders : HolderOK(w)

\* What the partial file is in each phase.
FilesOK ==
    /\ part.kind = "none" => part = NoFile
    /\ part.kind = "segmented" => part.len = Total
    /\ part.kind = "single" => \A b \in 1..part.len : part.blk[b] # Hole
    /\ Working \/ Sealing => part.kind = "segmented"
    /\ phase = "single" => part.kind = "single"
    /\ Cleaning /\ after = "single" => part.len = 0
    /\ Cleaning /\ after = "fresh" => part = NoFile
    /\ Cleaning /\ after = "queued" /\ phase # "clean" => part = NoFile
    /\ Loaded /\ ~misled => part.kind # "single"
    /\ phase \in {"persist", "prepare"} /\ part = NoFile => \A i \in DOMAIN segs : segs[i].got = 0

\* Every block that a journal claims is in the file.
Held(j) == \A i \in DOMAIN j.segs : \A b \in Have(j.segs[i]) : part.blk[b] = j.ver

HeldOK ==
    /\ part.kind = "segmented" /\ ~misled =>
         Held(meta) /\ Held(bak) /\ Held(side.snap) /\ Held([ver |-> ver, segs |-> segs])
    /\ Working => meta.ver \in {0, ver} /\ bak.ver \in {0, ver}

SealedOK == Sealing => Complete(segs)

\* A segmented file at work has a sidecar, or its backup while they change places.
KeptOK ==
    /\ part.kind = "segmented" /\ (phase = "load" \/ Loaded \/ Working) =>
         IF side.step = "put" THEN bak # NoJournal ELSE meta # NoJournal
    /\ side.step = "tidy" => meta = side.snap

Inv ==
    /\ TypeOK /\ JournalsOK /\ ControlOK /\ SideOK /\ HoldersOK
    /\ FilesOK /\ HeldOK /\ SealedOK /\ KeptOK /\ NoOrphanHole /\ CompletedIsWhole

(***************************************************************************)
(* Steps that several actions share.                                       *)
(***************************************************************************)

Emptied ==
    /\ segs = <<>> /\ active = {} /\ wk = [w \in Workers |-> Off] /\ side = NoWrite
    /\ target = Cardinality(Workers) /\ stop = FALSE /\ signal = "none"

LEMMA EndedIs ==
    ASSUME NEW r, Ended(r)
    PROVE  Emptied' /\ phase' = "idle" /\ outcome' = r /\ after' = "none"
BY DEF Ended, Emptied

LEMMA AbortedIs ==
    ASSUME NEW what, Aborted(what)
    PROVE  /\ Emptied'
           /\ \/ phase' = "clean" /\ after' = "canceled" /\ outcome' = outcome
              \/ phase' = "idle" /\ after' = "none" /\ outcome' \in {"adrift", "paused"}
<1>1. CASE what = "cancel"
  BY <1>1 DEF Aborted, Emptied
<1>2. CASE what # "cancel"
  BY <1>2, EndedIs DEF Aborted
<1>. QED BY <1>1, <1>2

DiskOK ==
    /\ entity \in Versions /\ ver \in Versions
    /\ part \in Files /\ final \in Files
    /\ meta \in Journals /\ bak \in Journals
RowOK ==
    /\ outcome \in Results /\ phase \in Phases /\ after \in Sequels /\ misled \in BOOLEAN
    /\ {crashes, signals, errors} \subseteq 0..MaxEvents
MemOK ==
    /\ segs \in Seq(Segments) /\ active \subseteq DOMAIN segs
    /\ wk \in [Workers -> Tasks]
    /\ \A w \in Workers : wk[w].seg \in {0} \cup DOMAIN segs
    /\ side \in Writes
    /\ target \in 1..Cardinality(Workers) /\ stop \in BOOLEAN
    /\ signal \in {"none", "pause", "cancel"}

LEMMA TypeParts == (TypeOK <=> DiskOK /\ RowOK /\ MemOK) /\ (TypeOK' <=> DiskOK' /\ RowOK' /\ MemOK')
BY DEF TypeOK, DiskOK, RowOK, MemOK

LEMMA EmptiedType == Emptied' => MemOK'
<1>. SUFFICES ASSUME Emptied' PROVE MemOK'
  OBVIOUS
<1>1. wk' \in [Workers -> Tasks] /\ \A w \in Workers : wk'[w].seg = 0
  BY Blanks DEF Emptied
<1>2. side' \in Writes
  BY Blanks DEF Emptied
<1>3. segs' \in Seq(Segments) /\ active' = {}
  BY DEF Emptied
<1>4. /\ target' \in 1..Cardinality(Workers) /\ stop' \in BOOLEAN
      /\ signal' \in {"none", "pause", "cancel"}
  <2>1. target' = Cardinality(Workers) /\ stop' = FALSE /\ signal' = "none"
    BY DEF Emptied
  <2>2. Cardinality(Workers) \in 1..Cardinality(Workers)
    BY Constants
  <2>. QED BY <2>1, <2>2
<1>. QED BY <1>1, <1>2, <1>3, <1>4 DEF MemOK

LEMMA Faulty == RowOK /\ Fault => errors' \in 0..MaxEvents
BY Constants DEF Fault, Eventful, RowOK

LEMMA FileFields ==
    ASSUME NEW p \in Files
    PROVE  /\ p.kind \in {"none", "segmented", "single"} /\ p.len \in 0..Total
           /\ p.blk \in [Blocks -> 0..MaxVersion]
           /\ p = [kind |-> p.kind, len |-> p.len, blk |-> p.blk]
BY DEF Files

LEMMA JournalFields ==
    ASSUME NEW j \in Journals
    PROVE  /\ j.ver \in 0..MaxVersion /\ j.segs \in Seq(Segments)
           /\ j.ver # 0 => j # NoJournal
           /\ j = [ver |-> j.ver, segs |-> j.segs]
BY DEF Journals, NoJournal

LEMMA WriteFields ==
    ASSUME side \in Writes
    PROVE  /\ side.by \in Workers \cup {"nobody", "loader"}
           /\ side.step \in {"free", "swap", "put", "tidy"} /\ side.snap \in Journals
           /\ side.snap.ver \in 0..MaxVersion /\ side.snap.segs \in Seq(Segments)
BY DEF Writes, Journals

LEMMA StepSet ==
    ASSUME side \in Writes, NEW t \in {"free", "swap", "put", "tidy"},
           side' = [side EXCEPT !.step = t]
    PROVE  /\ side' \in Writes /\ side'.by = side.by /\ side'.step = t /\ side'.snap = side.snap
BY DEF Writes

LEMMA WriteSet ==
    ASSUME NEW by \in Workers \cup {"nobody", "loader"}, NEW t \in {"free", "swap", "put", "tidy"},
           NEW v \in Versions, NEW s \in Seq(Segments),
           side' = [by |-> by, step |-> t, snap |-> [ver |-> v, segs |-> s]]
    PROVE  /\ side' \in Writes /\ side'.by = by /\ side'.step = t
           /\ side'.snap = [ver |-> v, segs |-> s]
BY Constants DEF Writes, Journals, Versions

LEMMA GoodIsSeq == ASSUME NEW s, Good(s) PROVE s \in Seq(Segments) /\ s # <<>> /\ Len(s) \in Nat
BY DEF Good

\* What a worker that has a segment may rely on.
LEMMA Holding ==
    ASSUME Inv, NEW w \in Workers, wk[w].pc \in {"request", "stream", "lock", "saving"}
    PROVE  /\ w \in Holders /\ HolderOK(w) /\ Working /\ Good(segs)
           /\ wk[w].seg \in active /\ wk[w].seg \in DOMAIN segs
           /\ wk[w].got \in Nat /\ wk[w].rec \in Nat
           /\ wk[w].hi = segs[wk[w].seg].hi /\ wk[w].rec = segs[wk[w].seg].got
           /\ wk[w].rec <= wk[w].got /\ wk[w].got <= SegLen(segs[wk[w].seg])
           /\ Width(w) = SegLen(segs[wk[w].seg])
           /\ segs[wk[w].seg].lo \in 1..Total /\ segs[wk[w].seg].hi \in 1..Total
           /\ SegLen(segs[wk[w].seg]) \in 0..Total
<1>1. w \in Holders
  BY DEF Holders
<1>2. HolderOK(w)
  BY <1>1 DEF Inv, HoldersOK
<1>3. Working /\ segs # <<>>
  <2>1. wk[w].pc # "off"
    OBVIOUS
  <2>2. Working
    BY <2>1 DEF Inv, SideOK
  <2>. QED BY <2>2 DEF Inv, ControlOK
<1>4. Good(segs)
  BY <1>3 DEF Inv, JournalsOK
<1>5. wk \in [Workers -> Tasks] /\ active \subseteq DOMAIN segs
  BY DEF Inv, TypeOK
<1>6. wk[w].got \in 0..Total /\ wk[w].rec \in 0..Total
  BY <1>5, TaskFields
<1>7. /\ wk[w].seg \in active /\ wk[w].hi = segs[wk[w].seg].hi
      /\ wk[w].rec = segs[wk[w].seg].got /\ wk[w].rec <= wk[w].got
      /\ wk[w].got <= SegLen(segs[wk[w].seg])
  BY <1>2 DEF HolderOK
<1>8. wk[w].seg \in DOMAIN segs
  BY <1>5, <1>7
<1>9. /\ segs[wk[w].seg].lo \in 1..Total /\ segs[wk[w].seg].hi \in 1..Total
      /\ segs[wk[w].seg].lo <= segs[wk[w].seg].hi
  BY <1>4, <1>8, SegmentFields DEF Good, Sound
<1>10. SegLen(segs[wk[w].seg]) \in 0..Total
  BY <1>9, Constants DEF SegLen
<1>11. Width(w) = SegLen(segs[wk[w].seg])
  <2>1. Width(w) = segs[wk[w].seg].hi - segs[wk[w].seg].lo + 1
    BY <1>7 DEF Width
  <2>. QED BY <2>1 DEF SegLen
<1>. QED BY <1>1, <1>2, <1>3, <1>4, <1>6, <1>7, <1>8, <1>9, <1>10, <1>11

\* Worker w writes and records what it has.
Flushed(w) ==
    LET i == wk[w].seg IN
    /\ part' \in Files /\ part'.kind = part.kind /\ part'.len = part.len
    /\ \A b \in Blocks :
         part'.blk[b] = IF b \in segs[i].lo + wk[w].rec .. segs[i].lo + wk[w].got - 1
                        THEN ver ELSE part.blk[b]
    /\ Good(segs') /\ DOMAIN segs' = DOMAIN segs
    /\ segs'[i].lo = segs[i].lo /\ segs'[i].hi = segs[i].hi /\ segs'[i].got = wk[w].got
    /\ \A k \in DOMAIN segs : k # i => segs'[k] = segs[k]

LEMMA FlushFacts ==
    ASSUME Inv, NEW w \in Workers, wk[w].pc \in {"request", "stream", "lock", "saving"},
           FlushAndRecord(w)
    PROVE  Flushed(w)
<1>. DEFINE i == wk[w].seg
            blk == [b \in Blocks |-> IF b \in segs[i].lo + wk[w].rec .. segs[i].lo + wk[w].got - 1
                                     THEN ver ELSE part.blk[b]]
<1>1. part \in Files /\ ver \in 0..MaxVersion
  BY Constants DEF Inv, TypeOK, Versions
<1>2. part' = [part EXCEPT !.blk = blk]
  BY <1>1 DEF FlushAndRecord, Files
<1>3. blk \in [Blocks -> 0..MaxVersion]
  BY <1>1, FileFields
<1>4. \A b \in Blocks :
         blk[b] = IF b \in segs[i].lo + wk[w].rec .. segs[i].lo + wk[w].got - 1
                        THEN ver ELSE part.blk[b]
  OBVIOUS
<1>. HIDE DEF blk
<1>5. part' \in Files /\ part'.kind = part.kind /\ part'.len = part.len /\ part'.blk = blk
  BY <1>1, <1>2, <1>3 DEF Files
<1>6. Good(segs) /\ i \in DOMAIN segs /\ wk[w].got \in 0..Total /\ wk[w].got <= SegLen(segs[i])
  BY Holding, Constants
<1>7. segs' = [segs EXCEPT ![i].got = wk[w].got]
  BY DEF FlushAndRecord
<1>. DEFINE g == wk[w].got
            t == segs'
<1>8a. g \in 0..Total /\ g <= SegLen(segs[i]) /\ i \in DOMAIN segs
  BY <1>6
<1>. HIDE DEF i, g, t
<1>8. /\ Good(t) /\ DOMAIN t = DOMAIN segs
      /\ t[i].lo = segs[i].lo /\ t[i].hi = segs[i].hi /\ t[i].got = g
      /\ \A k \in DOMAIN segs : k # i => t[k] = segs[k]
  <2>1. t = Recorded(segs, i, g)
    BY <1>7 DEF t, g, Recorded
  <2>. QED BY <2>1, <1>6, <1>8a, RecordGood
<1>. QED BY <1>4, <1>5, <1>8 DEF Flushed, i, g, t

(***************************************************************************)
(* Workers that move, and steps that move nobody.                          *)
(***************************************************************************)

\* The parts of the invariant that the workers' places do not matter to, and
\* the parts about the workers.
RestOK ==
    /\ JournalsOK /\ ControlOK /\ FilesOK /\ HeldOK /\ SealedOK
    /\ KeptOK /\ NoOrphanHole /\ CompletedIsWhole
CrewOK == SideOK /\ HoldersOK

LEMMA InvParts ==
    /\ Inv <=> DiskOK /\ RowOK /\ MemOK /\ RestOK /\ CrewOK
    /\ Inv' <=> DiskOK' /\ RowOK' /\ MemOK' /\ RestOK' /\ CrewOK'
BY TypeParts DEF Inv, RestOK, CrewOK

\* Nothing moves but workers and counters.
Quiet == UNCHANGED <<disk, segs, side, phase, after, outcome, ver, misled>>

LEMMA QuietKeeps == Inv /\ Quiet => RestOK'
<1>. SUFFICES ASSUME Inv, Quiet PROVE RestOK'
  OBVIOUS
<1>0. /\ part' = part /\ meta' = meta /\ bak' = bak /\ final' = final /\ segs' = segs
      /\ side' = side /\ phase' = phase /\ after' = after /\ outcome' = outcome
      /\ ver' = ver /\ misled' = misled
  BY DEF Quiet, disk
<1>1. JournalsOK'
  BY <1>0 DEF Inv, JournalsOK
<1>2. ControlOK'
  BY <1>0 DEF Inv, ControlOK, Bare, Loaded, Working, Sealing, Cleaning
<1>3. FilesOK'
  BY <1>0 DEF Inv, FilesOK, Loaded, Working, Sealing, Cleaning
<1>4. HeldOK'
  BY <1>0 DEF Inv, HeldOK, Held, Working
<1>5. SealedOK'
  BY <1>0 DEF Inv, SealedOK, Sealing, Complete
<1>6. KeptOK'
  BY <1>0 DEF Inv, KeptOK, Loaded, Working
<1>7. NoOrphanHole' /\ CompletedIsWhole'
  BY <1>0 DEF Inv, NoOrphanHole, CompletedIsWhole
<1>. QED BY <1>1, <1>2, <1>3, <1>4, <1>5, <1>6, <1>7 DEF RestOK

\* A worker moves without taking or leaving the journal; it may let go of its
\* segment, or keep it and have received more of it.
LEMMA WalkKeeps ==
    ASSUME Inv, NEW w \in Workers, NEW p, NEW s, NEW h, NEW g, NEW r, NEW t,
           Goes(w, p, s, h, g, r, t), UNCHANGED <<segs, active, side, phase, ver>>,
           wk[w].pc # "off", wk[w].pc # "saving", p \notin {"lock", "saving"},
           p \in {"request", "stream"} =>
               /\ wk[w].pc \in {"request", "stream"}
               /\ s = wk[w].seg /\ h = wk[w].hi /\ r = wk[w].rec
               /\ r <= g /\ g <= SegLen(segs[s])
    PROVE  CrewOK'
<1>0. /\ wk'[w].pc = p /\ wk'[w].seg = s /\ wk'[w].hi = h /\ wk'[w].got = g /\ wk'[w].rec = r
      /\ \A v \in Workers : v # w => wk'[v] = wk[v]
      /\ segs' = segs /\ active' = active /\ side' = side /\ phase' = phase /\ ver' = ver
  BY DEF Goes
<1>1. SideOK
  BY DEF Inv
<1>2. SideOK'
  BY <1>0, <1>1 DEF SideOK, Working
<1>3. ASSUME NEW v \in Holders' PROVE HolderOK(v)'
  <2>1. v \in Workers /\ wk'[v].pc \in {"request", "stream", "lock", "saving"}
    BY DEF Holders
  <2>2. v \in Holders /\ \A u \in Holders' : u \in Holders /\ wk'[u].seg = wk[u].seg
    BY <1>0 DEF Holders
  <2>3. HolderOK(v)
    BY <2>2 DEF Inv, HoldersOK
  <2>4. CASE v # w
    BY <1>0, <2>1, <2>2, <2>3, <2>4 DEF HolderOK
  <2>5. CASE v = w
    BY <1>0, <2>1, <2>2, <2>3, <2>5 DEF HolderOK
  <2>. QED BY <2>4, <2>5
<1>4. HoldersOK'
  BY <1>3 DEF HoldersOK
<1>. QED BY <1>2, <1>4 DEF CrewOK

LEMMA WalkType ==
    ASSUME Inv, NEW w \in Workers, NEW p, NEW s \in {0, wk[w].seg}, NEW h, NEW g, NEW r, NEW t,
           Goes(w, p, s, h, g, r, t), UNCHANGED <<segs, active, side, stop, signal>>,
           target' \in 1..Cardinality(Workers)
    PROVE  MemOK'
<1>1. MemOK
  BY TypeParts DEF Inv
<1>2. wk' \in [Workers -> Tasks] /\ wk'[w].seg = s /\ \A v \in Workers : v # w => wk'[v] = wk[v]
  BY DEF Goes
<1>3. \A v \in Workers : wk'[v].seg \in {0} \cup DOMAIN segs'
  BY <1>1, <1>2 DEF MemOK
<1>. QED BY <1>1, <1>2, <1>3 DEF MemOK

\* The disk and the row have their types while they are left alone.
LEMMA SameType ==
    /\ Inv /\ UNCHANGED <<entity, disk, ver>> => DiskOK'
    /\ Inv /\ UNCHANGED <<row, phase, after, errors>> => RowOK'
    /\ Inv /\ UNCHANGED mem /\ UNCHANGED signal => MemOK'
<1>1. Inv => DiskOK /\ RowOK /\ MemOK
  BY TypeParts DEF Inv
<1>2. Inv /\ UNCHANGED <<entity, disk, ver>> => DiskOK'
  BY <1>1 DEF DiskOK, disk
<1>3. Inv /\ UNCHANGED <<row, phase, after, errors>> => RowOK'
  BY <1>1 DEF RowOK, row
<1>4. Inv /\ UNCHANGED mem /\ UNCHANGED signal => MemOK'
  BY <1>1 DEF MemOK, mem
<1>. QED BY <1>2, <1>3, <1>4

\* Such a move of a worker as a whole.
Walk(w) ==
    \E p, s, h, g, r, t :
        /\ Goes(w, p, s, h, g, r, t) /\ s \in {0, wk[w].seg}
        /\ UNCHANGED <<entity, disk, row, phase, after, ver, segs, active, side, stop, signal, errors>>
        /\ target' \in 1..Cardinality(Workers)
        /\ wk[w].pc # "off" /\ wk[w].pc # "saving" /\ p \notin {"lock", "saving"}
        /\ p \in {"request", "stream"} =>
              /\ wk[w].pc \in {"request", "stream"}
              /\ s = wk[w].seg /\ h = wk[w].hi /\ r = wk[w].rec
              /\ r <= g /\ g <= SegLen(segs[s])

LEMMA WalkStep == ASSUME Inv, NEW w \in Workers, Walk(w) PROVE Inv'
<1>1. PICK p, s, h, g, r, t :
        /\ Goes(w, p, s, h, g, r, t) /\ s \in {0, wk[w].seg}
        /\ UNCHANGED <<entity, disk, row, phase, after, ver, segs, active, side, stop, signal, errors>>
        /\ target' \in 1..Cardinality(Workers)
        /\ wk[w].pc # "off" /\ wk[w].pc # "saving" /\ p \notin {"lock", "saving"}
        /\ p \in {"request", "stream"} =>
              /\ wk[w].pc \in {"request", "stream"}
              /\ s = wk[w].seg /\ h = wk[w].hi /\ r = wk[w].rec
              /\ r <= g /\ g <= SegLen(segs[s])
  BY DEF Walk
<1>2. DiskOK' /\ RowOK'
  BY <1>1, SameType
<1>3. MemOK'
  BY <1>1, WalkType
<1>4. CrewOK'
  BY <1>1, WalkKeeps
<1>5. Quiet
  BY <1>1 DEF Quiet, row
<1>6. RestOK'
  BY <1>5, QuietKeeps
<1>. QED BY <1>2, <1>3, <1>4, <1>6, InvParts

LEMMA Walks ==
    ASSUME Inv, NEW w \in Workers,
           \/ Request(w) \/ Receive(w) \/ Continue(w) \/ Leave(w) \/ Reconnect(w) \/ Halt(w)
    PROVE  Walk(w)
<1>0. wk \in [Workers -> Tasks] /\ target \in 1..Cardinality(Workers) /\ Cardinality(Workers) \in Nat
  BY Constants DEF Inv, TypeOK
<1>1. ASSUME Request(w) PROVE Walk(w)
  <2>1. Goes(w, "stream", wk[w].seg, wk[w].hi, wk[w].got, wk[w].rec, wk[w].then)
    BY <1>0, <1>1, PcSet DEF Request, Pcs, Thens
  <2>2. wk[w].rec <= wk[w].got /\ wk[w].got <= SegLen(segs[wk[w].seg])
    BY <1>1, Holding DEF Request
  <2>. QED BY <1>0, <1>1, <2>1, <2>2 DEF Request, Walk
<1>2. ASSUME Receive(w) PROVE Walk(w)
  <2>1. /\ wk[w].rec <= wk[w].got /\ wk[w].got < SegLen(segs[wk[w].seg])
        /\ SegLen(segs[wk[w].seg]) \in 0..Total /\ wk[w].got \in Nat /\ wk[w].rec \in Nat
    BY <1>2, Holding DEF Receive
  <2>2. wk[w].got + 1 \in 0..Total /\ wk[w].rec <= wk[w].got + 1 /\ wk[w].got + 1 <= SegLen(segs[wk[w].seg])
    BY <2>1, Constants
  <2>3. wk' = [wk EXCEPT ![w].got = @ + 1]
    BY <1>2 DEF Receive
  <2>4. Goes(w, wk[w].pc, wk[w].seg, wk[w].hi, wk[w].got + 1, wk[w].rec, wk[w].then)
    BY <1>0, <2>2, <2>3, GotSet
  <2>. QED BY <1>0, <1>2, <2>2, <2>4 DEF Receive, Walk
<1>3. ASSUME Continue(w) PROVE Walk(w)
  <2>1. PICK p \in {"leaving", "idle"} : wk' = [wk EXCEPT ![w].pc = p]
    BY <1>3 DEF Continue
  <2>2. Goes(w, p, wk[w].seg, wk[w].hi, wk[w].got, wk[w].rec, wk[w].then)
    BY <1>0, <2>1, PcSet DEF Pcs
  <2>. QED BY <1>0, <1>3, <2>2 DEF Continue, Walk
<1>4. ASSUME Leave(w) PROVE Walk(w)
  <2>1. Goes(w, "done", wk[w].seg, wk[w].hi, wk[w].got, wk[w].rec, wk[w].then)
    BY <1>0, <1>4, PcSet DEF Leave, Pcs
  <2>. QED BY <1>0, <1>4, <2>1 DEF Leave, Walk
<1>5. ASSUME Reconnect(w) PROVE Walk(w)
  <2>. DEFINE x == [Off EXCEPT !.pc = "idle"]
  <2>1. x \in Tasks /\ x.pc = "idle" /\ x.seg = 0
    BY Blanks
  <2>2. wk' = [wk EXCEPT ![w] = x]
    BY <1>5 DEF Reconnect
  <2>. HIDE DEF x
  <2>3. Goes(w, x.pc, x.seg, x.hi, x.got, x.rec, x.then)
    BY <1>0, <2>1, <2>2, TaskSet
  <2>4. target' \in 1..Cardinality(Workers)
    BY <1>0, <1>5 DEF Reconnect
  <2>. QED BY <1>5, <2>1, <2>3, <2>4 DEF Reconnect, Walk
<1>6. ASSUME Halt(w) PROVE Walk(w)
  <2>1. Goes(w, "pause", wk[w].seg, wk[w].hi, wk[w].got, wk[w].rec, wk[w].then)
    BY <1>0, <1>6, PcSet DEF Halt, Pcs, Thens
  <2>. QED BY <1>0, <1>6, <2>1 DEF Halt, Walk
<1>. QED BY <1>1, <1>2, <1>3, <1>4, <1>5, <1>6

\* Steps that move no worker and no file.
Still == UNCHANGED <<disk, wk, segs, active, side, phase, after, outcome, ver, misled, target>>

LEMMA StillKeeps == Inv /\ Still => RestOK' /\ CrewOK'
<1>. SUFFICES ASSUME Inv, Still PROVE RestOK' /\ CrewOK'
  OBVIOUS
<1>1. RestOK'
  BY QuietKeeps DEF Still, Quiet
<1>2. SideOK'
  BY DEF Inv, SideOK, Still, Working
<1>3. HoldersOK'
  BY DEF Inv, HoldersOK, HolderOK, Holders, Still
<1>. QED BY <1>1, <1>2, <1>3 DEF CrewOK

LEMMA SignalStep ==
    ASSUME Inv, \/ Interfere \/ EntityChanges \/ Finished \/ \E w \in Workers : RaiseStop(w)
    PROVE  Inv'
<1>0. DiskOK /\ RowOK /\ MemOK
  BY TypeParts DEF Inv
<1>1. Still
  BY DEF Interfere, EntityChanges, Finished, RaiseStop, Still, vars, row, mem
<1>2. RestOK' /\ CrewOK'
  BY <1>1, StillKeeps
<1>3. DiskOK'
  <2>1. entity' \in Versions
    BY <1>0, Constants DEF Interfere, EntityChanges, Finished, RaiseStop, vars, DiskOK, Versions
  <2>. QED BY <1>0, <1>1, <2>1 DEF Still, DiskOK, disk
<1>4. RowOK'
  <2>1. crashes' = crashes /\ errors' = errors /\ (signals' = signals \/ Interfere)
    BY DEF Interfere, EntityChanges, Finished, RaiseStop, vars, row
  <2>2. Interfere => signals' \in 0..MaxEvents
    BY <1>0, Constants DEF Interfere, Eventful, RowOK
  <2>. QED BY <1>0, <1>1, <2>1, <2>2 DEF Still, RowOK
<1>5. MemOK'
  <2>1. stop' \in BOOLEAN /\ signal' \in {"none", "pause", "cancel"}
    BY <1>0 DEF Interfere, EntityChanges, Finished, RaiseStop, vars, mem, MemOK
  <2>. QED BY <1>0, <1>1, <2>1 DEF Still, MemOK
<1>. QED BY <1>2, <1>3, <1>4, <1>5, InvParts

(***************************************************************************)
(* Ways an attempt ends.                                                   *)
(***************************************************************************)

\* The attempt ends: what it had in memory is gone, the files are as they were
\* but for a backup that is put back.
PutBack ==
    /\ side.step = "put" /\ phase \in {"restore", "persist"}
    /\ meta' = bak /\ bak' = NoJournal
Over ==
    /\ Emptied' /\ UNCHANGED <<entity, part, final, ver, misled>>
    /\ UNCHANGED <<meta, bak>> \/ PutBack
    /\ \/ phase' = "idle" /\ after' = "none"
       \/ phase' = "clean" /\ after' = "canceled" /\ outcome' # "canceled"
    /\ "canceled" \in {outcome, after} => "canceled" \in {outcome', after'}

\* Only a segmented file of full length can have holes.
LEMMA HoleIsSegmented ==
    ASSUME Inv, part.len = Total, NEW b \in Blocks, part.blk[b] = Hole
    PROVE  part.kind = "segmented"
<1>1. part.kind \in {"none", "segmented", "single"}
  BY FileFields DEF Inv, TypeOK
<1>2. part.kind # "none"
  BY Constants DEF Inv, FilesOK, NoFile
<1>3. part.kind # "single"
  BY DEF Inv, FilesOK, Blocks
<1>. QED BY <1>1, <1>2, <1>3

LEMMA OverStep == ASSUME Inv, Over, RowOK' PROVE Inv'
<1>0. /\ part' = part /\ final' = final /\ ver' = ver
      /\ misled' = misled /\ entity' = entity
      /\ meta' \in {meta, bak} /\ bak' \in {NoJournal, bak}
      /\ segs' = <<>> /\ active' = {} /\ wk' = [w \in Workers |-> Off] /\ side' = NoWrite
      /\ (phase' = "idle" /\ after' = "none") \/ (phase' = "clean" /\ after' = "canceled" /\ outcome' # "canceled")
  <2>1. Emptied'
    BY DEF Over
  <2>2. segs' = <<>> /\ active' = {} /\ wk' = [w \in Workers |-> Off] /\ side' = NoWrite
    BY <2>1 DEF Emptied
  <2>3. meta' \in {meta, bak} /\ bak' \in {NoJournal, bak}
    BY DEF Over, PutBack
  <2>. QED BY <2>2, <2>3 DEF Over
<1>1. DiskOK'
  BY <1>0, Blanks, TypeParts DEF Inv, DiskOK
<1>2. MemOK'
  BY EmptiedType DEF Over
<1>3. \A w \in Workers : wk'[w].pc = "off"
  BY <1>0, Blanks
<1>4. side'.by = "nobody" /\ side'.step = "free" /\ side'.snap = NoJournal
  BY <1>0 DEF NoWrite
<1>5. SideOK'
  <2>1. \A w \in Workers : w # "nobody"
    BY Constants
  <2>. QED BY <1>0, <1>3, <1>4, <2>1 DEF SideOK
<1>6. HoldersOK'
  BY <1>3 DEF HoldersOK, Holders
<1>7. JournalsOK'
  BY <1>0, <1>4 DEF Inv, JournalsOK, JournalOK
<1>8. ControlOK'
  BY <1>0 DEF Inv, ControlOK, Bare, Loaded, Working, Sealing, Cleaning
<1>9. FilesOK'
  BY <1>0 DEF Inv, FilesOK, Loaded, Working, Sealing, Cleaning
<1>10. HeldOK'
  <2>1. Held(side.snap)' /\ Held([ver |-> ver, segs |-> segs])'
    BY <1>0, <1>4 DEF Held, NoJournal
  <2>2. part.kind = "segmented" /\ ~misled => Held(meta)' /\ Held(bak)'
    BY <1>0 DEF Inv, HeldOK, Held, NoJournal
  <2>. QED BY <1>0, <2>1, <2>2 DEF HeldOK, Working
<1>11. SealedOK' /\ KeptOK'
  BY <1>0, <1>4 DEF SealedOK, KeptOK, Sealing, Loaded, Working
<1>12. NoOrphanHole'
  <2>1. CASE UNCHANGED <<meta, bak>>
    BY <1>0, <2>1 DEF Inv, NoOrphanHole, Over
  <2>2. CASE PutBack
    <3>1. ASSUME part.len = Total, NEW b \in Blocks, part.blk[b] = Hole
          PROVE  part.kind = "segmented"
      BY <3>1, HoleIsSegmented
    <3>2. part.kind = "segmented" => bak # NoJournal
      BY <2>2 DEF PutBack, Inv, KeptOK, Loaded
    <3>. QED BY <1>0, <2>2, <3>1, <3>2 DEF NoOrphanHole, PutBack
  <2>. QED BY <2>1, <2>2 DEF Over
<1>13. CompletedIsWhole'
  BY <1>0 DEF Inv, CompletedIsWhole
<1>. QED BY <1>1, <1>2, <1>5, <1>6, <1>7, <1>8, <1>9, <1>10, <1>11, <1>12, <1>13, InvParts DEF RestOK, CrewOK

\* At work nothing is canceled.
LEMMA NotCanceled ==
    Inv /\ phase # "idle" /\ ~Cleaning => outcome # "canceled" /\ after # "canceled"
BY DEF Inv, ControlOK

\* The result of an ending attempt, with the counters left alone or one error more.
Counted == UNCHANGED <<crashes, signals, misled>> /\ (errors' = errors \/ Fault)

LEMMA EndedOver ==
    ASSUME Inv, NEW r \in Results, Ended(r), Counted, UNCHANGED <<entity, disk, ver>>,
           "canceled" \in {outcome, after} => r = "canceled"
    PROVE  Over /\ RowOK'
<1>1. Emptied' /\ phase' = "idle" /\ outcome' = r /\ after' = "none"
  BY EndedIs
<1>2. RowOK
  BY TypeParts DEF Inv
<1>3. errors' \in 0..MaxEvents
  BY <1>2, Faulty DEF Counted, RowOK
<1>4. RowOK'
  BY <1>1, <1>2, <1>3 DEF RowOK, Counted, Phases, Sequels
<1>5. Over
  BY <1>1 DEF Over, Counted, disk
<1>. QED BY <1>4, <1>5

LEMMA AbortedOver ==
    ASSUME Inv, NEW what, Aborted(what), Counted, UNCHANGED <<entity, disk, ver>>,
           phase \in {"run", "single"}
    PROVE  Over /\ RowOK'
<1>1. /\ Emptied'
      /\ \/ phase' = "clean" /\ after' = "canceled" /\ outcome' = outcome
         \/ phase' = "idle" /\ after' = "none" /\ outcome' \in {"adrift", "paused"}
  BY AbortedIs
<1>2. RowOK
  BY TypeParts DEF Inv
<1>3. errors' \in 0..MaxEvents
  BY <1>2, Faulty DEF Counted, RowOK
<1>4. outcome # "canceled" /\ after # "canceled"
  BY NotCanceled DEF Cleaning
<1>5. RowOK'
  BY <1>1, <1>2, <1>3 DEF RowOK, Counted, Phases, Sequels, Results
<1>6. Over
  BY <1>1, <1>4 DEF Over, Counted, disk
<1>. QED BY <1>5, <1>6

LEMMA EndStep ==
    ASSUME Inv, \/ DrainEnds \/ RenameFails \/ Report \/ ConnectPastEnd \/ ConnectFails \/ SingleInterrupted
                \/ SingleFails \/ (AllJoined /\ ~Complete(segs))
    PROVE  Inv'
<1>0. outcome \in Results /\ after \in Results \cup {"none", "single", "fresh"}
  BY DEF Inv, TypeOK, Results, Sequels
<1>1. CASE DrainEnds
  <2>1. after \in {"restart", "failed"} /\ outcome # "canceled"
    BY <1>1, NotCanceled DEF DrainEnds, Inv, ControlOK, Cleaning
  <2>2. after \in Results /\ Ended(after) /\ Counted /\ UNCHANGED <<entity, disk, ver>>
    BY <1>1, <2>1 DEF DrainEnds, Results, Counted
  <2>3. Over /\ RowOK'
    BY <2>1, <2>2, EndedOver
  <2>. QED BY <2>3, OverStep
<1>2. CASE SingleInterrupted
  <2>1. Over /\ RowOK'
    BY <1>2, AbortedOver DEF SingleInterrupted, Counted
  <2>. QED BY <2>1, OverStep
<1>3. CASE RenameFails \/ Report \/ ConnectPastEnd \/ ConnectFails \/ SingleFails \/ (AllJoined /\ ~Complete(segs))
  <2>1. phase # "idle" /\ ~Cleaning
    BY <1>3 DEF RenameFails, Report, ConnectPastEnd, ConnectFails, SingleFails, AllJoined, Cleaning
  <2>2. outcome # "canceled" /\ after # "canceled"
    BY <2>1, NotCanceled
  <2>3. PICK r \in {"failed", "completed", "restart"} : Ended(r)
    BY <1>3 DEF RenameFails, Report, ConnectPastEnd, ConnectFails, SingleFails, AllJoined
  <2>4. r \in Results /\ Counted /\ UNCHANGED <<entity, disk, ver>>
    BY <1>3 DEF RenameFails, Report, ConnectPastEnd, ConnectFails, SingleFails, AllJoined, Counted, Results
  <2>5. Over /\ RowOK'
    BY <2>2, <2>3, <2>4, EndedOver
  <2>. QED BY <2>5, OverStep
<1>. QED BY <1>1, <1>2, <1>3

LEMMA CrashStep == ASSUME Inv, Crash PROVE Inv'
<1>1. PICK r : Ended(r) /\ r = (CASE after = "canceled" -> "canceled"
                                  [] after = "queued"   -> outcome
                                  [] OTHER              -> "queued")
  BY DEF Crash
<1>2. Emptied' /\ phase' = "idle" /\ outcome' = r /\ after' = "none"
  BY <1>1, EndedIs
<1>3. RowOK
  BY TypeParts DEF Inv
<1>4. phase # "idle" /\ (outcome = "canceled" => after = "queued")
  BY DEF Crash, Inv, ControlOK
<1>5. r \in Results /\ ("canceled" \in {outcome, after} => r = "canceled")
  BY <1>1, <1>3, <1>4 DEF RowOK, Results
<1>6. RowOK'
  <2>1. crashes' \in 0..MaxEvents
    BY <1>3, Constants DEF Crash, Eventful, RowOK
  <2>2. signals' = signals /\ errors' = errors /\ misled' = misled
    BY DEF Crash
  <2>. QED BY <1>2, <1>3, <1>5, <2>1, <2>2 DEF RowOK, Phases, Sequels
<1>7. Over
  BY <1>2, <1>5 DEF Over, Crash, disk
<1>. QED BY <1>6, <1>7, OverStep

LEMMA JoinStep == ASSUME Inv, NEW w \in Workers, Join(w) PROVE Inv'
<1>0. wk \in [Workers -> Tasks] /\ Off \in Tasks /\ Off.pc = "off" /\ Off.seg = 0 /\ RowOK
      /\ target \in 1..Cardinality(Workers) /\ phase = "run"
  BY Blanks, TypeParts DEF Inv, TypeOK, Join
<1>1. CASE wk[w].pc = "done" /\ UNCHANGED <<outcome, phase, after, segs, active, side, target, stop, signal>>
             /\ wk' = [wk EXCEPT ![w] = Off]
  <2>1. Goes(w, Off.pc, Off.seg, Off.hi, Off.got, Off.rec, Off.then)
    BY <1>0, <1>1, TaskSet
  <2>2. UNCHANGED <<entity, disk, row, phase, after, ver, segs, active, side, stop, signal, errors>>
    BY <1>1 DEF Join, row
  <2>3. Walk(w)
    BY <1>0, <1>1, <2>1, <2>2 DEF Walk
  <2>. QED BY <2>3, WalkStep
<1>2. CASE wk[w].pc \in {"pause", "cancel"} /\ Aborted(wk[w].pc)
  <2>1. Over /\ RowOK'
    BY <1>0, <1>2, AbortedOver DEF Join, Counted
  <2>. QED BY <2>1, OverStep
<1>3. CASE /\ wk[w].pc \in {"failed", "fatal", "refused"} /\ phase' = "drain"
           /\ after' = IF wk[w].pc = "refused" THEN "restart" ELSE "failed"
           /\ wk' = [wk EXCEPT ![w] = Off]
           /\ UNCHANGED <<outcome, segs, active, side, target, stop, signal>>
  <2>0. /\ part' = part /\ meta' = meta /\ bak' = bak /\ final' = final /\ ver' = ver
        /\ misled' = misled /\ entity' = entity /\ outcome' = outcome /\ segs' = segs
        /\ active' = active /\ side' = side /\ phase' = "drain" /\ after' \in {"restart", "failed"}
        /\ crashes' = crashes /\ signals' = signals /\ errors' = errors
        /\ target' = target /\ stop' = stop /\ signal' = signal
    BY <1>3 DEF Join, disk
  <2>1. Goes(w, Off.pc, Off.seg, Off.hi, Off.got, Off.rec, Off.then)
    BY <1>0, <1>3, TaskSet
  <2>2. wk'[w].pc = "off" /\ \A v \in Workers : v # w => wk'[v] = wk[v]
    BY <1>0, <2>1 DEF Goes
  <2>3. DiskOK' /\ RowOK'
    <3>1. RowOK'
      BY <1>0, <2>0 DEF RowOK, Phases, Sequels
    <3>. QED BY <2>0, <3>1, SameType DEF disk
  <2>4. MemOK'
    <3>. HIDE DEF Off
    <3>1. UNCHANGED <<segs, active, side, stop, signal>> /\ target' \in 1..Cardinality(Workers)
      BY <1>0, <2>0
    <3>2. Off.seg \in {0, wk[w].seg}
      BY <1>0
    <3>. QED BY <2>1, <3>1, <3>2, WalkType
  <2>5. SideOK'
    <3>1. SideOK
      BY DEF Inv
    <3>. QED BY <1>0, <1>3, <2>0, <2>2, <3>1 DEF SideOK, Working
  <2>6. HoldersOK'
    <3>1. ASSUME NEW v \in Holders' PROVE HolderOK(v)'
      <4>1. v \in Holders /\ v # w /\ v \in Workers /\ \A u \in Holders' : u \in Holders /\ wk'[u] = wk[u]
        BY <2>2 DEF Holders
      <4>2. HolderOK(v)
        BY <4>1 DEF Inv, HoldersOK
      <4>. QED BY <2>0, <4>1, <4>2 DEF HolderOK
    <3>. QED BY <3>1 DEF HoldersOK
  <2>7. JournalsOK'
    BY <2>0 DEF Inv, JournalsOK
  <2>8. ControlOK' /\ FilesOK'
    <3>1. outcome # "canceled"
      BY <1>0, NotCanceled DEF Cleaning
    <3>. QED BY <1>0, <2>0, <3>1 DEF Inv, ControlOK, FilesOK, Bare, Loaded, Working, Sealing, Cleaning
  <2>9. HeldOK' /\ SealedOK' /\ KeptOK'
    BY <1>0, <2>0 DEF Inv, HeldOK, Held, SealedOK, KeptOK, Sealing, Loaded, Working
  <2>10. NoOrphanHole' /\ CompletedIsWhole'
    BY <1>0, <2>0, NotCanceled DEF Inv, NoOrphanHole, CompletedIsWhole, Cleaning
  <2>. QED BY <2>3, <2>4, <2>5, <2>6, <2>7, <2>8, <2>9, <2>10, InvParts DEF RestOK, CrewOK
<1>. QED BY <1>1, <1>2, <1>3 DEF Join

(***************************************************************************)
(* Progress is flushed and recorded.                                       *)
(***************************************************************************)

LEMMA HaveInBlocks ==
    ASSUME NEW s, Good(s), NEW i \in DOMAIN s, NEW b \in Have(s[i])
    PROVE  b \in Blocks /\ b \in Int
<1>1. s \in Seq(Segments) /\ s[i].got <= SegLen(s[i]) /\ s[i].lo <= s[i].hi
  BY DEF Good, Sound
<1>2. s[i].lo \in 1..Total /\ s[i].hi \in 1..Total /\ s[i].got \in 0..Total /\ Total \in Nat
  BY <1>1, SegmentFields
<1>3. s[i].got <= s[i].hi - s[i].lo + 1
  BY <1>1 DEF SegLen
<1>4. b \in s[i].lo .. s[i].lo + s[i].got - 1
  BY DEF Have
<1>. QED BY <1>2, <1>3, <1>4 DEF Blocks

\* A journal stays behind a file that only gains blocks of its version.
LEMMA HeldStays ==
    ASSUME NEW j, JournalOK(j), Held(j), NEW v,
           \A b \in Blocks : part'.blk[b] = part.blk[b] \/ part'.blk[b] = v,
           j.ver \in {0, v}
    PROVE  \A i \in DOMAIN j.segs : \A b \in Have(j.segs[i]) : part'.blk[b] = j.ver
<1>1. CASE j = NoJournal
  BY <1>1 DEF NoJournal
<1>2. CASE j # NoJournal
  <2>1. j.ver = v /\ Good(j.segs)
    BY <1>2 DEF JournalOK
  <2>2. ASSUME NEW i \in DOMAIN j.segs, NEW b \in Have(j.segs[i]) PROVE part'.blk[b] = j.ver
    <3>1. b \in Blocks
      BY <2>1, HaveInBlocks
    <3>2. part.blk[b] = j.ver
      BY DEF Held
    <3>. QED BY <2>1, <3>1, <3>2
  <2>. QED BY <2>2
<1>. QED BY <1>1, <1>2

\* A worker writes and records what it has, and waits for the journal or asks again.
Saves(w) ==
    \E p \in {"lock", "request"}, t \in Thens \cup {"none"} :
        /\ Flushed(w) /\ Goes(w, p, wk[w].seg, wk[w].hi, wk[w].got, wk[w].got, t)
        /\ wk[w].pc \in {"request", "stream"} /\ (p = "lock" => t # "none")
        /\ UNCHANGED <<entity, meta, bak, final, row, phase, after, ver, active, side,
                       target, stop, signal>>
        /\ errors' = errors \/ Fault

LEMMA SaveStep == ASSUME Inv, NEW w \in Workers, Saves(w) PROVE Inv'
<1>0. PICK p \in {"lock", "request"}, t \in Thens \cup {"none"} :
        /\ Flushed(w) /\ Goes(w, p, wk[w].seg, wk[w].hi, wk[w].got, wk[w].got, t)
        /\ wk[w].pc \in {"request", "stream"} /\ (p = "lock" => t # "none")
        /\ UNCHANGED <<entity, meta, bak, final, row, phase, after, ver, active, side,
                       target, stop, signal>>
        /\ errors' = errors \/ Fault
  BY DEF Saves
<1>. DEFINE i == wk[w].seg
            g == wk[w].got
<1>1. /\ meta' = meta /\ bak' = bak /\ final' = final /\ phase' = phase /\ after' = after
      /\ ver' = ver /\ active' = active /\ side' = side /\ target' = target /\ stop' = stop
      /\ signal' = signal /\ entity' = entity /\ outcome' = outcome /\ misled' = misled
      /\ crashes' = crashes /\ signals' = signals
  BY <1>0 DEF row
<1>2. /\ part' \in Files /\ part'.kind = part.kind /\ part'.len = part.len
      /\ \A b \in Blocks :
           part'.blk[b] = IF b \in segs[i].lo + wk[w].rec .. segs[i].lo + g - 1
                          THEN ver ELSE part.blk[b]
      /\ Good(segs') /\ DOMAIN segs' = DOMAIN segs
      /\ segs'[i].lo = segs[i].lo /\ segs'[i].hi = segs[i].hi /\ segs'[i].got = g
      /\ \A k \in DOMAIN segs : k # i => segs'[k] = segs[k]
  BY <1>0 DEF Flushed
<1>3. /\ wk' \in [Workers -> Tasks] /\ wk'[w].pc = p /\ wk'[w].seg = i /\ wk'[w].hi = wk[w].hi
      /\ wk'[w].got = g /\ wk'[w].rec = g /\ wk'[w].then = t
      /\ \A v \in Workers : v # w => wk'[v] = wk[v]
  BY <1>0 DEF Goes
<1>4. /\ w \in Holders /\ HolderOK(w) /\ Working /\ Good(segs)
      /\ i \in active /\ i \in DOMAIN segs
      /\ g \in Nat /\ wk[w].rec \in Nat
      /\ wk[w].hi = segs[i].hi /\ wk[w].rec = segs[i].got
      /\ wk[w].rec <= g /\ g <= SegLen(segs[i])
      /\ segs[i].lo \in 1..Total /\ segs[i].hi \in 1..Total
  BY <1>0, Holding
<1>5. DiskOK /\ RowOK /\ MemOK /\ ver # 0
  BY TypeParts, Constants DEF Inv, DiskOK, Versions
<1>. HIDE DEF i, g
<1>6. DiskOK'
  BY <1>1, <1>2, <1>5 DEF DiskOK
<1>7. RowOK'
  <2>1. errors' \in 0..MaxEvents
    BY <1>0, <1>5, Faulty DEF RowOK
  <2>. QED BY <1>1, <1>5, <2>1 DEF RowOK
<1>8. MemOK'
  <2>1. segs' \in Seq(Segments)
    BY <1>2, GoodIsSeq
  <2>2. \A v \in Workers : wk'[v].seg \in {0} \cup DOMAIN segs'
    BY <1>2, <1>3, <1>4, <1>5 DEF MemOK
  <2>. QED BY <1>1, <1>2, <1>3, <1>5, <2>1, <2>2 DEF MemOK
<1>9. SideOK'
  <2>1. SideOK
    BY DEF Inv
  <2>2. side.by # "loader"
    BY <1>4, <2>1 DEF SideOK, Working
  <2>3. \A v \in Workers : wk'[v].pc = "saving" <=> wk[v].pc = "saving"
    BY <1>0, <1>3
  <2>. QED BY <1>0, <1>1, <1>3, <1>4, <2>1, <2>2, <2>3 DEF SideOK, Working
<1>10. HoldersOK'
  <2>1. ASSUME NEW v \in Holders' PROVE HolderOK(v)'
    <3>1. v \in Holders /\ v \in Workers /\ \A u \in Holders' : u \in Holders /\ wk'[u].seg = wk[u].seg
      BY <1>3, <1>4 DEF Holders, i
    <3>2. HolderOK(v)
      BY <3>1 DEF Inv, HoldersOK
    <3>3. CASE v = w
      <4>1. SegLen(segs'[i]) = SegLen(segs[i])
        BY <1>2 DEF SegLen
      <4>2. \A u \in Holders' \ {w} : wk'[u].seg # i
        BY <1>4, <3>1 DEF HolderOK, i
      <4>. QED BY <1>1, <1>2, <1>3, <1>4, <3>1, <3>3, <4>1, <4>2 DEF HolderOK
    <3>4. CASE v # w
      <4>1. wk[v].seg # i /\ wk'[v] = wk[v] /\ wk[v].seg \in DOMAIN segs
        BY <1>3, <1>4, <1>5, <3>1, <3>2, <3>4 DEF HolderOK, MemOK, i
      <4>2. segs'[wk[v].seg] = segs[wk[v].seg]
        BY <1>2, <4>1
      <4>. QED BY <1>1, <3>1, <3>2, <4>1, <4>2 DEF HolderOK
    <3>. QED BY <3>3, <3>4
  <2>. QED BY <2>1 DEF HoldersOK
<1>11. JournalsOK'
  BY <1>1, <1>2 DEF Inv, JournalsOK, JournalOK
<1>12. ControlOK' /\ FilesOK' /\ SealedOK' /\ KeptOK'
  <2>1. segs' # <<>>
    BY <1>2, GoodIsSeq
  <2>2. part.kind = "segmented" /\ phase \in {"run", "drain"}
    BY <1>4 DEF Inv, FilesOK, Working
  <2>3. ControlOK'
    BY <1>1, <2>1, <2>2 DEF Inv, ControlOK, Bare, Loaded, Working, Sealing, Cleaning
  <2>4. FilesOK'
    BY <1>1, <1>2, <2>2 DEF Inv, FilesOK, Loaded, Working, Sealing, Cleaning
  <2>5. SealedOK' /\ KeptOK'
    BY <1>1, <1>2, <2>2 DEF Inv, SealedOK, KeptOK, Loaded, Working, Sealing
  <2>. QED BY <2>3, <2>4, <2>5
<1>13. HeldOK'
  <2>1. (Working => meta.ver \in {0, ver} /\ bak.ver \in {0, ver})'
    BY <1>1, <1>4 DEF Inv, HeldOK, Working
  <2>2. ASSUME (part.kind = "segmented" /\ ~misled)'
        PROVE  (Held(meta) /\ Held(bak) /\ Held(side.snap) /\ Held([ver |-> ver, segs |-> segs]))'
    <3>1. Held(meta) /\ Held(bak) /\ Held(side.snap) /\ Held([ver |-> ver, segs |-> segs])
      BY <1>1, <1>2, <2>2 DEF Inv, HeldOK
    <3>2. meta.ver \in {0, ver} /\ bak.ver \in {0, ver} /\ side.snap.ver \in {0, ver}
      <4>1. side.snap.ver \in {0, ver}
        BY DEF Inv, SideOK, NoWrite, NoJournal
      <4>. QED BY <1>1, <2>1, <1>4, <4>1 DEF Working
    <3>3. \A b \in Blocks : part'.blk[b] = part.blk[b] \/ part'.blk[b] = ver
      BY <1>2
    <3>4. JournalOK(meta) /\ JournalOK(bak) /\ JournalOK(side.snap)
      BY DEF Inv, JournalsOK
    <3>5. Held(meta)' /\ Held(bak)' /\ Held(side.snap)'
      BY <1>1, <3>1, <3>2, <3>3, <3>4, HeldStays DEF Held
    <3>6. ASSUME NEW k \in DOMAIN segs', NEW b \in Have(segs'[k]) PROVE part'.blk[b] = ver
      <4>0. b \in Blocks /\ b \in Int
        BY <1>2, HaveInBlocks
      <4>1. \A m \in DOMAIN segs : \A c \in Have(segs[m]) : part.blk[c] = ver
        BY <3>1 DEF Held
      <4>2. CASE k # i
        <5>1. segs'[k] = segs[k] /\ k \in DOMAIN segs
          BY <1>2, <4>2
        <5>2. part.blk[b] = ver
          BY <4>1, <5>1
        <5>. QED BY <3>3, <4>0, <5>2
      <4>3. CASE k = i
        <5>1. b \in segs[i].lo .. segs[i].lo + g - 1
          BY <1>2, <4>3 DEF Have
        <5>2. b \in segs[i].lo .. segs[i].lo + wk[w].rec - 1 \/ b \in segs[i].lo + wk[w].rec .. segs[i].lo + g - 1
          BY <1>4, <5>1
        <5>3. CASE b \in segs[i].lo .. segs[i].lo + wk[w].rec - 1
          <6>1. b \in Have(segs[i])
            BY <1>4, <5>3 DEF Have
          <6>2. part.blk[b] = ver
            BY <1>4, <4>1, <6>1
          <6>. QED BY <3>3, <4>0, <6>2
        <5>4. CASE b \in segs[i].lo + wk[w].rec .. segs[i].lo + g - 1
          BY <1>2, <4>0, <5>4
        <5>. QED BY <5>2, <5>3, <5>4
      <4>. QED BY <4>2, <4>3
    <3>7. Held([ver |-> ver, segs |-> segs])'
      BY <1>1, <3>6 DEF Held
    <3>. QED BY <3>5, <3>7
  <2>. QED BY <2>1, <2>2 DEF HeldOK
<1>14. NoOrphanHole' /\ CompletedIsWhole'
  <2>1. ASSUME NEW b \in Blocks, part'.blk[b] = Hole PROVE part.blk[b] = Hole
    BY <1>2, <1>5, <2>1 DEF Hole
  <2>. QED BY <1>1, <1>2, <2>1 DEF Inv, NoOrphanHole, CompletedIsWhole
<1>. QED BY <1>6, <1>7, <1>8, <1>9, <1>10, <1>11, <1>12, <1>13, <1>14, InvParts DEF RestOK, CrewOK

LEMMA SaveSaves ==
    ASSUME Inv, NEW w \in Workers, NEW t \in Thens, Save(w, t),
           wk[w].pc \in {"request", "stream"}, errors' = errors \/ Fault
    PROVE  Saves(w)
<1>1. Flushed(w)
  BY FlushFacts DEF Save
<1>2. wk \in [Workers -> Tasks] /\ "lock" \in Pcs /\ t # "none"
  BY DEF Inv, TypeOK, Pcs, Thens
<1>3. Goes(w, "lock", wk[w].seg, wk[w].hi, wk[w].got, wk[w].got, t)
  <2>1. wk[w] \in Tasks
    BY <1>2
  <2>2. [wk[w] EXCEPT !.pc = "lock", !.rec = wk[w].got, !.then = t]
          = Changed(w, "lock", wk[w].got, wk[w].got, t)
    BY <2>1 DEF Tasks, Changed
  <2>3. wk' = [wk EXCEPT ![w] = Changed(w, "lock", wk[w].got, wk[w].got, t)]
    BY <2>1, <2>2 DEF Save
  <2>4. wk[w].got \in 0..Total
    BY <2>1, TaskFields
  <2>. QED BY <1>2, <2>3, <2>4, FieldsSet
<1>. QED BY <1>1, <1>2, <1>3 DEF Save, Saves

LEMMA SavesStep ==
    ASSUME Inv, NEW w \in Workers,
           SaveProgress(w) \/ AskAgain(w) \/ Disconnect(w) \/ Refused(w) \/ Interrupt(w)
    PROVE  Inv'
<1>1. CASE AskAgain(w)
  <2>1. wk[w].pc = "stream" /\ Flushed(w)
    BY <1>1, FlushFacts DEF AskAgain
  <2>2. wk \in [Workers -> Tasks]
    BY DEF Inv, TypeOK
  <2>3. Goes(w, "request", wk[w].seg, wk[w].hi, wk[w].got, wk[w].got, wk[w].then)
    <3>1. wk[w] \in Tasks
      BY <2>2
    <3>2. [wk[w] EXCEPT !.pc = "request", !.rec = wk[w].got]
            = Changed(w, "request", wk[w].got, wk[w].got, wk[w].then)
      BY <3>1 DEF Tasks, Changed
    <3>3. wk' = [wk EXCEPT ![w] = Changed(w, "request", wk[w].got, wk[w].got, wk[w].then)]
      BY <1>1, <3>1, <3>2 DEF AskAgain
    <3>4. wk[w].got \in 0..Total /\ wk[w].then \in Thens \cup {"none"} /\ "request" \in Pcs
      BY <3>1, TaskFields DEF Pcs
    <3>. QED BY <2>2, <3>3, <3>4, FieldsSet
  <2>4. wk[w].then \in Thens \cup {"none"}
    BY <2>2, TaskFields
  <2>5. Saves(w)
    BY <1>1, <2>1, <2>3, <2>4 DEF AskAgain, Saves
  <2>. QED BY <2>5, SaveStep
<1>2. CASE SaveProgress(w) \/ Disconnect(w) \/ Refused(w) \/ Interrupt(w)
  <2>1. signal \in {"none", "pause", "cancel"}
    BY DEF Inv, TypeOK
  <2>2. PICK t \in Thens : Save(w, t)
    BY <1>2, <2>1 DEF SaveProgress, Disconnect, Refused, Interrupt, Thens
  <2>3. wk[w].pc \in {"request", "stream"} /\ (errors' = errors \/ Fault)
    BY <1>2 DEF SaveProgress, Disconnect, Refused, Interrupt
  <2>. QED BY <2>2, <2>3, SaveSaves, SaveStep
<1>. QED BY <1>1, <1>2

(***************************************************************************)
(* Taking the journal's lock, and a segment.                               *)
(***************************************************************************)

LEMMA TakeStep == ASSUME Inv, NEW w \in Workers, TakeJournal(w) PROVE Inv'
<1>0. /\ wk[w].pc = "lock" /\ side = NoWrite
      /\ bak' = NoJournal /\ part' = part /\ meta' = meta /\ final' = final /\ phase' = phase
      /\ after' = after /\ ver' = ver /\ segs' = segs /\ active' = active /\ target' = target
      /\ stop' = stop /\ signal' = signal /\ entity' = entity /\ outcome' = outcome
      /\ misled' = misled /\ crashes' = crashes /\ signals' = signals /\ errors' = errors
  BY DEF TakeJournal, row
<1>1. DiskOK /\ RowOK /\ MemOK /\ ver \in Versions /\ ver # 0
  BY TypeParts, Constants DEF Inv, DiskOK, Versions
<1>2. Working /\ Good(segs) /\ wk[w].seg \in DOMAIN segs /\ segs \in Seq(Segments)
  BY <1>0, Holding, GoodIsSeq
<1>3. /\ side' \in Writes /\ side'.by = w /\ side'.step = "swap"
      /\ side'.snap = [ver |-> ver, segs |-> segs]
  <2>1. side' = [by |-> w, step |-> "swap", snap |-> [ver |-> ver, segs |-> segs]]
    BY DEF TakeJournal
  <2>. QED BY <1>1, <1>2, <2>1, WriteSet
<1>4. /\ wk' \in [Workers -> Tasks] /\ wk'[w].pc = "saving" /\ wk'[w].seg = wk[w].seg
      /\ wk'[w].hi = wk[w].hi /\ wk'[w].got = wk[w].got /\ wk'[w].rec = wk[w].rec
      /\ wk'[w].then = wk[w].then /\ \A v \in Workers : v # w => wk'[v] = wk[v]
  <2>1. wk' = [wk EXCEPT ![w].pc = "saving"]
    BY DEF TakeJournal
  <2>2. Goes(w, "saving", wk[w].seg, wk[w].hi, wk[w].got, wk[w].rec, wk[w].then)
    BY <1>1, <2>1, PcSet DEF MemOK, Pcs
  <2>. QED BY <2>2 DEF Goes
<1>5. part.kind = "segmented" /\ phase \in {"run", "drain"}
  BY <1>2 DEF Inv, FilesOK, Working
<1>6. meta # NoJournal
  BY <1>0, <1>5 DEF Inv, KeptOK, NoWrite, Working
<1>7. DiskOK' /\ RowOK'
  BY <1>0, <1>1, Blanks DEF DiskOK, RowOK
<1>8. MemOK'
  BY <1>0, <1>1, <1>2, <1>3, <1>4 DEF MemOK
<1>9. SideOK'
  <2>1. SideOK
    BY DEF Inv
  <2>2. \A v \in Workers : wk[v].pc # "saving" /\ v # "nobody" /\ v # "loader"
    BY <1>0, <2>1, Constants DEF SideOK, NoWrite
  <2>3. \A v \in Workers : side'.by = v <=> wk'[v].pc = "saving"
    BY <1>3, <1>4, <2>2
  <2>. QED BY <1>0, <1>2, <1>3, <1>4, <1>5, <2>1, <2>2, <2>3 DEF SideOK, Working
<1>10. HoldersOK'
  <2>1. ASSUME NEW v \in Holders' PROVE HolderOK(v)'
    <3>1. v \in Holders /\ v \in Workers /\ \A u \in Holders' : u \in Holders /\ wk'[u].seg = wk[u].seg
      BY <1>0, <1>4 DEF Holders
    <3>2. HolderOK(v)
      BY <3>1 DEF Inv, HoldersOK
    <3>3. wk'[v].hi = wk[v].hi /\ wk'[v].got = wk[v].got /\ wk'[v].rec = wk[v].rec /\ wk'[v].seg = wk[v].seg
      BY <1>4, <3>1
    <3>. QED BY <1>0, <3>1, <3>2, <3>3 DEF HolderOK
  <2>. QED BY <2>1 DEF HoldersOK
<1>11. JournalsOK'
  BY <1>0, <1>1, <1>2, <1>3 DEF Inv, JournalsOK, JournalOK
<1>12. ControlOK'
  BY <1>0, <1>5 DEF Inv, ControlOK, Bare, Loaded, Working, Sealing, Cleaning
<1>13. FilesOK'
  BY <1>0, <1>5 DEF Inv, FilesOK, Loaded, Working, Sealing, Cleaning
<1>14. HeldOK'
  <2>1. (Working => meta.ver \in {0, ver} /\ bak.ver \in {0, ver})'
    BY <1>0 DEF Inv, HeldOK, Working, NoJournal
  <2>2. ASSUME (part.kind = "segmented" /\ ~misled)'
        PROVE  (Held(meta) /\ Held(bak) /\ Held(side.snap) /\ Held([ver |-> ver, segs |-> segs]))'
    <3>1. Held(meta) /\ Held([ver |-> ver, segs |-> segs])
      BY <1>0, <2>2 DEF Inv, HeldOK
    <3>2. Held(bak)'
      BY <1>0 DEF Held, NoJournal
    <3>. QED BY <1>0, <1>3, <3>1, <3>2 DEF Held
  <2>. QED BY <2>1, <2>2 DEF HeldOK
<1>15. SealedOK' /\ KeptOK' /\ NoOrphanHole' /\ CompletedIsWhole'
  BY <1>0, <1>3, <1>5, <1>6 DEF Inv, SealedOK, KeptOK, NoOrphanHole, CompletedIsWhole, Loaded, Working, Sealing
<1>. QED BY <1>7, <1>8, <1>9, <1>10, <1>11, <1>12, <1>13, <1>14, <1>15, InvParts DEF RestOK, CrewOK

LEMMA ClaimStep == ASSUME Inv, NEW w \in Workers, Claim(w) PROVE Inv'
<1>. PICK cap \in {0, ProbeCap} :
       LET s     == Fill(segs, active, cap)
           ready == Pending(s, active)
           small == Leases(s, active, LeaseSize(s, cap))
           i     == Largest(s, IF small # {} THEN small ELSE ready)
       IN  IF ready = {}
           THEN /\ wk' = [wk EXCEPT ![w].pc = "done"]
                /\ UNCHANGED <<segs, active>>
           ELSE /\ segs' = s /\ active' = active \cup {i}
                /\ wk' = [wk EXCEPT ![w] =
                        [pc |-> "request", seg |-> i, hi |-> s[i].hi, got |-> s[i].got,
                         rec |-> s[i].got, then |-> "none"]]
  BY DEF Claim
<1>. DEFINE s     == Fill(segs, active, cap)
            ready == Pending(s, active)
            small == Leases(s, active, LeaseSize(s, cap))
            cand  == IF small # {} THEN small ELSE ready
            i     == Largest(s, cand)
            x     == [pc |-> "request", seg |-> i, hi |-> s[i].hi, got |-> s[i].got,
                     rec |-> s[i].got, then |-> "none"]
<1>0. /\ phase = "run" /\ wk[w].pc = "idle"
      /\ UNCHANGED <<entity, disk, row, phase, after, ver, side, target, stop, signal, errors>>
  BY DEF Claim
<1>1. DiskOK /\ RowOK /\ MemOK
  BY TypeParts DEF Inv
<1>2. CASE ready = {}
  <2>1. wk' = [wk EXCEPT ![w].pc = "done"] /\ UNCHANGED <<segs, active>>
    BY <1>2
  <2>2. Goes(w, "done", wk[w].seg, wk[w].hi, wk[w].got, wk[w].rec, wk[w].then)
    BY <1>1, <2>1, PcSet DEF MemOK, Pcs
  <2>3. Walk(w)
    BY <1>0, <1>1, <2>1, <2>2 DEF Walk, MemOK
  <2>. QED BY <2>3, WalkStep
<1>3. CASE ready # {}
  <2>1. segs' = s /\ active' = active \cup {i} /\ wk' = [wk EXCEPT ![w] = x]
    BY <1>3
  <2>2. Good(segs) /\ active \subseteq DOMAIN segs
    BY <1>0, <1>1 DEF Inv, JournalsOK, ControlOK, Working, MemOK
  <2>3. Good(s) /\ Refines(s, segs, active)
    <3>1. cap \in Nat
      BY SizesAssumption
    <3>. QED BY <2>2, <3>1, FillRefines
  <2>4. cand \subseteq DOMAIN s /\ cand \cap active = {} /\ cand # {}
    BY <1>3 DEF Pending, Leases
  <2>5. i \in cand
    BY <2>3, <2>4, LargestIsIn, GoodIsSeq
  <2>6. i \in DOMAIN s /\ i \notin active
    BY <2>4, <2>5
  <2>7. /\ DOMAIN segs \subseteq DOMAIN s /\ s \in Seq(Segments) /\ s # <<>> /\ i \in Nat
        /\ s[i].hi \in 0..Total /\ s[i].got \in 0..Total /\ s[i].got <= SegLen(s[i])
    <3>1. Len(s) \in Nat /\ Len(segs) \in Nat /\ DOMAIN s = 1..Len(s) /\ DOMAIN segs = 1..Len(segs)
      BY <2>2, <2>3 DEF Good
    <3>2. s[i].hi \in 1..Total /\ s[i].got \in 0..Total /\ s[i].got <= SegLen(s[i])
      BY <2>3, <2>6, SegmentFields DEF Good, Sound
    <3>. QED BY <2>3, <2>6, <3>1, <3>2 DEF Good, Refines
  <2>8. x \in Tasks /\ x.pc = "request" /\ x.seg = i /\ x.hi = s[i].hi /\ x.got = s[i].got
        /\ x.rec = s[i].got
    BY <2>7 DEF Tasks, Pcs
  <2>. HIDE DEF x, i, cand, small, ready, s
  <2>9. /\ wk' \in [Workers -> Tasks] /\ wk'[w] = x
        /\ \A v \in Workers : v # w => wk'[v] = wk[v]
    BY <1>1, <2>1, <2>8 DEF MemOK
  <2>10. /\ part' = part /\ meta' = meta /\ bak' = bak /\ final' = final /\ ver' = ver
         /\ misled' = misled /\ outcome' = outcome /\ after' = after /\ side' = side
         /\ phase' = "run" /\ phase = "run" /\ target' = target /\ stop' = stop /\ signal' = signal
    BY <1>0 DEF disk, row
  <2>11. DiskOK' /\ RowOK'
    BY <1>0, SameType
  <2>12. MemOK'
    <3>1. \A v \in Workers : wk'[v].seg \in {0} \cup DOMAIN segs'
      BY <1>1, <2>1, <2>6, <2>7, <2>8, <2>9 DEF MemOK
    <3>2. segs' \in Seq(Segments) /\ active' \subseteq DOMAIN segs'
      BY <2>1, <2>2, <2>6, <2>7
    <3>. QED BY <1>1, <2>9, <2>10, <3>1, <3>2 DEF MemOK
  <2>13. SideOK'
    <3>1. SideOK
      BY DEF Inv
    <3>2. side.by # "loader" /\ \A v \in Workers : wk'[v].pc = "saving" <=> wk[v].pc = "saving"
      BY <1>0, <2>8, <2>9, <3>1 DEF SideOK
    <3>. QED BY <1>0, <2>8, <2>9, <2>10, <3>1, <3>2 DEF SideOK, Working
  <2>14. HoldersOK'
    <3>1. \A v \in Holders' : v # w => v \in Holders /\ wk'[v] = wk[v]
      BY <2>9 DEF Holders
    <3>2. ASSUME NEW v \in Holders', v # w
          PROVE  HolderOK(v) /\ wk[v].seg \in active /\ wk[v].seg # i /\ s[wk[v].seg] = segs[wk[v].seg]
      <4>1. HolderOK(v)
        BY <3>1, <3>2 DEF Inv, HoldersOK
      <4>2. wk[v].seg \in active
        BY <4>1 DEF HolderOK
      <4>3. s[wk[v].seg] = segs[wk[v].seg]
        BY <2>2, <2>3, <4>2 DEF Refines
      <4>. QED BY <2>6, <4>1, <4>2, <4>3
    <3>3. ASSUME NEW v \in Holders' PROVE HolderOK(v)'
      <4>1. CASE v = w
        <5>1. \A u \in Holders' \ {w} : wk'[u].seg # i
          BY <3>1, <3>2
        <5>. QED BY <2>1, <2>7, <2>8, <2>9, <4>1, <5>1 DEF HolderOK
      <4>2. CASE v # w
        <5>1. \A u \in Holders' \ {v} : wk'[u].seg # wk[v].seg
          BY <2>8, <2>9, <3>1, <3>2, <4>2 DEF HolderOK
        <5>2. wk'[v] = wk[v] /\ HolderOK(v) /\ wk[v].seg \in active /\ s[wk[v].seg] = segs[wk[v].seg]
          BY <3>1, <3>2, <4>2
        <5>. QED BY <2>1, <5>1, <5>2 DEF HolderOK
      <4>. QED BY <4>1, <4>2
    <3>. QED BY <3>3 DEF HoldersOK
  <2>15. JournalsOK' /\ ControlOK' /\ SealedOK'
    BY <2>1, <2>3, <2>7, <2>10 DEF Inv, JournalsOK, ControlOK, SealedOK, Bare, Loaded, Working, Sealing, Cleaning
  <2>16. FilesOK' /\ KeptOK' /\ NoOrphanHole' /\ CompletedIsWhole'
    BY <2>10 DEF Inv, FilesOK, KeptOK, NoOrphanHole, CompletedIsWhole, Loaded, Working, Sealing, Cleaning
  <2>17. HeldOK'
    <3>1. ASSUME part.kind = "segmented", ~misled, NEW k \in DOMAIN s, NEW b \in Have(s[k])
          PROVE  part.blk[b] = ver
      <4>1. CASE k \in DOMAIN segs
        <5>1. Have(s[k]) = Have(segs[k])
          BY <2>3, <4>1 DEF Refines, Have
        <5>. QED BY <3>1, <4>1, <5>1 DEF Inv, HeldOK, Held
      <4>2. CASE k \notin DOMAIN segs
        <5>1. s[k].got = 0 /\ s[k].lo \in 1..Total /\ Total \in Nat
          BY <2>3, <2>7, <4>2, SegmentFields DEF Refines
        <5>2. Have(s[k]) = {}
          BY <5>1 DEF Have
        <5>. QED BY <5>2
      <4>. QED BY <4>1, <4>2
    <3>2. part.kind = "segmented" /\ ~misled => Held([ver |-> ver, segs |-> segs])'
      BY <2>1, <2>10, <3>1 DEF Held
    <3>3. part.kind = "segmented" /\ ~misled => Held(meta)' /\ Held(bak)' /\ Held(side.snap)'
      BY <2>10 DEF Inv, HeldOK, Held
    <3>4. meta'.ver \in {0, ver'} /\ bak'.ver \in {0, ver'}
      BY <2>10 DEF Inv, HeldOK, Working
    <3>. QED BY <2>10, <3>2, <3>3, <3>4 DEF HeldOK
  <2>. QED BY <2>11, <2>12, <2>13, <2>14, <2>15, <2>16, <2>17, InvParts DEF RestOK, CrewOK
<1>. QED BY <1>2, <1>3

(***************************************************************************)
(* Writing the sidecar.                                                    *)
(***************************************************************************)

\* While the sidecar is written the attempt loads or works.
LEMMA Writing ==
    ASSUME Inv, side.step # "free"
    PROVE  /\ side.by # "nobody" /\ side # NoWrite /\ side.snap.ver = ver /\ ver # 0
           /\ side.by = "loader" <=> phase \in {"restore", "persist"}
           /\ side.by # "loader" => side.by \in Workers /\ wk[side.by].pc = "saving" /\ Working
           /\ phase \in {"restore", "persist", "run", "drain"}
           /\ side.snap # NoJournal /\ after # "canceled" /\ outcome # "canceled"
<1>1. SideOK /\ ControlOK /\ side \in Writes /\ ver \in Versions
  BY DEF Inv, TypeOK
<1>2. side.by # "nobody" /\ side # NoWrite /\ side.snap.ver = ver /\ ver # 0
  BY <1>1, Constants DEF SideOK, NoWrite, Versions
<1>3. side.by = "loader" <=> phase \in {"restore", "persist"}
  BY <1>1 DEF SideOK
<1>4. side.by # "loader" => side.by \in Workers /\ wk[side.by].pc = "saving"
  BY <1>1, <1>2, WriteFields DEF SideOK
<1>5. side.by # "loader" => Working
  BY <1>1, <1>4 DEF SideOK
<1>6. side.snap # NoJournal
  BY <1>2, WriteFields, JournalFields, <1>1
<1>7. phase \in {"restore", "persist", "run", "drain"}
  BY <1>3, <1>5 DEF Working
<1>8. after # "canceled" /\ outcome # "canceled"
  BY <1>7, NotCanceled DEF Cleaning
<1>. QED BY <1>2, <1>3, <1>4, <1>5, <1>6, <1>7, <1>8

LEMMA HoldersSame ==
    Inv /\ UNCHANGED <<wk, active, segs>> => HoldersOK'
BY DEF Inv, HoldersOK, HolderOK, Holders

LEMMA SwapStep == ASSUME Inv, SideSwap PROVE Inv'
<1>0. /\ side.step = "swap" /\ bak' = meta /\ meta' = NoJournal /\ part' = part /\ final' = final
      /\ phase' = phase /\ after' = after /\ ver' = ver /\ segs' = segs /\ active' = active
      /\ wk' = wk /\ target' = target /\ stop' = stop /\ signal' = signal /\ entity' = entity
      /\ outcome' = outcome /\ misled' = misled /\ crashes' = crashes /\ signals' = signals
      /\ errors' = errors
  BY DEF SideSwap, row
<1>1. DiskOK /\ RowOK /\ MemOK
  BY TypeParts DEF Inv
<1>2. /\ side' \in Writes /\ side'.by = side.by /\ side'.step = "put" /\ side'.snap = side.snap
  BY <1>1, StepSet DEF SideSwap, MemOK
<1>3. /\ side.by # "nobody" /\ side # NoWrite /\ side.snap.ver = ver
      /\ phase \in {"restore", "persist", "run", "drain"}
      /\ after # "canceled" /\ outcome # "canceled"
  BY <1>0, Writing
<1>4. part.kind = "segmented" => meta # NoJournal
  BY <1>0, <1>3 DEF Inv, KeptOK, Loaded, Working
<1>5. DiskOK' /\ RowOK' /\ MemOK'
  BY <1>0, <1>1, <1>2, Blanks DEF DiskOK, RowOK, MemOK
<1>6. SideOK' /\ HoldersOK'
  <2>1. SideOK /\ side'.by # "nobody"
    BY <1>2, <1>3 DEF Inv
  <2>2. SideOK'
    BY <1>0, <1>2, <1>3, <2>1 DEF SideOK, Working
  <2>. QED BY <1>0, <2>2, HoldersSame
<1>7. JournalsOK' /\ ControlOK' /\ FilesOK' /\ SealedOK'
  <2>1. JournalsOK'
    BY <1>0, <1>2 DEF Inv, JournalsOK, JournalOK
  <2>2. ControlOK' /\ SealedOK'
    BY <1>0, <1>3 DEF Inv, ControlOK, SealedOK, Bare, Loaded, Working, Sealing, Cleaning
  <2>3. FilesOK'
    BY <1>0, <1>3 DEF Inv, FilesOK, Loaded, Working, Sealing, Cleaning
  <2>. QED BY <2>1, <2>2, <2>3
<1>8. HeldOK'
  <2>1. (Working => meta.ver \in {0, ver} /\ bak.ver \in {0, ver})'
    BY <1>0 DEF Inv, HeldOK, Working, NoJournal
  <2>2. ASSUME (part.kind = "segmented" /\ ~misled)'
        PROVE  (Held(meta) /\ Held(bak) /\ Held(side.snap) /\ Held([ver |-> ver, segs |-> segs]))'
    BY <1>0, <1>2, <2>2 DEF Inv, HeldOK, Held, NoJournal
  <2>. QED BY <2>1, <2>2 DEF HeldOK
<1>9. KeptOK'
  BY <1>0, <1>2, <1>4 DEF KeptOK
<1>10. NoOrphanHole' /\ CompletedIsWhole'
  <2>1. CompletedIsWhole'
    BY <1>0 DEF Inv, CompletedIsWhole
  <2>2. NoOrphanHole'
    BY <1>0, <1>4, HoleIsSegmented DEF NoOrphanHole
  <2>. QED BY <2>1, <2>2
<1>. QED BY <1>5, <1>6, <1>7, <1>8, <1>9, <1>10, InvParts DEF RestOK, CrewOK

LEMMA PutStep == ASSUME Inv, SidePut PROVE Inv'
<1>0. /\ side.step = "put" /\ bak' = bak /\ meta' = side.snap /\ part' = part /\ final' = final
      /\ phase' = phase /\ after' = after /\ ver' = ver /\ segs' = segs /\ active' = active
      /\ wk' = wk /\ target' = target /\ stop' = stop /\ signal' = signal /\ entity' = entity
      /\ outcome' = outcome /\ misled' = misled /\ crashes' = crashes /\ signals' = signals
      /\ errors' = errors
  BY DEF SidePut, row
<1>1. DiskOK /\ RowOK /\ MemOK
  BY TypeParts DEF Inv
<1>2. /\ side' \in Writes /\ side'.by = side.by /\ side'.step = "tidy" /\ side'.snap = side.snap
  BY <1>1, StepSet DEF SidePut, MemOK
<1>3. /\ side.by # "nobody" /\ side # NoWrite /\ side.snap.ver = ver
      /\ phase \in {"restore", "persist", "run", "drain"} /\ side.snap # NoJournal
  BY <1>0, Writing
<1>4. side.snap \in Journals
  BY <1>1, WriteFields DEF MemOK
<1>5. DiskOK' /\ RowOK' /\ MemOK'
  BY <1>0, <1>1, <1>2, <1>4 DEF DiskOK, RowOK, MemOK
<1>6. SideOK' /\ HoldersOK'
  <2>1. SideOK /\ side'.by # "nobody"
    BY <1>2, <1>3 DEF Inv
  <2>2. SideOK'
    BY <1>0, <1>2, <1>3, <2>1 DEF SideOK, Working
  <2>. QED BY <1>0, <2>2, HoldersSame
<1>7. JournalsOK' /\ ControlOK' /\ FilesOK' /\ SealedOK'
  <2>1. JournalsOK'
    BY <1>0, <1>2 DEF Inv, JournalsOK, JournalOK
  <2>2. ControlOK' /\ SealedOK'
    BY <1>0, <1>3 DEF Inv, ControlOK, SealedOK, Bare, Loaded, Working, Sealing, Cleaning
  <2>3. FilesOK'
    BY <1>0, <1>3 DEF Inv, FilesOK, Loaded, Working, Sealing, Cleaning
  <2>. QED BY <2>1, <2>2, <2>3
<1>8. HeldOK'
  <2>1. (Working => meta.ver \in {0, ver} /\ bak.ver \in {0, ver})'
    BY <1>0, <1>3 DEF Inv, HeldOK, Working
  <2>2. ASSUME (part.kind = "segmented" /\ ~misled)'
        PROVE  (Held(meta) /\ Held(bak) /\ Held(side.snap) /\ Held([ver |-> ver, segs |-> segs]))'
    BY <1>0, <1>2, <2>2 DEF Inv, HeldOK, Held
  <2>. QED BY <2>1, <2>2 DEF HeldOK
<1>9. KeptOK' /\ NoOrphanHole' /\ CompletedIsWhole'
  BY <1>0, <1>2, <1>3 DEF Inv, KeptOK, NoOrphanHole, CompletedIsWhole
<1>. QED BY <1>5, <1>6, <1>7, <1>8, <1>9, InvParts DEF RestOK, CrewOK

\* A worker gives the journal back, and its segment too unless it streams on.
LEMMA Releases ==
    ASSUME Inv, NEW w \in Workers, side.by = w, side.step # "free", NEW p \in Thens \cup {"failed"},
           NEW s \in {0, wk[w].seg}, NEW h, NEW g, NEW r, Goes(w, p, s, h, g, r, "none"),
           p = "stream" => s = wk[w].seg /\ h = wk[w].hi /\ g = wk[w].got /\ r = wk[w].rec,
           side' = NoWrite, UNCHANGED <<segs, phase, ver, target, stop, signal>>,
           active' = IF p = "stream" THEN active ELSE active \ {wk[w].seg}
    PROVE  CrewOK' /\ MemOK'
<1>0. /\ wk' \in [Workers -> Tasks] /\ wk'[w].pc = p /\ wk'[w].seg = s
      /\ wk'[w].hi = h /\ wk'[w].got = g /\ wk'[w].rec = r
      /\ wk'[w].then = "none" /\ \A v \in Workers : v # w => wk'[v] = wk[v]
      /\ p \notin {"off", "lock", "saving", "request"}
  BY DEF Goes, Thens
<1>1. MemOK /\ SideOK
  BY TypeParts DEF Inv
<1>2. wk[w].pc = "saving" /\ Working /\ w # "loader" /\ w # "nobody"
  BY Writing, Constants
<1>3. w \in Holders /\ HolderOK(w)
  BY <1>2, Holding
<1>4. MemOK'
  <2>1. active' \subseteq DOMAIN segs
    BY <1>1 DEF MemOK
  <2>2. \A v \in Workers : wk'[v].seg \in {0, wk[v].seg}
    BY <1>0
  <2>. QED BY <1>0, <1>1, <2>1, <2>2, Blanks DEF MemOK
<1>5. SideOK'
  <2>1. \A v \in Workers : wk'[v].pc # "saving" /\ v # "nobody"
    BY <1>0, <1>1, Constants DEF SideOK
  <2>2. phase \notin {"restore", "persist"}
    BY <1>2 DEF Working
  <2>. QED BY <1>0, <1>1, <1>2, <2>1, <2>2 DEF SideOK, NoWrite, Working
<1>6. HoldersOK'
  <2>1. ASSUME NEW v \in Holders' PROVE HolderOK(v)'
    <3>1. v \in Holders /\ v \in Workers /\ \A u \in Holders' : u \in Holders /\ wk'[u].seg = wk[u].seg
      BY <1>0, <1>3 DEF Holders
    <3>2. HolderOK(v)
      BY <3>1 DEF Inv, HoldersOK
    <3>3. wk'[v].hi = wk[v].hi /\ wk'[v].got = wk[v].got /\ wk'[v].rec = wk[v].rec /\ wk'[v].seg = wk[v].seg
      BY <1>0, <3>1 DEF Holders
    <3>4. wk[v].seg \in active'
      <4>1. CASE v = w
        <5>1. p = "stream"
          BY <1>0, <4>1 DEF Holders
        <5>. QED BY <3>2, <5>1 DEF HolderOK
      <4>2. CASE v # w
        BY <1>3, <3>1, <3>2, <4>2 DEF HolderOK
      <4>. QED BY <4>1, <4>2
    <3>. QED BY <3>1, <3>2, <3>3, <3>4 DEF HolderOK
  <2>. QED BY <2>1 DEF HoldersOK
<1>. QED BY <1>4, <1>5, <1>6 DEF CrewOK

LEMMA TidyStep == ASSUME Inv, SideTidy PROVE Inv'
<1>0. /\ side.step = "tidy" /\ bak' = NoJournal /\ meta' = meta /\ part' = part /\ final' = final
      /\ after' = after /\ ver' = ver /\ segs' = segs /\ side' = NoWrite
      /\ target' = target /\ stop' = stop /\ signal' = signal /\ entity' = entity
      /\ outcome' = outcome /\ misled' = misled /\ crashes' = crashes /\ signals' = signals
      /\ errors' = errors
  BY DEF SideTidy, row
<1>1. DiskOK /\ RowOK /\ MemOK /\ SideOK
  BY TypeParts DEF Inv
<1>2. /\ side.by # "nobody" /\ side # NoWrite /\ side.snap.ver = ver
      /\ side.by = "loader" <=> phase \in {"restore", "persist"}
      /\ side.by # "loader" => side.by \in Workers /\ wk[side.by].pc = "saving" /\ Working
      /\ phase \in {"restore", "persist", "run", "drain"} /\ meta # NoJournal /\ meta = side.snap
  BY <1>0, Writing DEF Inv, KeptOK
<1>3. /\ \/ /\ side.by = "loader" /\ wk' = wk /\ active' = active
            /\ \/ phase = "restore" /\ phase' = "fill"
               \/ phase = "persist" /\ phase' = "prepare"
         \/ side.by # "loader" /\ phase' = phase /\ phase \in {"run", "drain"}
  BY <1>2 DEF SideTidy, Working
<1>4. DiskOK' /\ RowOK'
  BY <1>0, <1>1, <1>3, Blanks DEF DiskOK, RowOK, Phases
<1>5. CrewOK' /\ MemOK'
  <2>1. CASE side.by = "loader"
    <3>1. MemOK' /\ HoldersOK'
      BY <1>0, <1>1, <1>3, <2>1, Blanks, HoldersSame DEF MemOK
    <3>2. \A v \in Workers : wk'[v].pc = "off" /\ wk'[v].pc # "saving" /\ v # "nobody"
      BY <1>1, <1>2, <1>3, <2>1, Constants DEF SideOK, Working
    <3>3. phase' \notin {"restore", "persist"}
      BY <1>3, <2>1
    <3>4. SideOK'
      BY <1>0, <3>2, <3>3 DEF SideOK, NoWrite
    <3>. QED BY <3>1, <3>4 DEF CrewOK
  <2>2. CASE side.by # "loader"
    <3>. DEFINE w == side.by
                p == wk[w].then
    <3>1. w \in Workers /\ wk[w].pc = "saving" /\ phase' = phase
      BY <1>2, <1>3, <2>2
    <3>2. wk[w] \in Tasks /\ p \in Thens
      BY <1>1, <3>1, TaskFields DEF MemOK, SideOK
    <3>3. /\ active' = IF p = "stream" THEN active ELSE active \ {wk[w].seg}
          /\ wk' = IF p = "stream" THEN [wk EXCEPT ![w].pc = "stream", ![w].then = "none"]
                   ELSE [wk EXCEPT ![w] = [Off EXCEPT !.pc = p]]
      BY <2>2 DEF SideTidy
    <3>4. p = "stream" => Goes(w, p, wk[w].seg, wk[w].hi, wk[w].got, wk[w].rec, "none")
      <4>1. "stream" \in Pcs /\ "none" \in Thens \cup {"none"}
        BY DEF Pcs, Thens
      <4>2. ASSUME p = "stream" PROVE wk' = [wk EXCEPT ![w].pc = "stream", ![w].then = "none"]
        BY <3>3, <4>2
      <4>3. ASSUME p = "stream" PROVE Goes(w, "stream", wk[w].seg, wk[w].hi, wk[w].got, wk[w].rec, "none")
        <5>. HIDE DEF w, p
        <5>. QED BY <1>1, <3>1, <4>1, <4>2, <4>3, PcThenSet DEF MemOK
      <4>. QED BY <4>3
    <3>5. p # "stream" => Goes(w, p, 0, 0, 0, 0, "none")
      BY <1>1, <3>1, <3>2, <3>3, ReleasedSet DEF MemOK, Pcs
    <3>6. side.step # "free" /\ UNCHANGED <<segs, phase, ver, target, stop, signal>>
      BY <1>0, <3>1
    <3>. HIDE DEF p, w
    <3>7. CASE p = "stream"
      BY <1>0, <3>1, <3>2, <3>3, <3>4, <3>6, <3>7, Releases DEF w
    <3>8. CASE p # "stream"
      BY <1>0, <3>1, <3>2, <3>3, <3>5, <3>6, <3>8, Releases DEF w
    <3>. QED BY <3>7, <3>8
  <2>. QED BY <2>1, <2>2
<1>6. JournalsOK'
  BY <1>0 DEF Inv, JournalsOK, JournalOK, NoWrite
<1>7. ControlOK' /\ SealedOK'
  <2>1. phase = "persist" => meta = [ver |-> ver, segs |-> segs]
    <3>1. phase = "persist" => side.snap.segs = segs
      BY <1>1, <1>2 DEF SideOK
    <3>2. meta = [ver |-> meta.ver, segs |-> meta.segs]
      BY <1>1, JournalFields DEF DiskOK
    <3>. QED BY <1>2, <3>1, <3>2
  <2>. QED BY <1>0, <1>2, <1>3, <2>1 DEF Inv, ControlOK, SealedOK, Bare, Loaded, Working, Sealing, Cleaning
<1>8. FilesOK'
  BY <1>0, <1>3 DEF Inv, FilesOK, Loaded, Working, Sealing, Cleaning
<1>9. HeldOK'
  <2>1. (Working => meta.ver \in {0, ver} /\ bak.ver \in {0, ver})'
    BY <1>0, <1>2, <1>3 DEF NoJournal, Working
  <2>2. ASSUME (part.kind = "segmented" /\ ~misled)'
        PROVE  (Held(meta) /\ Held(bak) /\ Held(side.snap) /\ Held([ver |-> ver, segs |-> segs]))'
    BY <1>0, <2>2 DEF Inv, HeldOK, Held, NoJournal, NoWrite
  <2>. QED BY <2>1, <2>2 DEF HeldOK
<1>10. KeptOK' /\ NoOrphanHole' /\ CompletedIsWhole'
  BY <1>0, <1>2 DEF Inv, KeptOK, NoOrphanHole, CompletedIsWhole, NoWrite
<1>. QED BY <1>4, <1>5, <1>6, <1>7, <1>8, <1>9, <1>10, InvParts DEF RestOK, CrewOK

LEMMA SideFailsStep == ASSUME Inv, SideFails PROVE Inv'
<1>0. /\ side.step = "put" /\ bak' = NoJournal /\ meta' = bak /\ part' = part /\ final' = final
      /\ ver' = ver /\ entity' = entity /\ misled' = misled /\ crashes' = crashes
      /\ signals' = signals /\ Fault
  BY DEF SideFails
<1>1. DiskOK /\ RowOK /\ MemOK /\ SideOK
  BY TypeParts DEF Inv
<1>2. /\ side.by = "loader" <=> phase \in {"restore", "persist"}
      /\ side.by # "loader" => side.by \in Workers /\ wk[side.by].pc = "saving" /\ Working
      /\ phase \in {"restore", "persist", "run", "drain"}
      /\ after # "canceled" /\ outcome # "canceled"
  BY <1>0, Writing
<1>3. errors' \in 0..MaxEvents
  BY <1>0, <1>1, Faulty
<1>4. CASE side.by = "loader"
  <2>1. Emptied' /\ phase' = "idle" /\ outcome' = "failed" /\ after' = "none"
    BY <1>4, EndedIs DEF SideFails
  <2>2. RowOK'
    BY <1>0, <1>1, <1>3, <2>1 DEF RowOK, Results, Phases, Sequels
  <2>3. Over
    BY <1>0, <1>2, <1>4, <2>1 DEF Over, PutBack
  <2>. QED BY <2>2, <2>3, OverStep
<1>5. CASE side.by # "loader"
  <2>. DEFINE w == side.by
  <2>1. w \in Workers /\ wk[w].pc = "saving" /\ Working
    BY <1>2, <1>5
  <2>2. /\ side' = NoWrite /\ wk' = [wk EXCEPT ![w] = [Off EXCEPT !.pc = "failed"]]
        /\ active' = active \ {wk[w].seg} /\ outcome' = outcome /\ phase' = phase /\ after' = after
        /\ segs' = segs /\ target' = target /\ stop' = stop /\ signal' = signal
    BY <1>5 DEF SideFails
  <2>3. wk[w] \in Tasks
    BY <1>1, <2>1 DEF MemOK
  <2>4. Goes(w, "failed", 0, 0, 0, 0, "none")
    BY <1>1, <2>1, <2>2, ReleasedSet DEF MemOK, Pcs
  <2>5. CrewOK' /\ MemOK'
    <3>. HIDE DEF w
    <3>1. UNCHANGED <<segs, phase, ver, target, stop, signal>>
      BY <1>0, <2>2
    <3>. QED BY <1>0, <2>1, <2>2, <2>4, <3>1, Releases DEF w
  <2>6. DiskOK' /\ RowOK'
    BY <1>0, <1>1, <1>3, <2>2, Blanks DEF DiskOK, RowOK
  <2>7. part.kind = "segmented" /\ bak # NoJournal /\ phase \in {"run", "drain"}
    BY <1>0, <2>1 DEF Inv, FilesOK, KeptOK, Working
  <2>8. JournalsOK' /\ ControlOK' /\ SealedOK'
    BY <1>0, <2>2, <2>7 DEF Inv, JournalsOK, JournalOK, ControlOK, SealedOK, NoWrite, Bare, Loaded, Working, Sealing, Cleaning
  <2>9. FilesOK'
    BY <1>0, <2>2, <2>7 DEF Inv, FilesOK, Loaded, Working, Sealing, Cleaning
  <2>10. HeldOK'
    <3>1. (Working => meta.ver \in {0, ver} /\ bak.ver \in {0, ver})'
      BY <1>0, <2>1 DEF Inv, HeldOK, NoJournal, Working
    <3>2. ASSUME (part.kind = "segmented" /\ ~misled)'
          PROVE  (Held(meta) /\ Held(bak) /\ Held(side.snap) /\ Held([ver |-> ver, segs |-> segs]))'
      BY <1>0, <2>2, <3>2 DEF Inv, HeldOK, Held, NoJournal, NoWrite
    <3>. QED BY <3>1, <3>2 DEF HeldOK
  <2>11. KeptOK' /\ NoOrphanHole' /\ CompletedIsWhole'
    BY <1>0, <2>2, <2>7 DEF Inv, KeptOK, NoOrphanHole, CompletedIsWhole, NoWrite
  <2>. QED BY <2>5, <2>6, <2>8, <2>9, <2>10, <2>11, InvParts DEF RestOK, CrewOK
<1>. QED BY <1>4, <1>5

(***************************************************************************)
(* Loading a journal.                                                      *)
(***************************************************************************)

\* Nobody works and nobody writes the sidecar.
LEMMA Lone ==
    ASSUME Inv, ~Working, phase \notin {"restore", "persist"}
    PROVE  /\ \A w \in Workers : wk[w].pc = "off"
           /\ side = NoWrite /\ Holders = {}
<1>1. SideOK /\ side \in Writes
  BY DEF Inv, TypeOK
<1>2. \A w \in Workers : wk[w].pc = "off"
  BY <1>1 DEF SideOK
<1>3. side.by = "nobody"
  BY <1>1, <1>2, WriteFields DEF SideOK
<1>. QED BY <1>1, <1>2, <1>3 DEF SideOK, Holders

\* ... and stays so.
LEMMA LoneCrew ==
    ASSUME Inv, ~Working, phase \notin {"restore", "persist"},
           UNCHANGED <<wk, side>>, phase' \notin {"restore", "persist"}
    PROVE  CrewOK'
<1>1. /\ \A w \in Workers : wk[w].pc = "off" /\ w # "nobody"
      /\ side = NoWrite
  BY Lone, Constants
<1>2. \A w \in Workers : wk'[w].pc = "off"
  BY <1>1
<1>3. side' = NoWrite /\ side'.by = "nobody" /\ side'.step = "free"
  BY <1>1 DEF NoWrite
<1>4. SideOK'
  BY <1>1, <1>2, <1>3 DEF SideOK
<1>5. HoldersOK'
  BY <1>2 DEF HoldersOK, Holders
<1>. QED BY <1>4, <1>5 DEF CrewOK

\* The loader takes the journal's lock.
LEMMA LoaderCrew ==
    ASSUME Inv, ~Working, phase \notin {"restore", "persist"}, UNCHANGED <<wk, ver>>,
           phase' \in {"restore", "persist"}, side'.by = "loader", side'.step = "swap",
           side'.snap = [ver |-> ver, segs |-> segs']
    PROVE  CrewOK'
<1>1. /\ \A w \in Workers : wk[w].pc = "off" /\ w # "loader"
  BY Lone, Constants
<1>2. \A w \in Workers : wk'[w].pc = "off"
  BY <1>1
<1>4. SideOK'
  BY <1>1, <1>2 DEF SideOK
<1>5. HoldersOK'
  BY <1>2 DEF HoldersOK, Holders
<1>. QED BY <1>4, <1>5 DEF CrewOK

LEMMA HeldParts == HeldOK <=>
    /\ part.kind = "segmented" /\ ~misled =>
         Held(meta) /\ Held(bak) /\ Held(side.snap) /\ \A i \in DOMAIN segs : \A b \in Have(segs[i]) : part.blk[b] = ver
    /\ Working => meta.ver \in {0, ver} /\ bak.ver \in {0, ver}
<1>1. Held([ver |-> ver, segs |-> segs]) <=> \A i \in DOMAIN segs : \A b \in Have(segs[i]) : part.blk[b] = ver
  BY DEF Held
<1>. QED BY <1>1 DEF HeldOK

\* A usable journal's segments.
LEMMA UsableIs ==
    ASSUME NEW j, JournalOK(j), Usable(j)
    PROVE  Good(j.segs) /\ j.ver = ver
BY DEF JournalOK, Usable

LEMMA LoadPrimaryStep == ASSUME Inv, LoadPrimary PROVE Inv'
<1>0. /\ part' = part /\ meta' = meta /\ bak' = bak /\ final' = final /\ phase = "load"
      /\ phase' = "fill" /\ segs' = meta.segs /\ after' = after /\ ver' = ver /\ active' = active
      /\ wk' = wk /\ side' = side /\ target' = target /\ stop' = stop /\ signal' = signal
      /\ entity' = entity /\ outcome' = outcome /\ misled' = (misled \/ part.kind = "single")
      /\ crashes' = crashes /\ signals' = signals /\ errors' = errors /\ Usable(meta)
  BY DEF LoadPrimary, Loading, disk
<1>1. DiskOK /\ RowOK /\ MemOK
  BY TypeParts DEF Inv
<1>2. Good(meta.segs) /\ meta.ver = ver
  BY <1>0, UsableIs DEF Inv, JournalsOK
<1>3. segs = <<>> /\ ~Working /\ side = NoWrite /\ \A w \in Workers : wk[w].pc = "off"
  BY <1>0, Lone DEF Inv, ControlOK, Bare, Working
<1>4. DiskOK' /\ RowOK'
  BY <1>0, <1>1 DEF DiskOK, RowOK, Phases
<1>5. MemOK'
  <2>1. segs' \in Seq(Segments) /\ active = {}
    BY <1>0, <1>1, <1>2, <1>3, GoodIsSeq DEF MemOK
  <2>2. \A w \in Workers : wk[w].seg = 0
    BY <1>1, <1>3 DEF MemOK
  <2>. QED BY <1>0, <1>1, <2>1, <2>2 DEF MemOK
<1>6. CrewOK'
  BY <1>0, <1>3, LoneCrew
<1>7. JournalsOK'
  BY <1>0, <1>2 DEF Inv, JournalsOK
<1>8. ControlOK' /\ SealedOK'
  BY <1>0, <1>2, GoodIsSeq DEF Inv, ControlOK, SealedOK, Bare, Loaded, Working, Sealing, Cleaning
<1>9. FilesOK'
  BY <1>0 DEF Inv, FilesOK, Loaded, Working, Sealing, Cleaning
<1>10. HeldOK'
  <2>1. (part.kind = "segmented" /\ ~misled)' => (Held(meta) /\ Held(bak) /\ Held(side.snap) /\ Held([ver |-> ver, segs |-> segs]))'
    BY <1>0, <1>2, HeldParts DEF Inv, HeldOK, Held
  <2>. QED BY <1>0, <2>1 DEF HeldOK, Working
<1>11. KeptOK' /\ NoOrphanHole' /\ CompletedIsWhole'
  BY <1>0 DEF Inv, KeptOK, NoOrphanHole, CompletedIsWhole, Loaded, Working
<1>. QED BY <1>4, <1>5, <1>6, <1>7, <1>8, <1>9, <1>10, <1>11, InvParts DEF RestOK

LEMMA LoadBackupStep == ASSUME Inv, LoadBackup PROVE Inv'
<1>0. /\ part' = part /\ meta' = meta /\ bak' = NoJournal /\ final' = final /\ phase = "load"
      /\ phase' = "restore" /\ segs' = bak.segs /\ after' = after /\ ver' = ver /\ active' = active
      /\ wk' = wk /\ target' = target /\ stop' = stop /\ signal' = signal
      /\ entity' = entity /\ outcome' = outcome /\ misled' = (misled \/ part.kind = "single")
      /\ crashes' = crashes /\ signals' = signals /\ errors' = errors /\ Usable(bak)
  BY DEF LoadBackup, Loading
<1>1. DiskOK /\ RowOK /\ MemOK /\ ver \in Versions /\ ver # 0
  BY TypeParts, Constants DEF Inv, DiskOK, Versions
<1>2. Good(bak.segs) /\ bak.ver = ver /\ bak.segs \in Seq(Segments)
  BY <1>0, UsableIs, GoodIsSeq DEF Inv, JournalsOK
<1>3. segs = <<>> /\ ~Working /\ side = NoWrite /\ \A w \in Workers : wk[w].pc = "off"
  BY <1>0, Lone DEF Inv, ControlOK, Bare, Working
<1>4. side' \in Writes /\ side'.by = "loader" /\ side'.step = "swap" /\ side'.snap = [ver |-> ver, segs |-> bak.segs]
  <2>1. side' = [by |-> "loader", step |-> "swap", snap |-> [ver |-> ver, segs |-> bak.segs]]
    BY DEF LoadBackup
  <2>. QED BY <1>1, <1>2, <2>1, WriteSet
<1>5. DiskOK' /\ RowOK'
  BY <1>0, <1>1, Blanks DEF DiskOK, RowOK, Phases
<1>6. MemOK'
  <2>1. active = {} /\ \A w \in Workers : wk[w].seg = 0
    BY <1>1, <1>3 DEF MemOK
  <2>. QED BY <1>0, <1>1, <1>2, <1>4, <2>1 DEF MemOK
<1>7. CrewOK'
  BY <1>0, <1>3, <1>4, LoaderCrew
<1>8. JournalsOK'
  BY <1>0, <1>1, <1>2, <1>4 DEF Inv, JournalsOK, JournalOK
<1>9. ControlOK' /\ SealedOK'
  BY <1>0, <1>2, GoodIsSeq DEF Inv, ControlOK, SealedOK, Bare, Loaded, Working, Sealing, Cleaning
<1>10. FilesOK'
  BY <1>0 DEF Inv, FilesOK, Loaded, Working, Sealing, Cleaning
<1>11. HeldOK'
  <2>1. (part.kind = "segmented" /\ ~misled)' => (Held(meta) /\ Held(bak) /\ Held(side.snap) /\ Held([ver |-> ver, segs |-> segs]))'
    <3>1. ASSUME (part.kind = "segmented" /\ ~misled)' PROVE Held(meta) /\ Held(bak)
      BY <1>0, <3>1 DEF Inv, HeldOK
    <3>2. ASSUME (part.kind = "segmented" /\ ~misled)'
          PROVE  \A i \in DOMAIN bak.segs : \A b \in Have(bak.segs[i]) : part.blk[b] = ver
      BY <1>2, <3>1, <3>2 DEF Held
    <3>. QED BY <1>0, <1>4, <3>1, <3>2 DEF Held, NoJournal
  <2>. QED BY <1>0, <2>1 DEF HeldOK, Working
<1>12. KeptOK'
  BY <1>0, <1>3, <1>4 DEF Inv, KeptOK, Loaded, Working, NoWrite
<1>13. NoOrphanHole' /\ CompletedIsWhole'
  <2>1. NoOrphanHole'
    BY <1>0, <1>3, HoleIsSegmented DEF Inv, NoOrphanHole, KeptOK, NoWrite
  <2>. QED BY <1>0, <2>1 DEF Inv, CompletedIsWhole
<1>. QED BY <1>5, <1>6, <1>7, <1>8, <1>9, <1>10, <1>11, <1>12, <1>13, InvParts DEF RestOK

LEMMA FillStepOK == ASSUME Inv, FillQueue PROVE Inv'
<1>. DEFINE r == Refresh(segs)
            t == Fill(r, {}, 0)
<1>0. /\ part' = part /\ meta' = meta /\ bak' = NoJournal /\ final' = final /\ phase = "fill"
      /\ phase' = "persist" /\ after' = after /\ ver' = ver /\ active' = active
      /\ wk' = wk /\ target' = target /\ stop' = stop /\ signal' = signal
      /\ entity' = entity /\ outcome' = outcome /\ misled' = misled
      /\ crashes' = crashes /\ signals' = signals /\ errors' = errors /\ segs' = t
      /\ side' = [by |-> "loader", step |-> "swap", snap |-> [ver |-> ver, segs |-> segs']]
  BY DEF FillQueue, row
<1>1. DiskOK /\ RowOK /\ MemOK /\ ver \in Versions /\ ver # 0
  BY TypeParts, Constants DEF Inv, DiskOK, Versions
<1>2. ~Working /\ side = NoWrite /\ \A w \in Workers : wk[w].pc = "off"
  BY <1>0, Lone DEF Working
<1>3. Good(segs)
  BY <1>0 DEF Inv, JournalsOK, ControlOK, Loaded
<1>4. /\ Good(r) /\ DOMAIN r = DOMAIN segs
      /\ part # NoFile => r = segs
      /\ part = NoFile => \A i \in DOMAIN r : r[i].got = 0
  BY <1>3, RefreshGood
<1>. HIDE DEF r
<1>5. Good(t) /\ Refines(t, r, {})
  BY <1>4, FillRefines
<1>. HIDE DEF t
<1>5a. t \in Seq(Segments) /\ t # <<>> /\ DOMAIN segs \subseteq DOMAIN t
  <2>1. t \in Seq(Segments) /\ t # <<>> /\ Len(t) \in Nat /\ r \in Seq(Segments) /\ Len(r) \in Nat
    BY <1>4, <1>5, GoodIsSeq
  <2>2. DOMAIN r = 1..Len(r) /\ DOMAIN t = 1..Len(t) /\ Len(r) <= Len(t)
    BY <1>5, <2>1 DEF Refines
  <2>. QED BY <1>4, <2>1, <2>2
<1>6. side' \in Writes /\ side'.by = "loader" /\ side'.step = "swap" /\ side'.snap = [ver |-> ver, segs |-> t]
  <2>1. side' = [by |-> "loader", step |-> "swap", snap |-> [ver |-> ver, segs |-> t]]
    BY <1>0
  <2>. QED BY <1>1, <1>5a, <2>1, WriteSet
<1>7. DiskOK' /\ RowOK'
  BY <1>0, <1>1, Blanks DEF DiskOK, RowOK, Phases
<1>8. active \subseteq DOMAIN t /\ \A w \in Workers : wk[w].seg \in {0} \cup DOMAIN t
  BY <1>1, <1>5a DEF MemOK
<1>9. MemOK'
  BY <1>0, <1>1, <1>5a, <1>6, <1>8 DEF MemOK
<1>10. CrewOK'
  BY <1>0, <1>2, <1>6, LoaderCrew
<1>11. JournalsOK'
  BY <1>0, <1>1, <1>5, <1>6 DEF Inv, JournalsOK, JournalOK
<1>12. ControlOK' /\ SealedOK'
  BY <1>0, <1>5a DEF Inv, ControlOK, SealedOK, Bare, Loaded, Working, Sealing, Cleaning
<1>13. ASSUME part = NoFile, NEW i \in DOMAIN t PROVE t[i].got = 0
  BY <1>4, <1>5, <1>13 DEF Refines
<1>14. FilesOK'
  BY <1>0, <1>13 DEF Inv, FilesOK, Loaded, Working, Sealing, Cleaning
<1>15. HeldOK'
  <2>1. ASSUME part.kind = "segmented", ~misled, NEW k \in DOMAIN t, NEW b \in Have(t[k])
        PROVE  part.blk[b] = ver
    <3>0. r = segs
      BY <1>4, <2>1 DEF NoFile
    <3>1. CASE k \in DOMAIN segs
      <4>1. Have(t[k]) = Have(segs[k])
        BY <1>5, <3>0, <3>1 DEF Refines, Have
      <4>. QED BY <2>1, <3>1, <4>1, HeldParts DEF Inv
    <3>2. CASE k \notin DOMAIN segs
      <4>1. t[k].got = 0 /\ t[k].lo \in 1..Total /\ Total \in Nat
        BY <1>5, <1>5a, <3>0, <3>2, SegmentFields DEF Refines
      <4>2. Have(t[k]) = {}
        BY <4>1 DEF Have
      <4>. QED BY <4>2
    <3>. QED BY <3>1, <3>2
  <2>2. (part.kind = "segmented" /\ ~misled)' => (Held(meta) /\ Held(bak) /\ Held(side.snap) /\ Held([ver |-> ver, segs |-> segs]))'
    BY <1>0, <1>6, <2>1 DEF Inv, HeldOK, Held, NoJournal
  <2>. QED BY <1>0, <2>2 DEF HeldOK, Working
<1>16. KeptOK'
  BY <1>0, <1>2, <1>6 DEF Inv, KeptOK, Loaded, Working, NoWrite
<1>17. NoOrphanHole' /\ CompletedIsWhole'
  <2>1. NoOrphanHole'
    BY <1>0, <1>2, HoleIsSegmented DEF Inv, NoOrphanHole, KeptOK, Loaded, NoWrite
  <2>. QED BY <1>0, <2>1 DEF Inv, CompletedIsWhole
<1>. QED BY <1>7, <1>9, <1>10, <1>11, <1>12, <1>14, <1>15, <1>16, <1>17, InvParts DEF RestOK

(***************************************************************************)
(* The start of an attempt, and of its workers.                            *)
(***************************************************************************)

LEMMA PrepareStep == ASSUME Inv, Prepare PROVE Inv'
<1>0. /\ meta' = meta /\ bak' = bak /\ final' = final /\ phase = "prepare"
      /\ phase' = "run" /\ after' = after /\ ver' = ver /\ active' = active /\ segs' = segs
      /\ side' = side /\ target' = target /\ stop' = stop /\ signal' = signal
      /\ entity' = entity /\ outcome' = outcome /\ misled' = misled
      /\ crashes' = crashes /\ signals' = signals /\ errors' = errors
  BY DEF Prepare, row
<1>1. DiskOK /\ RowOK /\ MemOK /\ ver \in Versions /\ ver # 0
  BY TypeParts, Constants DEF Inv, DiskOK, Versions
<1>2. /\ part' \in Files /\ part'.kind = "segmented" /\ part'.len = Total /\ part'.blk = part.blk
  <2>1. part \in Files /\ part' = [part EXCEPT !.kind = "segmented", !.len = Total]
    BY <1>1 DEF Prepare, DiskOK
  <2>2. part' = [kind |-> "segmented", len |-> Total, blk |-> part.blk]
    BY <2>1 DEF Files
  <2>3. part.blk \in [Blocks -> 0..MaxVersion] /\ Total \in 0..Total
    BY <2>1, FileFields, Constants
  <2>. QED BY <2>2, <2>3 DEF Files
<1>3. /\ wk' \in [Workers -> Tasks]
      /\ \A w \in Workers : wk'[w].pc = "idle" /\ wk'[w].seg = 0 /\ wk'[w].then = "none"
  BY Blanks DEF Prepare
<1>4. side = NoWrite /\ side.snap = NoJournal /\ side.by = "nobody" /\ side.step = "free"
  BY <1>0, Lone DEF Working, NoWrite
<1>5. meta = [ver |-> ver, segs |-> segs] /\ bak = NoJournal /\ segs # <<>>
  BY <1>0 DEF Inv, ControlOK, Loaded
<1>6. meta.ver = ver /\ meta.segs = segs /\ meta # NoJournal
  BY <1>1, <1>5 DEF NoJournal
<1>7. DiskOK' /\ RowOK' /\ MemOK'
  BY <1>0, <1>1, <1>2, <1>3 DEF DiskOK, RowOK, MemOK, Phases
<1>8. SideOK' /\ HoldersOK'
  <2>1. \A w \in Workers : w # "nobody"
    BY Constants
  <2>2. SideOK'
    BY <1>0, <1>3, <1>4, <2>1 DEF SideOK, Working
  <2>3. HoldersOK'
    BY <1>3 DEF HoldersOK, Holders
  <2>. QED BY <2>2, <2>3
<1>9. JournalsOK' /\ ControlOK' /\ SealedOK'
  BY <1>0, <1>5 DEF Inv, JournalsOK, ControlOK, SealedOK, Bare, Loaded, Working, Sealing, Cleaning
<1>10. FilesOK'
  BY <1>0, <1>2 DEF Inv, FilesOK, Loaded, Working, Sealing, Cleaning
<1>11. HeldOK'
  <2>1. ASSUME ~misled, NEW i \in DOMAIN segs, NEW b \in Have(segs[i]) PROVE part.blk[b] = ver
    <3>1. CASE part.kind = "segmented"
      BY <2>1, <3>1, HeldParts DEF Inv
    <3>2. CASE part.kind = "none"
      <4>1. segs[i].got = 0
        BY <1>0, <3>2 DEF Inv, FilesOK
      <4>2. segs[i].lo \in 1..Total /\ Total \in Nat
        BY <1>1, SegmentFields DEF MemOK
      <4>3. Have(segs[i]) = {}
        BY <4>1, <4>2 DEF Have
      <4>. QED BY <4>3
    <3>3. part.kind \in {"none", "segmented"}
      BY <1>0, <1>1, <2>1, FileFields DEF Inv, FilesOK, Loaded, DiskOK
    <3>. QED BY <3>1, <3>2, <3>3
  <2>2. ~misled => Held(meta)' /\ Held([ver |-> ver, segs |-> segs])'
    BY <1>0, <1>2, <1>6, <2>1 DEF Held
  <2>3. Held(bak)' /\ Held(side.snap)'
    BY <1>0, <1>4, <1>5 DEF Held, NoJournal
  <2>. QED BY <1>0, <1>5, <1>6, <2>2, <2>3 DEF HeldOK, NoJournal
<1>12. KeptOK' /\ NoOrphanHole' /\ CompletedIsWhole'
  BY <1>0, <1>4, <1>6 DEF Inv, KeptOK, NoOrphanHole, CompletedIsWhole
<1>. QED BY <1>7, <1>8, <1>9, <1>10, <1>11, <1>12, InvParts DEF RestOK, CrewOK

\* Outside the work of segments: the attempt goes on with nothing in memory,
\* and its files may be removed.
Roam ==
    /\ Bare /\ Bare' /\ UNCHANGED <<entity, final, mem, signal, misled, crashes, signals>>
    /\ part' \in {part, NoFile} /\ meta' \in {meta, NoJournal} /\ bak' \in {bak, NoJournal}
    /\ ver' \in Versions

LEMMA RoamKeeps ==
    ASSUME Inv, Roam
    PROVE  /\ DiskOK' /\ MemOK' /\ CrewOK' /\ JournalsOK' /\ HeldOK' /\ SealedOK'
           /\ CompletedIsWhole' /\ segs' = <<>> /\ side' = NoWrite
<1>0. /\ segs' = segs /\ active' = active /\ wk' = wk /\ side' = side /\ target' = target
      /\ stop' = stop /\ signal' = signal /\ final' = final /\ misled' = misled /\ entity' = entity
  BY DEF Roam, mem
<1>1. DiskOK /\ MemOK
  BY TypeParts DEF Inv
<1>2. /\ ~Working /\ phase \notin {"restore", "persist"} /\ ~Working' /\ phase' \notin {"restore", "persist"}
      /\ ~Sealing'
  BY DEF Roam, Bare, Working, Cleaning, Sealing
<1>3. segs = <<>> /\ side = NoWrite
  BY <1>2, Lone DEF Inv, ControlOK, Roam
<1>4. DiskOK'
  BY <1>0, <1>1, Blanks DEF DiskOK, Roam
<1>5. MemOK'
  BY <1>0, <1>1 DEF MemOK
<1>6. CrewOK'
  BY <1>0, <1>2, LoneCrew
<1>7. JournalsOK'
  BY <1>0, <1>3 DEF Inv, JournalsOK, JournalOK, Roam
<1>8. HeldOK'
  <2>1. ASSUME (part.kind = "segmented" /\ ~misled)' PROVE (Held(meta) /\ Held(bak))'
    <3>1. part' = part
      BY <2>1 DEF Roam, NoFile
    <3>2. Held(meta) /\ Held(bak)
      BY <1>0, <2>1, <3>1 DEF Inv, HeldOK
    <3>. QED BY <3>1, <3>2 DEF Held, NoJournal, Roam
  <2>2. (Held(side.snap) /\ Held([ver |-> ver, segs |-> segs]))'
    BY <1>0, <1>3 DEF Held, NoWrite, NoJournal
  <2>. QED BY <1>2, <2>1, <2>2 DEF HeldOK
<1>9. SealedOK' /\ CompletedIsWhole'
  BY <1>0, <1>2 DEF Inv, SealedOK, CompletedIsWhole
<1>. QED BY <1>0, <1>3, <1>4, <1>5, <1>6, <1>7, <1>8, <1>9

LEMMA RoamStep ==
    ASSUME Inv, Roam, RowOK', ControlOK', FilesOK', NoOrphanHole',
           phase' = "load" /\ part'.kind = "segmented" => meta' # NoJournal
    PROVE  Inv'
<1>1. /\ DiskOK' /\ MemOK' /\ CrewOK' /\ JournalsOK' /\ HeldOK' /\ SealedOK'
      /\ CompletedIsWhole' /\ side' = NoWrite
  BY RoamKeeps
<1>2. KeptOK'
  BY <1>1 DEF KeptOK, Loaded, Working, NoWrite, Roam, Bare, Cleaning
<1>. QED BY <1>1, <1>2, InvParts DEF RestOK

LEMMA NoFileIs == NoFile.kind = "none" /\ NoFile.len = 0 /\ Total # 0
BY Constants DEF NoFile

LEMMA PartIs ==
    ASSUME Inv
    PROVE  /\ part.kind \in {"none", "segmented", "single"} /\ part.len \in 0..Total
           /\ part = NoFile <=> part.kind = "none"
           /\ part.kind = "segmented" => part.len = Total
           /\ part.len = 0 => part.kind # "segmented"
<1>1. part.kind \in {"none", "segmented", "single"} /\ part.len \in 0..Total
  BY FileFields DEF Inv, TypeOK
<1>. QED BY <1>1, NoFileIs DEF Inv, FilesOK

\* The gate and the loader decide; the files stay.
LEMMA StartStep ==
    ASSUME Inv, \/ RefuseWithoutJournal \/ StartSegmented \/ StartRecovery \/ StartSingle \/ Restart
                \/ LoadNothing \/ (LoadRefuses /\ phase' = "clean")
    PROVE  Inv'
<1>0. DiskOK /\ RowOK /\ MemOK /\ ControlOK /\ FilesOK /\ NoOrphanHole /\ KeptOK /\ JournalOK(meta)
  BY TypeParts DEF Inv, JournalsOK
<1>1. /\ Bare /\ UNCHANGED <<entity, final, mem, signal, misled, crashes, signals>>
      /\ part' = part /\ meta' = meta /\ bak' = bak
  BY DEF RefuseWithoutJournal, StartSegmented, StartRecovery, StartSingle, Restart, LoadNothing,
         LoadRefuses, Ended, CanStart, Loading, Bare, disk, row
<1>2. phase' \in {"idle", "load", "connect", "clean"} /\ after' \in {"none", "single", "fresh", "queued"}
      /\ (phase' = "clean" <=> after' # "none")
  BY <1>0 DEF RefuseWithoutJournal, StartSegmented, StartRecovery, StartSingle, Restart, LoadNothing,
         LoadRefuses, Ended, CanStart, Loading, ControlOK, Cleaning
<1>3. outcome' \in {outcome, "queued", "restart"} /\ errors' \in 0..MaxEvents
  BY <1>0, Faulty DEF RefuseWithoutJournal, StartSegmented, StartRecovery, StartSingle, Restart, LoadNothing,
         LoadRefuses, Ended, CanStart, Loading, row, RowOK
<1>4. ver' \in Versions
  <2>1. ver' \in {ver, entity} \/ (ver' = meta.ver /\ meta # NoJournal)
    BY DEF RefuseWithoutJournal, StartSegmented, StartRecovery, StartSingle, Restart, LoadNothing, LoadRefuses
  <2>2. meta # NoJournal => meta.ver \in Versions
    BY <1>0, JournalFields, Constants DEF JournalOK, DiskOK, Versions
  <2>. QED BY <1>0, <2>1, <2>2 DEF DiskOK
<1>5. Roam
  BY <1>1, <1>2, <1>4 DEF Roam, Bare, Cleaning
<1>6. RowOK'
  BY <1>0, <1>1, <1>2, <1>3 DEF RowOK, Phases, Results, Sequels
<1>7. outcome' = "canceled" => after' = "queued" /\ outcome = "canceled"
  BY <1>3 DEF RefuseWithoutJournal, StartSegmented, StartRecovery, StartSingle, Restart, LoadNothing,
         LoadRefuses, Ended, CanStart, Loading, row, RowOK, Inv, ControlOK, Cleaning
<1>8. ControlOK'
  <2>1. segs' = <<>>
    BY <1>5, RoamKeeps
  <2>. QED BY <1>2, <1>7, <2>1 DEF ControlOK, Bare, Loaded, Working, Sealing, Cleaning
<1>9. /\ phase' = "clean" /\ after' = "single" => part.len = 0
      /\ phase' = "clean" /\ after' = "fresh" => part = NoFile
      /\ phase' = "load" => part.len = 0 \/ meta # NoJournal
  BY <1>0 DEF RefuseWithoutJournal, StartSegmented, StartRecovery, StartSingle, Restart, LoadNothing,
         LoadRefuses, Ended, CanStart, Loading, ControlOK, Cleaning
<1>10. FilesOK'
  BY <1>0, <1>1, <1>2, <1>9 DEF FilesOK, Loaded, Working, Sealing, Cleaning
<1>11. NoOrphanHole'
  <2>1. "canceled" \in {outcome, after} => outcome' = "canceled"
    BY <1>0, <1>1 DEF RefuseWithoutJournal, StartSegmented, StartRecovery, StartSingle, Restart, LoadNothing,
         LoadRefuses, Ended, CanStart, Loading, ControlOK, Cleaning, row
  <2>. QED BY <1>0, <1>1, <2>1 DEF NoOrphanHole
<1>12. phase' = "load" /\ part'.kind = "segmented" => meta' # NoJournal
  BY <1>1, <1>9, PartIs
<1>. QED BY <1>5, <1>6, <1>8, <1>10, <1>11, <1>12, RoamStep

(***************************************************************************)
(* Cleaning up, sealing, and one stream.                                   *)
(***************************************************************************)

\* The files of an attempt that is cleaned up after.
LEMMA CleaningIs ==
    ASSUME Inv, Cleaning
    PROVE  /\ after \in {"single", "fresh", "queued", "canceled"} /\ segs = <<>> /\ side = NoWrite
           /\ after = "single" => part.len = 0
           /\ after = "fresh" => part = NoFile
           /\ after = "queued" /\ phase # "clean" => part = NoFile
           /\ outcome = "canceled" => after = "queued"
           /\ Bare
<1>1. ~Working /\ phase \notin {"restore", "persist", "idle"} /\ Bare
  BY DEF Cleaning, Working, Bare
<1>. QED BY <1>1, Lone DEF Inv, ControlOK, FilesOK

\* cleanup_partial_artifacts goes on to the next file, or to what follows it.
CleanGoesOn ==
    /\ Cleaning /\ UNCHANGED <<entity, final, ver, signal, misled, crashes, signals>>
    /\ \/ phase = "clean" /\ part' \in {part, NoFile} /\ phase' = "clean_meta" /\ UNCHANGED <<meta, bak>>
          /\ (part' = NoFile \/ after # "queued")
       \/ phase = "clean_meta" /\ meta' \in {meta, NoJournal} /\ phase' = "clean_bak" /\ UNCHANGED <<part, bak>>
    /\ UNCHANGED <<outcome, after, mem>> /\ (errors' = errors \/ Fault)

CleanEnds ==
    /\ phase = "clean_bak" /\ bak' \in {bak, NoJournal} /\ Removed /\ (errors' = errors \/ Fault)
    /\ UNCHANGED <<entity, part, meta, final, ver, misled, crashes, signals>>

LEMMA CleanGoesOnStep == ASSUME Inv, CleanGoesOn PROVE Inv'
<1>0. /\ after \in {"single", "fresh", "queued", "canceled"} /\ segs = <<>>
      /\ after = "single" => part.len = 0
      /\ after = "fresh" => part = NoFile
      /\ after = "queued" /\ phase # "clean" => part = NoFile
      /\ outcome = "canceled" => after = "queued"
      /\ Bare
  BY CleaningIs DEF CleanGoesOn
<1>1. DiskOK /\ RowOK
  BY TypeParts DEF Inv
<1>2. /\ part' \in {part, NoFile} /\ meta' \in {meta, NoJournal} /\ bak' = bak /\ final' = final
      /\ phase' \in {"clean_meta", "clean_bak"} /\ after' = after /\ outcome' = outcome /\ misled' = misled
      /\ segs' = segs /\ crashes' = crashes /\ signals' = signals
      /\ (after = "queued" => part' = NoFile)
  BY <1>0, NoFileIs DEF CleanGoesOn, mem
<1>3. Roam
  BY <1>0, <1>1, <1>2 DEF CleanGoesOn, Roam, DiskOK, Bare, Cleaning
<1>4. RowOK'
  <2>1. errors' \in 0..MaxEvents
    BY <1>1, Faulty DEF CleanGoesOn, RowOK
  <2>. QED BY <1>1, <1>2, <2>1 DEF RowOK, Phases
<1>5. ControlOK'
  BY <1>0, <1>2 DEF ControlOK, Bare, Loaded, Working, Sealing, Cleaning
<1>6. FilesOK'
  BY <1>0, <1>2, NoFileIs DEF Inv, FilesOK, Loaded, Working, Sealing, Cleaning
<1>7. NoOrphanHole'
  <2>1. part'.len = Total => part' = part /\ after = "canceled"
    BY <1>0, <1>2, NoFileIs
  <2>. QED BY <1>2, <2>1 DEF NoOrphanHole
<1>8. ~(phase' = "load")
  BY <1>2
<1>. QED BY <1>3, <1>4, <1>5, <1>6, <1>7, <1>8, RoamStep

LEMMA CleanEndsStep == ASSUME Inv, CleanEnds PROVE Inv'
<1>0. /\ after \in {"single", "fresh", "queued", "canceled"} /\ segs = <<>> /\ side = NoWrite
      /\ after = "single" => part.len = 0
      /\ after = "fresh" => part = NoFile
      /\ after = "queued" => part = NoFile
      /\ outcome = "canceled" => after = "queued"
      /\ Bare
  BY CleaningIs DEF CleanEnds, Cleaning
<1>1. DiskOK /\ RowOK /\ MemOK
  BY TypeParts DEF Inv
<1>2. /\ bak' \in {bak, NoJournal} /\ part' = part /\ meta' = meta /\ final' = final /\ ver' = ver
      /\ entity' = entity /\ misled' = misled /\ crashes' = crashes /\ signals' = signals
      /\ after' = "none" /\ active' = active /\ wk' = wk /\ side' = side /\ target' = target
      /\ stop' = stop /\ signal' = signal
  BY DEF CleanEnds, Removed
<1>3. errors' \in 0..MaxEvents
  BY <1>1, Faulty DEF CleanEnds, RowOK
<1>4. CASE after # "fresh"
  <2>1. /\ segs' = segs
        /\ \/ after = "single" /\ phase' = "connect" /\ outcome' = outcome
           \/ after \in {"queued", "canceled"} /\ phase' = "idle" /\ outcome' = after
    BY <1>0, <1>4 DEF CleanEnds, Removed
  <2>2. Roam
    BY <1>0, <1>1, <1>2, <2>1 DEF Roam, mem, DiskOK, Bare, Cleaning
  <2>3. RowOK'
    BY <1>1, <1>2, <1>3, <2>1 DEF RowOK, Phases, Results, Sequels
  <2>4. ControlOK'
    BY <1>0, <1>2, <2>1 DEF ControlOK, Bare, Loaded, Working, Sealing, Cleaning
  <2>5. FilesOK'
    BY <1>0, <1>2, <2>1, PartIs DEF Inv, FilesOK, Loaded, Working, Sealing, Cleaning
  <2>6. NoOrphanHole'
    BY <1>0, <1>2, <2>1, NoFileIs DEF NoOrphanHole
  <2>7. ~(phase' = "load")
    BY <2>1
  <2>. QED BY <2>2, <2>3, <2>4, <2>5, <2>6, <2>7, RoamStep
<1>5. CASE after = "fresh"
  <2>1. segs' = Plan /\ phase' = "fill" /\ outcome' = outcome /\ outcome # "canceled"
        /\ part.kind = "none" /\ part.len = 0 /\ ~Working /\ phase = "clean_bak"
    BY <1>0, <1>5, NoFileIs DEF CleanEnds, Removed, Working
  <2>2. DiskOK' /\ RowOK'
    BY <1>1, <1>2, <1>3, <2>1, Blanks DEF DiskOK, RowOK, Phases, Sequels
  <2>3. Plan \in Seq(Segments) /\ Plan # <<>> /\ Good(Plan)
    BY PlanGood, GoodIsSeq
  <2>4. MemOK'
    <3>1. active = {} /\ \A w \in Workers : wk[w].seg = 0
      BY <1>0, <1>1 DEF MemOK
    <3>. QED BY <1>1, <1>2, <2>1, <2>3, <3>1 DEF MemOK
  <2>5. CrewOK'
    BY <1>2, <2>1, LoneCrew
  <2>6. JournalsOK'
    BY <1>2, <2>1, <2>3 DEF Inv, JournalsOK, JournalOK
  <2>7. ControlOK' /\ SealedOK'
    BY <1>2, <2>1, <2>3 DEF ControlOK, SealedOK, Bare, Loaded, Working, Sealing, Cleaning
  <2>8. FilesOK'
    BY <1>2, <2>1 DEF Inv, FilesOK, Loaded, Working, Sealing, Cleaning
  <2>9. HeldOK'
    BY <1>2, <2>1 DEF HeldOK, Working
  <2>10. KeptOK' /\ NoOrphanHole' /\ CompletedIsWhole'
    BY <1>0, <1>2, <2>1, NoFileIs DEF Inv, KeptOK, NoOrphanHole, CompletedIsWhole, NoWrite
  <2>. QED BY <2>2, <2>4, <2>5, <2>6, <2>7, <2>8, <2>9, <2>10, InvParts DEF RestOK
<1>. QED BY <1>4, <1>5

LEMMA RemovalStep ==
    ASSUME Inv, RemovePart \/ RemoveMeta \/ RemoveBak \/ RemovalFails
    PROVE  Inv'
<1>1. CASE RemovePart \/ RemoveMeta
  <2>1. CleanGoesOn
    BY <1>1 DEF RemovePart, RemoveMeta, CleanGoesOn, Cleaning, row
  <2>. QED BY <2>1, CleanGoesOnStep
<1>2. CASE RemoveBak
  <2>1. CleanEnds
    BY <1>2 DEF RemoveBak, CleanEnds
  <2>. QED BY <2>1, CleanEndsStep
<1>3. CASE RemovalFails
  <2>0. Cleaning /\ Fault /\ UNCHANGED <<entity, disk, crashes, signals, misled, ver>>
    BY <1>3 DEF RemovalFails, Cleaning
  <2>1. CASE after = "queued"
    <3>1. Ended(outcome)
      BY <1>3, <2>1 DEF RemovalFails
    <3>2. outcome \in Results
      BY DEF Inv, TypeOK
    <3>3. Over /\ RowOK'
      BY <2>0, <2>1, <3>1, <3>2, EndedOver DEF Counted
    <3>. QED BY <3>3, OverStep
  <2>2. CASE after # "queued" /\ phase # "clean_bak"
    <3>1. CleanGoesOn
      BY <1>3, <2>0, <2>2 DEF RemovalFails, CleanGoesOn, Cleaning, disk, Removed
    <3>. QED BY <3>1, CleanGoesOnStep
  <2>3. CASE after # "queued" /\ phase = "clean_bak"
    <3>1. CleanEnds
      BY <1>3, <2>0, <2>3 DEF RemovalFails, CleanEnds, disk
    <3>. QED BY <3>1, CleanEndsStep
  <2>. QED BY <2>1, <2>2, <2>3
<1>. QED BY <1>1, <1>2, <1>3

LEMMA RefuseLoadStep == ASSUME Inv, LoadRefuses PROVE Inv'
<1>1. CASE phase' = "clean"
  BY <1>1, StartStep
<1>2. CASE phase' # "clean"
  <2>1. Ended("restart") /\ Counted /\ UNCHANGED <<entity, disk, ver>> /\ phase = "load"
    BY <1>2 DEF LoadRefuses, Loading, Counted
  <2>2. outcome # "canceled" /\ after # "canceled" /\ "restart" \in Results
    BY <2>1, NotCanceled DEF Cleaning, Results
  <2>3. Over /\ RowOK'
    BY <2>1, <2>2, EndedOver
  <2>. QED BY <2>3, OverStep
<1>. QED BY <1>1, <1>2

\* A file whose segments are complete has every block, in one version.
LEMMA CompleteIsWhole ==
    ASSUME Inv, Sealing, ~misled
    PROVE  part.kind = "segmented" /\ \A b \in Blocks : part.blk[b] = ver
<1>1. part.kind = "segmented" /\ Good(segs) /\ Complete(segs)
  BY DEF Inv, FilesOK, JournalsOK, ControlOK, SealedOK
<1>2. ASSUME NEW b \in Blocks PROVE part.blk[b] = ver
  <2>1. segs \in Seq(Segments) /\ Tiles(segs)
    BY <1>1 DEF Good
  <2>2. InOne(segs, b)
    BY <2>1, TilesMeans
  <2>3. PICK i \in DOMAIN segs : b \in segs[i].lo .. segs[i].hi
    BY <2>2, Zenon DEF InOne
  <2>4. Remaining(segs[i]) = 0
    BY <1>1 DEF Complete
  <2>5. segs[i].lo \in 1..Total /\ segs[i].hi \in 1..Total /\ segs[i].got \in 0..Total /\ Total \in Nat
    BY <2>1, SegmentFields
  <2>6. segs[i].hi - segs[i].lo + 1 - segs[i].got = 0
    BY <2>4, <2>5 DEF Remaining, SegLen
  <2>7. segs[i].lo + segs[i].got - 1 = segs[i].hi
    <3>. DEFINE lo == segs[i].lo
                hi == segs[i].hi
                got == segs[i].got
    <3>1. lo \in Int /\ hi \in Int /\ got \in Int /\ hi - lo + 1 - got = 0
      BY <2>5, <2>6
    <3>. HIDE DEF lo, hi, got
    <3>2. lo + got - 1 = hi
      BY <3>1
    <3>. QED BY <3>2 DEF lo, hi, got
  <2>8. b \in Have(segs[i])
    BY <2>3, <2>7 DEF Have
  <2>. QED BY <1>1, <2>8, HeldParts DEF Inv
<1>. QED BY <1>1, <1>2

LEMMA JoinedStep == ASSUME Inv, AllJoined, Complete(segs) PROVE Inv'
<1>0. /\ phase = "run" /\ (\A w \in Workers : wk[w].pc = "off") /\ phase' = "seal_meta"
      /\ part' = part /\ meta' = meta /\ bak' = bak /\ final' = final /\ ver' = ver
      /\ outcome' = outcome /\ after' = after /\ segs' = segs /\ active' = active /\ wk' = wk
      /\ side' = side /\ target' = target /\ stop' = stop /\ signal' = signal /\ misled' = misled
      /\ entity' = entity /\ crashes' = crashes /\ signals' = signals /\ errors' = errors
  BY DEF AllJoined, mem, disk
<1>1. DiskOK /\ RowOK /\ MemOK /\ SideOK
  BY TypeParts DEF Inv
<1>2. side = NoWrite /\ side.by = "nobody" /\ side.step = "free"
  <2>1. side.by = "nobody"
    BY <1>0, <1>1, WriteFields DEF SideOK, MemOK
  <2>. QED BY <1>1, <2>1 DEF SideOK
<1>3. DiskOK' /\ RowOK' /\ MemOK'
  BY <1>0, <1>1 DEF DiskOK, RowOK, MemOK, Phases
<1>4. SideOK' /\ HoldersOK'
  <2>1. \A w \in Workers : w # "nobody"
    BY Constants
  <2>2. SideOK'
    BY <1>0, <1>2, <2>1 DEF SideOK
  <2>3. HoldersOK'
    BY <1>0 DEF HoldersOK, Holders
  <2>. QED BY <2>2, <2>3
<1>5. JournalsOK' /\ ControlOK' /\ SealedOK'
  BY <1>0 DEF Inv, JournalsOK, ControlOK, SealedOK, Complete, Bare, Loaded, Working, Sealing, Cleaning
<1>6. FilesOK'
  BY <1>0 DEF Inv, FilesOK, Loaded, Working, Sealing, Cleaning
<1>7. HeldOK'
  BY <1>0 DEF Inv, HeldOK, Held, Working
<1>8. KeptOK' /\ NoOrphanHole' /\ CompletedIsWhole'
  BY <1>0, <1>2 DEF Inv, KeptOK, NoOrphanHole, CompletedIsWhole, Loaded, Working
<1>. QED BY <1>3, <1>4, <1>5, <1>6, <1>7, <1>8, InvParts DEF RestOK, CrewOK

\* Sealing: the journal goes, then the file gets its name.
LEMMA SealStep == ASSUME Inv, SealMeta \/ SealBak \/ Rename PROVE Inv'
<1>0. /\ Sealing /\ after' = after /\ ver' = ver /\ segs' = segs /\ active' = active /\ wk' = wk
      /\ side' = side /\ target' = target /\ stop' = stop /\ signal' = signal /\ misled' = misled
      /\ entity' = entity /\ crashes' = crashes /\ signals' = signals /\ errors' = errors
      /\ outcome' = outcome /\ meta' \in {meta, NoJournal} /\ bak' \in {bak, NoJournal}
      /\ \/ part' = part /\ final' = final /\ phase' \in {"seal_bak", "rename"}
         \/ part' = NoFile /\ final' = part /\ phase' = "report"
  BY DEF SealMeta, SealBak, Rename, mem, row, Sealing
<1>1. DiskOK /\ RowOK /\ MemOK
  BY TypeParts DEF Inv
<1>2. ~Working /\ phase \notin {"restore", "persist"} /\ phase' \notin {"restore", "persist"} /\ ~Working'
      /\ ~Cleaning /\ phase # "idle"
  BY <1>0 DEF Working, Sealing, Cleaning
<1>3. side = NoWrite /\ after # "canceled" /\ outcome # "canceled" /\ after = "none" /\ segs # <<>>
  BY <1>0, <1>2, Lone, NotCanceled DEF Inv, ControlOK, Sealing
<1>4. ~misled => part.kind = "segmented" /\ \A b \in Blocks : part.blk[b] = ver
  BY <1>0, CompleteIsWhole
<1>5. DiskOK' /\ RowOK' /\ MemOK'
  BY <1>0, <1>1, Blanks DEF DiskOK, RowOK, MemOK, Phases
<1>6. CrewOK'
  BY <1>0, <1>2, LoneCrew
<1>7. JournalsOK'
  BY <1>0 DEF Inv, JournalsOK, JournalOK
<1>8. ControlOK' /\ SealedOK'
  BY <1>0, <1>3 DEF Inv, ControlOK, SealedOK, Complete, Bare, Loaded, Working, Sealing, Cleaning
<1>9. FilesOK'
  BY <1>0, <1>3, NoFileIs DEF Inv, FilesOK, Loaded, Working, Sealing, Cleaning
<1>10. HeldOK'
  <2>1. CASE part' = part
    <3>1. (part.kind = "segmented" /\ ~misled)' => Held(meta) /\ Held(bak) /\ Held(side.snap) /\ Held([ver |-> ver, segs |-> segs])
      BY <1>0, <2>1 DEF Inv, HeldOK
    <3>2. (part.kind = "segmented" /\ ~misled)' => (Held(meta) /\ Held(bak))'
      BY <1>0, <2>1, <3>1 DEF Held, NoJournal
    <3>3. (part.kind = "segmented" /\ ~misled)' => (Held(side.snap) /\ Held([ver |-> ver, segs |-> segs]))'
      BY <1>0, <2>1, <3>1 DEF Held
    <3>. QED BY <1>2, <3>2, <3>3 DEF HeldOK
  <2>2. CASE part' = NoFile
    BY <1>2, <2>2, NoFileIs DEF HeldOK
  <2>. QED BY <1>0, <2>1, <2>2
<1>11. KeptOK'
  BY <1>0, <1>2, <1>3 DEF KeptOK, Loaded, NoWrite
<1>12. NoOrphanHole'
  <2>1. ver # Hole
    BY <1>1, Constants DEF DiskOK, Versions, Hole
  <2>. QED BY <1>0, <1>4, <2>1, NoFileIs DEF NoOrphanHole
<1>13. CompletedIsWhole'
  <2>1. ver # Hole
    BY <1>1, Constants DEF DiskOK, Versions, Hole
  <2>. QED BY <1>0, <1>4, <2>1 DEF Inv, CompletedIsWhole
<1>. QED BY <1>5, <1>6, <1>7, <1>8, <1>9, <1>10, <1>11, <1>12, <1>13, InvParts DEF RestOK

\* One stream.
LEMMA SingleStep == ASSUME Inv, Connect \/ SingleReceive \/ SingleDone PROVE Inv'
<1>0. /\ phase \in {"connect", "single"} /\ meta' = meta /\ bak' = bak /\ entity' = entity
      /\ outcome' = outcome /\ crashes' = crashes /\ signals' = signals /\ errors' = errors
      /\ misled' = misled /\ after' = after /\ segs' = segs /\ active' = active /\ wk' = wk
      /\ side' = side /\ target' = target /\ stop' = stop /\ signal' = signal
      /\ ver' \in {ver, entity} /\ phase' \in {"single", "report"}
  BY DEF Connect, SingleReceive, SingleDone, mem, row
<1>1. DiskOK /\ RowOK /\ MemOK /\ ver # Hole /\ ver \in 1..MaxVersion
  BY TypeParts, Constants DEF Inv, DiskOK, Versions, Hole
<1>2. ~Working /\ phase \notin {"restore", "persist"} /\ phase' \notin {"restore", "persist"} /\ ~Working'
      /\ ~Cleaning /\ phase # "idle" /\ Bare
  BY <1>0 DEF Working, Cleaning, Bare
<1>3. side = NoWrite /\ segs = <<>> /\ after = "none" /\ outcome # "canceled"
  BY <1>0, <1>2, Lone, NotCanceled DEF Inv, ControlOK, Bare
<1>4. part.kind # "segmented" /\ (phase = "single" => part.kind = "single")
  <2>1. phase = "connect" => part.len < Total
    BY DEF Connect, SingleReceive, SingleDone
  <2>. QED BY <1>0, <2>1, PartIs, Constants DEF Inv, FilesOK
<1>5. /\ part' \in Files /\ part'.kind # "segmented"
      /\ part'.kind = "none" => part' = NoFile
      /\ part'.kind = "single" => \A b \in 1..part'.len : part'.blk[b] # Hole
      /\ phase' = "single" => part'.kind = "single"
      /\ final' \in Files /\ (final' = final \/ (final' = part /\ SingleDone))
  <2>1. CASE Connect
    <3>1. CASE part.len = 0
      <4>1. part' = [kind |-> "single", len |-> 0, blk |-> [b \in Blocks |-> Hole]]
        BY <2>1, <3>1 DEF Connect, NoFile
      <4>2. part' \in Files
        BY <4>1, Constants DEF Files, Hole
      <4>. QED BY <1>1, <2>1, <4>1, <4>2 DEF Connect, DiskOK
    <3>2. CASE part.len # 0
      <4>1. part' = part /\ part.kind = "single" /\ final' = final
        BY <2>1, <3>2, <1>4, PartIs, NoFileIs DEF Connect
      <4>. QED BY <1>1, <4>1 DEF Inv, FilesOK, DiskOK
    <3>. QED BY <3>1, <3>2
  <2>2. CASE SingleReceive
    <3>. DEFINE n == part.len + 1
                blk == [part.blk EXCEPT ![n] = ver]
    <3>1. part \in Files /\ part.kind = "single" /\ part.len < Total /\ final' = final
      BY <1>1, <1>4, <2>2 DEF SingleReceive, DiskOK
    <3>2. n \in Blocks /\ n \in 0..Total /\ part.len \in Nat /\ part.blk \in [Blocks -> 0..MaxVersion]
      BY <3>1, FileFields, Constants DEF Blocks
    <3>3. part' = [kind |-> "single", len |-> n, blk |-> blk]
      <4>1. part = [kind |-> "single", len |-> part.len, blk |-> part.blk]
        BY <3>1, FileFields
      <4>2. part' = [part EXCEPT !.len = n, !.blk[n] = ver]
        BY <2>2 DEF SingleReceive
      <4>. QED BY <3>1, <4>1, <4>2 DEF Files
    <3>4. blk \in [Blocks -> 0..MaxVersion] /\ \A b \in Blocks : blk[b] = IF b = n THEN ver ELSE part.blk[b]
      BY <1>1, <3>2
    <3>. HIDE DEF blk
    <3>5. part' \in Files
      BY <3>2, <3>3, <3>4 DEF Files
    <3>6. \A b \in 1..n : b \in Blocks /\ (b # n => b \in 1..part.len)
      BY <3>1, <3>2, Constants DEF Blocks
    <3>7. \A b \in 1..part.len : part.blk[b] # Hole
      BY <3>1 DEF Inv, FilesOK
    <3>. HIDE DEF n
    <3>8. \A b \in 1..n : blk[b] # Hole
      BY <1>1, <3>4, <3>6, <3>7
    <3>. QED BY <1>1, <3>1, <3>3, <3>5, <3>8 DEF DiskOK
  <2>3. CASE SingleDone
    BY <1>1, <2>3, Blanks, NoFileIs DEF SingleDone, DiskOK
  <2>. QED BY <2>1, <2>2, <2>3
<1>6. DiskOK' /\ RowOK' /\ MemOK'
  <2>1. ver' \in Versions /\ meta' \in Journals /\ bak' \in Journals /\ entity' \in Versions
    BY <1>0, <1>1 DEF DiskOK
  <2>. QED BY <1>0, <1>1, <1>5, <2>1 DEF DiskOK, RowOK, MemOK, Phases
<1>7. CrewOK'
  BY <1>0, <1>2, LoneCrew
<1>8. JournalsOK'
  BY <1>0 DEF Inv, JournalsOK, JournalOK
<1>9. ControlOK' /\ SealedOK'
  BY <1>0, <1>3 DEF ControlOK, SealedOK, Bare, Loaded, Working, Sealing, Cleaning
<1>10. FilesOK'
  BY <1>0, <1>3, <1>5 DEF FilesOK, Loaded, Working, Sealing, Cleaning
<1>11. HeldOK'
  BY <1>2, <1>5 DEF HeldOK
<1>12. KeptOK'
  BY <1>0, <1>3, <1>5 DEF KeptOK, NoWrite
<1>13. NoOrphanHole'
  <2>1. part'.kind \in {"none", "single"}
    BY <1>5, FileFields
  <2>. QED BY <1>5, <2>1, NoFileIs DEF NoOrphanHole, Blocks
<1>14. CompletedIsWhole'
  <2>1. CASE final' = final
    BY <1>0, <2>1 DEF Inv, CompletedIsWhole
  <2>2. CASE SingleDone
    <3>1. part.len = Total /\ phase = "single" /\ final' = part
      BY <2>2 DEF SingleDone
    <3>2. \A b \in Blocks : part.blk[b] # Hole
      BY <1>4, <3>1 DEF Inv, FilesOK, Blocks
    <3>. QED BY <1>4, <3>1, <3>2 DEF CompletedIsWhole
  <2>. QED BY <1>5, <2>1, <2>2
<1>. QED BY <1>6, <1>7, <1>8, <1>9, <1>10, <1>11, <1>12, <1>13, <1>14, InvParts DEF RestOK

(***************************************************************************)
(* The theorems.                                                           *)
(***************************************************************************)

LEMMA InitInv == Init => Inv
<1>. SUFFICES ASSUME Init PROVE Inv
  OBVIOUS
<1>0. /\ entity = 1 /\ part = NoFile /\ meta = NoJournal /\ bak = NoJournal /\ final = NoFile
      /\ outcome = "queued" /\ phase = "idle" /\ after = "none" /\ ver = 1
      /\ segs = <<>> /\ active = {} /\ wk = [w \in Workers |-> Off]
      /\ side = NoWrite /\ target = Cardinality(Workers)
      /\ stop = FALSE /\ signal = "none"
      /\ misled = FALSE /\ crashes = 0 /\ signals = 0 /\ errors = 0
  BY DEF Init
<1>1. \A w \in Workers : wk[w] = Off /\ wk[w].pc = "off" /\ wk[w].seg = 0 /\ w # "nobody"
  BY <1>0, Blanks, Constants
<1>2. DiskOK /\ RowOK
  <2>1. 1 \in Versions /\ 0 \in 0..MaxEvents
    BY Constants DEF Versions
  <2>. QED BY <1>0, <2>1, Blanks DEF DiskOK, RowOK, Results, Phases, Sequels
<1>3. MemOK
  <2>1. wk \in [Workers -> Tasks]
    BY <1>0, Blanks
  <2>2. Cardinality(Workers) \in 1..Cardinality(Workers)
    BY Constants
  <2>3. segs \in Seq(Segments) /\ active \subseteq DOMAIN segs /\ side \in Writes
    BY <1>0, Blanks
  <2>4. \A w \in Workers : wk[w].seg \in {0} \cup DOMAIN segs
    BY <1>1
  <2>. QED BY <1>0, <2>1, <2>2, <2>3, <2>4 DEF MemOK
<1>4. CrewOK
  <2>1. side.by = "nobody" /\ side.step = "free"
    BY <1>0 DEF NoWrite
  <2>2. SideOK
    BY <1>0, <1>1, <2>1 DEF SideOK
  <2>3. HoldersOK
    BY <1>1 DEF HoldersOK, Holders
  <2>. QED BY <2>2, <2>3 DEF CrewOK
<1>5. JournalsOK /\ ControlOK /\ SealedOK
  BY <1>0 DEF JournalsOK, JournalOK, NoWrite, ControlOK, SealedOK, Bare, Loaded, Working, Sealing, Cleaning
<1>6. FilesOK /\ HeldOK /\ KeptOK
  BY <1>0, NoFileIs DEF FilesOK, HeldOK, KeptOK, NoWrite, Loaded, Working, Sealing, Cleaning
<1>7. NoOrphanHole /\ CompletedIsWhole
  BY <1>0, NoFileIs DEF NoOrphanHole, CompletedIsWhole
<1>. QED BY <1>2, <1>3, <1>4, <1>5, <1>6, <1>7, InvParts DEF RestOK

LEMMA InvStep == Inv /\ [Next]_vars => Inv'
<1>. SUFFICES ASSUME Inv, [Next]_vars PROVE Inv'
  OBVIOUS
<1>1. CASE \/ RefuseWithoutJournal \/ StartSegmented \/ StartRecovery \/ StartSingle \/ Restart
           \/ LoadNothing
  BY <1>1, StartStep
<1>2. CASE RemovePart \/ RemoveMeta \/ RemoveBak \/ RemovalFails
  BY <1>2, RemovalStep
<1>3. CASE LoadPrimary
  BY <1>3, LoadPrimaryStep
<1>4. CASE LoadBackup
  BY <1>4, LoadBackupStep
<1>5. CASE LoadRefuses
  BY <1>5, RefuseLoadStep
<1>6. CASE FillQueue
  BY <1>6, FillStepOK
<1>7. CASE SideSwap
  BY <1>7, SwapStep
<1>8. CASE SidePut
  BY <1>8, PutStep
<1>9. CASE SideTidy
  BY <1>9, TidyStep
<1>10. CASE SideFails
  BY <1>10, SideFailsStep
<1>11. CASE Prepare
  BY <1>11, PrepareStep
<1>12. ASSUME NEW w \in Workers, Claim(w) PROVE Inv'
  BY <1>12, ClaimStep
<1>13. ASSUME NEW w \in Workers,
              \/ Request(w) \/ Receive(w) \/ Continue(w) \/ Leave(w) \/ Reconnect(w) \/ Halt(w)
       PROVE  Inv'
  BY <1>13, Walks, WalkStep
<1>14. ASSUME NEW w \in Workers,
              SaveProgress(w) \/ AskAgain(w) \/ Disconnect(w) \/ Refused(w) \/ Interrupt(w)
       PROVE  Inv'
  BY <1>14, SavesStep
<1>15. ASSUME NEW w \in Workers, TakeJournal(w) PROVE Inv'
  BY <1>15, TakeStep
<1>16. ASSUME NEW w \in Workers, Join(w) PROVE Inv'
  BY <1>16, JoinStep
<1>17. CASE Interfere \/ EntityChanges \/ Finished \/ \E w \in Workers : RaiseStop(w)
  BY <1>17, SignalStep
<1>18. CASE AllJoined
  BY <1>18, JoinedStep, EndStep
<1>19. CASE DrainEnds \/ RenameFails \/ Report \/ ConnectPastEnd \/ ConnectFails \/ SingleInterrupted \/ SingleFails
  BY <1>19, EndStep
<1>20. CASE SealMeta \/ SealBak \/ Rename
  BY <1>20, SealStep
<1>21. CASE Connect \/ SingleReceive \/ SingleDone
  BY <1>21, SingleStep
<1>22. CASE Crash
  BY <1>22, CrashStep
<1>23. CASE UNCHANGED vars
  <2>1. UNCHANGED <<entity, disk, ver>> /\ UNCHANGED <<row, phase, after, errors>>
        /\ UNCHANGED mem /\ UNCHANGED signal /\ Still
    BY <1>23 DEF vars, mem, row, Still
  <2>. QED BY <2>1, SameType, StillKeeps, InvParts
<1>. QED BY <1>1, <1>2, <1>3, <1>4, <1>5, <1>6, <1>7, <1>8, <1>9, <1>10, <1>11, <1>12, <1>13,
            <1>14, <1>15, <1>16, <1>17, <1>18, <1>19, <1>20, <1>21, <1>22, <1>23 DEF Next, Step

\* The variables keep their types, whatever is interrupted or fails where.
THEOREM TypeCorrect == Spec => []TypeOK
<1>1. Inv => TypeOK
  BY DEF Inv
<1>. QED BY <1>1, InitInv, InvStep, PTL DEF Spec

\* The journal in memory and its sidecar never claim a block that the partial
\* file does not hold in the journal's version: flush_and_record_segment_progress
\* writes before it records, and what interrupts it loses only what was not
\* recorded (unless a leftover journal met a file of one stream).
THEOREM JournalStaysBehind == Spec => []JournalBehindDisk
<1>1. ASSUME Inv PROVE JournalBehindDisk
  <2>1. ASSUME part.kind = "segmented", ~misled, NEW j \in {meta, [ver |-> ver, segs |-> segs]},
               NEW b \in Claims(j)
        PROVE  part.blk[b] = j.ver
    <3>1. Held(j)
      BY <2>1, <1>1 DEF Inv, HeldOK
    <3>2. PICK i \in DOMAIN j.segs : b \in Have(j.segs[i])
      BY DEF Claims
    <3>. QED BY <3>1, <3>2 DEF Held
  <2>. QED BY <2>1 DEF JournalBehindDisk
<1>. QED BY <1>1, InitInv, InvStep, PTL DEF Spec

\* The ranges in memory and in the sidecar tile the file, no two workers hold one
\* segment, and each has the current end of its own, however often
\* split_largest_pending_segment_by_halving and claim_largest_dynamic_segment
\* interleave.
THEOREM WorkStaysPartitioned == Spec => []WorkIsPartitioned
<1>1. ASSUME Inv PROVE WorkIsPartitioned
  <2>1. segs # <<>> => Tiles(segs)
    BY <1>1 DEF Inv, JournalsOK, Good
  <2>2. meta # NoJournal => Tiles(meta.segs)
    BY <1>1 DEF Inv, JournalsOK, JournalOK, Good
  <2>3. ASSUME NEW w \in Holders
        PROVE  /\ wk[w].seg \in active
               /\ wk[w].hi = segs[wk[w].seg].hi
               /\ \A v \in Holders \ {w} : wk[v].seg # wk[w].seg
    BY <1>1 DEF Inv, HoldersOK, HolderOK
  <2>. QED BY <2>1, <2>2, <2>3 DEF WorkIsPartitioned
<1>. QED BY <1>1, InitInv, InvStep, PTL DEF Spec

\* A file that got its final name has no hole, and one that was put together from
\* segments is of one version of the remote entity.
THEOREM CompletedStaysWhole == Spec => []CompletedIsWhole
<1>1. Inv => CompletedIsWhole
  BY DEF Inv
<1>. QED BY <1>1, InitInv, InvStep, PTL DEF Spec

\* A file of full length with a hole in it always has a journal or its backup
\* (persist_segment_state never leaves neither), unless the job was canceled.
THEOREM HolesAreKnown == Spec => []NoOrphanHole
<1>1. Inv => NoOrphanHole
  BY DEF Inv
<1>. QED BY <1>1, InitInv, InvStep, PTL DEF Spec

=============================================================================
