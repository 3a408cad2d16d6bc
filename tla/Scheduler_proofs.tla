-------------------------- MODULE Scheduler_proofs --------------------------
(***************************************************************************)
(* The scheduler, for any callers, parts and limits: one scheduler at a    *)
(* time, no forgotten wake, every step of the wake-up protocol a step of   *)
(* WakeContract (SchedulerWake); and passes that together never let more   *)
(* workers onto an origin than its mode allows (HosterFairness).           *)
(*                                                                         *)
(* The second part rests on the invariant FairInv.  The property counts    *)
(* workers by their slots, a pass by the health records: the invariant is  *)
(* that the records miss nobody but the workers whose job was paused or    *)
(* canceled under them.                                                    *)
(***************************************************************************)
EXTENDS SchedulerWake, HosterFairness, FiniteSetTheorems, WellFoundedInduction, TLAPS

(***************************************************************************)
(* The wake-up protocol.                                                   *)
(***************************************************************************)

(***************************************************************************)
(* The flags keep their types: nothing in request_scheduler_wake or        *)
(* complete_scheduler_run leaves SchedulerWakeState.                       *)
(***************************************************************************)
LEMMA WakeTypeCorrect == WakeSpec => []WakeTypeOK
<1>1. WakeInit => WakeTypeOK
  BY DEF WakeInit, WakeTypeOK
<1>2. WakeTypeOK /\ [WakeNext]_wakeVars => WakeTypeOK'
  BY DEF WakeTypeOK, WakeNext, wakeVars, RequestAbsorbed, RequestWins, Spawn, Claim,
         Complete, CompleteAgain, CompleteStop
<1>. QED  BY <1>1, <1>2, PTL DEF WakeSpec

-----------------------------------------------------------------------------
(***************************************************************************)
(* `running' is TRUE exactly while one scheduler exists or is about to be  *)
(* spawned.  The invariant is inductive by itself: a caller can only win   *)
(* when running is FALSE, hence when nobody else has won.                  *)
(***************************************************************************)
LEMMA OneSchedulerStep ==
  ASSUME WakeTypeOK, OneScheduler, [WakeNext]_wakeVars
  PROVE  OneScheduler'
<1>. USE DEF OneScheduler, Spawning, WakeTypeOK
<1>1. ASSUME NEW c \in Callers, RequestAbsorbed(c)
      PROVE  OneScheduler'
  BY <1>1 DEF RequestAbsorbed
<1>2. ASSUME NEW c \in Callers, RequestWins(c)
      PROVE  OneScheduler'
  <2>1. /\ Spawning = {}
        /\ runner = "none"
    BY <1>2 DEF RequestWins
  <2>2. Spawning' = {c}
    BY <1>2, <2>1 DEF RequestWins
  <2>. QED  BY <1>2, <2>1, <2>2 DEF RequestWins
<1>3. ASSUME NEW c \in Callers, Spawn(c)
      PROVE  OneScheduler'
  <2>1. Spawning = {c}
    BY <1>3 DEF Spawn
  <2>2. Spawning' = {}
    BY <1>3, <2>1 DEF Spawn
  <2>. QED  BY <1>3, <2>1, <2>2 DEF Spawn
<1>4. CASE Claim
  BY <1>4 DEF Claim
<1>5. CASE CompleteAgain
  BY <1>5 DEF CompleteAgain
<1>6. CASE CompleteStop
  BY <1>6 DEF CompleteStop
<1>7. CASE UNCHANGED wakeVars
  BY <1>7 DEF wakeVars
<1>. QED
  BY <1>1, <1>2, <1>3, <1>4, <1>5, <1>6, <1>7 DEF WakeNext, Complete

(***************************************************************************)
(* Two scheduling passes never claim from the queue at the same time: at   *)
(* most one run_scheduler_loop exists or is about to be spawned.           *)
(***************************************************************************)
THEOREM OneSchedulerAtATime == WakeSpec => []OneScheduler
<1>1. WakeInit => OneScheduler
  BY DEF WakeInit, OneScheduler, Spawning
<1>. QED  BY <1>1, OneSchedulerStep, WakeTypeCorrect, PTL DEF WakeSpec

-----------------------------------------------------------------------------
LEMMA NoForgottenWakeStep ==
  ASSUME WakeTypeOK, OneScheduler, NoForgottenWake, [WakeNext]_wakeVars
  PROVE  NoForgottenWake'
<1>. USE DEF NoForgottenWake, OneScheduler, Spawning, WakeTypeOK
<1>1. ASSUME NEW c \in Callers, RequestAbsorbed(c)
      PROVE  NoForgottenWake'
  BY <1>1 DEF RequestAbsorbed
<1>2. ASSUME NEW c \in Callers, RequestWins(c)
      PROVE  NoForgottenWake'
  BY <1>2 DEF RequestWins
<1>3. ASSUME NEW c \in Callers, Spawn(c)
      PROVE  NoForgottenWake'
  BY <1>3 DEF Spawn
<1>4. CASE Claim
  BY <1>4 DEF Claim
<1>5. CASE CompleteAgain
  BY <1>5 DEF CompleteAgain
<1>6. CASE CompleteStop
  BY <1>6 DEF CompleteStop
<1>7. CASE UNCHANGED wakeVars
  BY <1>7 DEF wakeVars
<1>. QED
  BY <1>1, <1>2, <1>3, <1>4, <1>5, <1>6, <1>7 DEF WakeNext, Complete

(***************************************************************************)
(* A request of schedule_downloads that no claim has covered yet still has *)
(* a claim ahead of it.                                                    *)
(***************************************************************************)
THEOREM WakeNeverForgotten == WakeSpec => []NoForgottenWake
<1>1. WakeInit => NoForgottenWake
  BY DEF WakeInit, NoForgottenWake
<1>. QED
  BY <1>1, NoForgottenWakeStep, WakeTypeCorrect, OneSchedulerAtATime, PTL DEF WakeSpec

-----------------------------------------------------------------------------
(***************************************************************************)
(* Step simulation: a request is an Ask, a claim that covers somebody is a *)
(* Sweep, and every other step of the protocol is invisible to callers.    *)
(***************************************************************************)
THEOREM SafeContract == WakeSpec => Contract!Init /\ [][Contract!Next]_owed
<1>1. WakeInit => Contract!Init
  BY DEF WakeInit, Contract!Init
<1>2. WakeTypeOK /\ [WakeNext]_wakeVars => [Contract!Next]_owed
  <2>. SUFFICES ASSUME WakeTypeOK, [WakeNext]_wakeVars
                PROVE  Contract!Next \/ UNCHANGED owed
    OBVIOUS
  <2>1. ASSUME NEW c \in Callers, RequestAbsorbed(c) \/ RequestWins(c)
        PROVE  Contract!Next
    BY <2>1 DEF RequestAbsorbed, RequestWins, Contract!Next, Contract!Ask
  <2>2. ASSUME NEW c \in Callers, Spawn(c)
        PROVE  UNCHANGED owed
    BY <2>2 DEF Spawn
  <2>3. CASE Claim
    BY <2>3 DEF Claim, Contract!Next, Contract!Sweep
  <2>4. CASE Complete
    BY <2>4 DEF Complete, CompleteAgain, CompleteStop
  <2>5. CASE UNCHANGED wakeVars
    BY <2>5 DEF wakeVars
  <2>. QED  BY <2>1, <2>2, <2>3, <2>4, <2>5 DEF WakeNext
<1>. QED  BY <1>1, <1>2, WakeTypeCorrect, PTL DEF WakeSpec

-----------------------------------------------------------------------------
(***************************************************************************)
(* Induction over the natural numbers: every set of them has a least       *)
(* element, so a set with 0 that is closed under successor has them all.   *)
(***************************************************************************)

LEMMA LeastOf ==
    ASSUME NEW T \in SUBSET Nat, T # {}
    PROVE  \E x \in T : \A y \in T : x <= y
<1>1. IsWellFoundedOn(OpToRel(<, Nat), Nat)
  BY NatLessThanWellFounded, Zenon
<1>2. PICK x \in T : \A y \in T : ~ (<<y, x>> \in OpToRel(<, Nat))
  BY <1>1, WFMin, Zenon
<1>3. ASSUME NEW y \in T, ~ (x <= y) PROVE FALSE
  <2>1. x \in Nat /\ y \in Nat
    OBVIOUS
  <2>2. y < x
    BY <1>3, <2>1
  <2>3. <<y, x>> \in {ss \in Nat \X Nat : ss[1] < ss[2]}
    BY <2>1, <2>2
  <2>4. <<y, x>> \in OpToRel(<, Nat)
    BY <2>3, Zenon DEF OpToRel
  <2>. QED BY <2>4, <1>2, Zenon
<1>. QED BY <1>3

LEMMA Induct ==
    ASSUME NEW n \in Nat, NEW S, 0 \in S, \A k \in 0..n-1 : k \in S => k + 1 \in S
    PROVE  0..n \subseteq S
<1>. SUFFICES ASSUME ~(0..n \subseteq S) PROVE FALSE
  OBVIOUS
<1>. DEFINE T == (0..n) \ S
<1>1. T \in SUBSET Nat /\ T # {}
  OBVIOUS
<1>2. \A k \in T : k \in 0..n /\ k \notin S
  OBVIOUS
<1>3. \A k \in 0..n : k \notin S => k \in T
  OBVIOUS
<1>. HIDE DEF T
<1>4. PICK x \in T : \A y \in T : x <= y
  BY <1>1, LeastOf
<1>5. x # 0 /\ x - 1 \in 0..n-1 /\ x \in 0..n
  BY <1>2
<1>6. x - 1 \in S
  BY <1>5, <1>4, <1>3
<1>7. (x - 1) + 1 \in S
  BY <1>5, <1>6
<1>. QED BY <1>7, <1>5, <1>2

\* Min of a set of numbers is one of them.
LEMMA MinIsIn ==
    ASSUME NEW T \in SUBSET Nat, T # {}
    PROVE  Min(T) \in T
BY LeastOf DEF Min

-----------------------------------------------------------------------------
PartCount == Len(Archive)

\* Jobs are numbers, finitely many, and their ranks are numbers too.
LEMMA Parts ==
    /\ PartCount \in Nat /\ Jobs = 1..PartCount /\ Jobs \subseteq Nat
    /\ IsFiniteSet(Jobs) /\ Cardinality(Jobs) = PartCount
    /\ \A j \in Jobs : Rank[j] \in Nat
<1>1. PartCount \in Nat
  BY PartsAssumption DEF PartCount
<1>2. Jobs = 1..PartCount
  BY DEF Jobs, PartCount
<1>3. IsFiniteSet(Jobs) /\ Cardinality(Jobs) = PartCount
  BY <1>1, <1>2, FS_Interval
<1>. QED BY <1>1, <1>2, <1>3, PartsAssumption

GroupHead(j) == Min(Members(Archive[j]))

\* A group stands where one of its own members stands.
LEMMA HeadOfGroup ==
    ASSUME NEW j \in Jobs
    PROVE  GroupHead(j) \in Jobs /\ Archive[GroupHead(j)] = Archive[j]
<1>1. Members(Archive[j]) \in SUBSET Nat /\ j \in Members(Archive[j])
  BY Parts DEF Members
<1>2. Min(Members(Archive[j])) \in Members(Archive[j])
  BY <1>1, MinIsIn
<1>. QED BY <1>2 DEF Members, GroupHead

\* The order of the groups, and of the parts in them, is total.
LEMMA PrecedesIsTotal ==
    /\ \A j, k \in Jobs : Precedes(j, k) \/ Precedes(k, j) \/ j = k
    /\ \A j \in Jobs : ~Precedes(j, j)
    /\ \A i, j, k \in Jobs : Precedes(i, j) /\ Precedes(j, k) => Precedes(i, k)
<1>1. \A j, k : Precedes(j, k) <=>
          GroupHead(j) < GroupHead(k) \/ (GroupHead(j) = GroupHead(k) /\ Rank[j] < Rank[k])
  BY DEF Precedes, GroupHead
<1>2. \A j \in Jobs : GroupHead(j) \in Nat /\ Rank[j] \in Nat /\ Archive[GroupHead(j)] = Archive[j]
  BY HeadOfGroup, Parts
<1>3. \A j, k \in Jobs : GroupHead(j) = GroupHead(k) /\ Rank[j] = Rank[k] => j = k
  BY <1>2, PartsAssumption
<1>. QED BY <1>1, <1>2, <1>3

\* The place of a job in the order.
Place(j) == Cardinality({k \in Jobs : Precedes(k, j)}) + 1

\* Places are numbers of jobs, and grow along the order.
LEMMA Places ==
    /\ \A j \in Jobs : Place(j) \in Jobs
    /\ \A j, k \in Jobs : Precedes(j, k) => Place(j) < Place(k)
<1>. DEFINE Ahead(j) == {k \in Jobs : Precedes(k, j)}
<1>0. \A j : Place(j) = Cardinality(Ahead(j)) + 1
  BY DEF Place
<1>1. ASSUME NEW j \in Jobs
      PROVE  IsFiniteSet(Ahead(j)) /\ Cardinality(Ahead(j)) \in Nat
  BY Parts, FS_Subset, FS_CardinalityType
<1>2. ASSUME NEW j \in Jobs PROVE Place(j) \in Jobs
  <2>1. Ahead(j) \subseteq Jobs \ {j}
    BY PrecedesIsTotal
  <2>2. IsFiniteSet(Jobs \ {j}) /\ Cardinality(Jobs \ {j}) = PartCount - 1
    BY Parts, FS_RemoveElement
  <2>3. Cardinality(Ahead(j)) <= PartCount - 1
    BY <2>1, <2>2, FS_Subset
  <2>. HIDE DEF Ahead
  <2>4. Cardinality(Ahead(j)) + 1 \in 1..PartCount
    BY <2>3, <1>1, Parts
  <2>. QED BY <2>4, <1>0, Parts
<1>3. ASSUME NEW j \in Jobs, NEW k \in Jobs, Precedes(j, k) PROVE Place(j) < Place(k)
  <2>1. Ahead(j) \cup {j} \subseteq Ahead(k)
    BY <1>3, PrecedesIsTotal
  <2>2. j \notin Ahead(j)
    BY PrecedesIsTotal
  <2>3. Cardinality(Ahead(j) \cup {j}) = Cardinality(Ahead(j)) + 1
    BY <2>2, <1>1, FS_AddElement
  <2>4. Cardinality(Ahead(j) \cup {j}) <= Cardinality(Ahead(k))
    BY <2>1, <1>1, FS_Subset
  <2>. HIDE DEF Ahead
  <2>. QED BY <2>3, <2>4, <1>0, <1>1
<1>. QED BY <1>2, <1>3

\* Counting who comes before whom sorts the jobs: the order the pass walks exists.
LEMMA OrderExists ==
    /\ Order \in [Jobs -> Jobs]
    /\ \A i, k \in Jobs : i < k => Precedes(Order[i], Order[k])
<1>. DEFINE f == [j \in Jobs |-> Place(j)]
            s == [i \in Jobs |-> CHOOSE j \in Jobs : Place(j) = i]
<1>1. f \in Injection(Jobs, Jobs)
  <2>1. \A j \in Jobs : f[j] = Place(j) /\ Place(j) \in Nat
    BY Places, Parts
  <2>2. \A j, k \in Jobs : f[j] = f[k] => j = k
    BY <2>1, Places, PrecedesIsTotal
  <2>. QED BY <2>2, Places DEF Injection, IsInjective
<1>2. f \in Surjection(Jobs, Jobs)
  BY <1>1, FS_Injection, Parts
<1>3. \A i \in Jobs : \E j \in Jobs : Place(j) = i
  BY <1>2 DEF Surjection
<1>4. \A i \in Jobs : s[i] \in Jobs /\ Place(s[i]) = i
  BY <1>3
<1>5. s \in [Jobs -> Jobs]
  BY <1>4
<1>6. ASSUME NEW i \in Jobs, NEW k \in Jobs, i < k PROVE Precedes(s[i], s[k])
  <2>1. s[i] # s[k] /\ ~(Place(s[k]) < Place(s[i]))
    BY <1>4, <1>6, Parts
  <2>. QED BY <2>1, <1>4, Places, PrecedesIsTotal
<1>. HIDE DEF s
<1>. QED BY <1>5, <1>6 DEF Order

-----------------------------------------------------------------------------
(***************************************************************************)
(* A pass picks at most what the ceiling leaves.                           *)
(***************************************************************************)

\* The rounds of a pass: what Picked computes, as a predicate.

Fold(g, n, order, m, target, near) ==
    g = [k \in 0..n |-> IF k = 0 THEN [picked |-> {}, held |-> FALSE, shut |-> FALSE]
                        ELSE Consider(g[k-1], order[k], m, target, near)]

\* The rounds of a pass exist, by induction on their number.
LEMMA FoldExists ==
    ASSUME NEW order, NEW m, NEW target, NEW near, NEW n \in Nat
    PROVE  \E g : Fold(g, n, order, m, target, near)
<1>. DEFINE none == [picked |-> {}, held |-> FALSE, shut |-> FALSE]
            next(acc, j) == Consider(acc, j, m, target, near)
            Run(g, i) == g = [k \in 0..i |-> IF k = 0 THEN none ELSE next(g[k-1], order[k])]
            S == {i \in 0..n : \E g : Run(g, i)}
<1>0. \A g : Run(g, n) => Fold(g, n, order, m, target, near)
  BY DEF Fold
<1>. HIDE DEF none, next
<1>1. \E g : Run(g, 0)
  <2>1. [k \in 0..0 |-> none] =
          [k \in 0..0 |-> IF k = 0 THEN none ELSE next([i \in 0..0 |-> none][k-1], order[k])]
    OBVIOUS
  <2>. QED BY <2>1
<1>2. ASSUME NEW i \in 0..n-1, NEW g, Run(g, i) PROVE \E e : Run(e, i + 1)
  <2>. DEFINE e == [k \in 0..i+1 |-> IF k = i + 1 THEN next(g[i], order[i+1]) ELSE g[k]]
  <2>1. ASSUME NEW k \in 0..i+1
        PROVE  e[k] = IF k = 0 THEN none ELSE next(e[k-1], order[k])
    <3>1. CASE k = i + 1
      <4>1. e[k] = next(g[i], order[k]) /\ e[k-1] = g[i] /\ k # 0
        BY <3>1
      <4>. QED BY <4>1
    <3>2. CASE k # i + 1
      <4>1. k \in 0..i /\ e[k] = g[k]
        BY <3>2
      <4>2. g[k] = IF k = 0 THEN none ELSE next(g[k-1], order[k])
        BY <4>1, <1>2
      <4>3. k # 0 => e[k-1] = g[k-1]
        BY <4>1
      <4>. HIDE DEF e
      <4>. QED BY <4>1, <4>2, <4>3
    <3>. QED BY <3>1, <3>2
  <2>2. e = [k \in 0..i+1 |-> e[k]]
    OBVIOUS
  <2>. HIDE DEF e
  <2>. QED BY <2>1, <2>2
<1>. HIDE DEF Run
<1>3. 0 \in S /\ \A i \in 0..n-1 : i \in S => i + 1 \in S
  BY <1>1, <1>2
<1>. HIDE DEF S
<1>4. n \in S
  BY <1>3, Induct
<1>. QED BY <1>4, <1>0 DEF S

\* What a round of the pass has picked: queued jobs without a slot, so many
\* that those counted and those picked stay within the ceiling.
Within(acc, m) ==
    /\ acc = [picked |-> acc.picked, held |-> acc.held, shut |-> acc.shut]
    /\ acc.picked \subseteq {j \in Jobs : state[j] = "Queued" /\ j \notin slot}
    /\ acc.picked = {} \/ m.count + Cardinality(acc.picked) <= Ceiling

\* The targets a pass may have.
Targets == IF mode = "Off" THEN {SlotLimit} ELSE IF mode = "Safe" THEN {1} ELSE 1..MaxTarget

\* The code's limits are positive.
LEMMA Limits == SlotLimit \in Nat \ {0} /\ AdaptiveLimit \in Nat \ {0} /\ MaxTarget \in Nat \ {0}
BY PolicyAssumption DEF SlotLimit, AdaptiveLimit, MaxTarget, Least, Greatest

\* No window is larger than the ceiling, rescued archives' included.
LEMMA WindowsFit ==
    ASSUME mode \in {"Off", "Safe", "Adaptive"}, NEW target \in Targets, NEW a, NEW m
    PROVE  WindowSize(a, m, target) \in Nat /\ WindowSize(a, m, target) <= Ceiling
<1>1. Rescued(a, m, target) => mode = "Adaptive" /\ fast
  BY DEF Rescued
<1>2. fast => AdaptiveLimit = FastLimit
  BY DEF AdaptiveLimit
<1>3. FastLimit \in Nat \ {0}
  BY PolicyAssumption
<1>4. MaxTarget = Least(SlotLimit, AdaptiveLimit)
  BY DEF MaxTarget
<1>. DEFINE SL == SlotLimit  MT == MaxTarget R == Rescued(a, m, target)
<1>. SUFFICES LET w == Least(SL, IF R THEN FastLimit ELSE target)
              IN  w \in Nat /\ w <= Ceiling
  BY DEF WindowSize
<1>5. SL \in Nat \ {0} /\ MT \in Nat \ {0} /\ AdaptiveLimit \in Nat \ {0} /\ MT <= SL
  BY Limits, <1>4 DEF Least
<1>6. R => MT = Least(SL, FastLimit)
  BY <1>1, <1>2, <1>4
<1>7. Ceiling = IF mode = "Off" THEN SL ELSE IF mode = "Safe" THEN 1 ELSE MT
  BY DEF Ceiling
<1>8. target \in IF mode = "Off" THEN {SL} ELSE IF mode = "Safe" THEN {1} ELSE 1..MT
  BY DEF Targets
<1>9. R => mode = "Adaptive"
  BY <1>1
<1>. HIDE DEF SL, MT, R
<1>. QED BY <1>3, <1>5, <1>6, <1>7, <1>8, <1>9 DEF Least

\* A round given by its parts.
LEMMA WithinFields ==
    ASSUME NEW p, NEW h, NEW t, NEW acc, acc = [picked |-> p, held |-> h, shut |-> t], NEW m,
           p \subseteq {j \in Jobs : state[j] = "Queued" /\ j \notin slot},
           p = {} \/ m.count + Cardinality(p) <= Ceiling
    PROVE  Within(acc, m)
<1>1. acc.picked = p /\ acc.held = h /\ acc.shut = t
  OBVIOUS
<1>. QED BY <1>1 DEF Within

\* One job of the pass: it is picked only below the size of its window.
LEMMA ConsiderKeeps ==
    ASSUME mode \in {"Off", "Safe", "Adaptive"}, NEW m, m.count \in Nat, NEW target \in Targets,
           NEW near, NEW acc, Within(acc, m), NEW j \in Jobs
    PROVE  Within(Consider(acc, j, m, target, near), m)
<1>. DEFINE new == Consider(acc, j, m, target, near)
            size == WindowSize(Archive[j], m, target)
<1>1. \/ new = acc
      \/ new = [acc EXCEPT !.held = TRUE]
      \/ new = [acc EXCEPT !.shut = fast]
      \/ /\ new = [acc EXCEPT !.picked = @ \cup {j}]
         /\ state[j] = "Queued" /\ j \notin slot
         /\ ~(m.count + Cardinality(acc.picked) >= size)
  BY DEF Consider
<1>2. size \in Nat /\ size <= Ceiling /\ Ceiling \in Nat
  BY WindowsFit, Limits DEF Ceiling
<1>3. IsFiniteSet(acc.picked) /\ Cardinality(acc.picked) \in Nat
  BY Parts, FS_Subset, FS_CardinalityType DEF Within
<1>4. CASE new = acc
  BY <1>4
<1>8. /\ acc.picked \subseteq {i \in Jobs : state[i] = "Queued" /\ i \notin slot}
      /\ acc.picked = {} \/ m.count + Cardinality(acc.picked) <= Ceiling
  BY DEF Within
<1>5. CASE new = [acc EXCEPT !.held = TRUE]
  <2>1. new = [picked |-> acc.picked, held |-> TRUE, shut |-> acc.shut]
    BY <1>5 DEF Within
  <2>. SUFFICES Within(new, m)
    OBVIOUS
  <2>. HIDE DEF new
  <2>. QED BY <2>1, <1>8, WithinFields
<1>6. CASE new = [acc EXCEPT !.shut = fast]
  <2>1. new = [picked |-> acc.picked, held |-> acc.held, shut |-> fast]
    BY <1>6 DEF Within
  <2>. SUFFICES Within(new, m)
    OBVIOUS
  <2>. HIDE DEF new
  <2>. QED BY <2>1, <1>8, WithinFields
<1>7. CASE /\ new = [acc EXCEPT !.picked = @ \cup {j}]
           /\ state[j] = "Queued" /\ j \notin slot
           /\ ~(m.count + Cardinality(acc.picked) >= size)
  <2>1. new = [picked |-> acc.picked \cup {j}, held |-> acc.held, shut |-> acc.shut]
    BY <1>7 DEF Within
  <2>. SUFFICES Within(new, m)
    OBVIOUS
  <2>. HIDE DEF new, size
  <2>2. Cardinality(acc.picked \cup {j}) =
          IF j \in acc.picked THEN Cardinality(acc.picked) ELSE Cardinality(acc.picked) + 1
    BY <1>3, FS_AddElement
  <2>3. m.count + Cardinality(acc.picked \cup {j}) <= Ceiling
    BY <2>2, <1>7, <1>2, <1>3
  <2>4. acc.picked \cup {j} \subseteq {i \in Jobs : state[i] = "Queued" /\ i \notin slot}
    BY <1>7, <1>8
  <2>. QED BY <2>1, <2>3, <2>4, WithinFields
<1>. QED BY <1>1, <1>4, <1>5, <1>6, <1>7

\* The whole pass, by induction over its rounds.
LEMMA PickedFits ==
    ASSUME mode \in {"Off", "Safe", "Adaptive"}, NEW m, m.count \in Nat, NEW target \in Targets,
           NEW near, NEW picked, picked = Picked(m, target, near)
    PROVE  /\ picked \subseteq {j \in Jobs : state[j] = "Queued" /\ j \notin slot}
           /\ picked = {} \/ m.count + Cardinality(picked) <= Ceiling
<1>. DEFINE none == [picked |-> {}, held |-> FALSE, shut |-> FALSE]
            order == Order
            round == CHOOSE g : Fold(g, PartCount, order, m, target, near)
            S == {i \in 0..PartCount : Within(round[i], m)}
<1>1. order \in [Jobs -> Jobs]
  BY OrderExists
<1>2. picked = round[PartCount].picked
  BY DEF Picked, Fold, PartCount
<1>. HIDE DEF order
<1>3. Fold(round, PartCount, order, m, target, near)
  BY FoldExists, Parts
<1>. HIDE DEF round
<1>4. /\ round[0] = none
      /\ \A i \in 1..PartCount : round[i] = Consider(round[i-1], order[i], m, target, near)
  <2>. DEFINE f(k) == IF k = 0 THEN none ELSE Consider(round[k-1], order[k], m, target, near)
  <2>1. round = [k \in 0..PartCount |-> f(k)]
    BY <1>3 DEF Fold
  <2>2. \A k \in 0..PartCount : round[k] = f(k)
    <3>. HIDE DEF f
    <3>. QED BY <2>1, Zenon
  <2>3. 0 \in 0..PartCount /\ \A i \in 1..PartCount : i \in 0..PartCount /\ i # 0
    BY Parts
  <2>. QED BY <2>2, <2>3
<1>5. 0 \in S
  BY <1>4, Parts DEF Within
<1>6. ASSUME NEW i \in 0..PartCount-1, i \in S PROVE i + 1 \in S
  <2>1. i + 1 \in 1..PartCount /\ (i + 1) - 1 = i /\ order[i + 1] \in Jobs
    BY <1>1, Parts
  <2>2. round[i + 1] = Consider(round[i], order[i + 1], m, target, near)
    BY <1>4, <2>1
  <2>3. Within(round[i + 1], m)
    BY <2>1, <2>2, <1>6, ConsiderKeeps
  <2>. QED BY <2>1, <2>3, Parts
<1>7. Within(round[PartCount], m)
  <2>. HIDE DEF S
  <2>1. 0..PartCount \subseteq S
    BY <1>5, <1>6, Induct, Parts
  <2>. QED BY <2>1, Parts DEF S
<1>. QED BY <1>2, <1>7 DEF Within

-----------------------------------------------------------------------------
(***************************************************************************)
(* The sum of the speeds of a set of workers is a number.                  *)
(***************************************************************************)

Pick(s) == CHOOSE x \in s : TRUE

Sums(g, D) ==
    g = [s \in D |-> IF s = {} THEN 0 ELSE health[Pick(s)].speed + g[s \ {Pick(s)}]]

\* The library's sum is the value of the first recursion at the whole set.
LEMMA SumByFold ==
    ASSUME NEW T, NEW n, n = MapThenSumSet(LAMBDA j : health[j].speed, T)
    PROVE  n = (CHOOSE g : Sums(g, SUBSET T))[T]
BY DEF MapThenSumSet, MapThenFoldSet, Sums, Pick

Sized(T, k) == {s \in SUBSET T : Cardinality(s) <= k}

\* Subsets of a finite set by size; a set without its picked element is one smaller.
LEMMA Smaller ==
    ASSUME NEW T, IsFiniteSet(T)
    PROVE  /\ Sized(T, Cardinality(T)) = SUBSET T
           /\ \A s \in SUBSET T : Cardinality(s) \in Nat /\ (Cardinality(s) = 0 <=> s = {})
           /\ \A s \in SUBSET T : s # {} =>
                /\ Pick(s) \in s /\ s \ {Pick(s)} \in SUBSET T
                /\ Cardinality(s \ {Pick(s)}) = Cardinality(s) - 1
<1>1. \A s \in SUBSET T :
          IsFiniteSet(s) /\ Cardinality(s) <= Cardinality(T) /\ Cardinality(s) \in Nat
  BY FS_Subset, FS_CardinalityType
<1>2. Sized(T, Cardinality(T)) = SUBSET T
  BY <1>1 DEF Sized
<1>3. \A s \in SUBSET T : Cardinality(s) = 0 <=> s = {}
  BY <1>1, FS_EmptySet
<1>4. ASSUME NEW s \in SUBSET T, s # {}
      PROVE  /\ Pick(s) \in s /\ s \ {Pick(s)} \in SUBSET T
             /\ Cardinality(s \ {Pick(s)}) = Cardinality(s) - 1
  <2>1. Pick(s) \in s
    BY <1>4 DEF Pick
  <2>. QED BY <2>1, <1>1, FS_RemoveElement
<1>. QED BY <1>1, <1>2, <1>3, <1>4

\* The recursion over subsets has a solution, by induction on their size.
LEMMA SumsExist ==
    ASSUME NEW T, IsFiniteSet(T)
    PROVE  \E g : Sums(g, SUBSET T)
<1>. DEFINE n == Cardinality(T)
            D(k) == Sized(T, k)
            value(g, s) == IF s = {} THEN 0 ELSE health[Pick(s)].speed + g[s \ {Pick(s)}]
            Run(g, k) == g = [s \in D(k) |-> value(g, s)]
            S == {k \in 0..n : \E g : Run(g, k)}
<1>0. n \in Nat /\ D(n) = SUBSET T
  BY FS_CardinalityType, Smaller
<1>1. \E g : Run(g, 0)
  <2>. DEFINE g == [s \in D(0) |-> 0]
  <2>1. \A s \in D(0) : s = {}
    BY Smaller DEF Sized
  <2>. HIDE DEF D
  <2>2. Run(g, 0)
    BY <2>1
  <2>. QED BY <2>2
<1>2. ASSUME NEW k \in 0..n-1, NEW g, Run(g, k) PROVE \E e : Run(e, k + 1)
  <2>. DEFINE e == [s \in D(k+1) |-> IF s \in D(k) THEN g[s] ELSE value(g, s)]
  <2>0. D(k) \subseteq D(k+1)
    BY Smaller, <1>0 DEF Sized
  <2>1. \A s \in D(k+1) : s # {} => s \ {Pick(s)} \in D(k) /\ s \ {Pick(s)} \in D(k+1)
    BY Smaller, <1>0 DEF Sized
  <2>. HIDE DEF D
  <2>2. ASSUME NEW s \in D(k+1) PROVE e[s] = value(e, s)
    <3>1. s # {} => e[s \ {Pick(s)}] = g[s \ {Pick(s)}]
      BY <2>1
    <3>2. value(e, s) = value(g, s)
      <4>. HIDE DEF e
      <4>. QED BY <3>1
    <3>3. s \in D(k) => g[s] = value(g, s)
      <4>. HIDE DEF value
      <4>. QED BY <1>2
    <3>4. e[s] = value(g, s)
      <4>. HIDE DEF value
      <4>. QED BY <3>3
    <3>. QED BY <3>2, <3>4
  <2>3. e = [s \in D(k+1) |-> e[s]]
    OBVIOUS
  <2>. HIDE DEF e, value
  <2>. QED BY <2>2, <2>3
<1>. HIDE DEF Run
<1>3. 0 \in S /\ \A k \in 0..n-1 : k \in S => k + 1 \in S
  BY <1>1, <1>2, <1>0
<1>. HIDE DEF S, n
<1>4. n \in S
  BY <1>3, <1>0, Induct
<1>5. \E g : Run(g, n)
  BY <1>4 DEF S
<1>. QED BY <1>5, <1>0 DEF Run, Sums

\* A sum of numbers is a number.
LEMMA SumIsNat ==
    ASSUME NEW T, IsFiniteSet(T), \A j \in T : health[j].speed \in Nat
    PROVE  MapThenSumSet(LAMBDA j : health[j].speed, T) \in Nat
<1>. DEFINE g == CHOOSE g : Sums(g, SUBSET T)
            n == Cardinality(T)
            S == {k \in 0..n : \A s \in Sized(T, k) : g[s] \in Nat}
<1>0. n \in Nat
  BY FS_CardinalityType
<1>1. Sums(g, SUBSET T)
  BY SumsExist
<1>2. MapThenSumSet(LAMBDA j : health[j].speed, T) = g[T]
  BY SumByFold
<1>. HIDE DEF g, n
<1>3. \A s \in SUBSET T : g[s] = IF s = {} THEN 0 ELSE health[Pick(s)].speed + g[s \ {Pick(s)}]
  BY <1>1 DEF Sums
<1>4. 0 \in S
  BY <1>0, <1>3, Smaller DEF Sized
<1>5. ASSUME NEW k \in 0..n-1, k \in S PROVE k + 1 \in S
  <2>1. ASSUME NEW s \in Sized(T, k+1) PROVE g[s] \in Nat
    <3>1. s \in SUBSET T /\ Cardinality(s) <= k + 1 /\ Cardinality(s) \in Nat
      BY Smaller DEF Sized
    <3>2. CASE s = {}
      BY <3>1, <3>2, <1>3
    <3>3. CASE s # {}
      <4>1. Pick(s) \in T /\ s \ {Pick(s)} \in Sized(T, k)
        BY <3>1, <3>3, Smaller, <1>0 DEF Sized
      <4>2. g[s \ {Pick(s)}] \in Nat
        BY <4>1, <1>5
      <4>3. g[s] = health[Pick(s)].speed + g[s \ {Pick(s)}]
        BY <3>1, <3>3, <1>3
      <4>4. health[Pick(s)].speed \in Nat
        BY <4>1
      <4>. QED BY <4>2, <4>3, <4>4
    <3>. QED BY <3>2, <3>3
  <2>. QED BY <2>1, <1>0
<1>6. n \in S
  <2>. HIDE DEF S
  <2>. QED BY <1>0, <1>4, <1>5, Induct
<1>7. T \in Sized(T, n)
  BY Smaller DEF n
<1>. QED BY <1>2, <1>6, <1>7

-----------------------------------------------------------------------------
(***************************************************************************)
(* The invariant.  A worker that is not counted by a health record is one  *)
(* whose job was paused or canceled while it ran; everybody else with a    *)
(* slot runs its job and has a record.                                     *)
(***************************************************************************)

Live(h) == h \in HealthRecords /\ h.age >= 0 /\ h.idle >= 0 /\ h.good >= 0
           /\ h.steps >= 0 /\ h.speed >= 0

Controllers == [target : 0..MaxTarget, base : {n \in Int : n >= None},
                slow : Ages(Window), cool : 0..Cooldown]

Typed ==
    /\ mode \in {"Off", "Safe", "Adaptive"} /\ fast \in BOOLEAN
    /\ state \in [Jobs -> States]
    /\ slot \subseteq Jobs /\ deferred \subseteq Jobs
    /\ revived \subseteq Jobs /\ unseen \subseteq Jobs
    /\ wake \in BOOLEAN /\ quiet \in BOOLEAN /\ left \in Nat

HealthOK ==
    /\ health \in [Jobs -> HealthRecords]
    /\ \A j \in Jobs : health[j] = NoHealth \/ (j \in slot /\ Live(health[j]))

Counted == slot \ (revived \cup unseen)

CountOK ==
    /\ \A j \in Counted : state[j] \in Running /\ health[j] # NoHealth
    /\ Cardinality(Counted) <= Ceiling

FairInv == Typed /\ HealthOK /\ ctl \in Controllers /\ CountOK

\* The records the model starts from.
LEMMA NoHealthTyped == NoHealth \in HealthRecords
BY PolicyAssumption DEF NoHealth, HealthRecords, Ages, Old, None

LEMMA ClaimedLive == Live(Claimed) /\ Claimed # NoHealth
BY PolicyAssumption DEF Claimed, NoHealth, Live, HealthRecords, Ages, Old, None

LEMMA LiveIsHealth == \A h : Live(h) => h # NoHealth
BY DEF Live, NoHealth, None

LEMMA NoControllerTyped == NoController \in Controllers
BY PolicyAssumption, Limits DEF NoController, Controllers, Ages, None

\* The invariant is as strong as the types and the property.
LEMMA InvImplies == FairInv => TypeOK /\ OriginWithinCeiling
<1>. SUFFICES ASSUME FairInv PROVE TypeOK /\ OriginWithinCeiling
  OBVIOUS
<1>. USE DEF FairInv
<1>1. TypeOK
  BY DEF TypeOK, Typed, HealthOK, Controllers
<1>2. {j \in slot : state[j] \in Running} \ (revived \cup unseen) = Counted
  BY DEF CountOK, Counted
<1>3. OriginWithinCeiling
  BY <1>2 DEF OriginWithinCeiling, CountOK
<1>. QED BY <1>1, <1>3

\* It holds before any worker runs.
LEMMA InvInit == Init => FairInv
<1>. SUFFICES ASSUME Init PROVE FairInv
  OBVIOUS
<1>1. Typed
  BY PolicyAssumption DEF Init, Typed, States, Ended, Running
<1>2. HealthOK
  BY NoHealthTyped DEF Init, HealthOK
<1>3. Counted = {} /\ Ceiling \in Nat
  BY <1>1, Limits DEF Init, Counted, Ceiling, Typed
<1>4. CountOK
  BY <1>3, FS_EmptySet DEF CountOK
<1>. QED BY <1>1, <1>2, <1>4, NoControllerTyped DEF FairInv, Init

-----------------------------------------------------------------------------
(***************************************************************************)
(* Health records.  Fields get names of their own before they are updated. *)
(***************************************************************************)

\* A health record is the record of its fields.
LEMMA HealthFields ==
    ASSUME NEW h \in HealthRecords
    PROVE  /\ h = [moving |-> h.moving, age |-> h.age, idle |-> h.idle, low |-> h.low,
                   good |-> h.good, fresh |-> h.fresh, steps |-> h.steps, speed |-> h.speed]
           /\ h.moving \in BOOLEAN /\ h.age \in None..Window /\ h.idle \in None..Window+1
           /\ h.low \in None..Window /\ h.good \in None..FastSamples
           /\ h.fresh \in None..Window+1 /\ h.steps \in None..FastSteps
           /\ h.speed \in None..MaxSpeed
BY DEF HealthRecords, Ages, Old

\* A worker's record, given by its fields.
LEMMA LiveFields ==
    ASSUME NEW h, NEW mv \in BOOLEAN, NEW a \in 0..Window, NEW i \in 0..Window+1,
           NEW l \in None..Window, NEW g \in 0..FastSamples, NEW f \in None..Window+1,
           NEW st \in 0..FastSteps, NEW sp \in 0..MaxSpeed,
           h = [moving |-> mv, age |-> a, idle |-> i, low |-> l, good |-> g, fresh |-> f,
                steps |-> st, speed |-> sp]
    PROVE  Live(h)
BY PolicyAssumption DEF Live, HealthRecords, Ages, Old, None

Record(mv, a, i, l, g, f, st, sp) ==
    [moving |-> mv, age |-> a, idle |-> i, low |-> l, good |-> g, fresh |-> f,
     steps |-> st, speed |-> sp]

\* EXCEPT on a record with names for its fields.
LEMMA AllFieldsSet ==
    ASSUME NEW mv, NEW a, NEW i, NEW l, NEW g, NEW f, NEW st, NEW sp,
           NEW h, h = Record(mv, a, i, l, g, f, st, sp), NEW new, new = Transferring(h)
    PROVE  new = Record(TRUE, 0, 0, 0, 0, None, 0, 0)
BY DEF Transferring, Record

LEMMA SomeFieldsSet ==
    ASSUME NEW mv, NEW a, NEW i, NEW l, NEW g, NEW f, NEW st, NEW sp,
           NEW h, h = Record(mv, a, i, l, g, f, st, sp),
           NEW i2, NEW l2, NEW g2, NEW f2, NEW st2, NEW sp2, NEW new,
           new = [h EXCEPT !.idle = i2, !.low = l2, !.good = g2, !.fresh = f2, !.steps = st2,
                           !.speed = sp2]
    PROVE  new = Record(mv, a, i2, l2, g2, f2, st2, sp2)
BY DEF Record

LEMMA AgesSet ==
    ASSUME NEW mv, NEW a, NEW i, NEW l, NEW g, NEW f, NEW st, NEW sp,
           NEW h, h = Record(mv, a, i, l, g, f, st, sp),
           NEW a2, NEW i2, NEW l2, NEW f2, NEW new,
           new = [h EXCEPT !.age = a2, !.idle = i2, !.low = l2, !.fresh = f2]
    PROVE  new = Record(mv, a2, i2, l2, g, f2, st, sp)
BY DEF Record

\* The updates keep a worker's record one.
LEMMA TransferringLive ==
    ASSUME NEW h, Live(h) PROVE Live(Transferring(h))
<1>. DEFINE new == Transferring(h)
<1>1. new = [moving |-> TRUE, age |-> 0, idle |-> 0, low |-> 0, good |-> 0, fresh |-> None,
             steps |-> 0, speed |-> 0]
  <2>1. h = Record(h.moving, h.age, h.idle, h.low, h.good, h.fresh, h.steps, h.speed)
    BY HealthFields DEF Live, Record
  <2>. QED BY <2>1, AllFieldsSet DEF Record
<1>. SUFFICES Live(new)
  OBVIOUS
<1>. HIDE DEF new
<1>2. 0 \in 0..Window /\ 0 \in 0..Window+1 /\ 0 \in None..Window /\ 0 \in 0..FastSamples
      /\ None \in None..Window+1 /\ 0 \in 0..FastSteps /\ 0 \in 0..MaxSpeed
  BY PolicyAssumption DEF None
<1>. QED BY <1>1, <1>2, LiveFields

\* A worker's record has fields in range.
LEMMA LiveRecord ==
    ASSUME NEW h, Live(h)
    PROVE  \E mv \in BOOLEAN, a \in 0..Window, i \in 0..Window+1, l \in None..Window,
              g \in 0..FastSamples, f \in None..Window+1, st \in 0..FastSteps, sp \in 0..MaxSpeed :
              h = Record(mv, a, i, l, g, f, st, sp)
<1>1. /\ h.moving \in BOOLEAN /\ h.age \in 0..Window /\ h.idle \in 0..Window+1
      /\ h.low \in None..Window /\ h.good \in 0..FastSamples
      /\ h.fresh \in None..Window+1 /\ h.steps \in 0..FastSteps /\ h.speed \in 0..MaxSpeed
  BY HealthFields, PolicyAssumption DEF Live, None
<1>2. h = Record(h.moving, h.age, h.idle, h.low, h.good, h.fresh, h.steps, h.speed)
  BY HealthFields DEF Live, Record
<1>. QED BY <1>1, <1>2

LEMMA UpdatedLive ==
    ASSUME NEW h, Live(h), NEW progressed \in BOOLEAN, NEW speed \in 0..MaxSpeed, fast \in BOOLEAN
    PROVE  Live(Updated(h, progressed, speed))
<1>0. PICK mv \in BOOLEAN, a \in 0..Window, i \in 0..Window+1, l \in None..Window,
           g \in 0..FastSamples, f \in None..Window+1, st \in 0..FastSteps, sp \in 0..MaxSpeed :
           h = Record(mv, a, i, l, g, f, st, sp)
  BY LiveRecord
<1>. DEFINE new == Updated(h, progressed, speed)
            low == IF speed > 0 THEN None ELSE Greatest(l, 0)
            kept == IF low > 0 THEN 0 ELSE g
            well == progressed /\ speed > 0
            steps == IF progressed
                     THEN IF fast THEN Least((IF i > Window THEN 0 ELSE st) + 1, FastSteps)
                          ELSE 0
                     ELSE IF i >= Window THEN 0 ELSE st
            idle == IF progressed THEN 0 ELSE i
            good == IF well THEN Least(kept + 1, Enough) ELSE kept
            fresh == IF well THEN 0 ELSE IF kept = 0 THEN None ELSE f
<1>1. new = Record(mv, a, idle, low, good, fresh, steps, speed)
  <2>1. h.idle = i /\ h.low = l /\ h.good = g /\ h.fresh = f /\ h.steps = st
    BY <1>0 DEF Record
  <2>2. new = [h EXCEPT !.idle = idle, !.low = low, !.good = good, !.fresh = fresh,
                        !.steps = steps, !.speed = speed]
    BY <2>1 DEF Updated
  <2>. HIDE DEF new, idle, low, good, fresh, steps, kept, well
  <2>. QED BY <1>0, <2>2 DEF Record
<1>3. /\ Window \in Nat \ {0} /\ FastSteps \in Nat \ {0} /\ Enough \in Nat \ {0}
      /\ Enough <= FastSamples /\ FastSamples \in Nat \ {0} /\ MaxSpeed \in Nat
  BY PolicyAssumption DEF Enough
<1>4. low \in None..Window
  BY <1>3 DEF Greatest, None
<1>5. idle \in 0..Window+1 /\ kept \in 0..FastSamples
  BY <1>3
<1>6. good \in 0..FastSamples
  <2>. HIDE DEF kept
  <2>. QED BY <1>3, <1>5 DEF Least
<1>7. fresh \in None..Window+1
  <2>. HIDE DEF kept
  <2>. QED BY <1>3 DEF None
<1>8. steps \in 0..FastSteps
  BY <1>3 DEF Least
<1>. SUFFICES Live(new)
  OBVIOUS
<1>. HIDE DEF new, low, idle, good, fresh, steps
<1>. QED BY <1>1, <1>4, <1>5, <1>6, <1>7, <1>8, LiveFields DEF Record

LEMMA AgedLive ==
    ASSUME NEW h, Live(h)
    PROVE  Live(Older(h))
<1>0. PICK mv \in BOOLEAN, a \in 0..Window, i \in 0..Window+1, l \in None..Window,
           g \in 0..FastSamples, f \in None..Window+1, st \in 0..FastSteps, sp \in 0..MaxSpeed :
           h = Record(mv, a, i, l, g, f, st, sp)
  BY LiveRecord
<1>. DEFINE new == Older(h)
            age == Aged(a, Window)
            idle == Aged(i, Old)
            low == Aged(l, Window)
            fresh == Aged(f, Old)
<1>1. new = Record(mv, age, idle, low, g, fresh, st, sp)
  <2>1. h.idle = i /\ h.low = l /\ h.age = a /\ h.fresh = f
    BY <1>0 DEF Record
  <2>2. new = [h EXCEPT !.age = age, !.idle = idle, !.low = low, !.fresh = fresh]
    BY <2>1 DEF Older
  <2>. HIDE DEF new, age, idle, low, fresh
  <2>. QED BY <1>0, <2>2 DEF Record
<1>3. Window \in Nat \ {0}
  BY PolicyAssumption
<1>4. age \in 0..Window /\ idle \in 0..Window+1 /\ low \in None..Window /\ fresh \in None..Window+1
  BY <1>3 DEF Aged, Least, None, Old
<1>. SUFFICES Live(new)
  OBVIOUS
<1>. HIDE DEF new, age, idle, low, fresh
<1>. QED BY <1>1, <1>4, LiveFields DEF Record

-----------------------------------------------------------------------------
(***************************************************************************)
(* The steps of the scheduler, the workers and the user.                   *)
(***************************************************************************)

\* A controller, given by its fields.
LEMMA ControllerFields ==
    ASSUME NEW c, NEW t \in 0..MaxTarget, NEW b \in Int, b >= None, NEW sl \in Ages(Window),
           NEW cl \in 0..Cooldown, c = [target |-> t, base |-> b, slow |-> sl, cool |-> cl]
    PROVE  c \in Controllers
BY DEF Controllers

\* A reconciled target lies between one and the adaptive maximum.
LEMMA ReconcileTyped ==
    ASSUME NEW c \in Controllers, NEW m, m.count \in Nat, m.speed \in Nat
    PROVE  Reconcile(c, m) \in Controllers /\ Reconcile(c, m).target \in 1..MaxTarget
<1>. DEFINE target   == Greatest(1, Least(c.target, MaxTarget))
            compared == m.count >= 2 /\ m.healthy
            degraded == compared /\ c.base # None /\ m.speed * 100 < c.base * 65
            since    == IF degraded THEN Greatest(c.slow, 0)
                        ELSE IF (compared /\ c.base # None) \/ (~compared /\ m.blocking)
                        THEN None ELSE c.slow
            down     == degraded /\ since >= Window /\ target > 1
            lowered  == IF down THEN target - 1 ELSE target
            ramp     == /\ ~m.blocking /\ m.healthy /\ c.cool = 0 /\ ~down
                        /\ m.count >= lowered /\ lowered < MaxTarget
            new == Reconcile(c, m)
            t == IF ramp THEN lowered + 1 ELSE lowered
            b == IF ramp THEN Greatest(m.speed, 1) ELSE Baseline(c, m, compared, down)
            s == IF ramp \/ down THEN None ELSE since
            cl == IF down THEN Cooldown ELSE c.cool
<1>1. new = [target |-> t, base |-> b, slow |-> s, cool |-> cl]
  BY DEF Reconcile
<1>2. /\ c.target \in 0..MaxTarget /\ c.base \in Int /\ c.base >= None
      /\ c.slow \in Ages(Window) /\ c.cool \in 0..Cooldown
  BY DEF Controllers
<1>3. MaxTarget \in Nat \ {0} /\ Window \in Nat \ {0} /\ Cooldown \in Nat
  BY Limits, PolicyAssumption
<1>4. target \in 1..MaxTarget
  BY <1>2, <1>3 DEF Greatest, Least
<1>5. since \in Ages(Window)
  <2>. HIDE DEF degraded, compared
  <2>. QED BY <1>2, <1>3 DEF Greatest, Ages, None
<1>6. lowered \in 1..MaxTarget
  <2>1. down => target > 1
    OBVIOUS
  <2>. HIDE DEF target, down
  <2>. QED BY <1>4, <1>3, <2>1
<1>7. t \in 1..MaxTarget
  <2>1. ramp => lowered < MaxTarget
    OBVIOUS
  <2>. HIDE DEF ramp, lowered
  <2>. QED BY <1>3, <1>6, <2>1
<1>8. b \in Int /\ b >= None
  <2>. HIDE DEF ramp, compared, down
  <2>. QED BY <1>2 DEF Greatest, None, Baseline
<1>9. s \in Ages(Window) /\ cl \in 0..Cooldown
  <2>. HIDE DEF ramp, down, since
  <2>. QED BY <1>2, <1>3, <1>5 DEF Ages, None
<1>. SUFFICES new \in Controllers /\ new.target \in 1..MaxTarget
  OBVIOUS
<1>10. new.target = t
  BY <1>1
<1>. HIDE DEF new, t, b, s, cl
<1>11. t \in 0..MaxTarget
  BY <1>7
<1>. QED BY <1>1, <1>7, <1>8, <1>9, <1>10, <1>11, ControllerFields

\* The metrics of a pass are numbers.
LEMMA MetricsTyped ==
    ASSUME FairInv, NEW pressure \in BOOLEAN, NEW m, m = Metrics(pressure)
    PROVE  /\ m.count = Cardinality(Watched) /\ m.count \in Nat /\ m.speed \in Nat
           /\ IsFiniteSet(Watched)
<1>. USE DEF FairInv
<1>1. Watched \subseteq Jobs /\ IsFiniteSet(Watched) /\ Cardinality(Watched) \in Nat
  BY Parts, FS_Subset, FS_CardinalityType DEF Watched, Typed
<1>2. \A j \in Watched : health[j].speed \in Nat
  BY <1>1, PolicyAssumption DEF HealthOK, Watched, Live, HealthRecords
<1>3. MapThenSumSet(LAMBDA j : health[j].speed, Watched) \in Nat
  BY <1>1, <1>2, SumIsNat
<1>. QED BY <1>1, <1>3 DEF Metrics

\* So the pass has a controller and a target it may have.
LEMMA ControllerTyped ==
    ASSUME FairInv, NEW m, m.count \in Nat, m.speed \in Nat, NEW c, c = Controller(m)
    PROVE  c \in Controllers /\ Target(c) \in Targets
<1>. USE DEF FairInv
<1>1. NewController \in Controllers
  <2>1. NewController = [target |-> 1, base |-> None, slow |-> None, cool |-> 0]
    BY DEF NewController, NoController
  <2>. QED BY <2>1, Limits, PolicyAssumption DEF Controllers, Ages, None
<1>2. c \in Controllers
  BY <1>1, ReconcileTyped, NoControllerTyped DEF Controller
<1>3. mode = "Adaptive" => Greatest(1, Least(c.target, MaxTarget)) \in 1..MaxTarget
  BY <1>2, Limits DEF Controllers, Greatest, Least
<1>4. Target(c) \in Targets
  BY <1>3 DEF Target, Targets, Typed
<1>. QED BY <1>2, <1>4

\* Fewer counted jobs are still within the ceiling.
LEMMA CountShrinks ==
    ASSUME FairInv, UNCHANGED policy, Counted' \subseteq Counted
    PROVE  Cardinality(Counted') <= Ceiling'
<1>. USE DEF FairInv
<1>1. IsFiniteSet(Counted)
  BY Parts, FS_Subset DEF Counted, Typed
<1>2. Cardinality(Counted') <= Cardinality(Counted)
  BY <1>1, FS_Subset
<1>3. Ceiling' = Ceiling
  BY DEF policy, Ceiling, SlotLimit, MaxTarget, AdaptiveLimit
<1>4. Cardinality(Counted) \in Nat /\ Cardinality(Counted') \in Nat /\ Ceiling \in Nat
  BY <1>1, FS_Subset, FS_CardinalityType, Limits DEF Ceiling, Typed
<1>. QED BY <1>2, <1>3, <1>4 DEF CountOK

\* A record goes and leaves the others.
LEMMA ClearedOK ==
    ASSUME FairInv, NEW j \in Jobs, ClearHealth(j)
    PROVE  /\ health' \in [Jobs -> HealthRecords] /\ ctl' \in Controllers
           /\ health'[j] = NoHealth /\ \A k \in Jobs : k # j => health'[k] = health[k]
BY NoHealthTyped, NoControllerTyped DEF ClearHealth, FairInv, HealthOK

\* A pass: who is counted has a record, so the pass sees it, and what it picks
\* beside those it sees stays within the ceiling.
LEMMA PassKeeps ==
    ASSUME FairInv, Pass
    PROVE  FairInv'
<1>. USE DEF FairInv
<1>1. UNCHANGED <<mode, fast, deferred, left, revived, unseen>> /\ wake' = FALSE /\ quiet' = FALSE
  BY DEF Pass, policy, histories
<1>2. CASE UNCHANGED <<state, slot, health, ctl>>
  <2>1. Counted' = Counted
    BY <1>1, <1>2 DEF Counted
  <2>2. Cardinality(Counted') <= Ceiling'
    BY <1>1, <2>1, CountShrinks DEF policy
  <2>3. CountOK'
    BY <1>1, <1>2, <2>1, <2>2 DEF CountOK, Running
  <2>. QED BY <1>1, <1>2, <2>3 DEF Typed, HealthOK, Controllers, MaxTarget, SlotLimit,
                                        AdaptiveLimit, Live
<1>3. ASSUME NEW pressure \in BOOLEAN, NEW near,
             NEW m, m = Metrics(pressure), NEW c, c = Controller(m),
             NEW picked, picked = Picked(m, Target(c), near),
             ctl' = c, slot' = slot \cup picked,
             state' = [j \in Jobs |-> IF j \in picked THEN "Starting" ELSE state[j]],
             health' = [j \in Jobs |-> IF j \in picked THEN Claimed ELSE health[j]]
      PROVE  FairInv'
  <2>1. m.count = Cardinality(Watched) /\ m.count \in Nat /\ m.speed \in Nat /\ IsFiniteSet(Watched)
    BY <1>3, MetricsTyped
  <2>2. c \in Controllers /\ Target(c) \in Targets
    BY <1>3, <2>1, ControllerTyped
  <2>3. /\ picked \subseteq {j \in Jobs : state[j] = "Queued" /\ j \notin slot}
        /\ picked = {} \/ m.count + Cardinality(picked) <= Ceiling
    BY <1>3, <2>1, <2>2, PickedFits DEF Typed
  <2>4. Typed'
    BY <1>1, <1>3, <2>3 DEF Typed, States, Running
  <2>5. HealthOK'
    BY <1>3, <2>3, ClaimedLive DEF HealthOK, Live
  <2>6. ctl' \in Controllers'
    BY <1>1, <1>3, <2>2 DEF Controllers, MaxTarget, SlotLimit, AdaptiveLimit
  <2>7. Counted' \subseteq Counted \cup picked /\ Counted \subseteq Watched /\ picked \subseteq Jobs
    BY <1>1, <1>3, <2>3 DEF Counted, Watched, CountOK
  <2>8. ASSUME NEW j \in Counted' PROVE state'[j] \in Running /\ health'[j] # NoHealth
    BY <1>3, <2>7, <2>8, ClaimedLive DEF CountOK, Running, Counted, Typed
  <2>9. Cardinality(Counted') <= Ceiling'
    <3>1. CASE picked = {}
      BY <3>1, <2>7, <1>1, CountShrinks DEF policy
    <3>2. CASE picked # {}
      <4>1. Ceiling' = Ceiling /\ Ceiling \in Nat
        BY <1>1, Limits DEF Ceiling, SlotLimit, MaxTarget, AdaptiveLimit, Typed
      <4>2. IsFiniteSet(picked) /\ Cardinality(picked) \in Nat
        BY <2>7, Parts, FS_Subset, FS_CardinalityType
      <4>3. /\ IsFiniteSet(Watched \cup picked)
            /\ Cardinality(Watched \cup picked) <= Cardinality(Watched) + Cardinality(picked)
        <5>1. IsFiniteSet(Watched \cap picked) /\ Cardinality(Watched \cap picked) \in Nat
          BY <4>2, FS_Subset, FS_CardinalityType
        <5>2. IsFiniteSet(Watched \cup picked)
              /\ Cardinality(Watched \cup picked) =
                   Cardinality(Watched) + Cardinality(picked) - Cardinality(Watched \cap picked)
          BY <2>1, <4>2, FS_Union
        <5>. QED BY <5>1, <5>2, <2>1, <4>2
      <4>4. Counted' \subseteq Watched \cup picked
        BY <2>7
      <4>5. Cardinality(Counted') <= Cardinality(Watched \cup picked)
            /\ Cardinality(Counted') \in Nat /\ Cardinality(Watched \cup picked) \in Nat
        BY <4>3, <4>4, FS_Subset, FS_CardinalityType
      <4>. QED BY <2>1, <2>3, <3>2, <4>1, <4>2, <4>3, <4>5
    <3>. QED BY <3>1, <3>2
  <2>. QED BY <2>4, <2>5, <2>6, <2>8, <2>9 DEF CountOK, Running
<1>4. \/ UNCHANGED <<state, slot, health, ctl>>
      \/ \E pressure \in PressureSeen,
             near \in SUBSET {j \in slot : state[j] \in Running} :
             LET m      == Metrics(pressure)
                 c      == Controller(m)
                 picked == Picked(m, Target(c), near)
             IN  /\ ctl' = c
                 /\ state' = [j \in Jobs |-> IF j \in picked THEN "Starting" ELSE state[j]]
                 /\ slot' = slot \cup picked
                 /\ health' = [j \in Jobs |-> IF j \in picked THEN Claimed ELSE health[j]]
  BY DEF Pass
<1>5. PressureSeen \subseteq BOOLEAN
  BY DEF PressureSeen
<1>6. CASE \E pressure \in PressureSeen,
             near \in SUBSET {j \in slot : state[j] \in Running} :
             LET m      == Metrics(pressure)
                 c      == Controller(m)
                 picked == Picked(m, Target(c), near)
             IN  /\ ctl' = c
                 /\ state' = [j \in Jobs |-> IF j \in picked THEN "Starting" ELSE state[j]]
                 /\ slot' = slot \cup picked
                 /\ health' = [j \in Jobs |-> IF j \in picked THEN Claimed ELSE health[j]]
  <2>1. PICK pressure \in BOOLEAN, near \in SUBSET {j \in slot : state[j] \in Running} :
             LET m      == Metrics(pressure)
                 c      == Controller(m)
                 picked == Picked(m, Target(c), near)
             IN  /\ ctl' = c
                 /\ state' = [j \in Jobs |-> IF j \in picked THEN "Starting" ELSE state[j]]
                 /\ slot' = slot \cup picked
                 /\ health' = [j \in Jobs |-> IF j \in picked THEN Claimed ELSE health[j]]
    BY <1>5, <1>6
  <2>. QED BY <2>1, <1>3
<1>. QED BY <1>2, <1>4, <1>6

\* The constants of the steps below keep the origin's limits.
LEMMA SameControllers ==
    ASSUME UNCHANGED policy PROVE Controllers' = Controllers
BY DEF policy, Controllers, MaxTarget, SlotLimit, AdaptiveLimit

\* A worker whose job is counted runs it, so a report changes nothing that counts.
LEMMA ReportsKeep ==
    ASSUME FairInv, NEW j \in slot, Reported(j),
           UNCHANGED <<policy, slot, ctl, deferred, left, revived, unseen, quiet>>,
           wake' \in BOOLEAN, NEW h, h = NoHealth \/ Live(h), h = NoHealth <=> health[j] = NoHealth,
           health' = [health EXCEPT ![j] = h]
    PROVE  FairInv'
<1>. USE DEF FairInv
<1>1. Typed'
  BY DEF Typed, Reported, policy, States, Running
<1>2. HealthOK'
  BY NoHealthTyped DEF HealthOK, Typed, Live
<1>3. Counted' = Counted
  BY DEF Counted
<1>4. Cardinality(Counted') <= Ceiling'
  BY <1>3, CountShrinks
<1>5. \A k \in Counted' : state'[k] \in Running /\ health'[k] # NoHealth
  BY <1>3 DEF CountOK, Typed, HealthOK, Reported, Running, Counted
<1>. QED BY <1>1, <1>2, <1>4, <1>5, SameControllers DEF CountOK, Running

LEMMA BeginKeeps ==
    ASSUME FairInv, NEW j \in Jobs, Begin(j) PROVE FairInv'
<1>. USE DEF FairInv
<1>. DEFINE h == IF health[j] = NoHealth THEN health[j]
                 ELSE Updated(IF health[j].moving THEN health[j] ELSE Transferring(health[j]),
                              FALSE, 0)
<1>0. health[j] # NoHealth => Live(h)
  <2>. SUFFICES ASSUME health[j] # NoHealth PROVE Live(h)
    OBVIOUS
  <2>. DEFINE g == IF health[j].moving THEN health[j] ELSE Transferring(health[j])
  <2>1. Live(g)
    BY TransferringLive DEF HealthOK
  <2>2. fast \in BOOLEAN /\ FALSE \in BOOLEAN /\ 0 \in 0..MaxSpeed
    BY PolicyAssumption DEF Typed
  <2>3. h = Updated(g, FALSE, 0)
    OBVIOUS
  <2>. HIDE DEF h, g
  <2>. QED BY <2>1, <2>2, <2>3, UpdatedLive
<1>1. h = NoHealth \/ Live(h)
  BY <1>0
<1>2. h = NoHealth <=> health[j] = NoHealth
  BY <1>0, LiveIsHealth
<1>3. health' = [health EXCEPT ![j] = h]
  BY DEF Begin, HealthOK
<1>4. /\ j \in slot /\ Reported(j) /\ wake' \in BOOLEAN
      /\ UNCHANGED <<policy, slot, ctl, deferred, left, revived, unseen, quiet>>
  BY DEF Begin, Typed, histories
<1>. HIDE DEF h, FairInv
<1>. QED BY <1>1, <1>2, <1>3, <1>4, ReportsKeep

LEMMA ReportKeeps ==
    ASSUME FairInv, NEW j \in Jobs, NEW progressed \in BOOLEAN, NEW speed \in 0..MaxSpeed,
           Report(j, progressed, speed)
    PROVE  FairInv'
<1>. USE DEF FairInv
<1>. DEFINE h == IF health[j] = NoHealth THEN health[j] ELSE Updated(health[j], progressed, speed)
<1>1. h = NoHealth \/ Live(h)
  BY UpdatedLive DEF HealthOK, Typed
<1>2. h = NoHealth <=> health[j] = NoHealth
  BY UpdatedLive, LiveIsHealth DEF HealthOK, Typed
<1>3. health' = [health EXCEPT ![j] = h]
  BY DEF Report, HealthOK
<1>4. /\ j \in slot /\ Reported(j) /\ wake' \in BOOLEAN
      /\ UNCHANGED <<policy, slot, ctl, deferred, left, revived, unseen, quiet>>
  BY DEF Report, Typed, histories
<1>. HIDE DEF h, FairInv
<1>. QED BY <1>1, <1>2, <1>3, <1>4, ReportsKeep

\* A worker's end: it gives its slot back and its record goes.
LEMMA EndsKeep ==
    ASSUME FairInv, NEW j \in slot, slot' = slot \ {j}, ClearHealth(j), UNCHANGED policy,
           deferred' \subseteq Jobs, revived' = revived \ {j}, unseen' = unseen \ {j}, wake' \in BOOLEAN,
           quiet' \in BOOLEAN, left' \in Nat, NEW st \in States,
           state' = [state EXCEPT ![j] = st] \/ state' = state
    PROVE  FairInv'
<1>. USE DEF FairInv
<1>0. j \in Jobs
  BY DEF Typed
<1>1. Typed'
  BY DEF Typed, policy
<1>2. /\ health' \in [Jobs -> HealthRecords] /\ ctl' \in Controllers
      /\ health'[j] = NoHealth /\ \A k \in Jobs : k # j => health'[k] = health[k]
  BY <1>0, ClearedOK
<1>3. HealthOK'
  BY <1>2 DEF HealthOK, Live
<1>4. Counted' \subseteq Counted \ {j}
  BY DEF Counted
<1>5. Cardinality(Counted') <= Ceiling'
  BY <1>4, CountShrinks
<1>6. ASSUME NEW k \in Counted' PROVE state'[k] \in Running /\ health'[k] # NoHealth
  <2>1. k \in Counted /\ k # j /\ k \in Jobs
    BY <1>4 DEF Counted, Typed
  <2>2. state'[k] = state[k]
    BY <2>1 DEF Typed
  <2>. QED BY <2>1, <2>2, <1>2 DEF CountOK
<1>. QED BY <1>1, <1>2, <1>3, <1>5, <1>6, SameControllers DEF CountOK, Running

LEMMA WorkerEndsKeeps ==
    ASSUME FairInv, NEW j \in Jobs, WorkerEnds(j) PROVE FairInv'
<1>1. /\ j \in slot /\ slot' = slot \ {j} /\ ClearHealth(j) /\ UNCHANGED policy
      /\ deferred' \subseteq Jobs /\ revived' = revived \ {j} /\ unseen' = unseen \ {j} /\ wake' \in BOOLEAN
      /\ quiet' \in BOOLEAN /\ left' \in Nat
  BY DEF WorkerEnds, Finish, Stop, Release, FairInv, Typed
<1>2. \E st \in States : state' = [state EXCEPT ![j] = st] \/ state' = state
  BY DEF WorkerEnds, Finish, Stop, States, Ended
<1>. QED BY <1>1, <1>2, EndsKeep

LEMMA RequeueKeeps ==
    ASSUME FairInv, NEW j \in Jobs, Requeue(j) PROVE FairInv'
<1>1. /\ j \in slot /\ slot' = slot \ {j} /\ ClearHealth(j) /\ UNCHANGED policy
      /\ deferred' \subseteq Jobs /\ revived' = revived \ {j} /\ unseen' = unseen \ {j} /\ wake' \in BOOLEAN
      /\ quiet' \in BOOLEAN /\ left' \in Nat
  BY DEF Requeue, FairInv, Typed
<1>2. state' = [state EXCEPT ![j] = "Queued"] /\ "Queued" \in States
  BY DEF Requeue, States
<1>. QED BY <1>1, <1>2, EndsKeep

LEMMA TickKeeps ==
    ASSUME FairInv, Tick PROVE FairInv'
<1>. USE DEF FairInv
<1>1. Typed'
  BY DEF Typed, Tick, policy, histories
<1>2. \A j \in Jobs : health'[j] = IF health[j].moving THEN Older(health[j]) ELSE health[j]
  BY DEF Tick
<1>3. \A j \in Jobs : health[j] = NoHealth => health'[j] = NoHealth
  BY <1>2 DEF NoHealth
<1>4. \A j \in Jobs : health[j] # NoHealth => Live(health'[j]) /\ j \in slot
  BY <1>2, AgedLive DEF HealthOK
<1>5. health' \in [Jobs -> HealthRecords]
  <2>1. \A j \in Jobs : health'[j] \in HealthRecords
    BY <1>3, <1>4, NoHealthTyped DEF Live
  <2>2. health' = [j \in Jobs |-> health'[j]]
    BY DEF Tick
  <2>. QED BY <2>1, <2>2
<1>6. HealthOK'
  BY <1>3, <1>4, <1>5 DEF HealthOK, Tick, Live
<1>7. ctl' \in Controllers
  <2>. DEFINE t == ctl.target
              b == ctl.base
              sl == Aged(ctl.slow, Window)
              cl == Greatest(ctl.cool - 1, 0)
  <2>1. ctl' = [target |-> t, base |-> b, slow |-> sl, cool |-> cl]
    BY DEF Tick, Controllers
  <2>2. sl \in Ages(Window) /\ cl \in 0..Cooldown
    BY PolicyAssumption DEF Controllers, Ages, Aged, Least, Greatest, None
  <2>3. t \in 0..MaxTarget /\ b \in Int /\ b >= None
    BY DEF Controllers
  <2>. HIDE DEF t, b, sl, cl
  <2>. QED BY <2>1, <2>2, <2>3, ControllerFields
<1>8. UNCHANGED policy /\ UNCHANGED <<slot, state, revived, unseen>>
  BY DEF Tick, histories
<1>9. Counted' = Counted
  BY <1>8 DEF Counted
<1>10. Cardinality(Counted') <= Ceiling'
  BY <1>8, <1>9, CountShrinks
<1>11. \A k \in Counted' : state'[k] \in Running /\ health'[k] # NoHealth
  BY <1>4, <1>8, <1>9, LiveIsHealth DEF CountOK, Counted, Typed
<1>. QED BY <1>1, <1>6, <1>7, <1>8, <1>10, <1>11, SameControllers DEF CountOK, Running

\* A pause or a cancel: the record goes, and a worker that runs on is known.
LEMMA StopsKeep ==
    ASSUME FairInv, NEW j \in Jobs, Command(j), ClearHealth(j), wake' \in BOOLEAN,
           quiet' \in BOOLEAN, revived' = revived \cup ({j} \cap slot), NEW st \in States,
           state' = [state EXCEPT ![j] = st]
    PROVE  FairInv'
<1>. USE DEF FairInv
<1>0. UNCHANGED <<policy, slot, deferred, unseen>> /\ left' \in Nat
  BY DEF Command, Typed
<1>1. Typed'
  BY <1>0 DEF Typed, policy
<1>2. /\ health' \in [Jobs -> HealthRecords] /\ ctl' \in Controllers
      /\ health'[j] = NoHealth /\ \A k \in Jobs : k # j => health'[k] = health[k]
  BY ClearedOK
<1>3. HealthOK'
  BY <1>0, <1>2 DEF HealthOK, Live
<1>4. Counted' \subseteq Counted \ {j}
  BY <1>0 DEF Counted
<1>5. Cardinality(Counted') <= Ceiling'
  BY <1>0, <1>4, CountShrinks
<1>6. ASSUME NEW k \in Counted' PROVE state'[k] \in Running /\ health'[k] # NoHealth
  <2>1. k \in Counted /\ k # j /\ k \in Jobs
    BY <1>4 DEF Counted, Typed
  <2>2. state'[k] = state[k]
    BY <2>1 DEF Typed
  <2>. QED BY <2>1, <2>2, <1>2 DEF CountOK
<1>. QED BY <1>0, <1>1, <1>2, <1>3, <1>5, <1>6, SameControllers DEF CountOK, Running

LEMMA PauseKeeps ==
    ASSUME FairInv, NEW j \in Jobs, Pause(j) PROVE FairInv'
<1>1. Command(j) /\ ClearHealth(j) /\ wake' \in BOOLEAN /\ quiet' \in BOOLEAN
      /\ revived' = revived \cup ({j} \cap slot) /\ "Paused" \in States
      /\ state' = [state EXCEPT ![j] = "Paused"]
  BY DEF Pause, FairInv, Typed, States
<1>. QED BY <1>1, StopsKeep

LEMMA CancelKeeps ==
    ASSUME FairInv, NEW j \in Jobs, Cancel(j) PROVE FairInv'
<1>1. Command(j) /\ ClearHealth(j) /\ wake' \in BOOLEAN /\ quiet' \in BOOLEAN
      /\ revived' = revived \cup ({j} \cap slot) /\ "Canceled" \in States
      /\ state' = [state EXCEPT ![j] = "Canceled"]
  BY DEF Cancel, FairInv, Typed, States, Ended
<1>. QED BY <1>1, StopsKeep

\* A resumed job was not running, so it was not counted and is not now.
LEMMA ResumeKeeps ==
    ASSUME FairInv, NEW j \in Jobs, Resume(j) PROVE FairInv'
<1>. USE DEF FairInv
<1>1. UNCHANGED <<policy, slot, deferred, health, ctl, revived, unseen, quiet>> /\ left' \in Nat
      /\ state' = [state EXCEPT ![j] = "Queued"] /\ state[j] \in {"Paused", "Failed", "Canceled"}
      /\ wake' = TRUE
  BY DEF Resume, Command, Typed
<1>2. Typed'
  BY <1>1 DEF Typed, policy, States
<1>3. HealthOK'
  BY <1>1 DEF HealthOK, Live
<1>4. Counted' = Counted
  BY <1>1 DEF Counted
<1>5. Cardinality(Counted') <= Ceiling'
  BY <1>1, <1>4, CountShrinks
<1>6. \A k \in Counted' : state'[k] \in Running /\ health'[k] # NoHealth
  BY <1>1, <1>4 DEF CountOK, Typed, Running, Counted
<1>. QED BY <1>1, <1>2, <1>3, <1>5, <1>6, SameControllers DEF CountOK, Running

\* Where all records go at once, every worker that runs on is known.
LEMMA AllKeeps ==
    ASSUME FairInv, PauseAll \/ ResumeAll PROVE FairInv'
<1>. USE DEF FairInv
<1>0. \/ CommandAll(Running \cup {"Queued"}, "Paused")
      \/ CommandAll({"Paused", "Failed", "Canceled"}, "Queued")
  BY Zenon DEF PauseAll, ResumeAll
<1>1. PICK from, to : CommandAll(from, to) /\ to \in {"Paused", "Queued"}
  BY <1>0, Zenon
<1>2. UNCHANGED <<policy, slot, quiet>> /\ deferred' = {} /\ wake' = TRUE /\ left' \in Nat
      /\ state' = [j \in Jobs |-> IF state[j] \in from THEN to ELSE state[j]]
      /\ health' = [j \in Jobs |-> NoHealth] /\ ctl' = NoController
  BY <1>1 DEF CommandAll, Typed
<1>3. revived' \subseteq Jobs /\ unseen' \subseteq Jobs /\ slot \subseteq revived' \cup unseen'
  BY DEF PauseAll, ResumeAll, Typed
<1>a. state' \in [Jobs -> States]
  BY <1>1, <1>2 DEF Typed, States
<1>4. Typed'
  BY <1>a, <1>2, <1>3 DEF Typed, policy
<1>5. HealthOK'
  BY <1>2, NoHealthTyped DEF HealthOK
<1>6. Counted' = {}
  BY <1>2, <1>3 DEF Counted
<1>7. Cardinality(Counted') <= Ceiling'
  BY <1>2, <1>6, CountShrinks
<1>8. ctl' \in Controllers'
  BY <1>2, NoControllerTyped, SameControllers
<1>. QED BY <1>4, <1>5, <1>6, <1>7, <1>8 DEF CountOK

LEMMA QuietKeeps ==
    ASSUME FairInv,
           \/ UNCHANGED vars
           \/ OtherWake \/ \E j \in Jobs : DeferEnds(j)
    PROVE  FairInv'
<1>. USE DEF FairInv
<1>1. UNCHANGED <<policy, slot, state, health, ctl, revived, unseen, quiet, left>>
      /\ deferred' \subseteq deferred /\ wake' \in BOOLEAN
  BY DEF vars, DeferEnds, OtherWake, policy, histories, Typed
<1>2. Typed'
  BY <1>1 DEF Typed, policy
<1>3. HealthOK'
  BY <1>1 DEF HealthOK, Live
<1>4. Counted' = Counted
  BY <1>1 DEF Counted
<1>5. Cardinality(Counted') <= Ceiling'
  BY <1>1, <1>4, CountShrinks
<1>. QED BY <1>1, <1>2, <1>3, <1>4, <1>5, SameControllers DEF CountOK, Running

\* Every step keeps the invariant.
LEMMA InvNext == FairInv /\ [Next]_vars => FairInv'
<1>. SUFFICES ASSUME FairInv, [Next]_vars PROVE FairInv'
  OBVIOUS
<1>1. CASE Pass
  BY <1>1, PassKeeps
<1>2. CASE Tick
  BY <1>2, TickKeeps
<1>3. ASSUME NEW j \in Jobs, Begin(j) PROVE FairInv'
  BY <1>3, BeginKeeps
<1>4. ASSUME NEW j \in Jobs, WorkerEnds(j) PROVE FairInv'
  BY <1>4, WorkerEndsKeeps
<1>5. ASSUME NEW j \in Jobs, Requeue(j) PROVE FairInv'
  BY <1>5, RequeueKeeps
<1>6. ASSUME NEW j \in Jobs, DeferEnds(j) PROVE FairInv'
  BY <1>6, QuietKeeps
<1>7. ASSUME NEW j \in Jobs, NEW progressed \in BOOLEAN, NEW speed \in 0..MaxSpeed,
             Report(j, progressed, speed)
      PROVE  FairInv'
  BY <1>7, ReportKeeps
<1>8. ASSUME NEW j \in Jobs, Pause(j) PROVE FairInv'
  BY <1>8, PauseKeeps
<1>9. ASSUME NEW j \in Jobs, Cancel(j) PROVE FairInv'
  BY <1>9, CancelKeeps
<1>10. ASSUME NEW j \in Jobs, Resume(j) PROVE FairInv'
  BY <1>10, ResumeKeeps
<1>11. CASE UNCHANGED vars \/ OtherWake
  BY <1>11, QuietKeeps
<1>12. CASE PauseAll \/ ResumeAll
  BY <1>12, AllKeeps
<1>. QED BY <1>1, <1>2, <1>3, <1>4, <1>5, <1>6, <1>7, <1>8, <1>9, <1>10, <1>11,
        <1>12 DEF Next

LEMMA InvHolds == Spec => []FairInv
BY InvInit, InvNext, PTL DEF Spec

(***************************************************************************)
(* Health records, controllers and queue keep their types for any parts    *)
(* and limits; a record exists only for a job that holds a slot.           *)
(***************************************************************************)
THEOREM TypesHold == Spec => []TypeOK
BY InvHolds, InvImplies, PTL

(***************************************************************************)
(* Claim passes never let more workers onto a protected origin than the    *)
(* mode allows, whatever reports, pauses, cancels, defers and restarts     *)
(* happen between them, for one job or for all; only workers whose record  *)
(* such a command dropped while they ran on are not counted.               *)
(***************************************************************************)
THEOREM HosterIsSpared == Spec => []OriginWithinCeiling
BY InvHolds, InvImplies, PTL
=============================================================================
