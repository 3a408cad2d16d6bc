---------------------- MODULE SegmentAdmission_proofs ----------------------
(***************************************************************************)
(* For any jobs, origins, budgets and profile: the broker's leases stay    *)
(* within the budgets of their class, an attempt's workers stay within its *)
(* lease, and a worker count that failed rests.                            *)
(*                                                                         *)
(* The broker's part is about sums over jobs: a lease is a set of          *)
(* connections, and a sum of leases the number of their connections, so    *)
(* that the library's facts about finite sets apply.  The controller's     *)
(* part needs CoverInv (the lease is for the workers admitted) and         *)
(* AdmitInv (what a decided ramp was decided on still holds when it is     *)
(* carried out).                                                           *)
(***************************************************************************)
EXTENDS SegmentAdmission, FiniteSetTheorems, TLAPS

(***************************************************************************)
(* The jobs of a class that hold a lease, in all and on one origin, and    *)
(* what the broker promises of its map.                                    *)
(***************************************************************************)
Members(map, cl)      == {k \in Jobs : class[k] = cl /\ map[k] # NoLease}
MembersAt(map, cl, o) == {k \in Members(map, cl) : map[k].origin = o}

Within(map) ==
  \A cl \in Classes :
    /\ SegsOf(map, Members(map, cl)) <= TotalBudget
    /\ \A o : SegsOf(map, MembersAt(map, cl, o)) <= OriginBudget

-----------------------------------------------------------------------------
(* Counting connections.                                                   *)

LEMMA ProfileNumbers ==
  /\ MaxSegs \in Nat /\ MaxSegs >= 2 /\ SoftMax \in Nat /\ SoftMax >= 2 /\ SoftMax <= MaxSegs
  /\ InitialSegs \in Nat /\ InitialSegs >= 2 /\ InitialSegs <= SoftMax
  /\ HosterInitial \in Nat /\ HosterInitial >= 2 /\ HosterMax \in Nat /\ HosterMax >= 2
  /\ TotalBudget \in Nat /\ OriginBudget \in Nat /\ FairWorkers \in Nat /\ RampStep \in Nat
  /\ Cooldown \in Nat /\ Cooldown >= 1 /\ MaxCooldown \in Nat /\ MaxCooldown >= Cooldown
  /\ HealthyWindows \in Nat /\ HealthyWindows >= 1 /\ MaxSpeed \in Nat /\ MaxSpeed >= 1
  /\ MaxWorkers \in Nat /\ MaxWorkers >= MaxSegs
BY ProfileAssumption

LEMMA ConnectionsFinite ==
  ASSUME NEW map, NEW js \in SUBSET Jobs
  PROVE  IsFiniteSet(Connections(map, js)) /\ SegsOf(map, js) \in Nat
<1>1. IsFiniteSet(js)
  BY JobsAssumption, FS_Subset
<1>2. IsFiniteSet(1..MaxSegs)
  BY ProfileNumbers, FS_Interval
<1>3. IsFiniteSet(js \X (1..MaxSegs))
  BY <1>1, <1>2, FS_Product
<1>4. Connections(map, js) \subseteq js \X (1..MaxSegs)
  BY DEF Connections
<1>5. IsFiniteSet(Connections(map, js))
  BY <1>3, <1>4, FS_Subset
<1>. QED  BY <1>5, FS_CardinalityType DEF SegsOf

\* Fewer jobs with smaller leases hold fewer connections.
LEMMA FewerConnections ==
  ASSUME NEW few \in [Jobs -> Leases], NEW many \in [Jobs -> Leases],
         NEW js \in SUBSET Jobs, NEW ks \in SUBSET Jobs, js \subseteq ks,
         \A j \in js : few[j].segs <= many[j].segs
  PROVE  SegsOf(few, js) <= SegsOf(many, ks)
<1>1. Connections(few, js) \subseteq Connections(many, ks)
  <2>. SUFFICES ASSUME NEW c \in js \X (1..MaxSegs), c[2] <= few[c[1]].segs
                PROVE  c \in ks \X (1..MaxSegs) /\ c[2] <= many[c[1]].segs
    BY DEF Connections
  <2>1. c[1] \in js /\ c[2] \in 1..MaxSegs /\ c \in ks \X (1..MaxSegs)
    OBVIOUS
  <2>2. few[c[1]].segs <= many[c[1]].segs
    BY <2>1
  <2>3. few[c[1]].segs \in Nat /\ many[c[1]].segs \in Nat
    BY <2>1, ProfileNumbers DEF Leases
  <2>. QED  BY <2>1, <2>2, <2>3
<1>. QED  BY <1>1, ConnectionsFinite, FS_Subset DEF SegsOf

\* A job adds no more connections than it leases.
LEMMA OneMoreJob ==
  ASSUME NEW map \in [Jobs -> Leases], NEW js \in SUBSET Jobs, NEW j \in Jobs
  PROVE  SegsOf(map, js \cup {j}) <= SegsOf(map, js) + map[j].segs
<1>. DEFINE n == map[j].segs
            own == {j} \X (1..n)
<1>1. n \in 0..MaxSegs
  BY DEF Leases
<1>2. Connections(map, js \cup {j}) \subseteq Connections(map, js) \cup own
  <2>. SUFFICES ASSUME NEW c \in (js \cup {j}) \X (1..MaxSegs), c[2] <= map[c[1]].segs
                PROVE  c \in Connections(map, js) \/ c \in own
    BY DEF Connections
  <2>1. CASE c[1] \in js
    BY <2>1 DEF Connections
  <2>2. CASE c[1] = j
    BY <2>2, <1>1, ProfileNumbers
  <2>. QED  BY <2>1, <2>2
<1>3. IsFiniteSet({j}) /\ Cardinality({j}) = 1
  BY FS_Singleton
<1>4. IsFiniteSet(1..n) /\ Cardinality(1..n) = n
  <2>1. n \in Int /\ n >= 0
    BY <1>1, ProfileNumbers
  <2>. HIDE DEF n
  <2>. QED  BY <2>1, FS_Interval
<1>5. IsFiniteSet(own) /\ Cardinality(own) = n
  <2>1. IsFiniteSet(own) /\ Cardinality(own) = Cardinality({j}) * Cardinality(1..n)
    BY <1>3, <1>4, FS_Product
  <2>. QED  BY <2>1, <1>1, <1>3, <1>4
<1>6. IsFiniteSet(Connections(map, js)) /\ Cardinality(Connections(map, js)) \in Nat
  BY ConnectionsFinite DEF SegsOf
<1>. HIDE DEF own
<1>7. /\ IsFiniteSet(Connections(map, js) \cup own)
      /\ Cardinality(Connections(map, js) \cup own)
           = Cardinality(Connections(map, js)) + n - Cardinality(Connections(map, js) \cap own)
  BY <1>5, <1>6, FS_Union
<1>8. Cardinality(Connections(map, js) \cap own) \in Nat
  BY <1>6, FS_Subset, FS_CardinalityType
<1>9. Cardinality(Connections(map, js \cup {j})) <= Cardinality(Connections(map, js) \cup own)
  BY <1>2, <1>7, FS_Subset
<1>10. SegsOf(map, js \cup {j}) \in Nat
  BY ConnectionsFinite
<1>. QED  BY <1>1, <1>6, <1>7, <1>8, <1>9, <1>10 DEF SegsOf

-----------------------------------------------------------------------------
(* What the broker answers.                                                *)

LEMMA Numbers ==
  ASSUME NEW a \in Nat, NEW b \in Nat
  PROVE  /\ Minimum(a, b) \in Nat /\ Minimum(a, b) <= a /\ Minimum(a, b) <= b
         /\ Minimum(a, b) \in {a, b}
         /\ Maximum(a, b) \in Nat /\ Maximum(a, b) >= a /\ Maximum(a, b) >= b
         /\ Maximum(a, b) \in {a, b}
         /\ Less(a, b) \in Nat /\ Less(a, b) <= a /\ (Less(a, b) = a - b \/ (Less(a, b) = 0 /\ a <= b))
BY DEF Minimum, Maximum, Less

\* What is available fits the budgets beside the leases of the others.
LEMMA AvailableFits ==
  ASSUME NEW map \in [Jobs -> Leases], NEW j \in Jobs, NEW o, NEW cap \in Nat
  PROVE  LET others == Members(map, class[j]) \ {j}
             here   == MembersAt(map, class[j], o) \ {j}
             n      == Available(map, j, o, cap)
         IN  /\ n \in Nat /\ n <= cap /\ n # 1
             /\ n > 0 => /\ SegsOf(map, others) + n <= TotalBudget
                         /\ SegsOf(map, here) + n <= OriginBudget
<1>. DEFINE others == {k \in Jobs \ {j} : class[k] = class[j] /\ map[k] # NoLease}
            here   == {k \in others : map[k].origin = o}
            left   == Less(OriginBudget, SegsOf(map, here))
            plain  == Minimum(cap, Minimum(Less(TotalBudget, SegsOf(map, others)), left))
            later  == Less(FairWorkers, Cardinality(here) + 1)
            shared == Minimum(plain, Less(left, later * FairMin))
            fair   == IF here = {} THEN shared ELSE Minimum(shared, FairMin)
            n      == IF class[j] = "ProtectedHosterBulk" THEN fair ELSE plain
<1>1. others = Members(map, class[j]) \ {j} /\ here = MembersAt(map, class[j], o) \ {j}
  BY DEF Members, MembersAt
<1>2. SegsOf(map, others) \in Nat /\ SegsOf(map, here) \in Nat
  <2>1. others \in SUBSET Jobs /\ here \in SUBSET Jobs
    OBVIOUS
  <2>. QED  BY <2>1, ConnectionsFinite
<1>3. Cardinality(here) \in Nat
  <2>1. here \in SUBSET Jobs
    OBVIOUS
  <2>. QED  BY <2>1, JobsAssumption, FS_Subset, FS_CardinalityType
<1>4. Available(map, j, o, cap) = IF cap < 2 \/ n < 2 THEN 0 ELSE n
  BY DEF Available
<1>. HIDE DEF others, here
<1>5. later \in Nat /\ left \in Nat /\ left <= OriginBudget
  <2>1. Cardinality(here) + 1 \in Nat
    BY <1>3
  <2>. QED  BY <2>1, <1>2, Numbers, ProfileNumbers
<1>6. left = OriginBudget - SegsOf(map, here) \/ left = 0
  BY <1>2, Numbers, ProfileNumbers
<1>7. /\ Less(TotalBudget, SegsOf(map, others)) \in Nat
      /\ \/ Less(TotalBudget, SegsOf(map, others)) = TotalBudget - SegsOf(map, others)
         \/ Less(TotalBudget, SegsOf(map, others)) = 0
  BY <1>2, Numbers, ProfileNumbers
<1>. HIDE DEF left, later
<1>8. plain \in Nat /\ plain <= cap /\ plain <= left /\ plain <= Less(TotalBudget, SegsOf(map, others))
  BY <1>5, <1>7 DEF Minimum
<1>. HIDE DEF plain
<1>9. later * FairMin \in Nat
  BY <1>5 DEF FairMin
<1>10. Less(left, later * FairMin) \in Nat
  BY <1>5, <1>9, Numbers
<1>11. shared \in Nat /\ shared <= plain
  BY <1>8, <1>10, Numbers
<1>. HIDE DEF shared
<1>12. n \in Nat /\ n <= plain
  BY <1>8, <1>11 DEF Minimum, FairMin
<1>. HIDE DEF n
<1>13. Available(map, j, o, cap) > 0 => Available(map, j, o, cap) <= plain
  BY <1>4, <1>12, <1>8
<1>14. Available(map, j, o, cap) \in Nat /\ Available(map, j, o, cap) # 1 /\ Available(map, j, o, cap) <= cap
  BY <1>4, <1>12, <1>8
<1>15. Available(map, j, o, cap) > 0 =>
          /\ SegsOf(map, others) + Available(map, j, o, cap) <= TotalBudget
          /\ SegsOf(map, here) + Available(map, j, o, cap) <= OriginBudget
  BY <1>13, <1>14, <1>8, <1>7, <1>6, <1>5, <1>2, ProfileNumbers
<1>. QED  BY <1>14, <1>15, <1>1

\* A lease that fits beside the others keeps the map within its budgets.
LEMMA FittingLease ==
  ASSUME NEW map \in [Jobs -> Leases], NEW new \in [Jobs -> Leases], NEW j \in Jobs,
         class \in [Jobs -> Classes], Within(map),
         \A k \in Jobs \ {j} : new[k] = map[k],
         SegsOf(map, Members(map, class[j]) \ {j}) + new[j].segs <= TotalBudget,
         SegsOf(map, MembersAt(map, class[j], new[j].origin) \ {j}) + new[j].segs <= OriginBudget
  PROVE  Within(new)
<1>. SUFFICES ASSUME NEW cl \in Classes
              PROVE  /\ SegsOf(new, Members(new, cl)) <= TotalBudget
                     /\ \A o : SegsOf(new, MembersAt(new, cl, o)) <= OriginBudget
  BY DEF Within
<1>0. new[j].segs \in Nat
  BY ProfileNumbers DEF Leases
<1>1. ASSUME NEW js \in SUBSET Jobs, NEW ks \in SUBSET Jobs, js \ {j} \subseteq ks, j \notin js
      PROVE  SegsOf(new, js) <= SegsOf(map, ks)
  <2>1. \A k \in js : new[k].segs <= map[k].segs
    <3>. SUFFICES ASSUME NEW k \in js PROVE new[k].segs <= map[k].segs
      OBVIOUS
    <3>1. new[k] = map[k] /\ map[k].segs \in Nat
      BY <1>1, ProfileNumbers DEF Leases
    <3>. QED  BY <3>1
  <2>2. js \subseteq ks
    BY <1>1
  <2>. QED  BY <2>1, <2>2, FewerConnections
<1>2. ASSUME NEW js \in SUBSET Jobs, NEW ks \in SUBSET Jobs, js \ {j} \subseteq ks, j \notin ks
      PROVE  SegsOf(new, js) <= SegsOf(map, ks) + new[j].segs
  <2>1. SegsOf(new, js) <= SegsOf(new, ks \cup {j})
    <3>1. js \subseteq ks \cup {j} /\ ks \cup {j} \in SUBSET Jobs
      BY <1>2
    <3>2. \A k \in js : new[k].segs <= new[k].segs
      BY ProfileNumbers DEF Leases
    <3>. QED  BY <3>1, <3>2, FewerConnections
  <2>2. SegsOf(new, ks \cup {j}) <= SegsOf(new, ks) + new[j].segs
    BY OneMoreJob
  <2>3. SegsOf(new, ks) <= SegsOf(map, ks)
    BY <1>1, <1>2
  <2>4. SegsOf(new, js) \in Nat /\ SegsOf(new, ks \cup {j}) \in Nat /\ SegsOf(new, ks) \in Nat /\ SegsOf(map, ks) \in Nat
    BY ConnectionsFinite
  <2>. QED  BY <2>1, <2>2, <2>3, <2>4, <1>0
<1>3. /\ SegsOf(map, Members(map, cl)) <= TotalBudget
      /\ \A o : SegsOf(map, MembersAt(map, cl, o)) <= OriginBudget
  BY DEF Within
<1>4. \A o : /\ Members(map, cl) \in SUBSET Jobs /\ Members(new, cl) \in SUBSET Jobs
             /\ MembersAt(map, cl, o) \in SUBSET Jobs /\ MembersAt(new, cl, o) \in SUBSET Jobs
             /\ Members(new, cl) \ {j} \subseteq Members(map, cl)
             /\ MembersAt(new, cl, o) \ {j} \subseteq MembersAt(map, cl, o)
             /\ j \in Members(new, cl) => cl = class[j]
             /\ j \in MembersAt(new, cl, o) => cl = class[j] /\ o = new[j].origin
  BY DEF Members, MembersAt
<1>5. /\ SegsOf(map, Members(map, cl)) \in Nat /\ SegsOf(new, Members(new, cl)) \in Nat
      /\ SegsOf(map, Members(map, cl) \ {j}) \in Nat
  BY <1>4, ConnectionsFinite
<1>6. SegsOf(new, Members(new, cl)) <= TotalBudget
  <2>1. CASE j \notin Members(new, cl)
    <3>1. SegsOf(new, Members(new, cl)) <= SegsOf(map, Members(map, cl))
      BY <2>1, <1>1, <1>4
    <3>. QED  BY <3>1, <1>3, <1>5, ProfileNumbers
  <2>2. CASE j \in Members(new, cl)
    <3>1. cl = class[j]
      BY <2>2, <1>4
    <3>2. Members(map, cl) \ {j} \in SUBSET Jobs
          /\ Members(new, cl) \ {j} \subseteq Members(map, cl) \ {j} /\ j \notin Members(map, cl) \ {j}
      BY <1>4
    <3>3. SegsOf(new, Members(new, cl)) <= SegsOf(map, Members(map, cl) \ {j}) + new[j].segs
      BY <3>2, <1>2, <1>4
    <3>. QED  BY <3>1, <3>3, <1>0, <1>5, ProfileNumbers
  <2>. QED  BY <2>1, <2>2
<1>7. ASSUME NEW o
      PROVE  SegsOf(new, MembersAt(new, cl, o)) <= OriginBudget
  <2>0. /\ SegsOf(map, MembersAt(map, cl, o)) \in Nat /\ SegsOf(new, MembersAt(new, cl, o)) \in Nat
        /\ SegsOf(map, MembersAt(map, cl, o) \ {j}) \in Nat
    BY <1>4, ConnectionsFinite
  <2>1. CASE j \notin MembersAt(new, cl, o)
    <3>1. SegsOf(new, MembersAt(new, cl, o)) <= SegsOf(map, MembersAt(map, cl, o))
      BY <2>1, <1>1, <1>4
    <3>. QED  BY <3>1, <1>3, <2>0, ProfileNumbers
  <2>2. CASE j \in MembersAt(new, cl, o)
    <3>1. cl = class[j] /\ o = new[j].origin
      BY <2>2, <1>4
    <3>2. MembersAt(map, cl, o) \ {j} \in SUBSET Jobs
          /\ MembersAt(new, cl, o) \ {j} \subseteq MembersAt(map, cl, o) \ {j}
          /\ j \notin MembersAt(map, cl, o) \ {j}
      BY <1>4
    <3>3. SegsOf(new, MembersAt(new, cl, o)) <= SegsOf(map, MembersAt(map, cl, o) \ {j}) + new[j].segs
      BY <3>2, <1>2, <1>4
    <3>. QED  BY <3>1, <3>3, <1>0, <2>0, ProfileNumbers
  <2>. QED  BY <2>1, <2>2
<1>. QED  BY <1>6, <1>7

\* Leases that only lapse or shrink keep the map within its budgets.
LEMMA SmallerLeases ==
  ASSUME NEW map \in [Jobs -> Leases], NEW new \in [Jobs -> Leases], Within(map),
         \A k \in Jobs : new[k] # NoLease =>
            map[k] # NoLease /\ new[k].origin = map[k].origin /\ new[k].segs <= map[k].segs
  PROVE  Within(new)
<1>. SUFFICES ASSUME NEW cl \in Classes, NEW o
              PROVE  /\ SegsOf(new, Members(new, cl)) <= TotalBudget
                     /\ SegsOf(new, MembersAt(new, cl, o)) <= OriginBudget
  BY DEF Within
<1>1. /\ Members(map, cl) \in SUBSET Jobs /\ Members(new, cl) \in SUBSET Jobs
      /\ MembersAt(map, cl, o) \in SUBSET Jobs /\ MembersAt(new, cl, o) \in SUBSET Jobs
      /\ Members(new, cl) \subseteq Members(map, cl)
      /\ MembersAt(new, cl, o) \subseteq MembersAt(map, cl, o)
      /\ \A k \in Members(new, cl) : new[k].segs <= map[k].segs
      /\ \A k \in MembersAt(new, cl, o) : new[k].segs <= map[k].segs
  BY DEF Members, MembersAt
<1>2. SegsOf(new, Members(new, cl)) <= SegsOf(map, Members(map, cl))
  BY <1>1, FewerConnections
<1>3. SegsOf(new, MembersAt(new, cl, o)) <= SegsOf(map, MembersAt(map, cl, o))
  BY <1>1, FewerConnections
<1>4. SegsOf(map, Members(map, cl)) <= TotalBudget /\ SegsOf(map, MembersAt(map, cl, o)) <= OriginBudget
  BY DEF Within
<1>5. /\ SegsOf(map, Members(map, cl)) \in Nat /\ SegsOf(new, Members(new, cl)) \in Nat
      /\ SegsOf(map, MembersAt(map, cl, o)) \in Nat /\ SegsOf(new, MembersAt(new, cl, o)) \in Nat
  BY <1>1, ConnectionsFinite
<1>. QED  BY <1>2, <1>3, <1>4, <1>5, ProfileNumbers

-----------------------------------------------------------------------------
(* The broker's operations.                                                *)

LEMMA LeaseTypes ==
  /\ NoLease \in Leases /\ NoLease.segs = 0 /\ NoLease.origin = "none"
  /\ \A o \in Origins, n \in 0..MaxSegs : [origin |-> o, segs |-> n] \in Leases
  /\ \A l \in Leases, n \in 0..MaxSegs : [l EXCEPT !.segs = n] \in Leases
BY ProfileNumbers DEF NoLease, Leases

LEMMA Caps ==
  ASSUME NEW j \in Jobs
  PROVE  /\ InitialCap(j) \in Nat /\ InitialCap(j) >= 2
         /\ AdaptiveCap(j) \in Nat /\ AdaptiveCap(j) >= 2 /\ InitialCap(j) <= AdaptiveCap(j)
BY ProfileNumbers, ProfileAssumption DEF InitialCap, AdaptiveCap

BrokerOK == class \in [Jobs -> Classes] /\ leases \in [Jobs -> Leases] /\ Within(leases)

LEMMA FreshFits ==
  ASSUME BrokerOK
  PROVE  /\ Fresh \in [Jobs -> Leases] /\ Within(Fresh)
         /\ \A k \in Jobs : Fresh[k] = NoLease \/ Fresh[k] = leases[k]
<1>1. Fresh \in [Jobs -> Leases]
  BY LeaseTypes DEF Fresh, BrokerOK
<1>2. \A k \in Jobs : Fresh[k] = NoLease \/ Fresh[k] = leases[k]
  BY DEF Fresh
<1>3. \A k \in Jobs : leases[k].segs \in Nat
  BY ProfileNumbers DEF BrokerOK, Leases
<1>. HIDE DEF Fresh
<1>4. Within(Fresh)
  BY <1>1, <1>2, <1>3, SmallerLeases DEF BrokerOK
<1>. QED  BY <1>1, <1>2, <1>4

LEMMA ReserveFits ==
  ASSUME BrokerOK, NEW j \in Jobs, NEW o \in Origins, NEW n \in Int, Reserve(j, o, n)
  PROVE  /\ leases' \in [Jobs -> Leases] /\ Within(leases') /\ stale' = {}
         /\ leases'[j] = [origin |-> o, segs |-> n] /\ \A k \in Jobs \ {j} : leases'[k] = Fresh[k]
         /\ n \in 2..InitialSegs /\ n <= AdaptiveCap(j)
<1>1. Fresh \in [Jobs -> Leases] /\ Within(Fresh)
  BY FreshFits
<1>. DEFINE budget == Available(Fresh, j, o, InitialCap(j))
<1>2. /\ n \in 2..Minimum(InitialSegs, budget)
      /\ leases' = [Fresh EXCEPT ![j] = [origin |-> o, segs |-> n]] /\ stale' = {}
  BY DEF Reserve
<1>. HIDE DEF Fresh
<1>3. /\ budget \in Nat /\ budget <= InitialCap(j)
      /\ budget > 0 => /\ SegsOf(Fresh, Members(Fresh, class[j]) \ {j}) + budget <= TotalBudget
                       /\ SegsOf(Fresh, MembersAt(Fresh, class[j], o) \ {j}) + budget <= OriginBudget
  BY <1>1, Caps, AvailableFits
<1>4. /\ SegsOf(Fresh, Members(Fresh, class[j]) \ {j}) \in Nat
      /\ SegsOf(Fresh, MembersAt(Fresh, class[j], o) \ {j}) \in Nat
  <2>1. /\ Members(Fresh, class[j]) \ {j} \in SUBSET Jobs
        /\ MembersAt(Fresh, class[j], o) \ {j} \in SUBSET Jobs
    BY DEF Members, MembersAt
  <2>. QED  BY <2>1, ConnectionsFinite
<1>. HIDE DEF budget
<1>5. n <= budget /\ n \in 2..InitialSegs
  BY <1>2, <1>3, ProfileNumbers DEF Minimum
<1>6. n <= AdaptiveCap(j)
  BY <1>5, <1>3, Caps, ProfileNumbers
<1>7. n \in 0..MaxSegs
  BY <1>5, ProfileNumbers
<1>8. /\ leases' \in [Jobs -> Leases] /\ leases'[j] = [origin |-> o, segs |-> n]
      /\ \A k \in Jobs \ {j} : leases'[k] = Fresh[k]
  BY <1>1, <1>2, <1>7, LeaseTypes
<1>9. leases'[j].segs = n /\ leases'[j].origin = o
  BY <1>8
<1>10. /\ SegsOf(Fresh, Members(Fresh, class[j]) \ {j}) + leases'[j].segs <= TotalBudget
       /\ SegsOf(Fresh, MembersAt(Fresh, class[j], leases'[j].origin) \ {j}) + leases'[j].segs <= OriginBudget
  BY <1>3, <1>4, <1>5, <1>9, ProfileNumbers
<1>11. Within(leases')
  BY <1>1, <1>8, <1>10, FittingLease DEF BrokerOK
<1>. QED  BY <1>2, <1>5, <1>6, <1>8, <1>11

\* What grow_to grants: at least the lease, at most what was asked and what
\* the job's policy allows, unless the lease was larger already.
LEMMA GrantedFits ==
  ASSUME NEW map \in [Jobs -> Leases], NEW j \in Jobs, NEW o, NEW d \in 0..MaxSegs
  PROVE  LET g == Granted(map, j, o, d)
         IN  /\ g \in 0..MaxSegs /\ g >= map[j].segs
             /\ g <= d \/ g = map[j].segs
             /\ g <= AdaptiveCap(j) \/ g = map[j].segs
             /\ \/ g = map[j].segs
                \/ /\ SegsOf(map, Members(map, class[j]) \ {j}) + g <= TotalBudget
                   /\ SegsOf(map, MembersAt(map, class[j], o) \ {j}) + g <= OriginBudget
<1>. DEFINE cap == Minimum(d, AdaptiveCap(j))
            n   == Available(map, j, o, cap)
<1>1. d \in Nat /\ d <= MaxSegs
  BY ProfileNumbers
<1>2. cap \in Nat /\ cap <= d /\ cap <= AdaptiveCap(j)
  BY <1>1, Caps, Numbers
<1>3. Granted(map, j, o, d) = Maximum(map[j].segs, Minimum(n, cap))
  BY DEF Granted
<1>4. map[j].segs \in Nat /\ map[j].segs <= MaxSegs
  BY ProfileNumbers DEF Leases
<1>. HIDE DEF cap
<1>5. /\ n \in Nat /\ n <= cap
      /\ n > 0 => /\ SegsOf(map, Members(map, class[j]) \ {j}) + n <= TotalBudget
                  /\ SegsOf(map, MembersAt(map, class[j], o) \ {j}) + n <= OriginBudget
  BY <1>2, AvailableFits
<1>. HIDE DEF n
<1>6. Granted(map, j, o, d) = Maximum(map[j].segs, n)
  BY <1>2, <1>3, <1>5 DEF Minimum
<1>7. CASE map[j].segs >= n
  <2>1. Granted(map, j, o, d) = map[j].segs
    BY <1>4, <1>5, <1>6, <1>7 DEF Maximum
  <2>. QED  BY <2>1, <1>4, ProfileNumbers
<1>8. CASE n > map[j].segs
  <2>1. Granted(map, j, o, d) = n
    BY <1>4, <1>5, <1>6, <1>8 DEF Maximum
  <2>2. n > 0 /\ n <= d /\ n <= AdaptiveCap(j) /\ n \in 0..MaxSegs /\ n >= map[j].segs
    BY <1>1, <1>2, <1>4, <1>5, <1>8, Caps, ProfileNumbers
  <2>. QED  BY <2>1, <2>2, <1>5
<1>. QED  BY <1>4, <1>5, <1>7, <1>8

LEMMA GrowFits ==
  ASSUME BrokerOK, NEW j \in Jobs, NEW o, NEW d \in 0..MaxSegs, GrowTo(j, o, d),
         Fresh[j] # NoLease => Fresh[j].origin = o
  PROVE  /\ leases' \in [Jobs -> Leases] /\ Within(leases') /\ stale' = {}
         /\ \A k \in Jobs \ {j} : leases'[k] = Fresh[k]
         /\ Fresh[j] = NoLease => leases'[j] = NoLease
         /\ Fresh[j] # NoLease => /\ leases'[j].origin = Fresh[j].origin
                                  /\ leases'[j].segs = Granted(Fresh, j, o, d)
<1>1. Fresh \in [Jobs -> Leases] /\ Within(Fresh)
  BY FreshFits
<1>2. /\ leases' = IF Fresh[j] = NoLease THEN Fresh
                   ELSE [Fresh EXCEPT ![j].segs = Granted(Fresh, j, o, d)]
      /\ stale' = {}
  BY DEF GrowTo
<1>. DEFINE g == Granted(Fresh, j, o, d)
<1>. HIDE DEF Fresh
<1>3. CASE Fresh[j] = NoLease
  BY <1>1, <1>2, <1>3
<1>4. CASE Fresh[j] # NoLease
  <2>1. /\ g \in 0..MaxSegs
        /\ \/ g = Fresh[j].segs
           \/ /\ SegsOf(Fresh, Members(Fresh, class[j]) \ {j}) + g <= TotalBudget
              /\ SegsOf(Fresh, MembersAt(Fresh, class[j], o) \ {j}) + g <= OriginBudget
    BY <1>1, GrantedFits
  <2>2. leases' = [Fresh EXCEPT ![j].segs = g]
    BY <1>2, <1>4
  <2>. HIDE DEF g
  <2>3. /\ leases' \in [Jobs -> Leases] /\ \A k \in Jobs \ {j} : leases'[k] = Fresh[k]
        /\ leases'[j] = [Fresh[j] EXCEPT !.segs = g]
    BY <1>1, <2>1, <2>2, LeaseTypes
  <2>4. leases'[j].origin = Fresh[j].origin /\ leases'[j].segs = g
    BY <1>1, <2>3 DEF Leases
  <2>5. Within(leases')
    <3>1. CASE g = Fresh[j].segs
      <4>1. \A k \in Jobs : leases'[k] # NoLease =>
               Fresh[k] # NoLease /\ leases'[k].origin = Fresh[k].origin /\ leases'[k].segs <= Fresh[k].segs
        BY <1>1, <1>4, <2>3, <2>4, <3>1, ProfileNumbers DEF Leases
      <4>. QED  BY <1>1, <2>3, <4>1, SmallerLeases
    <3>2. CASE /\ SegsOf(Fresh, Members(Fresh, class[j]) \ {j}) + g <= TotalBudget
               /\ SegsOf(Fresh, MembersAt(Fresh, class[j], o) \ {j}) + g <= OriginBudget
      <4>1. leases'[j].segs = g /\ leases'[j].origin = o
        BY <1>4, <2>4
      <4>. QED  BY <1>1, <2>3, <3>2, <4>1, FittingLease DEF BrokerOK
    <3>. QED  BY <2>1, <3>1, <3>2
  <2>. QED  BY <1>2, <1>4, <2>3, <2>4, <2>5 DEF g
<1>. QED  BY <1>3, <1>4

LEMMA ShrunkFits ==
  ASSUME BrokerOK, NEW j \in Jobs, NEW n \in Nat
  PROVE  /\ ShrunkTo(j, n) \in [Jobs -> Leases] /\ Within(ShrunkTo(j, n))
         /\ \A k \in Jobs \ {j} : ShrunkTo(j, n)[k] = leases[k]
         /\ leases[j] = NoLease => ShrunkTo(j, n)[j] = NoLease
         /\ leases[j] # NoLease =>
              /\ ShrunkTo(j, n)[j].origin = leases[j].origin
              /\ ShrunkTo(j, n)[j].segs = Minimum(leases[j].segs, Minimum(n, AdaptiveCap(j)))
<1>. DEFINE least == Minimum(leases[j].segs, Minimum(n, AdaptiveCap(j)))
            new == ShrunkTo(j, n)
<1>1. leases[j].segs \in Nat /\ leases[j].segs <= MaxSegs
  BY ProfileNumbers DEF BrokerOK, Leases
<1>2. Minimum(n, AdaptiveCap(j)) \in Nat
  BY Caps, Numbers
<1>3. least \in Nat /\ least <= leases[j].segs
  BY <1>1, <1>2, Numbers
<1>4. least \in 0..MaxSegs
  BY <1>1, <1>3, ProfileNumbers
<1>5. new = IF leases[j] = NoLease THEN leases ELSE [leases EXCEPT ![j].segs = least]
  BY DEF ShrunkTo, BrokerOK
<1>. HIDE DEF least, new
<1>6. CASE leases[j] = NoLease
  BY <1>5, <1>6 DEF BrokerOK, new
<1>7. CASE leases[j] # NoLease
  <2>1. new = [leases EXCEPT ![j].segs = least]
    BY <1>5, <1>7
  <2>2. /\ new \in [Jobs -> Leases] /\ \A k \in Jobs \ {j} : new[k] = leases[k]
        /\ new[j] = [leases[j] EXCEPT !.segs = least]
    BY <1>4, <2>1, LeaseTypes DEF BrokerOK
  <2>3. new[j].origin = leases[j].origin /\ new[j].segs = least
    BY <2>2 DEF BrokerOK, Leases
  <2>4. \A k \in Jobs : new[k] # NoLease =>
           leases[k] # NoLease /\ new[k].origin = leases[k].origin /\ new[k].segs <= leases[k].segs
    <3>1. \A k \in Jobs : leases[k].segs \in Nat
      BY ProfileNumbers DEF BrokerOK, Leases
    <3>2. \A k \in Jobs \ {j} : new[k].origin = leases[k].origin /\ new[k].segs <= leases[k].segs
      BY <2>2, <3>1
    <3>3. \A k \in Jobs \ {j} : new[k] # NoLease => leases[k] # NoLease
      BY <2>2
    <3>4. new[j].origin = leases[j].origin /\ new[j].segs <= leases[j].segs
      BY <1>3, <2>3
    <3>. QED  BY <1>7, <3>2, <3>3, <3>4
  <2>5. Within(new)
    BY <2>2, <2>4, SmallerLeases DEF BrokerOK
  <2>. QED  BY <1>7, <2>2, <2>3, <2>5 DEF new, least
<1>. QED  BY <1>6, <1>7

\* Giving a lease back, or a lease that lapses.
LEMMA EndedFits ==
  ASSUME BrokerOK, NEW j \in Jobs
  PROVE  LET new == [leases EXCEPT ![j] = NoLease]
         IN  new \in [Jobs -> Leases] /\ Within(new)
<1>. DEFINE new == [leases EXCEPT ![j] = NoLease]
<1>1. new \in [Jobs -> Leases]
  BY LeaseTypes DEF BrokerOK
<1>2. \A k \in Jobs : new[k] # NoLease =>
         leases[k] # NoLease /\ new[k].origin = leases[k].origin /\ new[k].segs <= leases[k].segs
  <2>1. \A k \in Jobs : leases[k].segs \in Nat
    BY ProfileNumbers DEF BrokerOK, Leases
  <2>. QED  BY <2>1 DEF BrokerOK
<1>. HIDE DEF new
<1>3. Within(new)
  BY <1>1, <1>2, SmallerLeases DEF BrokerOK
<1>. QED  BY <1>1, <1>3 DEF new

\* The broker keeps its promise through any of these in one step.
LEMMA PromiseKept ==
  ASSUME class' = class, Within(leases')
  PROVE  Within(leases)'
BY DEF Within, Members, MembersAt

\* That promise is what BudgetRespected says of the leases.
LEMMA PromiseIsBudget ==
  ASSUME BrokerOK
  PROVE  BudgetRespected
<1>. SUFFICES ASSUME NEW j \in Leased
              PROVE  LET peers == {k \in Leased : class[k] = class[j]}
                     IN  /\ SegsOf(leases, peers) <= TotalBudget
                         /\ SegsOf(leases, {k \in peers : leases[k].origin = leases[j].origin})
                              <= OriginBudget
  BY DEF BudgetRespected
<1>1. j \in Jobs /\ class[j] \in Classes
  BY DEF BrokerOK, Leased
<1>2. {k \in Leased : class[k] = class[j]} = Members(leases, class[j])
  BY DEF Leased, Members
<1>. QED  BY <1>1, <1>2 DEF BrokerOK, Within, MembersAt

-----------------------------------------------------------------------------
(* The controller's helpers.                                               *)

\* A controller of a running attempt.
Good(c) ==
  c \in Controllers /\ c.admitted # 0 /\ (c.guard.healthy > 0 => c.guard.prev # 0)

\* What a sample that decides nothing leaves alone.
Kept(c, d) ==
  /\ Good(d) /\ d.admitted = c.admitted /\ d.live = c.live /\ d.origin = c.origin
  /\ d.trial.to \in {0, c.trial.to}

LEMMA KeptTwice ==
  ASSUME NEW c, NEW d, NEW e, Kept(c, d), Kept(d, e)
  PROVE  Kept(c, e)
BY DEF Kept

LEMMA EmptyRecords ==
  NoTrigger \in Triggers /\ NoTrigger.n = 0 /\ NoTrial \in Trials /\ NoTrial.to = 0
  /\ NoGuard \in Guards /\ NoGuard.healthy = 0 /\ NoReject \in Rejects
<1>1. 0 \in Counts /\ 0 \in Speeds /\ 0 \in 0..HealthyWindows /\ 0 \in 0..MaxCooldown
  BY ProfileNumbers DEF Counts, Speeds
<1>2. NoTrigger \in Triggers /\ NoTrigger.n = 0
  BY <1>1 DEF NoTrigger, Triggers
<1>3. NoTrial \in Trials /\ NoTrial.to = 0
  BY <1>1 DEF NoTrial, Trials
<1>4. NoGuard \in Guards /\ NoGuard.healthy = 0
  BY <1>1 DEF NoGuard, Guards
<1>5. NoReject \in Rejects
  BY <1>1 DEF NoReject, Rejects
<1>. QED  BY <1>2, <1>3, <1>4, <1>5

LEMMA CountNumbers ==
  /\ \A n \in Counts : n \in Nat /\ n # 1 /\ n <= MaxSegs /\ (n # 0 => n \in 2..MaxSegs)
  /\ \A n \in 2..MaxSegs : n \in Counts /\ n \in 0..MaxSegs /\ n \in Nat /\ n >= 2
  /\ 0 \in Counts
  /\ \A s \in Speeds : s \in Nat /\ s <= MaxSpeed
  /\ \A s \in 1..MaxSpeed : s \in Speeds /\ s > 0
BY ProfileNumbers DEF Counts, Speeds

\* Changing several fields at once.
LEMMA TrialChanged ==
  ASSUME NEW r \in Controllers, NEW t \in Trials, NEW p \in {"ready", "pending", "tried"},
         NEW d, d = [r EXCEPT !.trial = t, !.probe = p]
  PROVE  d \in Controllers
BY DEF Controllers

LEMMA WindowChanged ==
  ASSUME NEW r \in Controllers, NEW k \in 0..1, NEW n \in 0..2, NEW b \in Speeds,
         NEW d, d = [r EXCEPT !.warm = k, !.count = n, !.base = b]
  PROVE  d \in Controllers
BY DEF Controllers

LEMMA StableChanged ==
  ASSUME NEW r \in Controllers, NEW w \in Counts, NEW k \in 0..1, NEW n \in 0..2, NEW b \in Speeds,
         NEW d, d = [r EXCEPT !.stable = w, !.warm = k, !.count = n, !.base = b]
  PROVE  d \in Controllers
BY DEF Controllers

LEMMA AdmittedChanged ==
  ASSUME NEW r \in Controllers, NEW v \in 0..MaxSegs, NEW w \in Counts, NEW g \in Guards,
         NEW d, d = [r EXCEPT !.target = v, !.admitted = w, !.guard = g]
  PROVE  d \in Controllers
BY DEF Controllers

LEMMA SumChanged ==
  ASSUME NEW t \in Trials, NEW n \in 0..1, NEW s \in Speeds,
         NEW d, d = [t EXCEPT !.n = n, !.sum = s]
  PROVE  d \in Trials /\ d.to = t.to
BY DEF Trials

LEMMA GuardChanged ==
  ASSUME NEW g \in Guards, NEW b \in 0..1, NEW k \in 0..HealthyWindows,
         NEW d, d = [g EXCEPT !.bad = b, !.healthy = k]
  PROVE  d \in Guards /\ d.prev = g.prev
BY DEF Guards

LEMMA ResetTriggerKeeps ==
  ASSUME NEW c, Good(c)
  PROVE  /\ Kept(c, ResetTrigger(c)) /\ ResetTrigger(c).trig.n = 0
         /\ ResetTrigger(c).count = c.count /\ ResetTrigger(c).guard = c.guard
<1>. DEFINE t == NoTrigger
<1>1. t \in Triggers /\ t.n = 0
  BY EmptyRecords
<1>2. ResetTrigger(c) = [c EXCEPT !.trig = t]
  BY DEF ResetTrigger
<1>. HIDE DEF t
<1>. QED  BY <1>1, <1>2 DEF Kept, Good, Controllers

LEMMA ClearTrialKeeps ==
  ASSUME NEW c, Good(c)
  PROVE  Kept(c, ClearTrial(c)) /\ ClearTrial(c).trial.to = 0 /\ ClearTrial(c).guard = c.guard
<1>. DEFINE t == NoTrial
            r == ResetTrigger(c)
            p == IF r.probe = "pending" THEN "ready" ELSE r.probe
<1>1. t \in Trials /\ t.to = 0
  BY EmptyRecords
<1>2. Kept(c, r) /\ r.guard = c.guard
  BY ResetTriggerKeeps
<1>3. ClearTrial(c) = [r EXCEPT !.trial = t, !.probe = p]
  BY DEF ClearTrial
<1>. HIDE DEF t, r
<1>4. p \in {"ready", "pending", "tried"}
  BY <1>2 DEF Kept, Good, Controllers
<1>. HIDE DEF p
<1>5. ClearTrial(c) \in Controllers
  <2>1. r \in Controllers
    BY <1>2 DEF Kept, Good
  <2>. QED  BY <1>1, <1>3, <1>4, <2>1, TrialChanged, Zenon
<1>. DEFINE d == ClearTrial(c)
<1>6. /\ d.admitted = r.admitted /\ d.live = r.live /\ d.origin = r.origin
      /\ d.trial = t /\ d.guard = r.guard
  BY <1>2, <1>3 DEF Kept, Good, Controllers
<1>. QED  BY <1>1, <1>2, <1>5, <1>6 DEF Kept, Good

LEMMA ResetStableKeeps ==
  ASSUME NEW c, Good(c), NEW w \in Counts
  PROVE  Kept(c, ResetStable(c, w)) /\ ResetStable(c, w).guard = c.guard
<1>. DEFINE r == ResetTrigger(c)
<1>1. Kept(c, r) /\ r.guard = c.guard
  BY ResetTriggerKeeps
<1>2. ResetStable(c, w) = [r EXCEPT !.stable = w, !.warm = 0, !.count = 0, !.base = 0]
  BY DEF ResetStable
<1>3. 0 \in Speeds
  BY ProfileNumbers DEF Speeds
<1>. HIDE DEF r
<1>4. ResetStable(c, w) \in Controllers
  <2>1. r \in Controllers
    BY <1>1 DEF Kept, Good
  <2>2. 0 \in 0..1 /\ 0 \in 0..2
    OBVIOUS
  <2>. QED  BY <1>2, <1>3, <2>1, <2>2, StableChanged, Zenon
<1>. DEFINE d == ResetStable(c, w)
<1>5. /\ d.admitted = r.admitted /\ d.live = r.live /\ d.origin = r.origin
      /\ d.trial = r.trial /\ d.guard = r.guard
  BY <1>1, <1>2 DEF Kept, Good, Controllers
<1>. QED  BY <1>1, <1>4, <1>5 DEF Kept, Good

LEMMA EstablishStableKeeps ==
  ASSUME NEW c, Good(c), NEW w \in Counts, NEW s \in Speeds
  PROVE  Kept(c, EstablishStable(c, w, s)) /\ EstablishStable(c, w, s).guard = c.guard
<1>. DEFINE r == ResetTrigger(c)
<1>1. Kept(c, r) /\ r.guard = c.guard
  BY ResetTriggerKeeps
<1>2. EstablishStable(c, w, s) = [r EXCEPT !.stable = w, !.warm = 1, !.count = 2, !.base = s]
  BY DEF EstablishStable
<1>. HIDE DEF r
<1>3. EstablishStable(c, w, s) \in Controllers
  <2>1. r \in Controllers
    BY <1>1 DEF Kept, Good
  <2>. DEFINE k == 1
              n == 2
  <2>2. k \in 0..1 /\ n \in 0..2
    OBVIOUS
  <2>3. EstablishStable(c, w, s) = [r EXCEPT !.stable = w, !.warm = k, !.count = n, !.base = s]
    BY <1>2
  <2>. HIDE DEF k, n
  <2>. QED  BY <2>1, <2>2, <2>3, StableChanged, Zenon
<1>. DEFINE d == EstablishStable(c, w, s)
<1>4. /\ d.admitted = r.admitted /\ d.live = r.live /\ d.origin = r.origin
      /\ d.trial = r.trial /\ d.guard = r.guard
  BY <1>1, <1>2 DEF Kept, Good, Controllers
<1>. QED  BY <1>1, <1>3, <1>4 DEF Kept, Good

LEMMA RejectKeeps ==
  ASSUME NEW c, Good(c), NEW s \in Speeds
  PROVE  Kept(c, Reject(c, s))
<1>. DEFINE r == c.rejected[c.admitted]
            rest == IF r.next = 0 THEN Cooldown ELSE Minimum(2 * r.next, MaxCooldown)
            v == [cool |-> rest, next |-> rest, base |-> Maximum(r.base, s)]
<1>1. c.admitted \in 2..MaxSegs /\ c.rejected \in [2..MaxSegs -> Rejects]
  BY CountNumbers DEF Good, Controllers
<1>2. r \in Rejects
  BY <1>1
<1>3. Reject(c, s) = [c EXCEPT !.rejected = [c.rejected EXCEPT ![c.admitted] = v]]
  BY DEF Reject, Good, Controllers
<1>. HIDE DEF r
<1>4. r.next \in Nat /\ r.base \in Speeds
  BY <1>2, ProfileNumbers DEF Rejects
<1>5. rest \in 0..MaxCooldown
  BY <1>4, ProfileNumbers DEF Minimum
<1>6. Maximum(r.base, s) \in Speeds
  BY <1>4 DEF Maximum
<1>7. v \in Rejects
  BY <1>5, <1>6 DEF Rejects
<1>. HIDE DEF v
<1>8. [c.rejected EXCEPT ![c.admitted] = v] \in [2..MaxSegs -> Rejects]
  BY <1>1, <1>7
<1>. QED  BY <1>3, <1>8 DEF Kept, Good, Controllers

\* A rollback leaves the workers at work and wants w of them.
RolledBack(c, d, w) ==
  Good(d) /\ d.admitted = w /\ d.live = c.live /\ d.origin = c.origin /\ d.trial.to = 0

LEMMA RollBackGives ==
  ASSUME NEW c, Good(c), NEW w \in 2..MaxSegs, NEW s \in Speeds
  PROVE  RolledBack(c, RollBack(c, w, s), w)
<1>. DEFINE r == Reject(c, s)
            t == ClearTrial(r)
            g == NoGuard
<1>1. Kept(c, r)
  BY RejectKeeps
<1>2. Good(r)
  BY <1>1 DEF Kept
<1>. HIDE DEF r
<1>3. Kept(r, t) /\ t.trial.to = 0
  BY <1>2, ClearTrialKeeps
<1>4. RollBack(c, w, s) = [t EXCEPT !.target = w, !.admitted = w, !.guard = g]
  BY DEF RollBack, r
<1>5. g \in Guards /\ g.healthy = 0
  BY EmptyRecords
<1>. HIDE DEF t, g
<1>6. Good(t) /\ t.live = c.live /\ t.origin = c.origin
  BY <1>1, <1>3 DEF Kept
<1>7. w \in Counts /\ w \in 0..MaxSegs /\ w # 0
  BY CountNumbers
<1>. DEFINE d == RollBack(c, w, s)
<1>8. d \in Controllers
  <2>1. t \in Controllers
    BY <1>6 DEF Good
  <2>. QED  BY <1>4, <1>5, <1>7, <2>1, AdmittedChanged, Zenon
<1>9. /\ d.admitted = w /\ d.live = t.live /\ d.origin = t.origin /\ d.trial = t.trial /\ d.guard = g
  BY <1>4, <1>5, <1>6, <1>7 DEF Good, Controllers
<1>. QED  BY <1>3, <1>5, <1>6, <1>7, <1>8, <1>9 DEF RolledBack, Good

LEMMA RolledBackKept ==
  ASSUME NEW c, NEW d, NEW e, NEW w, RolledBack(c, d, w), Kept(d, e)
  PROVE  RolledBack(c, e, w)
BY DEF RolledBack, Kept

LEMMA DesiredIs ==
  ASSUME NEW c, Good(c)
  PROVE  Desired(c) \in 2..MaxSegs /\ Desired(c) >= c.admitted
<1>1. c.admitted \in 2..MaxSegs
  BY CountNumbers DEF Good, Controllers
<1>. QED  BY <1>1, ProfileNumbers DEF Desired, Minimum

LEMMA StableTargetIs ==
  ASSUME NEW c, Good(c)
  PROVE  /\ StableTarget(c) \in 2..MaxSegs
         /\ Minimum(StableTarget(c), c.admitted) \in 2..MaxSegs
         /\ Minimum(StableTarget(c), c.admitted) <= c.admitted
<1>1. c.admitted \in 2..MaxSegs /\ c.stable \in Nat /\ c.stable # 1
  BY CountNumbers DEF Good, Controllers
<1>2. StableTarget(c) \in 2..MaxSegs
  BY <1>1, ProfileNumbers DEF StableTarget, Minimum, Maximum
<1>. QED  BY <1>1, <1>2, ProfileNumbers DEF Minimum

LEMMA TrialBaseIs ==
  ASSUME NEW c, Good(c), NEW s \in Speeds
  PROVE  TrialBase(c, s) \in Speeds
<1>1. c.base \in Speeds /\ c.trial \in Trials /\ 0 \in Speeds
  BY ProfileNumbers DEF Good, Controllers, Speeds
<1>2. c.trial.base \in Speeds
  BY <1>1 DEF Trials
<1>. QED  BY <1>1, <1>2 DEF TrialBase, Baseline

LEMMA SampledKeeps ==
  ASSUME Good(ctl), NEW s \in Speeds
  PROVE  Kept(ctl, Sampled(s)) /\ Sampled(s).guard = ctl.guard
<1>. DEFINE v == IF ctl.stable < SoftMax THEN s ELSE 0
<1>1. v \in Speeds
  BY ProfileNumbers DEF Speeds
<1>2. Sampled(s) = [ctl EXCEPT !.last = v]
  BY DEF Sampled
<1>. HIDE DEF v
<1>. QED  BY <1>1, <1>2 DEF Kept, Good, Controllers

LEMMA FixedIs ==
  ASSUME NEW o \in Origins \cup {"none"}, NEW n \in Counts
  PROVE  /\ Fixed(o, n) \in Controllers /\ Fixed(o, n).admitted = n /\ Fixed(o, n).live = n
         /\ Fixed(o, n).origin = o /\ Fixed(o, n).trial.to = 0 /\ Fixed(o, n).guard.healthy = 0
<1>. DEFINE r == [w \in 2..MaxSegs |-> NoReject]
            t == NoTrigger
            u == NoTrial
            g == NoGuard
<1>1. /\ t \in Triggers /\ u \in Trials /\ u.to = 0 /\ g \in Guards /\ g.healthy = 0
      /\ r \in [2..MaxSegs -> Rejects]
  BY EmptyRecords
<1>2. Fixed(o, n) =
         [origin |-> o, admitted |-> n, target |-> n, live |-> n, blocked |-> FALSE,
          last |-> 0, stable |-> n, warm |-> 0, count |-> 0, base |-> 0,
          probe |-> "ready", trig |-> t, trial |-> u, guard |-> g, rejected |-> r]
  BY DEF Fixed
<1>3. n \in 0..MaxSegs /\ n \in 0..MaxWorkers /\ 0 \in Speeds
  BY CountNumbers, ProfileNumbers DEF Speeds
<1>. HIDE DEF r, t, u, g
<1>. QED  BY <1>1, <1>2, <1>3 DEF Controllers

LEMMA BlockedKeeps ==
  ASSUME NEW c, Good(c)
  PROVE  Kept(c, Blocked(c))
<1>. DEFINE f == Fixed(c.origin, c.admitted)
<1>1. c.origin \in Origins \cup {"none"} /\ c.admitted \in Counts /\ c.admitted # 0
      /\ c.target \in 0..MaxSegs /\ c.live \in 0..MaxWorkers
  BY DEF Good, Controllers
<1>2. /\ f \in Controllers /\ f.admitted = c.admitted /\ f.origin = c.origin
      /\ f.trial.to = 0 /\ f.guard.healthy = 0
  BY <1>1, FixedIs
<1>3. Blocked(c) = [f EXCEPT !.target = c.target, !.live = c.live, !.blocked = TRUE]
  BY DEF Blocked
<1>. HIDE DEF f
<1>4. Blocked(c) \in Controllers
  BY <1>1, <1>2, <1>3 DEF Controllers
<1>5. /\ Blocked(c).admitted = f.admitted /\ Blocked(c).live = c.live /\ Blocked(c).origin = f.origin
      /\ Blocked(c).trial = f.trial /\ Blocked(c).guard = f.guard
  BY <1>1, <1>2, <1>3 DEF Controllers
<1>. QED  BY <1>1, <1>2, <1>4, <1>5 DEF Kept, Good

LEMMA GuardedKeeps ==
  ASSUME Good(ctl), NEW c, Kept(ctl, c), NEW s \in Speeds
  PROVE  /\ Kept(ctl, Guarded(c, s))
         /\ Guarded(c, s).rejected = c.rejected /\ Guarded(c, s).count = c.count
<1>. DEFINE g == c.guard
            z == NoGuard
<1>1. Good(c) /\ g \in Guards /\ g.healthy \in 0..HealthyWindows
  BY DEF Kept, Good, Controllers, Guards
<1>2. CASE ~ GuardActive(c)
  BY <1>2 DEF Guarded
<1>3. CASE GuardActive(c) /\ GuardBad(s)
  <2>1. Guarded(c, s) = [c EXCEPT !.guard = [g EXCEPT !.bad = 1]]
    BY <1>1, <1>3 DEF Guarded, Good, Controllers
  <2>2. [g EXCEPT !.bad = 1] \in Guards /\ [g EXCEPT !.bad = 1].healthy = g.healthy
        /\ [g EXCEPT !.bad = 1].prev = g.prev
    BY <1>1 DEF Guards
  <2>. DEFINE v == [g EXCEPT !.bad = 1]
  <2>. HIDE DEF v
  <2>3. v \in Guards /\ (v.healthy > 0 => v.prev # 0) /\ Guarded(c, s) = [c EXCEPT !.guard = v]
    BY <1>1, <2>1, <2>2 DEF v, Good
  <2>. QED  BY <2>3 DEF Kept, Good, Controllers
<1>4. CASE GuardActive(c) /\ ~ GuardBad(s) /\ c.guard.healthy = 1
  <2>1. Guarded(c, s) = [c EXCEPT !.guard = z]
    BY <1>4 DEF Guarded
  <2>2. z \in Guards /\ z.healthy = 0
    BY EmptyRecords
  <2>. HIDE DEF z
  <2>. QED  BY <2>1, <2>2 DEF Kept, Good, Controllers
<1>5. CASE GuardActive(c) /\ ~ GuardBad(s) /\ c.guard.healthy # 1
  <2>. DEFINE v == [g EXCEPT !.bad = 0, !.healthy = g.healthy - 1]
  <2>1. Guarded(c, s) = [c EXCEPT !.guard = v]
    BY <1>1, <1>5 DEF Guarded, Good, Controllers
  <2>2. g.healthy > 0
    BY <1>5 DEF GuardActive
  <2>3. v \in Guards /\ v.prev = g.prev
    <3>1. g.healthy - 1 \in 0..HealthyWindows
      BY <1>1, <2>2, ProfileNumbers
    <3>. DEFINE h == g.healthy - 1
    <3>. HIDE DEF h, g
    <3>2. h \in 0..HealthyWindows
      BY <3>1 DEF h
    <3>3. g \in Guards
      BY <1>1
    <3>. DEFINE b == 0
    <3>5. b \in 0..1
      OBVIOUS
    <3>6. v = [g EXCEPT !.bad = b, !.healthy = h]
      BY DEF h
    <3>. HIDE DEF b, v
    <3>7. v \in Guards /\ v.prev = g.prev
      BY <3>2, <3>3, <3>5, <3>6, GuardChanged, ZenonT(60)
    <3>. QED  BY <3>7 DEF g
  <2>4. v.healthy > 0 => v.prev # 0
    BY <1>1, <2>2, <2>3 DEF Good
  <2>. HIDE DEF v
  <2>. QED  BY <2>1, <2>3, <2>4 DEF Kept, Good, Controllers
<1>. QED  BY <1>2, <1>3, <1>4, <1>5

LEMMA TickedKeeps ==
  ASSUME NEW c, Good(c)
  PROVE  /\ Kept(c, Ticked(c)) /\ Ticked(c).count = c.count
         /\ \A d \in 2..MaxSegs :
              c.rejected[d].cool = 0 => Ticked(c).rejected[d].cool = 0
<1>. DEFINE d == Desired(c)
            v == [c.rejected[d] EXCEPT !.cool = Less(c.rejected[d].cool, 1)]
            r == [c.rejected EXCEPT ![d] = v]
<1>1. d \in 2..MaxSegs /\ c.rejected \in [2..MaxSegs -> Rejects]
  BY DesiredIs DEF Good, Controllers
<1>2. Ticked(c) = [c EXCEPT !.rejected = r]
  BY <1>1 DEF Ticked, Good, Controllers
<1>. HIDE DEF d
<1>3. c.rejected[d] \in Rejects
  BY <1>1
<1>4. c.rejected[d].cool \in 0..MaxCooldown
  BY <1>3 DEF Rejects
<1>5. Less(c.rejected[d].cool, 1) \in 0..MaxCooldown
      /\ (c.rejected[d].cool = 0 => Less(c.rejected[d].cool, 1) = 0)
  BY <1>4, ProfileNumbers DEF Less, Maximum
<1>6. v \in Rejects /\ (c.rejected[d].cool = 0 => v.cool = 0)
  BY <1>3, <1>5 DEF Rejects
<1>. HIDE DEF v
<1>7. r \in [2..MaxSegs -> Rejects]
      /\ \A e \in 2..MaxSegs : c.rejected[e].cool = 0 => r[e].cool = 0
  BY <1>1, <1>6
<1>. HIDE DEF r
<1>. QED  BY <1>2, <1>7 DEF Kept, Good, Controllers

LEMMA RequiredIs ==
  ASSUME NEW c, Good(c)
  PROVE  Required(c) \in Nat
<1>1. Desired(c) \in 2..MaxSegs
  BY DesiredIs
<1>2. c.rejected[Desired(c)] \in Rejects
  BY <1>1 DEF Good, Controllers
<1>3. c.rejected[Desired(c)].base \in Nat
  BY <1>2, CountNumbers DEF Rejects
<1>4. Baseline(c) \in Nat
  BY CountNumbers DEF Baseline, Good, Controllers
<1>5. \A n, p \in Nat : Percent(n, p) \in Nat
  <2>. SUFFICES ASSUME NEW n \in Nat, NEW p \in Nat PROVE Percent(n, p) \in Nat
    OBVIOUS
  <2>1. n * p \in Nat
    OBVIOUS
  <2>. DEFINE m == n * p
  <2>. HIDE DEF m
  <2>2. (m + 99) \div 100 \in Nat
    BY <2>1 DEF m
  <2>. QED  BY <2>2 DEF Percent, m
<1>6. /\ Percent(Baseline(c), 112) \in Nat /\ Percent(Baseline(c), 108) \in Nat
      /\ Percent(c.rejected[Desired(c)].base, 110) \in Nat
  BY <1>3, <1>4, <1>5
<1>. QED  BY <1>6, Numbers DEF Required

LEMMA MeasuredKeeps ==
  ASSUME Good(ctl), NEW c, Kept(ctl, c), NEW s \in Speeds
  PROVE  /\ Kept(ctl, Measured(c, s))
         /\ Measured(c, s).trig.n = 2 =>
              Measured(c, s).rejected[Desired(Measured(c, s))].cool = 0
<1>. DEFINE guarded == Guarded(c, s)
            next  == Ticked(guarded)
            again == c.trig.to = Desired(c) /\ c.trig.need = Required(c)
            n     == IF again THEN Minimum(c.trig.n + 1, 2) ELSE 1
            reset == ResetTrigger(next)
            trig  == [n |-> n, to |-> Desired(c), need |-> Required(c),
                      base |-> IF n = 2 THEN Baseline(c) ELSE next.trig.base]
<1>1. Good(c)
  BY DEF Kept
<1>2. Kept(ctl, guarded) /\ guarded.rejected = c.rejected /\ guarded.count = c.count
  BY GuardedKeeps
<1>. HIDE DEF guarded
<1>3. /\ Kept(guarded, next) /\ next.count = guarded.count
      /\ \A d \in 2..MaxSegs : c.rejected[d].cool = 0 => next.rejected[d].cool = 0
  <2>1. Good(guarded)
    BY <1>2 DEF Kept
  <2>. QED  BY <2>1, <1>2, TickedKeeps
<1>. HIDE DEF next
<1>4. Kept(ctl, next)
  BY <1>2, <1>3, KeptTwice
<1>5. Kept(next, reset) /\ reset.trig.n = 0 /\ reset.count = next.count
  <2>1. Good(next)
    BY <1>4 DEF Kept
  <2>. QED  BY <2>1, ResetTriggerKeeps
<1>. HIDE DEF reset
<1>6. Kept(ctl, reset)
  BY <1>4, <1>5, KeptTwice
<1>7. Measured(c, s) =
        IF c.warm = 0 THEN [reset EXCEPT !.warm = 1, !.count = 0, !.base = 0]
        ELSE IF c.count < 2
             THEN [reset EXCEPT !.count = @ + 1, !.base = Maximum(@, s)]
        ELSE IF ~Ready(c) \/ s < Required(c) THEN reset
        ELSE [next EXCEPT !.trig = [n |-> n, to |-> Desired(c), need |-> Required(c),
                                    base |-> IF n = 2 THEN Baseline(c) ELSE @.base]]
  BY DEF Measured, next, guarded, reset
<1>8. CASE c.warm = 0
  <2>1. Measured(c, s) = [reset EXCEPT !.warm = 1, !.count = 0, !.base = 0]
    BY <1>7, <1>8
  <2>2. 0 \in Speeds
    BY ProfileNumbers DEF Speeds
  <2>3. Kept(ctl, Measured(c, s)) /\ Measured(c, s).trig = reset.trig
    <3>1. Measured(c, s) \in Controllers
      <4>1. reset \in Controllers
        BY <1>6 DEF Kept, Good
      <4>2. 1 \in 0..1 /\ 0 \in 0..2
        OBVIOUS
      <4>. QED  BY <4>1, <4>2, <2>1, <2>2, WindowChanged, Zenon
    <3>2. /\ Measured(c, s).admitted = reset.admitted /\ Measured(c, s).live = reset.live
          /\ Measured(c, s).origin = reset.origin /\ Measured(c, s).trial = reset.trial
          /\ Measured(c, s).guard = reset.guard /\ Measured(c, s).trig = reset.trig
      BY <1>6, <2>1 DEF Kept, Good, Controllers
    <3>. QED  BY <1>6, <3>1, <3>2 DEF Kept, Good
  <2>. QED  BY <1>5, <2>3
<1>9. CASE c.warm # 0 /\ c.count < 2
  <2>1. Measured(c, s) = [reset EXCEPT !.count = reset.count + 1, !.base = Maximum(reset.base, s)]
    BY <1>7, <1>9
  <2>2. reset.count \in 0..1 /\ reset.base \in Speeds
    BY <1>1, <1>2, <1>3, <1>5, <1>9 DEF Kept, Good, Controllers
  <2>3. reset.count + 1 \in 0..2 /\ Maximum(reset.base, s) \in Speeds
    BY <2>2, CountNumbers DEF Maximum
  <2>. DEFINE k == reset.count + 1
              b == Maximum(reset.base, s)
  <2>. HIDE DEF k, b
  <2>4. Measured(c, s) = [reset EXCEPT !.count = k, !.base = b] /\ k \in 0..2 /\ b \in Speeds
    BY <2>1, <2>3 DEF k, b
  <2>5. Measured(c, s) \in Controllers
    BY <1>6, <2>4 DEF Kept, Good, Controllers
  <2>6. /\ Measured(c, s).admitted = reset.admitted /\ Measured(c, s).live = reset.live
        /\ Measured(c, s).origin = reset.origin /\ Measured(c, s).trial = reset.trial
        /\ Measured(c, s).guard = reset.guard /\ Measured(c, s).trig = reset.trig
    BY <1>6, <2>4 DEF Kept, Good, Controllers
  <2>. QED  BY <1>5, <1>6, <2>5, <2>6 DEF Kept, Good
<1>10. CASE c.warm # 0 /\ ~ c.count < 2 /\ (~Ready(c) \/ s < Required(c))
  BY <1>5, <1>6, <1>7, <1>10
<1>11. CASE c.warm # 0 /\ ~ c.count < 2 /\ ~ (~Ready(c) \/ s < Required(c))
  <2>1. Measured(c, s) = [next EXCEPT !.trig = trig]
    BY <1>7, <1>11
  <2>2. Desired(c) \in 2..MaxSegs /\ Desired(c) \in Counts
    BY <1>1, DesiredIs, CountNumbers
  <2>3. Required(c) \in Nat
    BY <1>1, RequiredIs
  <2>4. Baseline(c) \in Speeds /\ c.trig \in Triggers
    BY <1>1, ProfileNumbers DEF Baseline, Good, Controllers, Speeds
  <2>5. n \in 0..2
    <3>1. c.trig.n \in 0..2
      BY <2>4 DEF Triggers
    <3>. QED  BY <3>1 DEF Minimum
  <2>6. next.trig.base \in Speeds
    BY <1>4 DEF Kept, Good, Controllers, Triggers
  <2>. HIDE DEF n
  <2>7. trig \in Triggers
    BY <2>2, <2>3, <2>4, <2>5, <2>6 DEF Triggers
  <2>. HIDE DEF trig
  <2>8. Kept(ctl, Measured(c, s)) /\ Measured(c, s).rejected = next.rejected
    BY <1>4, <2>1, <2>7 DEF Kept, Good, Controllers
  <2>9. Desired(Measured(c, s)) = Desired(c)
    BY <2>8 DEF Kept, Desired
  <2>10. c.rejected[Desired(c)].cool \in Nat /\ ~ (c.rejected[Desired(c)].cool > 0)
    <3>1. c.rejected[Desired(c)] \in Rejects
      BY <1>1, <2>2 DEF Good, Controllers
    <3>2. c.rejected[Desired(c)].cool \in Nat
      BY <3>1, ProfileNumbers DEF Rejects
    <3>. QED  BY <3>2, <1>11 DEF Ready, Resting
  <2>11. next.rejected[Desired(c)].cool = 0
    BY <1>3, <2>2, <2>10
  <2>. QED  BY <2>8, <2>9, <2>11
<1>. QED  BY <1>8, <1>9, <1>10, <1>11

-----------------------------------------------------------------------------
(* The invariant.                                                          *)

\* While Me has its lease, the lease is for the workers it has admitted.
CoverInv ==
  leases[Me] # NoLease =>
    /\ phase # "idle" /\ leases[Me].origin = ctl.origin
    /\ leases[Me].segs = ctl.admitted /\ ctl.admitted <= AdaptiveCap(Me)
    /\ ctl.live <= ctl.admitted \/ shed

\* A ramp that was decided may start a trial where it is asked to.
MayTry(c) ==
  c.admitted < SoftMax \/ c.probe = "pending" \/ c.rejected[Desired(c)].cool = 0
AdmitInv == phase = "admit" => MayTry(ctl)

Inv == TypeOK /\ Within(leases) /\ CoverInv /\ AdmitInv

NoNewTrial == ctl.trial.to = 0 => ctl'.trial.to = 0

LEMMA InvGives ==
  ASSUME Inv
  PROVE  /\ BrokerOK /\ Me \in Jobs /\ stale \subseteq Leased
         /\ phase # "idle" => Good(ctl)
         /\ phase = "idle" => leases[Me] = NoLease
BY JobsAssumption DEF Inv, TypeOK, BrokerOK, Good, CoverInv

\* The broker's side of a step, and the attempt's, make the invariant.
LEMMA InvMade ==
  ASSUME Inv, class' = class, leases' \in [Jobs -> Leases], Within(leases'),
         stale' \subseteq Leased', phase' \in {"running", "admit"}, shed' \in BOOLEAN,
         Good(ctl'), CoverInv', AdmitInv'
  PROVE  Inv'
<1>1. Within(leases)'
  BY PromiseKept
<1>2. TypeOK'
  BY DEF Inv, TypeOK, Good
<1>. QED  BY <1>1, <1>2 DEF Inv

LEMMA RivalsLeaveMe ==
  ASSUME Inv, UNCHANGED <<class, phase, ctl, shed>>,
         leases' \in [Jobs -> Leases], Within(leases'), stale' \subseteq Leased',
         leases'[Me] \in {NoLease, leases[Me]}
  PROVE  Inv' /\ NoNewTrial
<1>1. Within(leases)'
  BY PromiseKept
<1>2. TypeOK'
  BY DEF Inv, TypeOK
<1>3. CoverInv'
  BY DEF Inv, CoverInv, AdaptiveCap
<1>4. AdmitInv'
  BY DEF Inv, AdmitInv, MayTry, Desired
<1>. QED  BY <1>1, <1>2, <1>3, <1>4 DEF Inv, NoNewTrial

LEMMA FreshForMe ==
  ASSUME Inv, NEW j \in Jobs \ {Me}, \A k \in Jobs \ {j} : leases'[k] = Fresh[k]
  PROVE  leases'[Me] \in {NoLease, leases[Me]}
BY InvGives, FreshFits

LEMMA RivalsKeepInv ==
  ASSUME Inv, NEW j \in Jobs,
         RivalReserves(j) \/ RivalGrows(j) \/ RivalShrinks(j) \/ RivalEnds(j) \/ LeaseAges(j)
  PROVE  Inv' /\ NoNewTrial
<1>0. BrokerOK /\ Me \in Jobs /\ stale \subseteq Leased
  BY InvGives
<1>1. CASE RivalReserves(j)
  <2>1. j # Me /\ UNCHANGED <<class, phase, ctl, shed>>
    BY <1>1 DEF RivalReserves
  <2>2. PICK o \in Origins, n \in 2..InitialSegs : Reserve(j, o, n)
    BY <1>1 DEF RivalReserves
  <2>3. n \in Int
    BY ProfileNumbers
  <2>4. /\ leases' \in [Jobs -> Leases] /\ Within(leases') /\ stale' = {}
        /\ \A k \in Jobs \ {j} : leases'[k] = Fresh[k]
    BY <1>0, <2>2, <2>3, ReserveFits
  <2>5. leases'[Me] \in {NoLease, leases[Me]}
    BY <2>1, <2>4, FreshForMe
  <2>. QED  BY <2>1, <2>4, <2>5, RivalsLeaveMe
<1>2. CASE RivalGrows(j)
  <2>. DEFINE o == leases[j].origin
              d == Minimum(leases[j].segs + RampStep, MaxSegs)
  <2>1. j # Me /\ UNCHANGED <<class, phase, ctl, shed>> /\ GrowTo(j, o, d)
    BY <1>2 DEF RivalGrows
  <2>2. d \in 0..MaxSegs
    BY <1>0, ProfileNumbers DEF BrokerOK, Leases, Minimum
  <2>3. Fresh[j] # NoLease => Fresh[j].origin = o
    BY <1>0, FreshFits
  <2>. HIDE DEF o, d
  <2>4. /\ leases' \in [Jobs -> Leases] /\ Within(leases') /\ stale' = {}
        /\ \A k \in Jobs \ {j} : leases'[k] = Fresh[k]
    BY <1>0, <2>1, <2>2, <2>3, GrowFits
  <2>5. leases'[Me] \in {NoLease, leases[Me]}
    BY <2>1, <2>4, FreshForMe
  <2>. QED  BY <2>1, <2>4, <2>5, RivalsLeaveMe
<1>3. CASE RivalShrinks(j)
  <2>1. PICK n \in 2..Less(leases[j].segs, 1) : leases' = ShrunkTo(j, n)
    BY <1>3 DEF RivalShrinks
  <2>2. j # Me /\ stale' = stale \ {j} /\ UNCHANGED <<class, phase, ctl, shed>>
    BY <1>3 DEF RivalShrinks
  <2>3. n \in Nat
    <3>1. leases[j].segs \in Nat
      BY <1>0, ProfileNumbers DEF BrokerOK, Leases
    <3>2. Less(leases[j].segs, 1) \in Nat
      BY <3>1, Numbers
    <3>. QED  BY <3>2
  <2>4. /\ leases' \in [Jobs -> Leases] /\ Within(leases')
        /\ \A k \in Jobs \ {j} : leases'[k] = leases[k]
    BY <1>0, <2>1, <2>3, ShrunkFits
  <2>5. leases'[Me] = leases[Me] /\ stale' \subseteq Leased'
    BY <1>0, <2>2, <2>4 DEF Leased
  <2>. QED  BY <2>2, <2>4, <2>5, RivalsLeaveMe
<1>4. CASE RivalEnds(j)
  <2>1. /\ j # Me /\ leases' = [leases EXCEPT ![j] = NoLease] /\ stale' = stale \ {j}
        /\ UNCHANGED <<class, phase, ctl, shed>>
    BY <1>4 DEF RivalEnds
  <2>2. leases' \in [Jobs -> Leases] /\ Within(leases')
    BY <1>0, <2>1, EndedFits
  <2>3. leases'[Me] = leases[Me] /\ stale' \subseteq Leased'
    BY <1>0, <2>1 DEF Leased, BrokerOK
  <2>. QED  BY <2>1, <2>2, <2>3, RivalsLeaveMe
<1>5. CASE LeaseAges(j)
  <2>1. leases' = leases /\ stale' = stale \cup {j} /\ leases[j] # NoLease
        /\ UNCHANGED <<class, phase, ctl, shed>>
    BY <1>5 DEF LeaseAges
  <2>2. leases' \in [Jobs -> Leases] /\ Within(leases') /\ leases'[Me] = leases[Me]
    BY <1>0, <2>1 DEF BrokerOK
  <2>3. stale' \subseteq Leased'
    BY <1>0, <2>1 DEF Leased
  <2>. QED  BY <2>1, <2>2, <2>3, RivalsLeaveMe
<1>. QED  BY <1>1, <1>2, <1>3, <1>4, <1>5

\* A sample that changes no count of workers.
LEMMA StepKeepsInv ==
  ASSUME Inv, phase = "running", NEW c, Kept(ctl, c), Step(c),
         phase' \in {"running", "admit"}, phase' = "admit" => MayTry(c)
  PROVE  Inv' /\ NoNewTrial
<1>1. ctl' = c /\ UNCHANGED <<class, leases, stale, shed>>
  BY DEF Step
<1>2. BrokerOK /\ stale \subseteq Leased /\ shed \in BOOLEAN
  BY InvGives DEF Inv, TypeOK
<1>3. Good(ctl') /\ ctl'.admitted = ctl.admitted /\ ctl'.live = ctl.live /\ ctl'.origin = ctl.origin
      /\ ctl'.trial.to \in {0, ctl.trial.to}
  BY <1>1 DEF Kept
<1>4. AdmitInv'
  <2>1. MayTry(ctl)' = MayTry(ctl')
    BY DEF MayTry, Desired
  <2>. QED  BY <1>1, <2>1 DEF AdmitInv
<1>5. CoverInv'
  BY <1>1, <1>3 DEF Inv, CoverInv, AdaptiveCap
<1>6. stale' \subseteq Leased'
  BY <1>1, <1>2 DEF Leased
<1>7. leases' \in [Jobs -> Leases] /\ Within(leases') /\ shed' \in BOOLEAN /\ class' = class
  BY <1>1, <1>2 DEF BrokerOK
<1>8. Inv'
  BY <1>3, <1>4, <1>5, <1>6, <1>7, InvMade
<1>. QED  BY <1>3, <1>8 DEF NoNewTrial

\* A rollback gives the connections above the stable count back.
LEMMA GiveKeepsInv ==
  ASSUME Inv, phase = "running", NEW w \in 2..MaxSegs, w <= ctl.admitted, NEW c,
         RolledBack(ctl, c, w), Give(c, w)
  PROVE  Inv' /\ NoNewTrial
<1>1. /\ ctl' = c /\ leases' = ShrunkTo(Me, w) /\ shed' = (ctl.live > w)
      /\ stale' = (IF leases[Me] = NoLease THEN stale ELSE stale \ {Me})
      /\ class' = class /\ phase' = phase
  BY DEF Give
<1>2. BrokerOK /\ Me \in Jobs /\ stale \subseteq Leased /\ Good(ctl)
  BY InvGives
<1>3. w \in Nat
  BY ProfileNumbers
<1>4. /\ leases' \in [Jobs -> Leases] /\ Within(leases')
      /\ \A k \in Jobs \ {Me} : leases'[k] = leases[k]
      /\ leases[Me] = NoLease => leases'[Me] = NoLease
      /\ leases[Me] # NoLease =>
           /\ leases'[Me].origin = leases[Me].origin
           /\ leases'[Me].segs = Minimum(leases[Me].segs, Minimum(w, AdaptiveCap(Me)))
  BY <1>1, <1>2, <1>3, ShrunkFits
<1>5. /\ Good(ctl') /\ ctl'.admitted = w /\ ctl'.live = ctl.live /\ ctl'.origin = ctl.origin
      /\ ctl'.trial.to = 0
  BY <1>1 DEF RolledBack
<1>6. stale' \subseteq Leased'
  BY <1>1, <1>2, <1>4 DEF Leased
<1>7. ctl.live \in Nat /\ ctl.admitted \in Nat
  BY <1>2, ProfileNumbers, CountNumbers DEF Good, Controllers
<1>8. CoverInv'
  <2>. SUFFICES ASSUME leases'[Me] # NoLease
                PROVE  /\ leases'[Me].origin = ctl'.origin
                       /\ leases'[Me].segs = ctl'.admitted /\ ctl'.admitted <= AdaptiveCap(Me)
                       /\ ctl'.live <= ctl'.admitted \/ shed'
    BY <1>1 DEF CoverInv, AdaptiveCap
  <2>1. leases[Me] # NoLease
    BY <1>4
  <2>2. leases[Me].origin = ctl.origin /\ leases[Me].segs = ctl.admitted
        /\ ctl.admitted <= AdaptiveCap(Me)
    BY <2>1 DEF Inv, CoverInv
  <2>3. AdaptiveCap(Me) \in Nat
    BY <1>2, Caps
  <2>4. leases'[Me].segs = w /\ w <= AdaptiveCap(Me)
    BY <1>3, <1>4, <1>7, <2>1, <2>2, <2>3 DEF Minimum
  <2>5. ctl'.live <= w \/ shed'
    <3>1. CASE ctl.live > w
      BY <1>1, <3>1, Zenon
    <3>2. CASE ~ (ctl.live > w)
      BY <1>3, <1>5, <1>7, <3>2
    <3>. QED  BY <3>1, <3>2
  <2>. QED  BY <1>4, <1>5, <2>1, <2>2, <2>4, <2>5
<1>9. AdmitInv'
  BY <1>1 DEF AdmitInv
<1>10. shed' \in BOOLEAN
  <2>1. (ctl.live > w) \in BOOLEAN
    OBVIOUS
  <2>. QED  BY <1>1, <2>1, Zenon
<1>11. Inv'
  BY <1>1, <1>4, <1>5, <1>6, <1>8, <1>9, <1>10, InvMade
<1>. QED  BY <1>5, <1>11 DEF NoNewTrial

LEMMA RampKeepsInv ==
  ASSUME Inv, NEW s \in 1..MaxSpeed, RampSample(s)
  PROVE  Inv' /\ NoNewTrial
<1>1. phase = "running" /\ Good(ctl) /\ s \in Speeds
  BY InvGives, CountNumbers DEF RampSample, MaySample
<1>2. ctl.admitted < SoftMax
  BY DEF RampSample
<1>3. CASE Step(Blocked(ctl)) /\ phase' = phase
  <2>1. Kept(ctl, Blocked(ctl))
    BY <1>1, BlockedKeeps
  <2>. QED  BY <1>1, <1>3, <2>1, StepKeepsInv
<1>4. CASE Step(Sampled(s)) /\ phase' \in {phase, "admit"}
  <2>1. Kept(ctl, Sampled(s))
    BY <1>1, SampledKeeps
  <2>2. MayTry(Sampled(s))
    BY <1>2, <2>1 DEF MayTry, Kept
  <2>3. phase' \in {"running", "admit"}
    BY <1>1, <1>4
  <2>. QED  BY <1>1, <1>4, <2>1, <2>2, <2>3, StepKeepsInv
<1>. QED  BY <1>3, <1>4 DEF RampSample

LEMMA ProbeKeepsInv ==
  ASSUME Inv, NEW s \in 1..MaxSpeed, ProbeSample(s)
  PROVE  Inv' /\ NoNewTrial
<1>. DEFINE c == Sampled(s)
            t == [c.trig EXCEPT !.base = s]
            d == [c EXCEPT !.probe = "pending", !.trig = t]
<1>1. phase = "running" /\ Good(ctl) /\ s \in Speeds
  BY InvGives, CountNumbers DEF ProbeSample, StableSampling, MaySample
<1>2. Kept(ctl, c)
  BY <1>1, SampledKeeps
<1>3. c \in Controllers /\ Good(c)
  BY <1>2 DEF Kept, Good
<1>4. Step(d) /\ phase' \in {"running", "admit"}
  BY <1>1, <1>3 DEF ProbeSample, Controllers
<1>. HIDE DEF c
<1>5. t \in Triggers
  BY <1>1, <1>3 DEF Controllers, Triggers
<1>. HIDE DEF t
<1>6. d \in Controllers /\ d.probe = "pending"
  BY <1>3, <1>5 DEF Controllers
<1>7. d.admitted = c.admitted /\ d.live = c.live /\ d.origin = c.origin /\ d.trial = c.trial
      /\ d.guard = c.guard
  BY <1>3, <1>5 DEF Controllers
<1>. HIDE DEF d
<1>8. Kept(ctl, d)
  BY <1>2, <1>6, <1>7 DEF Kept, Good
<1>. QED  BY <1>1, <1>4, <1>6, <1>8, StepKeepsInv DEF MayTry

LEMMA StableKeepsInv ==
  ASSUME Inv, NEW s \in 1..MaxSpeed, StableSample(s)
  PROVE  Inv' /\ NoNewTrial
<1>. DEFINE c == Measured(Sampled(s), s)
<1>1. phase = "running" /\ Good(ctl) /\ s \in Speeds
  BY InvGives, CountNumbers DEF StableSample, StableSampling, MaySample
<1>2. Step(c) /\ phase' \in (IF c.trig.n = 2 THEN {phase, "admit"} ELSE {phase})
  BY DEF StableSample
<1>3. Kept(ctl, Sampled(s))
  BY <1>1, SampledKeeps
<1>4. Kept(ctl, c) /\ (c.trig.n = 2 => c.rejected[Desired(c)].cool = 0)
  BY <1>1, <1>3, MeasuredKeeps
<1>. HIDE DEF c
<1>5. phase' \in {"running", "admit"} /\ (phase' = "admit" => MayTry(c))
  BY <1>1, <1>2, <1>4 DEF MayTry
<1>. QED  BY <1>1, <1>2, <1>4, <1>5, StepKeepsInv

LEMMA GuardKeepsInv ==
  ASSUME Inv, NEW s \in 1..MaxSpeed, GuardRollsBack(s)
  PROVE  Inv' /\ NoNewTrial
<1>. DEFINE c == Sampled(s)
            g == c.guard
            w == Minimum(g.prev, c.admitted)
            x == Maximum(g.avg, g.prevBase)
            back == RollBack(c, w, x)
            e == IF g.prevBase > 0 THEN EstablishStable(back, w, g.prevBase)
                 ELSE ResetStable(back, w)
<1>1. phase = "running" /\ Good(ctl) /\ s \in Speeds
  BY InvGives, CountNumbers DEF GuardRollsBack, StableSampling, MaySample
<1>2. Kept(ctl, c) /\ c.guard = ctl.guard
  BY <1>1, SampledKeeps
<1>3. Give(e, w) /\ ctl.guard.healthy > 0
  BY DEF GuardRollsBack, GuardBad, GuardActive
<1>. HIDE DEF c
<1>4. Good(c) /\ g \in Guards /\ g.prev # 0 /\ c.admitted \in 2..MaxSegs /\ c.admitted = ctl.admitted
  BY <1>2, <1>3, CountNumbers DEF Kept, Good, Controllers
<1>. HIDE DEF g
<1>5. g.prev \in 2..MaxSegs /\ g.avg \in Speeds /\ g.prevBase \in Speeds
  BY <1>4, CountNumbers DEF Guards
<1>6. w \in 2..MaxSegs /\ w <= ctl.admitted /\ w \in Counts
  BY <1>4, <1>5, CountNumbers DEF Minimum
<1>7. x \in Speeds
  BY <1>5 DEF Maximum
<1>. HIDE DEF w, x
<1>8. RolledBack(c, back, w)
  BY <1>4, <1>6, <1>7, RollBackGives
<1>. HIDE DEF back
<1>9. Good(back)
  BY <1>8 DEF RolledBack
<1>10. Kept(back, e)
  BY <1>5, <1>6, <1>9, EstablishStableKeeps, ResetStableKeeps
<1>. HIDE DEF e
<1>11. RolledBack(c, e, w)
  BY <1>8, <1>10, RolledBackKept
<1>12. RolledBack(ctl, e, w)
  BY <1>2, <1>11 DEF RolledBack, Kept
<1>. QED  BY <1>1, <1>3, <1>6, <1>12, GiveKeepsInv

LEMMA TrialKeepsInv ==
  ASSUME Inv, NEW s \in 1..MaxSpeed, TrialSample(s)
  PROVE  Inv' /\ NoNewTrial
<1>. DEFINE c       == Sampled(s)
            average == (c.trial.sum + s) \div 2
            stable  == Minimum(StableTarget(c), c.admitted)
            b       == TrialBase(c, s)
            counted == [c EXCEPT !.trial.n = 1, !.trial.sum = s]
            settled == IF c.trial.probe THEN ResetStable(c, c.admitted)
                       ELSE EstablishStable(c, c.admitted, average)
            guard   == IF stable > SoftMax /\ c.admitted > stable
                       THEN [to |-> c.admitted, prev |-> stable, prevBase |-> b,
                             avg |-> average, healthy |-> HealthyWindows, bad |-> 0]
                       ELSE NoGuard
            watched == [settled EXCEPT !.rejected[c.admitted] = NoReject, !.guard = guard]
            back    == RollBack(c, stable, b)
<1>1. phase = "running" /\ Good(ctl) /\ s \in Speeds
  BY InvGives, CountNumbers DEF TrialSample, MaySample
<1>2. \/ Give(ResetStable(back, stable), stable)
      \/ Step(counted) /\ phase' = phase
      \/ Step(ClearTrial(watched)) /\ phase' = phase
  BY DEF TrialSample
<1>3. Kept(ctl, c)
  BY <1>1, SampledKeeps
<1>. HIDE DEF c
<1>4. Good(c) /\ c.trial \in Trials /\ c.admitted \in 2..MaxSegs /\ c.admitted = ctl.admitted
  BY <1>3, CountNumbers DEF Kept, Good, Controllers
<1>5. stable \in 2..MaxSegs /\ stable <= c.admitted /\ stable \in Counts
  BY <1>4, StableTargetIs, CountNumbers
<1>6. b \in Speeds
  BY <1>1, <1>4, TrialBaseIs
<1>7. average \in Speeds
  <2>1. c.trial.sum \in 0..MaxSpeed /\ s \in 0..MaxSpeed
    BY <1>1, <1>4 DEF Trials, Speeds
  <2>. DEFINE u == c.trial.sum
  <2>. HIDE DEF u
  <2>2. (u + s) \div 2 \in 0..MaxSpeed
    BY <2>1, ProfileNumbers DEF u
  <2>. QED  BY <2>2 DEF Speeds, u
<1>. HIDE DEF average, b, stable
<1>8. CASE Give(ResetStable(back, stable), stable)
  <2>1. RolledBack(c, back, stable)
    BY <1>4, <1>5, <1>6, RollBackGives
  <2>. HIDE DEF back
  <2>2. Good(back)
    BY <2>1 DEF RolledBack
  <2>3. Kept(back, ResetStable(back, stable))
    BY <1>5, <2>2, ResetStableKeeps
  <2>4. RolledBack(c, ResetStable(back, stable), stable)
    BY <2>1, <2>3, RolledBackKept
  <2>5. RolledBack(ctl, ResetStable(back, stable), stable)
    BY <1>3, <2>4 DEF RolledBack, Kept
  <2>. QED  BY <1>1, <1>4, <1>5, <1>8, <2>5, GiveKeepsInv
<1>9. CASE Step(counted) /\ phase' = phase
  <2>. DEFINE t == [c.trial EXCEPT !.n = 1, !.sum = s]
  <2>1. counted = [c EXCEPT !.trial = t]
    BY <1>4 DEF Good, Controllers
  <2>2. t \in Trials /\ t.to = c.trial.to
    <3>. DEFINE n == 1
                u == c.trial
    <3>1. n \in 0..1
      OBVIOUS
    <3>2. t = [u EXCEPT !.n = n, !.sum = s]
      OBVIOUS
    <3>3. u \in Trials
      BY <1>4
    <3>. HIDE DEF n, t, u
    <3>4. t \in Trials /\ t.to = u.to
      BY <1>1, <3>1, <3>2, <3>3, SumChanged, ZenonT(60)
    <3>. QED  BY <3>4 DEF u
  <2>. HIDE DEF t, counted
  <2>3. Kept(c, counted)
    BY <1>4, <2>1, <2>2 DEF Kept, Good, Controllers
  <2>4. Kept(ctl, counted)
    BY <1>3, <2>3, KeptTwice
  <2>. QED  BY <1>1, <1>9, <2>4, StepKeepsInv
<1>10. CASE Step(ClearTrial(watched)) /\ phase' = phase
  <2>1. Kept(c, settled)
    <3>1. c.admitted \in Counts
      BY <1>4, CountNumbers
    <3>. QED  BY <1>4, <1>7, <3>1, ResetStableKeeps, EstablishStableKeeps
  <2>2. settled \in Controllers /\ Good(settled)
    BY <2>1 DEF Kept, Good
  <2>. HIDE DEF settled
  <2>3. guard \in Guards /\ (guard.healthy > 0 => guard.prev # 0)
    <3>1. CASE stable > SoftMax /\ c.admitted > stable
      <4>1. c.admitted \in Counts /\ stable # 0 /\ HealthyWindows \in 0..HealthyWindows
        BY <1>4, <1>5, CountNumbers, ProfileNumbers
      <4>2. guard = [to |-> c.admitted, prev |-> stable, prevBase |-> b,
                     avg |-> average, healthy |-> HealthyWindows, bad |-> 0]
        BY <3>1
      <4>. HIDE DEF guard
      <4>. QED  BY <1>5, <1>6, <1>7, <4>1, <4>2 DEF Guards
    <3>2. CASE ~ (stable > SoftMax /\ c.admitted > stable)
      <4>1. guard = NoGuard
        BY <3>2
      <4>. HIDE DEF guard
      <4>. QED  BY <4>1, EmptyRecords
    <3>. QED  BY <3>1, <3>2
  <2>. HIDE DEF guard
  <2>. DEFINE z == NoReject
              r == [settled.rejected EXCEPT ![c.admitted] = z]
  <2>4. r \in [2..MaxSegs -> Rejects]
    BY <1>4, <2>2, EmptyRecords DEF Controllers
  <2>5. watched = [settled EXCEPT !.rejected = r, !.guard = guard]
    BY <2>2 DEF Controllers
  <2>. HIDE DEF z, r, watched
  <2>6. watched \in Controllers
    BY <2>2, <2>3, <2>4, <2>5 DEF Controllers
  <2>7. /\ watched.admitted = settled.admitted /\ watched.live = settled.live
        /\ watched.origin = settled.origin /\ watched.trial = settled.trial
        /\ watched.guard = guard
    BY <2>2, <2>5 DEF Controllers
  <2>8. Kept(c, watched)
    BY <2>1, <2>3, <2>6, <2>7 DEF Kept, Good
  <2>9. Good(watched)
    BY <2>8 DEF Kept
  <2>10. Kept(watched, ClearTrial(watched))
    BY <2>9, ClearTrialKeeps
  <2>11. Kept(ctl, ClearTrial(watched))
    BY <1>3, <2>8, <2>10, KeptTwice
  <2>. QED  BY <1>1, <1>10, <2>11, StepKeepsInv
<1>. QED  BY <1>2, <1>8, <1>9, <1>10

\* A worker that ends brings the attempt closer to its lease.
LEMMA EndingWorkerKeepsInv ==
  ASSUME Inv, WorkerSteps \/ WorkerRunsDry
  PROVE  Inv' /\ NoNewTrial
<1>1. /\ phase # "idle" /\ ctl.live > 1 /\ ctl' = [ctl EXCEPT !.live = ctl.live - 1]
      /\ shed' = (shed /\ ctl.live - 1 > leases[Me].segs)
      /\ UNCHANGED <<class, leases, stale, phase>>
  <2>1. CASE WorkerSteps
    <3>1. ctl.target \in Nat /\ ctl.live \in Nat
      BY <2>1, InvGives, ProfileNumbers DEF WorkerSteps, Good, Controllers
    <3>2. ctl.live > 1
      BY <2>1, <3>1 DEF WorkerSteps, Maximum
    <3>. QED  BY <2>1, <3>2 DEF WorkerSteps
  <2>2. CASE WorkerRunsDry
    BY <2>2 DEF WorkerRunsDry
  <2>. QED  BY <2>1, <2>2
<1>2. BrokerOK /\ stale \subseteq Leased /\ Good(ctl) /\ phase \in {"running", "admit"}
  BY <1>1, InvGives DEF Inv, TypeOK
<1>3. ctl.live \in 0..MaxWorkers /\ ctl.live - 1 \in 0..MaxWorkers
  <2>1. ctl.live \in 0..MaxWorkers
    <3>1. ctl \in Controllers
      BY <1>2, Zenon DEF Good
    <3>. QED  BY <3>1 DEF Controllers
  <2>2. MaxWorkers \in Nat
    BY ProfileNumbers
  <2>3. ctl.live > 1
    BY <1>1
  <2>. QED  BY <2>1, <2>2, <2>3
<1>. DEFINE l == ctl.live - 1
            z == shed /\ l > leases[Me].segs
<1>4. l \in 0..MaxWorkers /\ ctl' = [ctl EXCEPT !.live = l]
  BY <1>1, <1>3
<1>5. z \in BOOLEAN
  OBVIOUS
<1>6. shed' = z
  BY <1>1
<1>7. l <= leases[Me].segs \/ (shed => z)
  <2>1. l \in Int /\ leases[Me].segs \in Int
    BY <1>2, <1>3, JobsAssumption, ProfileNumbers DEF BrokerOK, Leases
  <2>2. l <= leases[Me].segs \/ l > leases[Me].segs
    BY <2>1
  <2>. HIDE DEF l
  <2>. QED  BY <2>2, Zenon
<1>8. l <= ctl.live
  BY <1>3, ProfileNumbers
<1>. HIDE DEF l, z
<1>9. ctl' \in Controllers
  BY <1>2, <1>4 DEF Good, Controllers
<1>10. /\ ctl'.admitted = ctl.admitted /\ ctl'.origin = ctl.origin /\ ctl'.live = l
       /\ ctl'.trial = ctl.trial /\ ctl'.guard = ctl.guard /\ ctl'.probe = ctl.probe
       /\ ctl'.rejected = ctl.rejected
  BY <1>2, <1>4 DEF Good, Controllers
<1>11. Good(ctl')
  BY <1>2, <1>9, <1>10 DEF Good
<1>12. AdmitInv'
  BY <1>1, <1>10 DEF Inv, AdmitInv, MayTry, Desired
<1>13. CoverInv'
  <2>. SUFFICES ASSUME leases[Me] # NoLease
                PROVE  /\ leases[Me].origin = ctl'.origin
                       /\ leases[Me].segs = ctl'.admitted /\ ctl'.admitted <= AdaptiveCap(Me)
                       /\ ctl'.live <= ctl'.admitted \/ shed'
    BY <1>1 DEF CoverInv, AdaptiveCap
  <2>1. /\ leases[Me].origin = ctl.origin /\ leases[Me].segs = ctl.admitted
        /\ ctl.admitted <= AdaptiveCap(Me) /\ (ctl.live <= ctl.admitted \/ shed)
    BY DEF Inv, CoverInv
  <2>2. ctl.admitted \in Nat /\ l \in Nat /\ ctl.live \in Nat
    BY <1>2, <1>3, <1>4, ProfileNumbers, CountNumbers DEF Good, Controllers
  <2>3. CASE ctl.live <= ctl.admitted
    <3>1. l <= ctl.admitted
      BY <1>8, <2>2, <2>3
    <3>. QED  BY <1>10, <2>1, <3>1
  <2>4. CASE shed
    BY <1>6, <1>7, <1>10, <2>1, <2>4
  <2>. QED  BY <2>1, <2>3, <2>4
<1>14. stale' \subseteq Leased'
  BY <1>1, <1>2 DEF Leased
<1>15. leases' \in [Jobs -> Leases] /\ Within(leases') /\ class' = class
  BY <1>1, <1>2 DEF BrokerOK
<1>16. Inv'
  <2>1. shed' \in BOOLEAN
    BY <1>5, <1>6
  <2>2. phase' \in {"running", "admit"}
    BY <1>1, <1>2
  <2>. QED  BY <1>11, <1>12, <1>13, <1>14, <1>15, <2>1, <2>2, InvMade
<1>. QED  BY <1>10, <1>16 DEF NoNewTrial

LEMMA ReconnectKeepsInv ==
  ASSUME Inv, WorkerReconnects
  PROVE  Inv' /\ NoNewTrial
<1>. DEFINE less == Minimum(Maximum(ctl.target \div 2, 2), Less(ctl.target, 1))
            next == IF phase = "admit" THEN [ctl EXCEPT !.blocked = TRUE] ELSE Blocked(ctl)
<1>1. /\ phase # "idle" /\ UNCHANGED <<class, leases, stale, phase, shed>>
      /\ ctl' = next \/ (ctl.target > 2 /\ ctl' = [next EXCEPT !.target = less])
  BY DEF WorkerReconnects
<1>2. BrokerOK /\ stale \subseteq Leased /\ Good(ctl) /\ shed \in BOOLEAN /\ phase \in {"running", "admit"}
  BY <1>1, InvGives DEF Inv, TypeOK
<1>3. less \in 0..MaxSegs
  <2>1. ctl.target \in Nat /\ ctl.target <= MaxSegs
    BY <1>2, ProfileNumbers DEF Good, Controllers
  <2>. DEFINE n == ctl.target
  <2>. HIDE DEF n
  <2>2. n \div 2 \in Nat
    BY <2>1 DEF n
  <2>3. Maximum(n \div 2, 2) \in Nat
    BY <2>2, Numbers
  <2>4. Less(n, 1) \in Nat /\ Less(n, 1) <= n
    BY <2>1, Numbers DEF n
  <2>5. Minimum(Maximum(n \div 2, 2), Less(n, 1)) \in 0..n
    <3>. DEFINE m == Maximum(n \div 2, 2)
                k == Less(n, 1)
    <3>1. m \in Nat /\ k \in Nat /\ k <= n /\ n \in Nat
      BY <2>1, <2>3, <2>4 DEF n
    <3>. HIDE DEF m, k
    <3>2. Minimum(m, k) \in 0..n
      BY <3>1 DEF Minimum
    <3>. QED  BY <3>2 DEF m, k
  <2>. QED  BY <2>1, <2>5, ProfileNumbers DEF n
<1>. HIDE DEF less
<1>4. Kept(ctl, next) /\ (phase = "admit" => next.probe = ctl.probe /\ next.rejected = ctl.rejected)
  <2>1. CASE phase = "admit"
    <3>1. next = [ctl EXCEPT !.blocked = TRUE]
      BY <2>1
    <3>. HIDE DEF next
    <3>. QED  BY <1>2, <3>1 DEF Kept, Good, Controllers
  <2>2. CASE phase # "admit"
    BY <1>2, <2>2, BlockedKeeps
  <2>. QED  BY <2>1, <2>2
<1>. HIDE DEF next
<1>5. Kept(next, ctl') /\ ctl'.probe = next.probe /\ ctl'.rejected = next.rejected
  <2>1. CASE ctl' = next
    BY <1>4, <2>1 DEF Kept
  <2>2. CASE ctl' = [next EXCEPT !.target = less]
    <3>1. Good(next)
      BY <1>4 DEF Kept
    <3>. QED  BY <1>3, <2>2, <3>1 DEF Kept, Good, Controllers
  <2>. QED  BY <1>1, <2>1, <2>2
<1>6. Kept(ctl, ctl')
  BY <1>4, <1>5, KeptTwice
<1>7. AdmitInv'
  BY <1>1, <1>4, <1>5, <1>6 DEF Inv, AdmitInv, MayTry, Desired, Kept
<1>8. CoverInv'
  BY <1>1, <1>6 DEF Inv, CoverInv, AdaptiveCap, Kept
<1>9. stale' \subseteq Leased'
  BY <1>1, <1>2 DEF Leased
<1>10. leases' \in [Jobs -> Leases] /\ Within(leases') /\ class' = class /\ shed' \in BOOLEAN
       /\ phase' \in {"running", "admit"} /\ Good(ctl')
  BY <1>1, <1>2, <1>6 DEF BrokerOK, Kept
<1>11. Inv'
  BY <1>7, <1>8, <1>9, <1>10, InvMade
<1>. QED  BY <1>6, <1>11 DEF NoNewTrial, Kept

LEMMA BeginKeepsInv ==
  ASSUME Inv, Begin
  PROVE  Inv' /\ NoNewTrial
<1>1. PICK o \in Origins, n \in 2..InitialSegs : Reserve(Me, o, n) /\ ctl' = Fixed(o, n)
  BY DEF Begin
<1>2. phase = "idle" /\ phase' = "running" /\ shed' = FALSE /\ class' = class
  BY DEF Begin
<1>3. BrokerOK /\ Me \in Jobs /\ n \in Int
  BY InvGives, ProfileNumbers
<1>4. /\ leases' \in [Jobs -> Leases] /\ Within(leases') /\ stale' = {}
      /\ leases'[Me] = [origin |-> o, segs |-> n] /\ n <= AdaptiveCap(Me)
  BY <1>1, <1>3, ReserveFits
<1>5. n \in Counts /\ n # 0 /\ n \in Nat
  BY ProfileNumbers DEF Counts
<1>6. /\ ctl' \in Controllers /\ ctl'.admitted = n /\ ctl'.live = n /\ ctl'.origin = o
      /\ ctl'.trial.to = 0 /\ ctl'.guard.healthy = 0
  BY <1>1, <1>5, FixedIs
<1>7. Good(ctl')
  BY <1>5, <1>6 DEF Good
<1>8. leases'[Me].origin = o /\ leases'[Me].segs = n
  BY <1>4
<1>9. CoverInv'
  BY <1>2, <1>4, <1>5, <1>6, <1>8 DEF CoverInv, AdaptiveCap
<1>10. AdmitInv'
  BY <1>2 DEF AdmitInv
<1>11. Inv'
  BY <1>2, <1>4, <1>7, <1>9, <1>10, InvMade
<1>. QED  BY <1>6, <1>11 DEF NoNewTrial

LEMMA IdleIs == Idle \in Controllers /\ Idle.trial.to = 0 /\ Idle.guard.healthy = 0
<1>1. 0 \in Counts
  BY DEF Counts
<1>. QED  BY <1>1, FixedIs DEF Idle

LEMMA EndKeepsInv ==
  ASSUME Inv, End
  PROVE  Inv' /\ NoNewTrial
<1>1. /\ phase # "idle" /\ phase' = "idle" /\ leases' = [leases EXCEPT ![Me] = NoLease]
      /\ stale' = stale \ {Me} /\ ctl' = Idle /\ shed' = FALSE /\ class' = class
  BY DEF End
<1>2. BrokerOK /\ Me \in Jobs /\ stale \subseteq Leased
  BY InvGives
<1>3. leases' \in [Jobs -> Leases] /\ Within(leases')
  BY <1>1, <1>2, EndedFits
<1>4. leases'[Me] = NoLease /\ stale' \subseteq Leased'
  BY <1>1, <1>2 DEF Leased, BrokerOK
<1>5. Within(leases)'
  BY <1>1, <1>3, PromiseKept
<1>6. ctl' \in Controllers /\ ctl'.trial.to = 0 /\ ctl'.guard.healthy = 0
  BY <1>1, IdleIs
<1>7. TypeOK'
  <2>1. ctl' = Idle /\ phase' = "idle" /\ shed' \in BOOLEAN
    BY <1>1, Zenon
  <2>3. ~ (ctl'.guard.healthy > 0)
    BY <1>6
  <2>2. class' \in [Jobs -> Classes]
    BY <1>1, <1>2 DEF BrokerOK
  <2>. QED  BY <1>3, <1>4, <1>6, <2>1, <2>2, <2>3 DEF TypeOK
<1>8. CoverInv' /\ AdmitInv'
  BY <1>1, <1>4 DEF CoverInv, AdmitInv
<1>. QED  BY <1>5, <1>6, <1>7, <1>8 DEF Inv, NoNewTrial

\* What admitting workers does: the ramp asks for them, and a trial of more
\* starts only where it was asked for or at fewer.
LEMMA AdmitKeepsInv ==
  ASSUME Inv, Admit
  PROVE  /\ Inv'
         /\ ctl.trial.to = 0 /\ ctl'.trial.to > 0 =>
              \/ ctl.rejected[ctl'.trial.to].cool = 0
              \/ ctl'.trial.to < Desired(ctl)
              \/ ctl.probe = "pending"
<1>. DEFINE d     == Desired(ctl)
            g     == Granted(Fresh, Me, ctl.origin, d)
            got   == Admitted(ctl, g)
            more  == got > ctl.admitted
            trial == [to |-> got, base |-> ctl.trig.base, n |-> 0, sum |-> 0,
                      probe |-> ctl.probe = "pending"]
            first == [ResetTrigger(ctl) EXCEPT
                          !.stable = ctl.admitted, !.trial = trial,
                          !.probe = IF @ = "pending" THEN "tried" ELSE @]
            none  == [ctl EXCEPT !.probe = IF @ = "pending" THEN "ready" ELSE @]
            tried == IF more /\ ctl.admitted >= SoftMax THEN first
                     ELSE IF ~more /\ d > ctl.admitted THEN none ELSE ctl
<1>1. /\ phase = "admit" /\ phase' = "running"
      /\ ctl.live + Less(got, ctl.admitted) <= MaxWorkers
      /\ GrowTo(Me, ctl.origin, d) /\ class' = class /\ shed' = shed
      /\ ctl' = [tried EXCEPT !.target = got,
                              !.live = @ + Less(got, ctl.admitted),
                              !.admitted = Maximum(@, got)]
  BY DEF Admit
<1>2. BrokerOK /\ Me \in Jobs /\ Good(ctl) /\ shed \in BOOLEAN
  BY <1>1, InvGives DEF Inv, TypeOK
<1>3. d \in 2..MaxSegs /\ d \in 0..MaxSegs /\ d \in Nat
  BY <1>2, DesiredIs, CountNumbers
<1>4. /\ Fresh \in [Jobs -> Leases]
      /\ Fresh[Me] = NoLease \/ (Fresh[Me] = leases[Me] /\ leases[Me] # NoLease)
  BY <1>2, FreshFits
<1>5. leases[Me] # NoLease =>
        /\ leases[Me].origin = ctl.origin /\ leases[Me].segs = ctl.admitted
        /\ ctl.admitted <= AdaptiveCap(Me) /\ (ctl.live <= ctl.admitted \/ shed)
  BY DEF Inv, CoverInv
<1>. HIDE DEF d
<1>6. /\ g \in 0..MaxSegs /\ g >= Fresh[Me].segs
      /\ g <= d \/ g = Fresh[Me].segs
      /\ g <= AdaptiveCap(Me) \/ g = Fresh[Me].segs
  BY <1>2, <1>3, <1>4, GrantedFits
<1>7. /\ leases' \in [Jobs -> Leases] /\ Within(leases') /\ stale' = {}
      /\ Fresh[Me] = NoLease => leases'[Me] = NoLease
      /\ Fresh[Me] # NoLease => /\ leases'[Me].origin = Fresh[Me].origin
                                /\ leases'[Me].segs = g
  BY <1>1, <1>2, <1>3, <1>4, <1>5, GrowFits
<1>. HIDE DEF g
<1>8. got = g
  BY <1>6, ProfileNumbers DEF Admitted, Minimum
<1>. HIDE DEF got
<1>9. /\ ctl.admitted \in 2..MaxSegs /\ ctl.admitted \in Counts /\ ctl.live \in Nat
      /\ ctl.trig \in Triggers /\ ctl.probe \in {"ready", "pending", "tried"}
  BY <1>2, CountNumbers, ProfileNumbers DEF Good, Controllers
<1>. DEFINE l == ctl.live + Less(got, ctl.admitted)
            a == Maximum(ctl.admitted, got)
<1>10. /\ got \in 0..MaxSegs /\ a \in Counts /\ a # 0 /\ a >= ctl.admitted /\ a >= got
       /\ a = got \/ a = ctl.admitted
  BY <1>6, <1>8, <1>9, ProfileNumbers DEF Maximum, Counts
<1>11. l \in 0..MaxWorkers /\ l <= ctl.live + a - ctl.admitted
  BY <1>1, <1>6, <1>8, <1>9, ProfileNumbers DEF Less, Maximum
<1>12. more => got \in Counts /\ got > 0 /\ got <= d
  <2>. SUFFICES ASSUME more PROVE got \in Counts /\ got > 0 /\ got <= d
    OBVIOUS
  <2>1. got \in Counts /\ got > 0
    BY <1>6, <1>8, <1>9, ProfileNumbers DEF Counts
  <2>2. g # Fresh[Me].segs
    <3>1. CASE Fresh[Me] = NoLease
      BY <1>8, <1>9, <3>1, LeaseTypes, ProfileNumbers
    <3>2. CASE Fresh[Me] # NoLease
      BY <1>4, <1>5, <1>6, <1>8, <1>9, <3>2, ProfileNumbers
    <3>. QED  BY <3>1, <3>2
  <2>. QED  BY <1>6, <1>8, <2>1, <2>2
<1>13. /\ tried \in Controllers /\ tried.admitted = ctl.admitted /\ tried.live = ctl.live
       /\ tried.origin = ctl.origin /\ tried.guard = ctl.guard
       /\ tried.trial.to = ctl.trial.to \/ (more /\ ctl.admitted >= SoftMax /\ tried.trial.to = got)
  <2>1. CASE more /\ ctl.admitted >= SoftMax
    <3>. DEFINE r == ResetTrigger(ctl)
                p == IF r.probe = "pending" THEN "tried" ELSE r.probe
                v == (ctl.probe = "pending")
    <3>1. Kept(ctl, r) /\ r.guard = ctl.guard
      BY <1>2, ResetTriggerKeeps
    <3>2. r \in Controllers
      BY <3>1 DEF Kept, Good
    <3>3. p \in {"ready", "pending", "tried"}
      BY <3>2 DEF Controllers
    <3>4. v \in BOOLEAN
      OBVIOUS
    <3>5. ctl.trig.base \in Speeds /\ 0 \in Speeds
      BY <1>9, ProfileNumbers DEF Triggers, Speeds
    <3>6. trial = [to |-> got, base |-> ctl.trig.base, n |-> 0, sum |-> 0, probe |-> v]
      OBVIOUS
    <3>. HIDE DEF v, trial
    <3>7. trial \in Trials /\ trial.to = got
      BY <1>12, <2>1, <3>4, <3>5, <3>6 DEF Trials
    <3>8. first = [r EXCEPT !.stable = ctl.admitted, !.trial = trial, !.probe = p]
      BY DEF trial
    <3>9. tried = first
      BY <2>1
    <3>. HIDE DEF r, p, first
    <3>10. first \in Controllers
      BY <1>9, <3>2, <3>3, <3>7, <3>8 DEF Controllers
    <3>11. /\ first.admitted = r.admitted /\ first.live = r.live /\ first.origin = r.origin
           /\ first.guard = r.guard /\ first.trial = trial
      BY <3>2, <3>8 DEF Controllers
    <3>. QED  BY <2>1, <3>1, <3>7, <3>9, <3>10, <3>11 DEF Kept
  <2>2. CASE ~ (more /\ ctl.admitted >= SoftMax) /\ ~ more /\ d > ctl.admitted
    <3>. DEFINE p == IF ctl.probe = "pending" THEN "ready" ELSE ctl.probe
    <3>1. p \in {"ready", "pending", "tried"}
      BY <1>9
    <3>2. tried = [ctl EXCEPT !.probe = p]
      BY <2>2
    <3>. HIDE DEF p, tried
    <3>. QED  BY <1>2, <3>1, <3>2 DEF Good, Controllers
  <2>3. CASE ~ (more /\ ctl.admitted >= SoftMax) /\ ~ (~ more /\ d > ctl.admitted)
    <3>1. tried = ctl
      BY <2>3
    <3>. HIDE DEF tried
    <3>. QED  BY <1>2, <3>1 DEF Good
  <2>. QED  BY <2>1, <2>2, <2>3
<1>14. ctl' = [tried EXCEPT !.target = got, !.live = l, !.admitted = a]
  BY <1>1, <1>13 DEF Controllers
<1>. HIDE DEF tried, l, a, trial
<1>15. ctl' \in Controllers
  BY <1>10, <1>11, <1>13, <1>14 DEF Controllers
<1>16. /\ ctl'.admitted = a /\ ctl'.live = l /\ ctl'.origin = ctl.origin
       /\ ctl'.guard = ctl.guard /\ ctl'.trial = tried.trial
  BY <1>13, <1>14 DEF Controllers
<1>17. Good(ctl')
  BY <1>2, <1>10, <1>15, <1>16 DEF Good
<1>18. CoverInv'
  <2>. SUFFICES ASSUME leases'[Me] # NoLease
                PROVE  /\ leases'[Me].origin = ctl'.origin
                       /\ leases'[Me].segs = ctl'.admitted /\ ctl'.admitted <= AdaptiveCap(Me)
                       /\ ctl'.live <= ctl'.admitted \/ shed'
    BY <1>1 DEF CoverInv, AdaptiveCap
  <2>1. Fresh[Me] # NoLease /\ leases[Me] # NoLease /\ Fresh[Me] = leases[Me]
    BY <1>4, <1>7
  <2>2. leases'[Me].origin = ctl.origin /\ leases'[Me].segs = g
    BY <1>5, <1>7, <2>1
  <2>3. g >= ctl.admitted /\ a = g
    BY <1>5, <1>6, <1>8, <1>9, <1>10, <2>1, ProfileNumbers
  <2>4. g <= AdaptiveCap(Me)
    BY <1>5, <1>6, <2>1
  <2>5. ctl.live <= ctl.admitted => l <= a
    BY <1>9, <1>10, <1>11, ProfileNumbers
  <2>. QED  BY <1>1, <1>5, <1>16, <2>1, <2>2, <2>3, <2>4, <2>5
<1>19. AdmitInv'
  BY <1>1 DEF AdmitInv
<1>20. Inv'
  BY <1>1, <1>2, <1>7, <1>17, <1>18, <1>19, InvMade
<1>21. ASSUME ctl.trial.to = 0, ctl'.trial.to > 0
       PROVE  \/ ctl.rejected[ctl'.trial.to].cool = 0
              \/ ctl'.trial.to < Desired(ctl)
              \/ ctl.probe = "pending"
  <2>1. more /\ ctl.admitted >= SoftMax /\ ctl'.trial.to = got
    BY <1>13, <1>16, <1>21
  <2>2. ~ (ctl.admitted < SoftMax)
    BY <1>9, <2>1, ProfileNumbers
  <2>3. ctl.probe = "pending" \/ ctl.rejected[d].cool = 0
    BY <1>1, <2>2 DEF Inv, AdmitInv, MayTry, d
  <2>4. got < d \/ got = d
    BY <1>3, <1>10, <1>12, <2>1, ProfileNumbers
  <2>. QED  BY <2>1, <2>3, <2>4 DEF d
<1>. QED  BY <1>20, <1>21

-----------------------------------------------------------------------------
(* The theorems.                                                           *)

LEMMA InitInv == Init => Inv
<1>. SUFFICES ASSUME Init PROVE Inv
  OBVIOUS
<1>1. leases = [j \in Jobs |-> NoLease] /\ leases \in [Jobs -> Leases] /\ Me \in Jobs
  BY LeaseTypes, JobsAssumption DEF Init
<1>2. TypeOK
  <2>1. ctl = Idle /\ ctl \in Controllers /\ ~ (ctl.guard.healthy > 0) /\ phase = "idle"
    BY IdleIs DEF Init
  <2>2. class \in [Jobs -> Classes] /\ stale \subseteq Leased /\ shed \in BOOLEAN
    BY DEF Init
  <2>. QED  BY <1>1, <2>1, <2>2 DEF TypeOK
<1>3. Within(leases)
  <2>1. \A cl, o : Members(leases, cl) = {} /\ MembersAt(leases, cl, o) = {}
    BY <1>1 DEF Members, MembersAt
  <2>2. Connections(leases, {}) = {}
    BY DEF Connections
  <2>3. SegsOf(leases, {}) = 0
    BY <2>2, FS_EmptySet DEF SegsOf
  <2>. QED  BY <2>1, <2>3, ProfileNumbers DEF Within
<1>4. CoverInv /\ AdmitInv
  BY <1>1 DEF Init, CoverInv, AdmitInv
<1>. QED  BY <1>2, <1>3, <1>4 DEF Inv

LEMMA NextInv ==
  ASSUME Inv, [Next]_vars
  PROVE  /\ Inv'
         /\ ctl.trial.to = 0 /\ ctl'.trial.to > 0 =>
              \/ ctl.rejected[ctl'.trial.to].cool = 0
              \/ ctl'.trial.to < Desired(ctl)
              \/ ctl.probe = "pending"
<1>1. CASE Admit
  BY <1>1, AdmitKeepsInv
<1>2. CASE \E j \in Jobs : RivalReserves(j) \/ RivalGrows(j) \/ RivalShrinks(j) \/ RivalEnds(j)
                           \/ LeaseAges(j)
  BY <1>2, RivalsKeepInv DEF NoNewTrial
<1>3. CASE \E s \in 1..MaxSpeed : RampSample(s) \/ TrialSample(s) \/ ProbeSample(s)
                                  \/ GuardRollsBack(s) \/ StableSample(s)
  BY <1>3, RampKeepsInv, TrialKeepsInv, ProbeKeepsInv, GuardKeepsInv, StableKeepsInv DEF NoNewTrial
<1>4. CASE WorkerSteps \/ WorkerRunsDry
  BY <1>4, EndingWorkerKeepsInv DEF NoNewTrial
<1>5. CASE WorkerReconnects
  BY <1>5, ReconnectKeepsInv DEF NoNewTrial
<1>6. CASE Begin
  BY <1>6, BeginKeepsInv DEF NoNewTrial
<1>7. CASE End
  BY <1>7, EndKeepsInv DEF NoNewTrial
<1>8. CASE UNCHANGED vars
  <2>1. UNCHANGED <<class, leases, stale, phase, ctl, shed>>
    BY <1>8 DEF vars
  <2>2. leases' \in [Jobs -> Leases] /\ Within(leases') /\ leases'[Me] = leases[Me]
    BY <2>1, InvGives DEF BrokerOK
  <2>3. stale' \subseteq Leased'
    BY <2>1, InvGives DEF Leased
  <2>. QED  BY <2>1, <2>2, <2>3, RivalsLeaveMe DEF NoNewTrial
<1>. QED  BY <1>1, <1>2, <1>3, <1>4, <1>5, <1>6, <1>7, <1>8 DEF Next

\* The broker, the controller and the leases keep their types: in
\* particular an attempt never admits a single worker, nothing exceeds the
\* profile's limits, only held leases lapse, and a guard has a worker count
\* to go back to (segmented.rs, http.rs).
THEOREM TypeCorrect == Spec => []TypeOK
<1>1. Inv => TypeOK
  BY DEF Inv
<1>. QED  BY InitInv, NextInv, <1>1, PTL DEF Spec

\* For any number of jobs, origins and any budgets: the leases of a class
\* never add up to more than its budget, in all and per origin
\* (segment_budget_from_leases_locked, grow_to).
THEOREM BudgetsHold == Spec => []BudgetRespected
<1>1. Inv => BudgetRespected
  BY InvGives, PromiseIsBudget
<1>. QED  BY InitInv, NextInv, <1>1, PTL DEF Spec

\* An attempt that has its lease runs no more workers than it leases, but
\* for those a rollback gave up (spawn_until, shrink_to).
THEOREM WorkersAreLeased == Spec => []CoveredByLease
<1>1. Inv => CoveredByLease
  BY DEF Inv, CoverInv, CoveredByLease
<1>. QED  BY InitInv, NextInv, <1>1, PTL DEF Spec

\* No trial starts at a worker count that rests after a failure, but for the
\* two ways back the code leaves open (evaluate_stable_sample_for_trial).
THEOREM RestsAreKept == Spec => RejectedCountRests
<1>1. Inv /\ [Next]_vars =>
        [ctl.trial.to = 0 /\ ctl'.trial.to > 0 =>
           \/ ctl.rejected[ctl'.trial.to].cool = 0
           \/ ctl'.trial.to < Desired(ctl)
           \/ ctl.probe = "pending"]_vars
  BY NextInv
<1>. QED  BY InitInv, NextInv, <1>1, PTL DEF Spec, RejectedCountRests
=============================================================================
