------------------------ MODULE BrowserHandoff_proofs ------------------------
(***************************************************************************)
(* For any requests, captures, names and batches: the hand-off keeps its   *)
(* types, rows keep paths of their own, running rows keep their partial    *)
(* files, the browser is told the truth, and no prompt is left on the      *)
(* screen by a handler that gave it up.                                    *)
(***************************************************************************)
EXTENDS BrowserHandoff, FiniteSetTheorems, WellFoundedInduction, TLAPS

(***************************************************************************)
(* Induction over the natural numbers: every set of them has a least       *)
(* element, so a set with 0 that is closed under successor has them all.   *)
(***************************************************************************)

LEMMA LeastOf ==
    ASSUME NEW T \in SUBSET Nat, T # {}
    PROVE  \E x \in T : \A y \in T : x <= y
<1>1. IsWellFoundedOn(OpToRel(<, Nat), Nat)
  BY NatLessThanWellFounded, Zenon
<1>2. PICK x \in T : \A y \in T : ~ (<<y, x>> \in OpToRel(<, Nat))
  BY <1>1, WFMin, Zenon
<1>3. ASSUME NEW y \in T, ~ (x <= y) PROVE FALSE
  <2>1. x \in Nat /\ y \in Nat
    OBVIOUS
  <2>2. y < x
    BY <1>3, <2>1
  <2>3. <<y, x>> \in {ss \in Nat \X Nat : ss[1] < ss[2]}
    BY <2>1, <2>2
  <2>4. <<y, x>> \in OpToRel(<, Nat)
    BY <2>3, Zenon DEF OpToRel
  <2>. QED BY <2>4, <1>2, Zenon
<1>. QED BY <1>3

LEMMA Induct ==
    ASSUME NEW n \in Nat, NEW S, 0 \in S, \A k \in 0..n-1 : k \in S => k + 1 \in S
    PROVE  0..n \subseteq S
<1>. SUFFICES ASSUME ~(0..n \subseteq S) PROVE FALSE
  OBVIOUS
<1>. DEFINE T == (0..n) \ S
<1>1. T \in SUBSET Nat /\ T # {}
  OBVIOUS
<1>2. \A k \in T : k \in 0..n /\ k \notin S
  OBVIOUS
<1>3. \A k \in 0..n : k \notin S => k \in T
  OBVIOUS
<1>. HIDE DEF T
<1>4. PICK x \in T : \A y \in T : x <= y
  BY <1>1, LeastOf
<1>5. x # 0 /\ x - 1 \in 0..n-1 /\ x \in 0..n
  BY <1>2
<1>6. x - 1 \in S
  BY <1>5, <1>4, <1>3
<1>7. (x - 1) + 1 \in S
  BY <1>5, <1>6
<1>. QED BY <1>7, <1>5, <1>2

\* Min of a set of numbers is one of them.
LEMMA MinIsIn ==
    ASSUME NEW T \in SUBSET Nat, T # {}
    PROVE  Min(T) \in T
BY LeastOf DEF Min

(***************************************************************************)
(* The store: rows, paths and what an enqueue makes of them.               *)
(***************************************************************************)
RowStates == {"Queued", "Active", "Completed", "Stopped"}
Row == [url : Urls, path : Paths, state : RowStates]

Store(st) ==
    /\ st \in [jobs : {st.jobs}, next : 1..MaxJobs + 1, files : SUBSET Paths,
               parts : SUBSET Paths]
    /\ DOMAIN st.jobs \subseteq 1..st.next - 1
    /\ st.jobs \in [DOMAIN st.jobs -> Row]

\* A store is a record of its four parts, with rows numbered below next.
LEMMA StoreFields ==
    ASSUME NEW st, Store(st)
    PROVE  /\ st = [jobs |-> st.jobs, next |-> st.next, files |-> st.files, parts |-> st.parts]
           /\ st.next \in 1..MaxJobs + 1 /\ st.next \in Nat
           /\ st.files \subseteq Paths /\ st.parts \subseteq Paths
           /\ \A i \in DOMAIN st.jobs : /\ i \in 1..st.next - 1 /\ i \in JobIds /\ i \in Nat
                                        /\ st.jobs[i] \in Row
<1>1. MaxJobs \in Nat
  BY BoundsAssumption
<1>2. st.next \in 1..MaxJobs + 1 /\ st.next \in Nat
  BY <1>1 DEF Store
<1>3. \A i \in DOMAIN st.jobs : /\ i \in 1..st.next - 1 /\ i \in JobIds /\ i \in Nat
                                /\ st.jobs[i] \in Row
  BY <1>1, <1>2 DEF Store, JobIds
<1>4. st = [jobs |-> st.jobs, next |-> st.next, files |-> st.files, parts |-> st.parts]
  BY DEF Store
<1>5. st.files \subseteq Paths /\ st.parts \subseteq Paths
  BY DEF Store
<1>. QED BY <1>2, <1>3, <1>4, <1>5

\* The fields of a row.
LEMMA RowFields ==
    ASSUME NEW row \in Row
    PROVE  /\ row.url \in Urls /\ row.path \in Paths
           /\ row.path[1] \in Names /\ row.path[2] \in 0..MaxIndex
           /\ row = [url |-> row.url, path |-> row.path, state |-> row.state]
           /\ row.state \in RowStates
BY DEF Row, Paths

\* Folding a path keeps its index.
LEMMA OnDiskType ==
    ASSUME NEW p \in Paths
    PROVE  OnDisk(p) \in Paths /\ OnDisk(p)[1] \in Names /\ OnDisk(p)[2] = p[2]
BY FoldedAssumption DEF OnDisk, Paths

\* The base path has index 0.
LEMMA BaseType ==
    ASSUME NEW n \in Names
    PROVE  Base(n) \in Paths /\ OnDisk(Base(n))[2] = 0
BY BoundsAssumption DEF Base, Paths, OnDisk

\* new is st with one more row.
Grown(st, new, row) ==
    /\ Store(new) /\ new.next = st.next + 1
    /\ new.files = st.files /\ new.parts = st.parts
    /\ DOMAIN new.jobs = DOMAIN st.jobs \cup {st.next}
    /\ \A i \in DOMAIN st.jobs : i # st.next /\ new.jobs[i] = st.jobs[i]
    /\ new.jobs[st.next] = row

\* A pushed row is the only change of the store.
LEMMA Pushed ==
    ASSUME NEW st, Store(st), st.next \in JobIds, NEW url \in Urls, NEW p \in Paths,
           NEW state \in RowStates,
           NEW new, new = PushJob(st, url, p, state)
    PROVE  Grown(st, new, [url |-> url, path |-> p, state |-> state])
<1>. DEFINE row == [url |-> url, path |-> p, state |-> state]
            map == [i \in DOMAIN st.jobs \cup {st.next} |->
                       IF i = st.next THEN row ELSE st.jobs[i]]
<1>2. MaxJobs \in Nat /\ st.next \in Nat /\ st.next + 1 \in 1..MaxJobs + 1
  BY StoreFields, BoundsAssumption DEF JobIds
<1>3. \A i \in DOMAIN st.jobs : i # st.next /\ map[i] = st.jobs[i]
  BY StoreFields
<1>4. row \in Row
  BY DEF Row
<1>5. map \in [DOMAIN map -> Row] /\ map[st.next] = row
  BY <1>3, <1>4, StoreFields
<1>6. DOMAIN map = DOMAIN st.jobs \cup {st.next} /\ DOMAIN map \subseteq 1..(st.next + 1) - 1
  BY <1>2, StoreFields
<1>7. new = [st EXCEPT !.jobs = map, !.next = st.next + 1]
  BY DEF PushJob
<1>. HIDE DEF map, row
<1>71. new = [jobs |-> map, next |-> st.next + 1, files |-> st.files, parts |-> st.parts]
  BY <1>7, StoreFields
<1>8. Store(new)
  BY <1>71, <1>2, <1>5, <1>6, StoreFields DEF Store
<1>9. Grown(st, new, row)
  BY <1>3, <1>5, <1>6, <1>71, <1>8 DEF Grown
<1>. QED BY <1>9 DEF row

\* A store from its parts.
LEMMA Assembled ==
    ASSUME NEW a, NEW b \in 1..MaxJobs + 1, NEW c, NEW d, DOMAIN a \subseteq 1..b - 1,
           a \in [DOMAIN a -> Row], c \subseteq Paths, d \subseteq Paths,
           NEW new, new = [jobs |-> a, next |-> b, files |-> c, parts |-> d]
    PROVE  Store(new) /\ new.jobs = a /\ new.next = b /\ new.files = c /\ new.parts = d
BY DEF Store

\* A store that loses rows and partial files.
LEMMA Shrunk ==
    ASSUME NEW st, Store(st), NEW D, D \subseteq DOMAIN st.jobs,
           NEW P, P \subseteq st.parts, NEW new,
           new = [jobs |-> [j \in D |-> st.jobs[j]], next |-> st.next, files |-> st.files,
                  parts |-> P]
    PROVE  /\ Store(new) /\ new.next = st.next /\ new.files = st.files /\ new.parts = P
           /\ DOMAIN new.jobs = D /\ \A j \in D : new.jobs[j] = st.jobs[j]
<1>. DEFINE map == [j \in D |-> st.jobs[j]]
<1>1. map \in [D -> Row] /\ (\A j \in D : map[j] = st.jobs[j]) /\ DOMAIN map = D
  BY StoreFields
<1>2. D \subseteq 1..st.next - 1
  BY StoreFields
<1>3. st.next \in 1..MaxJobs + 1 /\ st.files \subseteq Paths /\ P \subseteq Paths
  BY StoreFields
<1>4. new = [jobs |-> map, next |-> st.next, files |-> st.files, parts |-> P]
  OBVIOUS
<1>. HIDE DEF map
<1>5. DOMAIN map \subseteq 1..st.next - 1 /\ map \in [DOMAIN map -> Row]
  BY <1>1, <1>2
<1>6. Store(new) /\ new.jobs = map /\ new.next = st.next /\ new.files = st.files
      /\ new.parts = P
  BY <1>5, <1>4, <1>3, Assembled
<1>. QED BY <1>1, <1>6

\* What the removal of a duplicate leaves.
LEMMA Removed ==
    ASSUME NEW st, Store(st), NEW i \in DOMAIN st.jobs, NEW new \in RemoveDuplicate(st, i)
    PROVE  /\ Store(new) /\ new.next = st.next /\ new.files = st.files
           /\ new.parts \in {st.parts, st.parts \ {OnDisk(st.jobs[i].path)}}
           /\ DOMAIN new.jobs = DOMAIN st.jobs \ {i}
           /\ \A j \in DOMAIN st.jobs \ {i} : new.jobs[j] = st.jobs[j]
<1>. DEFINE D == DOMAIN st.jobs \ {i}
            map == [j \in D |-> st.jobs[j]]
<1>. DEFINE part == IF st.jobs[i].state = "Completed" THEN {} ELSE {OnDisk(st.jobs[i].path)}
<1>b. part \subseteq {OnDisk(st.jobs[i].path)}
  OBVIOUS
<1>1. PICK gone \in SUBSET part :
           new = [st EXCEPT !.jobs = [j \in DOMAIN @ \ {i} |-> @[j]], !.parts = @ \ gone]
  BY Zenon DEF RemoveDuplicate
<1>. HIDE DEF part
<1>2. new = [jobs |-> map, next |-> st.next, files |-> st.files, parts |-> st.parts \ gone]
  <2>1. st = [jobs |-> st.jobs, next |-> st.next, files |-> st.files, parts |-> st.parts]
    BY StoreFields
  <2>2. new = [st EXCEPT !.jobs = map, !.parts = st.parts \ gone]
    BY <1>1
  <2>. HIDE DEF map
  <2>. QED BY <2>1, <2>2
<1>. HIDE DEF map
<1>3. st.parts \ gone \in {st.parts, st.parts \ {OnDisk(st.jobs[i].path)}}
  BY <1>b
<1>4. D \subseteq DOMAIN st.jobs /\ st.parts \ gone \subseteq st.parts
  OBVIOUS
<1>. HIDE DEF D
<1>5. /\ Store(new) /\ new.next = st.next /\ new.files = st.files
      /\ new.parts = st.parts \ gone
      /\ DOMAIN new.jobs = D /\ \A j \in D : new.jobs[j] = st.jobs[j]
  BY <1>2, <1>4, Shrunk DEF map
<1>. QED BY <1>5, <1>3 DEF D

\* What an overwrite leaves.
LEMMA Overwritten ==
    ASSUME NEW st, Store(st), NEW p, NEW new, new = Overwrite(st, p)
    PROVE  /\ Store(new) /\ new.next = st.next /\ new.jobs = st.jobs
           /\ new.files = st.files \ {OnDisk(p)} /\ new.parts = st.parts \ {OnDisk(p)}
<1>1. new = [jobs |-> st.jobs, next |-> st.next, files |-> st.files \ {OnDisk(p)},
             parts |-> st.parts \ {OnDisk(p)}]
  <2>1. st = [jobs |-> st.jobs, next |-> st.next, files |-> st.files, parts |-> st.parts]
    BY StoreFields
  <2>. QED BY <2>1 DEF Overwrite
<1>. QED BY <1>1, StoreFields DEF Store

\* What an overwrite that breaks off leaves.
LEMMA HalfOverwritten ==
    ASSUME NEW st, Store(st), NEW p, NEW new, new = HalfOverwrite(st, p)
    PROVE  /\ Store(new) /\ new.next = st.next /\ new.jobs = st.jobs
           /\ new.files = st.files \ {OnDisk(p)} /\ new.parts = st.parts
<1>1. new = [jobs |-> st.jobs, next |-> st.next, files |-> st.files \ {OnDisk(p)},
             parts |-> st.parts]
  <2>1. st = [jobs |-> st.jobs, next |-> st.next, files |-> st.files, parts |-> st.parts]
    BY StoreFields
  <2>. QED BY <2>1 DEF HalfOverwrite
<1>. QED BY <1>1, StoreFields DEF Store

\* The duplicate, if there is one, is a row.
LEMMA MatchedRow ==
    ASSUME NEW st, Store(st), NEW url, NEW p
    PROVE  LET m == DuplicateMatch(st, url, p).job IN m = 0 \/ m \in DOMAIN st.jobs
<1>. DEFINE byUrl == {i \in DOMAIN st.jobs : st.jobs[i].url = url}
            byPath == RowsAt(st, p)
<1>1. byUrl \in SUBSET Nat /\ byPath \in SUBSET Nat
  BY StoreFields DEF RowsAt
<1>2. byUrl \subseteq DOMAIN st.jobs /\ byPath \subseteq DOMAIN st.jobs
  BY DEF RowsAt
<1>3. DuplicateMatch(st, url, p).job =
        IF byUrl # {} THEN Min(byUrl) ELSE IF byPath # {} THEN Min(byPath) ELSE 0
  BY DEF DuplicateMatch
<1>. HIDE DEF byUrl, byPath
<1>4. byUrl # {} => Min(byUrl) \in byUrl
  BY <1>1, MinIsIn
<1>5. byPath # {} => Min(byPath) \in byPath
  BY <1>1, MinIsIn
<1>. QED BY <1>2, <1>3, <1>4, <1>5

Taken(st, f) ==
    {k \in 1..MaxIndex : \/ <<f, k>> \in st.files \cup st.parts
                         \/ \E i \in DOMAIN st.jobs : OnDisk(st.jobs[i].path) = <<f, k>>}

Room(st) == \A f \in Names : Cardinality(Taken(st, f)) <= st.next - 1

\* Taken indices can be counted.
LEMMA TakenIsFinite ==
    ASSUME NEW st, NEW f
    PROVE  IsFiniteSet(Taken(st, f)) /\ Cardinality(Taken(st, f)) \in Nat
<1>1. IsFiniteSet(1..MaxIndex) /\ Taken(st, f) \subseteq 1..MaxIndex
  BY FS_Interval, BoundsAssumption DEF Taken
<1>. QED BY <1>1, FS_Subset, FS_CardinalityType

\* A free spelling is found as long as fewer rows were made than there are indices.
LEMMA Allocated ==
    ASSUME NEW st, Store(st), Room(st), st.next \in JobIds, NEW n \in Names,
           NEW p, p = AllocateTarget(st, n)
    PROVE  p \in Paths /\ (\A j \in DOMAIN st.jobs : st.jobs[j].path # p)
<1>. DEFINE free(i) == /\ \A j \in DOMAIN st.jobs : st.jobs[j].path # <<n, i>>
                       /\ OnDisk(<<n, i>>) \notin st.files \cup st.parts
            choices == {i \in 0..MaxIndex : free(i)}
            f == Folded[n]
<1>0. MaxIndex \in Nat /\ f \in Names /\ st.next - 1 < MaxIndex /\ st.next \in Nat
  BY BoundsAssumption, FoldedAssumption DEF JobIds
<1>1. 1..MaxIndex \subseteq choices \cup Taken(st, f)
  <2>. SUFFICES ASSUME NEW k \in 1..MaxIndex, k \notin Taken(st, f) PROVE k \in choices
    OBVIOUS
  <2>1. k \in 0..MaxIndex /\ OnDisk(<<n, k>>) = <<f, k>>
    BY <1>0 DEF OnDisk
  <2>2. <<f, k>> \notin st.files \cup st.parts
    BY DEF Taken
  <2>3. ASSUME NEW j \in DOMAIN st.jobs, st.jobs[j].path = <<n, k>> PROVE FALSE
    <3>1. OnDisk(st.jobs[j].path) = <<f, k>>
      BY <2>3, <2>1
    <3>. QED BY <3>1 DEF Taken
  <2>. QED BY <2>1, <2>2, <2>3
<1>2. choices # {}
  <2>. HIDE DEF choices
  <2>. SUFFICES ASSUME choices = {} PROVE FALSE
    OBVIOUS
  <2>1. 1..MaxIndex \subseteq Taken(st, f)
    BY <1>1
  <2>2. Cardinality(1..MaxIndex) <= Cardinality(Taken(st, f))
    BY <2>1, FS_Subset, TakenIsFinite
  <2>3. Cardinality(1..MaxIndex) = MaxIndex
    BY FS_Interval, <1>0
  <2>4. Cardinality(Taken(st, f)) <= st.next - 1
    BY <1>0 DEF Room
  <2>. QED BY <2>2, <2>3, <2>4, <1>0, TakenIsFinite
<1>3. choices \in SUBSET Nat
  BY <1>0
<1>4. Min(choices) \in choices
  <2>. HIDE DEF choices
  <2>. QED BY <1>2, <1>3, MinIsIn
<1>5. p = <<n, Min(choices)>>
  BY <1>2 DEF AllocateTarget
<1>. DEFINE m == Min(choices)
<1>6. m \in 0..MaxIndex /\ \A j \in DOMAIN st.jobs : st.jobs[j].path # <<n, m>>
  BY <1>4
<1>. HIDE DEF choices, m, free
<1>7. p = <<n, m>>
  BY <1>5 DEF m
<1>. QED BY <1>6, <1>7 DEF Paths

(***************************************************************************)
(* The invariant of the store.  Two rows at one path are contested, a      *)
(* running row has its partial file, and for every name no more indices are*)
(* taken than rows were made: that is why AllocateTarget finds a free one. *)
(***************************************************************************)

Disjoint(st, c) ==
    \A i, j \in DOMAIN st.jobs :
        OnDisk(st.jobs[i].path) = OnDisk(st.jobs[j].path) => i = j \/ (i \in c /\ j \in c)

KeepsParts(st, c) ==
    \A i \in DOMAIN st.jobs :
        st.jobs[i].state = "Active" /\ i \notin c => OnDisk(st.jobs[i].path) \in st.parts

StoreInv(st, c) == Store(st) /\ Disjoint(st, c) /\ KeepsParts(st, c) /\ Room(st)

\* Less taken, as many rows made: there is room.
LEMMA RoomStays ==
    ASSUME NEW st, Store(st), Room(st), NEW new, new.next = st.next,
           \A f \in Names : Taken(new, f) \subseteq Taken(st, f)
    PROVE  Room(new)
<1>. SUFFICES ASSUME NEW f \in Names PROVE Cardinality(Taken(new, f)) <= new.next - 1
  BY DEF Room
<1>1. Cardinality(Taken(new, f)) <= Cardinality(Taken(st, f))
  BY FS_Subset, TakenIsFinite
<1>2. Cardinality(Taken(st, f)) <= st.next - 1
  BY DEF Room
<1>. QED BY <1>1, <1>2, TakenIsFinite, StoreFields

\* A removed row takes no partial file of a row with a path of its own.
LEMMA RemoveKeeps ==
    ASSUME NEW st, NEW c, StoreInv(st, c), NEW i \in DOMAIN st.jobs,
           NEW new \in RemoveDuplicate(st, i)
    PROVE  StoreInv(new, c)
<1>0. Store(st)
  BY DEF StoreInv
<1>1. /\ Store(new) /\ new.next = st.next /\ new.files = st.files
      /\ new.parts \in {st.parts, st.parts \ {OnDisk(st.jobs[i].path)}}
      /\ DOMAIN new.jobs = DOMAIN st.jobs \ {i}
      /\ \A j \in DOMAIN st.jobs \ {i} : new.jobs[j] = st.jobs[j]
  BY <1>0, Removed
<1>2. Disjoint(new, c)
  BY <1>1 DEF StoreInv, Disjoint
<1>3. KeepsParts(new, c)
  <2>. SUFFICES ASSUME NEW j \in DOMAIN st.jobs, j # i, st.jobs[j].state = "Active", j \notin c
       PROVE OnDisk(st.jobs[j].path) \in new.parts
    BY <1>1 DEF KeepsParts
  <2>1. OnDisk(st.jobs[j].path) \in st.parts
    BY DEF StoreInv, KeepsParts
  <2>2. OnDisk(st.jobs[j].path) # OnDisk(st.jobs[i].path)
    BY DEF StoreInv, Disjoint
  <2>. QED BY <1>1, <2>1, <2>2
<1>4. \A f \in Names : Taken(new, f) \subseteq Taken(st, f)
  BY <1>1 DEF Taken
<1>5. Room(new)
  BY <1>0, <1>1, <1>4, RoomStays DEF StoreInv
<1>. QED BY <1>1, <1>2, <1>3, <1>5 DEF StoreInv

\* An overwrite may take the file of any row at the path: those are contested.
LEMMA OverwriteKeeps ==
    ASSUME NEW st, NEW c, StoreInv(st, c), NEW p, NEW c2, c \subseteq c2,
           \A j \in DOMAIN st.jobs : OnDisk(st.jobs[j].path) = OnDisk(p) => j \in c2,
           NEW new, new = Overwrite(st, p)
    PROVE  StoreInv(new, c2)
<1>0. Store(st)
  BY DEF StoreInv
<1>1. /\ Store(new) /\ new.next = st.next /\ new.jobs = st.jobs
      /\ new.files = st.files \ {OnDisk(p)} /\ new.parts = st.parts \ {OnDisk(p)}
  BY <1>0, Overwritten
<1>2. Disjoint(new, c2)
  BY <1>1 DEF StoreInv, Disjoint
<1>3. KeepsParts(new, c2)
  BY <1>1 DEF StoreInv, KeepsParts
<1>4. \A f \in Names : Taken(new, f) \subseteq Taken(st, f)
  BY <1>1 DEF Taken
<1>5. Room(new)
  BY <1>0, <1>1, <1>4, RoomStays DEF StoreInv
<1>. QED BY <1>1, <1>2, <1>3, <1>5 DEF StoreInv

\* An overwrite that breaks off has taken the finished file alone.
LEMMA HalfOverwriteKeeps ==
    ASSUME NEW st, NEW c, StoreInv(st, c), NEW p, NEW new, new = HalfOverwrite(st, p)
    PROVE  StoreInv(new, c) /\ new.next = st.next
<1>0. Store(st)
  BY DEF StoreInv
<1>1. /\ Store(new) /\ new.next = st.next /\ new.jobs = st.jobs
      /\ new.files = st.files \ {OnDisk(p)} /\ new.parts = st.parts
  BY <1>0, HalfOverwritten
<1>2. Disjoint(new, c) /\ KeepsParts(new, c)
  BY <1>1 DEF StoreInv, Disjoint, KeepsParts
<1>3. \A f \in Names : Taken(new, f) \subseteq Taken(st, f)
  BY <1>1 DEF Taken
<1>4. Room(new)
  BY <1>0, <1>1, <1>3, RoomStays DEF StoreInv
<1>. QED BY <1>1, <1>2, <1>4 DEF StoreInv

\* A new row shares its path with contested rows only, and takes one index.
LEMMA PushKeeps ==
    ASSUME NEW st, NEW c, StoreInv(st, c), st.next \in JobIds, NEW url \in Urls,
           NEW p \in Paths, NEW state \in {"Queued", "Completed", "Stopped"},
           NEW c2, c \subseteq c2,
           \A j \in DOMAIN st.jobs : OnDisk(st.jobs[j].path) = OnDisk(p) =>
                                         j \in c2 /\ st.next \in c2,
           NEW new, new = PushJob(st, url, p, state)
    PROVE  StoreInv(new, c2)
<1>0. Store(st) /\ state \in RowStates
  BY DEF StoreInv, RowStates
<1>1. /\ Store(new) /\ new.next = st.next + 1
      /\ new.files = st.files /\ new.parts = st.parts
      /\ DOMAIN new.jobs = DOMAIN st.jobs \cup {st.next}
      /\ \A i \in DOMAIN st.jobs : i # st.next /\ new.jobs[i] = st.jobs[i]
      /\ new.jobs[st.next] = [url |-> url, path |-> p, state |-> state]
  <2>1. Grown(st, new, [url |-> url, path |-> p, state |-> state])
    BY <1>0, Pushed
  <2>. QED BY <2>1 DEF Grown
<1>2. new.jobs[st.next].path = p /\ new.jobs[st.next].state # "Active"
  BY <1>1
<1>3. Disjoint(new, c2)
  <2>. SUFFICES ASSUME NEW i \in DOMAIN new.jobs, NEW j \in DOMAIN new.jobs, i # j,
                       OnDisk(new.jobs[i].path) = OnDisk(new.jobs[j].path)
       PROVE  i \in c2 /\ j \in c2
    BY DEF Disjoint
  <2>1. CASE i = st.next
    <3>1. j \in DOMAIN st.jobs /\ OnDisk(st.jobs[j].path) = OnDisk(p)
      BY <1>1, <1>2, <2>1
    <3>. QED BY <3>1, <2>1
  <2>2. CASE j = st.next
    <3>1. i \in DOMAIN st.jobs /\ OnDisk(st.jobs[i].path) = OnDisk(p)
      BY <1>1, <1>2, <2>2
    <3>. QED BY <3>1, <2>2
  <2>3. CASE i # st.next /\ j # st.next
    BY <2>3, <1>1 DEF StoreInv, Disjoint
  <2>. QED BY <2>1, <2>2, <2>3
<1>4. KeepsParts(new, c2)
  BY <1>1, <1>2 DEF StoreInv, KeepsParts
<1>5. Room(new)
  <2>. SUFFICES ASSUME NEW f \in Names PROVE Cardinality(Taken(new, f)) <= new.next - 1
    BY DEF Room
  <2>. DEFINE k0 == OnDisk(p)[2]
  <2>1. Taken(new, f) \subseteq Taken(st, f) \cup {k0}
    <3>. SUFFICES ASSUME NEW k \in Taken(new, f), k # k0 PROVE k \in Taken(st, f)
      OBVIOUS
    <3>1. k \in 1..MaxIndex
      BY DEF Taken
    <3>2. OnDisk(p) # <<f, k>>
      OBVIOUS
    <3>3. \/ <<f, k>> \in st.files \cup st.parts
          \/ \E i \in DOMAIN st.jobs : OnDisk(st.jobs[i].path) = <<f, k>>
      BY <1>1, <1>2, <3>2 DEF Taken
    <3>. QED BY <3>1, <3>3 DEF Taken
  <2>. HIDE DEF k0
  <2>2. /\ IsFiniteSet(Taken(st, f) \cup {k0})
        /\ \/ Cardinality(Taken(st, f) \cup {k0}) = Cardinality(Taken(st, f))
           \/ Cardinality(Taken(st, f) \cup {k0}) = Cardinality(Taken(st, f)) + 1
    BY TakenIsFinite, FS_AddElement
  <2>3. Cardinality(Taken(new, f)) <= Cardinality(Taken(st, f) \cup {k0})
    BY <2>1, <2>2, FS_Subset
  <2>4. Cardinality(Taken(st, f)) <= st.next - 1
    BY DEF StoreInv, Room
  <2>5. st.next \in Nat /\ Cardinality(Taken(new, f)) \in Nat /\ Cardinality(Taken(st, f)) \in Nat
    BY <1>0, StoreFields, TakenIsFinite
  <2>. QED BY <2>2, <2>3, <2>4, <2>5, <1>1
<1>. QED BY <1>1, <1>3, <1>4, <1>5 DEF StoreInv

Cleared(st, rest) == rest = st \/ \E m \in DOMAIN st.jobs : rest \in RemoveDuplicate(st, m)

\* The ways an enqueue can end.
LEMMA Outcomes ==
    ASSUME NEW st, Store(st), NEW url, NEW name, NEW policy,
           NEW o \in EnqueueOutcomes(st, url, name, policy)
    PROVE  \/ /\ o.answer \in {"rejected", "duplicate"}
              /\ \E rest : Cleared(st, rest) /\ o.st \in {rest, HalfOverwrite(rest, Base(name))}
           \/ /\ o.answer = "queued"
              /\ o.st = PushJob(st, url, AllocateTarget(st, name), "Queued")
           \/ /\ o.answer = "queued" /\ policy = "ReplaceExisting"
              /\ \E rest : /\ Cleared(st, rest)
                           /\ o.st = PushJob(Overwrite(rest, Base(name)), url, Base(name), "Queued")
<1>. DEFINE m == DuplicateMatch(st, url, Base(name)).job
            rests == IF m # 0 THEN RemoveDuplicate(st, m) ELSE {st}
<1>1. m = 0 \/ m \in DOMAIN st.jobs
  BY MatchedRow
<1>2. (\A rest \in rests : Cleared(st, rest)) /\ Cleared(st, st)
  BY <1>1 DEF Cleared
<1>. HIDE DEF m
<1>3. \/ o = Refused(st) \/ o = Duplicate(st) \/ o = Queued(st, url, AllocateTarget(st, name))
      \/ /\ policy = "ReplaceExisting"
         /\ \E rest \in rests :
               o \in {Refused(rest), Refused(HalfOverwrite(rest, Base(name))),
                     Queued(Overwrite(rest, Base(name)), url, Base(name))}
  BY Zenon DEF EnqueueOutcomes, m
<1>. HIDE DEF rests
<1>4. CASE o = Refused(st) \/ o = Duplicate(st)
  BY <1>4, <1>2 DEF Refused, Duplicate
<1>5. CASE o = Queued(st, url, AllocateTarget(st, name))
  BY <1>5 DEF Queued
<1>6. ASSUME NEW rest \in rests,
             o = Refused(rest) \/ o = Refused(HalfOverwrite(rest, Base(name)))
      PROVE  /\ o.answer = "rejected" /\ Cleared(st, rest)
             /\ o.st \in {rest, HalfOverwrite(rest, Base(name))}
  BY <1>6, <1>2 DEF Refused
<1>7. ASSUME NEW rest \in rests, o = Queued(Overwrite(rest, Base(name)), url, Base(name))
      PROVE  /\ o.answer = "queued" /\ Cleared(st, rest)
             /\ o.st = PushJob(Overwrite(rest, Base(name)), url, Base(name), "Queued")
  BY <1>7, <1>2 DEF Queued
<1>. QED BY <1>3, <1>4, <1>5, <1>6, <1>7

(***************************************************************************)
(* An enqueue keeps the invariant of the store.                            *)
(***************************************************************************)

\* Without the replaced row the invariant still holds.
LEMMA ClearedKeeps ==
    ASSUME NEW st, NEW c, StoreInv(st, c), NEW rest, Cleared(st, rest)
    PROVE  StoreInv(rest, c) /\ rest.next = st.next /\ DOMAIN rest.jobs \subseteq DOMAIN st.jobs
<1>1. CASE rest = st
  BY <1>1
<1>2. ASSUME NEW m \in DOMAIN st.jobs, rest \in RemoveDuplicate(st, m)
      PROVE  StoreInv(rest, c) /\ rest.next = st.next /\ DOMAIN rest.jobs \subseteq DOMAIN st.jobs
  <2>1. StoreInv(rest, c)
    BY <1>2, RemoveKeeps
  <2>2. Store(st)
    BY DEF StoreInv
  <2>. QED BY <1>2, <2>1, <2>2, Removed
<1>. QED BY <1>1, <1>2 DEF Cleared

\* The number of the next row goes up by one.
LEMMA PushedNext ==
    ASSUME NEW st, Store(st), st.next \in JobIds, NEW url \in Urls, NEW p \in Paths,
           NEW state \in RowStates, NEW new, new = PushJob(st, url, p, state)
    PROVE  Store(new) /\ new.next = st.next + 1
<1>1. Grown(st, new, [url |-> url, path |-> p, state |-> state])
  BY Pushed
<1>. QED BY <1>1 DEF Grown

\* Who shares the path of the newest row.
LEMMA NewestShares ==
    ASSUME NEW st, Store(st), st.next \in JobIds, NEW url \in Urls, NEW p \in Paths,
           NEW state \in RowStates, NEW new, new = PushJob(st, url, p, state)
    PROVE  /\ SharedByNewest(new) \subseteq DOMAIN new.jobs
           /\ \A j \in DOMAIN st.jobs : OnDisk(st.jobs[j].path) = OnDisk(p) =>
                 j \in SharedByNewest(new) /\ st.next \in SharedByNewest(new)
           /\ (\A j \in DOMAIN st.jobs : st.jobs[j].path # p) => SpelledOtherwise(new)
<1>1. /\ Store(new) /\ new.next = st.next + 1
      /\ DOMAIN new.jobs = DOMAIN st.jobs \cup {st.next}
      /\ \A i \in DOMAIN st.jobs : i # st.next /\ new.jobs[i] = st.jobs[i]
      /\ new.jobs[st.next] = [url |-> url, path |-> p, state |-> state]
  <2>1. Grown(st, new, [url |-> url, path |-> p, state |-> state])
    BY Pushed
  <2>. QED BY <2>1 DEF Grown
<1>2. new.jobs[st.next].path = p /\ new.next - 1 = st.next
  BY <1>1, StoreFields
<1>. DEFINE others == RowsAt(new, p) \ {st.next}
<1>3. others = {j \in DOMAIN st.jobs : OnDisk(st.jobs[j].path) = OnDisk(p)}
  BY <1>1, <1>2 DEF RowsAt
<1>4. SharedByNewest(new) = IF others = {} THEN {} ELSE others \cup {st.next}
  BY <1>2 DEF SharedByNewest
<1>5. SpelledOtherwise(new) <=> \A j \in others : new.jobs[j].path # p
  BY <1>2 DEF SpelledOtherwise
<1>. HIDE DEF others
<1>6. SharedByNewest(new) \subseteq DOMAIN new.jobs
  BY <1>1, <1>3, <1>4
<1>7. ASSUME NEW j \in DOMAIN st.jobs, OnDisk(st.jobs[j].path) = OnDisk(p)
      PROVE  j \in SharedByNewest(new) /\ st.next \in SharedByNewest(new)
  BY <1>7, <1>3, <1>4
<1>8. (\A j \in DOMAIN st.jobs : st.jobs[j].path # p) => SpelledOtherwise(new)
  BY <1>1, <1>3, <1>5
<1>. QED BY <1>6, <1>7, <1>8

\* However an enqueue ends, the invariant holds, and "queued" is a new row.
LEMMA EnqueueKeeps ==
    ASSUME StoreInv(s, contested), contested \subseteq JobIds,
           NEW url \in Urls, NEW name \in Names, NEW policy, NEW outcome,
           EnqueueInMemory(url, name, policy, outcome)
    PROVE  /\ StoreInv(s', contested') /\ contested' \subseteq JobIds
           /\ outcome.answer \in {"rejected", "duplicate", "queued"}
           /\ outcome.answer = "queued" <=> s'.next # s.next
<1>0. Store(s) /\ Room(s) /\ s' = outcome.st /\ outcome \in EnqueueOutcomes(s, url, name, policy)
  BY DEF StoreInv, EnqueueInMemory
<1>a. "Queued" \in RowStates /\ "Queued" \in {"Queued", "Completed", "Stopped"}
  BY DEF RowStates
<1>1. CASE /\ outcome.answer \in {"rejected", "duplicate"}
           /\ \E rest : /\ Cleared(s, rest)
                        /\ outcome.st \in {rest, HalfOverwrite(rest, Base(name))}
  <2>0. PICK rest : Cleared(s, rest) /\ (s' = rest \/ s' = HalfOverwrite(rest, Base(name)))
    BY <1>1, <1>0
  <2>a. StoreInv(rest, contested) /\ rest.next = s.next
    BY <2>0, ClearedKeeps
  <2>1. StoreInv(s', contested) /\ s'.next = s.next
    BY <2>0, <2>a, HalfOverwriteKeeps
  <2>2. contested' = contested
    BY <1>1 DEF EnqueueInMemory
  <2>. QED BY <1>1, <2>1, <2>2
<1>2. CASE /\ outcome.answer = "queued"
           /\ outcome.st = PushJob(s, url, AllocateTarget(s, name), "Queued")
  <2>. DEFINE p == AllocateTarget(s, name)
              c2 == contested \cup SharedByNewest(s')
  <2>0. s.next \in JobIds
    BY <1>2 DEF EnqueueInMemory
  <2>1. p \in Paths /\ \A j \in DOMAIN s.jobs : s.jobs[j].path # p
    BY <1>0, <2>0, Allocated
  <2>2. s' = PushJob(s, url, p, "Queued")
    BY <1>0, <1>2
  <2>. HIDE DEF p
  <2>3. /\ SharedByNewest(s') \subseteq DOMAIN s'.jobs
        /\ \A j \in DOMAIN s.jobs : OnDisk(s.jobs[j].path) = OnDisk(p) =>
              j \in SharedByNewest(s') /\ s.next \in SharedByNewest(s')
        /\ SpelledOtherwise(s')
    BY <1>0, <1>a, <2>0, <2>1, <2>2, NewestShares
  <2>4. contested' = c2
    BY <1>0, <1>2, <2>3 DEF EnqueueInMemory
  <2>5. contested \subseteq c2 /\ \A j \in DOMAIN s.jobs : OnDisk(s.jobs[j].path) = OnDisk(p) =>
              j \in c2 /\ s.next \in c2
    BY <2>3
  <2>. HIDE DEF c2
  <2>6. StoreInv(s', c2)
    BY <1>a, <2>0, <2>1, <2>2, <2>5, PushKeeps
  <2>7. Store(s') /\ s'.next = s.next + 1
    BY <1>0, <1>a, <2>0, <2>1, <2>2, PushedNext
  <2>8. c2 \subseteq JobIds
    BY <2>3, <2>7, StoreFields DEF c2
  <2>. QED BY <2>4, <2>6, <2>7, <2>8, <1>2, <1>0, StoreFields
<1>3. CASE /\ outcome.answer = "queued" /\ policy = "ReplaceExisting"
           /\ \E rest : /\ Cleared(s, rest)
                        /\ outcome.st =
                             PushJob(Overwrite(rest, Base(name)), url, Base(name), "Queued")
  <2>. DEFINE p == Base(name)
              c2 == contested \cup SharedByNewest(s')
  <2>0. s.next \in JobIds /\ p \in Paths
    BY <1>3, BaseType DEF EnqueueInMemory
  <2>. HIDE DEF p
  <2>1. PICK rest : Cleared(s, rest) /\ s' = PushJob(Overwrite(rest, p), url, p, "Queued")
    BY <1>0, <1>3 DEF p
  <2>2. StoreInv(rest, contested) /\ rest.next = s.next /\ Store(rest)
    BY <2>1, ClearedKeeps DEF StoreInv
  <2>. DEFINE bare == Overwrite(rest, p)
  <2>3. Store(bare) /\ bare.next = s.next /\ bare.jobs = rest.jobs
    BY <2>2, Overwritten
  <2>3a. s' = PushJob(bare, url, p, "Queued")
    BY <2>1
  <2>4. StoreInv(rest, contested) /\ bare = Overwrite(rest, p)
    BY <2>2
  <2>. HIDE DEF bare
  <2>5. /\ SharedByNewest(s') \subseteq DOMAIN s'.jobs
        /\ \A j \in DOMAIN bare.jobs : OnDisk(bare.jobs[j].path) = OnDisk(p) =>
              j \in SharedByNewest(s') /\ bare.next \in SharedByNewest(s')
    BY <1>a, <2>0, <2>3, <2>3a, NewestShares
  <2>6. contested' = c2
    BY <1>0, <1>3 DEF EnqueueInMemory
  <2>7. /\ contested \subseteq c2
        /\ \A j \in DOMAIN bare.jobs : OnDisk(bare.jobs[j].path) = OnDisk(p) =>
              j \in c2 /\ bare.next \in c2
    BY <2>5
  <2>8. c2 \subseteq JobIds /\ s'.next = s.next + 1
    <3>1. Store(s') /\ s'.next = s.next + 1
      BY <1>a, <2>0, <2>3, <2>3a, PushedNext
    <3>. QED BY <3>1, <2>5, StoreFields
  <2>. HIDE DEF c2
  <2>9. StoreInv(bare, c2)
    BY <2>3, <2>4, <2>7, OverwriteKeeps
  <2>10. StoreInv(s', c2)
    BY <1>a, <2>0, <2>3, <2>3a, <2>7, <2>9, PushKeeps
  <2>. QED BY <2>6, <2>8, <2>10, <1>3, <1>0, StoreFields
<1>4. \/ /\ outcome.answer \in {"rejected", "duplicate"}
         /\ \E rest : /\ Cleared(s, rest)
                      /\ outcome.st \in {rest, HalfOverwrite(rest, Base(name))}
      \/ /\ outcome.answer = "queued"
         /\ outcome.st = PushJob(s, url, AllocateTarget(s, name), "Queued")
      \/ /\ outcome.answer = "queued" /\ policy = "ReplaceExisting"
         /\ \E rest : /\ Cleared(s, rest)
                      /\ outcome.st =
                           PushJob(Overwrite(rest, Base(name)), url, Base(name), "Queued")
  BY <1>0, Outcomes
<1>. QED BY <1>1, <1>2, <1>3, <1>4

(***************************************************************************)
(* A batch.  The run through its entries exists, and each entry keeps the  *)
(* invariant when rows that differ in spelling only count as contested.    *)
(***************************************************************************)

\* The run through a batch, by induction on its length.
LEMMA BatchRunExists ==
    ASSUME NEW st, NEW entries, NEW n \in Nat
    PROVE  \E g : g = [k \in 0..n |-> IF k = 0 THEN st ELSE AddEntry(g[k-1], entries[k])]
<1>. DEFINE Run(g, m) == g = [k \in 0..m |-> IF k = 0 THEN st ELSE AddEntry(g[k-1], entries[k])]
            S == {m \in 0..n : \E g : Run(g, m)}
<1>1. \E g : Run(g, 0)
  <2>1. [k \in 0..0 |-> st] =
          [k \in 0..0 |-> IF k = 0 THEN st ELSE AddEntry([i \in 0..0 |-> st][k-1], entries[k])]
    OBVIOUS
  <2>. QED BY <2>1
<1>2. ASSUME NEW m \in 0..n-1, NEW g, Run(g, m) PROVE \E e : Run(e, m + 1)
  <2>. DEFINE e == [k \in 0..m+1 |-> IF k = m + 1 THEN AddEntry(g[m], entries[m+1]) ELSE g[k]]
  <2>1. ASSUME NEW k \in 0..m+1
        PROVE  e[k] = IF k = 0 THEN st ELSE AddEntry(e[k-1], entries[k])
    <3>1. CASE k = m + 1
      <4>1. e[k] = AddEntry(g[m], entries[k]) /\ e[k-1] = g[m] /\ k # 0
        BY <3>1
      <4>. QED BY <4>1
    <3>2. CASE k # m + 1
      <4>1. k \in 0..m /\ e[k] = g[k]
        BY <3>2
      <4>2. g[k] = IF k = 0 THEN st ELSE AddEntry(g[k-1], entries[k])
        BY <4>1, <1>2
      <4>3. k # 0 => e[k-1] = g[k-1]
        BY <4>1
      <4>. HIDE DEF e
      <4>. QED BY <4>1, <4>2, <4>3
    <3>. QED BY <3>1, <3>2
  <2>2. e = [k \in 0..m+1 |-> e[k]]
    OBVIOUS
  <2>. HIDE DEF e
  <2>3. Run(e, m + 1)
    BY <2>1, <2>2
  <2>. QED BY <2>3
<1>. HIDE DEF Run
<1>3. 0 \in S
  BY <1>1
<1>4. \A m \in 0..n-1 : m \in S => m + 1 \in S
  BY <1>2
<1>. HIDE DEF S
<1>5. 0..n \subseteq S
  BY <1>3, <1>4, Induct
<1>6. n \in S
  BY <1>5
<1>. QED BY <1>6 DEF S, Run

\* The run starts at the store and takes one entry a step.
LEMMA BatchRunSteps ==
    ASSUME NEW st, NEW entries, Len(entries) \in Nat
    PROVE  LET run == BatchRun(st, entries) IN
           run[0] = st /\ \A k \in 1..Len(entries) : run[k] = AddEntry(run[k-1], entries[k])
<1>. DEFINE n == Len(entries)
            run == BatchRun(st, entries)
<1>1. run = [k \in 0..n |-> IF k = 0 THEN st ELSE AddEntry(run[k-1], entries[k])]
  BY BatchRunExists DEF BatchRun
<1>. QED BY <1>1

\* Rows that share a path with a row whose path is spelled otherwise.
BatchShared(st) ==
    {i \in DOMAIN st.jobs : \E j \in DOMAIN st.jobs \ {i} :
        OnDisk(st.jobs[i].path) = OnDisk(st.jobs[j].path) /\ st.jobs[i].path # st.jobs[j].path}

\* One entry of a batch.
LEMMA AddEntryKeeps ==
    ASSUME NEW st, NEW c, StoreInv(st, c \cup BatchShared(st)), st.next \in JobIds,
           NEW entry \in [url : Urls, name : Names], NEW new, new = AddEntry(st, entry)
    PROVE  StoreInv(new, c \cup BatchShared(new)) /\ new.next \in {st.next, st.next + 1}
<1>. DEFINE url == entry.url
            name == entry.name
            p == AllocateTarget(st, name)
<1>1. new = st \/ new = PushJob(st, url, p, "Queued")
  BY DEF AddEntry
<1>2. CASE new = st
  BY <1>2
<1>3. CASE new = PushJob(st, url, p, "Queued")
  <2>1. Store(st) /\ Room(st) /\ url \in Urls /\ name \in Names
    BY DEF StoreInv
  <2>. HIDE DEF url, name
  <2>2. p \in Paths /\ \A j \in DOMAIN st.jobs : st.jobs[j].path # p
    BY <2>1, Allocated
  <2>. HIDE DEF p
  <2>3. "Queued" \in RowStates /\ "Queued" \in {"Queued", "Completed", "Stopped"}
    BY DEF RowStates
  <2>4. Grown(st, new, [url |-> url, path |-> p, state |-> "Queued"])
    BY <1>3, <2>1, <2>2, <2>3, Pushed
  <2>5. /\ DOMAIN new.jobs = DOMAIN st.jobs \cup {st.next} /\ new.next = st.next + 1
        /\ \A i \in DOMAIN st.jobs : i # st.next /\ new.jobs[i] = st.jobs[i]
        /\ new.jobs[st.next].path = p
    BY <2>4 DEF Grown
  <2>6. BatchShared(st) \subseteq BatchShared(new)
    BY <2>5 DEF BatchShared
  <2>7. \A j \in DOMAIN st.jobs : OnDisk(st.jobs[j].path) = OnDisk(p) =>
              j \in BatchShared(new) /\ st.next \in BatchShared(new)
    BY <2>2, <2>5 DEF BatchShared
  <2>. DEFINE c1 == c \cup BatchShared(st)
              c2 == c \cup BatchShared(new)
  <2>8. /\ c1 \subseteq c2 /\ StoreInv(st, c1)
        /\ \A j \in DOMAIN st.jobs : OnDisk(st.jobs[j].path) = OnDisk(p) =>
              j \in c2 /\ st.next \in c2
    BY <2>6, <2>7
  <2>. HIDE DEF c1, c2
  <2>9. StoreInv(new, c2)
    BY <1>3, <2>1, <2>2, <2>3, <2>8, PushKeeps
  <2>. QED BY <2>5, <2>9 DEF c2
<1>. QED BY <1>1, <1>2, <1>3

\* The invariant is weaker with more contested rows.
LEMMA MoreContested ==
    ASSUME NEW st, NEW c, StoreInv(st, c), NEW c2, c \subseteq c2
    PROVE  StoreInv(st, c2)
BY DEF StoreInv, Disjoint, KeepsParts

\* A batch, by induction over its entries.
LEMMA BatchKeeps ==
    ASSUME StoreInv(s, contested), contested \subseteq JobIds, NEW entries \in Batches,
           AddBatch(entries)
    PROVE  StoreInv(s', contested') /\ contested' \subseteq JobIds
<1>. DEFINE n == Len(entries)
            run == BatchRun(s, entries)
<1>1. n \in Nat /\ \A k \in 1..n : entries[k] \in [url : Urls, name : Names]
  <2>. DEFINE R == [url : Urls, name : Names]
  <2>1. entries \in Seq(R)
    BY BatchesAssumption
  <2>. HIDE DEF R
  <2>2. Len(entries) \in Nat /\ \A k \in 1..Len(entries) : entries[k] \in R
    BY <2>1
  <2>. QED BY <2>2 DEF R
<1>2. run[0] = s /\ \A k \in 1..n : run[k] = AddEntry(run[k-1], entries[k])
  BY <1>1, BatchRunSteps
<1>3. s.next + n - 1 \in JobIds /\ s' = run[n]
  BY DEF AddBatch
<1>4. contested' = contested \cup BatchShared(s')
  BY DEF AddBatch, BatchShared
<1>5. s.next \in Nat /\ MaxJobs \in Nat
  BY StoreFields, BoundsAssumption DEF StoreInv
<1>. HIDE DEF n, run
<1>. DEFINE S == {k \in 0..n : /\ StoreInv(run[k], contested \cup BatchShared(run[k]))
                               /\ run[k].next <= s.next + k}
<1>6. 0 \in S
  <2>1. StoreInv(run[0], contested \cup BatchShared(run[0]))
    <3>. DEFINE c2 == contested \cup BatchShared(run[0])
    <3>1. contested \subseteq c2 /\ StoreInv(run[0], contested)
      BY <1>2
    <3>. HIDE DEF c2
    <3>2. StoreInv(run[0], c2)
      BY <3>1, MoreContested
    <3>. QED BY <3>2 DEF c2
  <2>2. run[0].next <= s.next + 0 /\ 0 \in 0..n
    BY <1>1, <1>2, <1>5
  <2>. QED BY <2>1, <2>2
<1>7. ASSUME NEW k \in 0..n-1, k \in S PROVE k + 1 \in S
  <2>. DEFINE st == run[k]
              new == run[k+1]
              entry == entries[k+1]
  <2>1. StoreInv(st, contested \cup BatchShared(st)) /\ st.next <= s.next + k
    BY <1>7
  <2>2. k + 1 \in 1..n /\ k \in 0..n /\ k + 1 \in 0..n /\ (k + 1) - 1 = k
    BY <1>1
  <2>3. new = AddEntry(st, entry) /\ entry \in [url : Urls, name : Names]
    BY <1>1, <1>2, <2>2
  <2>. HIDE DEF st, new, entry
  <2>4. st.next \in JobIds
    <3>1. st.next \in 1..MaxJobs + 1
      BY <2>1, StoreFields DEF StoreInv
    <3>2. s.next + n - 1 <= MaxJobs
      BY <1>1, <1>3, <1>5 DEF JobIds
    <3>3. k <= n - 1
      BY <1>1
    <3>. QED BY <1>1, <1>5, <2>1, <2>2, <3>1, <3>2, <3>3 DEF JobIds
  <2>5. StoreInv(new, contested \cup BatchShared(new)) /\ new.next \in {st.next, st.next + 1}
    BY <2>1, <2>3, <2>4, AddEntryKeeps
  <2>6. new.next <= s.next + (k + 1)
    BY <2>1, <2>2, <2>4, <2>5, <1>5 DEF JobIds
  <2>. QED BY <2>2, <2>5, <2>6 DEF new
<1>. HIDE DEF S
<1>8. 0..n \subseteq S
  BY <1>1, <1>6, <1>7, Induct
<1>9. n \in S
  BY <1>1, <1>8
<1>10. StoreInv(s', contested')
  BY <1>3, <1>4, <1>9 DEF S
<1>11. BatchShared(s') \subseteq JobIds
  <2>1. Store(s')
    BY <1>10 DEF StoreInv
  <2>. QED BY <2>1, StoreFields DEF BatchShared
<1>. QED BY <1>4, <1>10, <1>11

(***************************************************************************)
(* What the queue does to rows and files.                                  *)
(***************************************************************************)

\* The store with a row in another state and other files on the disk.
SetRow(st, i, state, F, P) ==
    [jobs |-> [st.jobs EXCEPT ![i] = [st.jobs[i] EXCEPT !.state = state]],
     next |-> st.next, files |-> F, parts |-> P]

Moved(st, new, i, state, F, P) ==
    /\ Store(new) /\ new.next = st.next /\ new.files = F /\ new.parts = P
    /\ DOMAIN new.jobs = DOMAIN st.jobs /\ new.jobs[i].state = state
    /\ \A j \in DOMAIN st.jobs : /\ new.jobs[j].path = st.jobs[j].path
                                 /\ j # i => new.jobs[j] = st.jobs[j]

\* A row in another state is the only change to the rows.
LEMMA RowMoved ==
    ASSUME NEW st, Store(st), NEW i \in DOMAIN st.jobs, NEW state \in RowStates,
           NEW F, NEW P, F \subseteq Paths, P \subseteq Paths, NEW new,
           new = SetRow(st, i, state, F, P)
    PROVE  Moved(st, new, i, state, F, P)
<1>. DEFINE row == [st.jobs[i] EXCEPT !.state = state]
            map == [st.jobs EXCEPT ![i] = row]
<1>1. row \in Row /\ row.path = st.jobs[i].path /\ row.state = state
  <2>1. st.jobs[i] \in Row
    BY StoreFields
  <2>. QED BY <2>1 DEF Row
<1>2. new = [jobs |-> map, next |-> st.next, files |-> F, parts |-> P]
  BY DEF SetRow
<1>. HIDE DEF row
<1>3. DOMAIN map = DOMAIN st.jobs /\ map[i] = row
      /\ \A j \in DOMAIN st.jobs : j # i => map[j] = st.jobs[j]
  <2>1. st.jobs \in [DOMAIN st.jobs -> Row]
    BY DEF Store
  <2>. QED BY <2>1
<1>4. map \in [DOMAIN map -> Row]
  BY <1>1, StoreFields
<1>. HIDE DEF map
<1>5. /\ DOMAIN map \subseteq 1..st.next - 1 /\ st.next \in 1..MaxJobs + 1
  BY <1>3, StoreFields
<1>6. Store(new) /\ new.jobs = map /\ new.next = st.next /\ new.files = F /\ new.parts = P
  BY <1>2, <1>4, <1>5, Assembled
<1>. QED BY <1>1, <1>3, <1>6 DEF Moved

\* Rows that move and files at their own paths.
LEMMA MoveKeeps ==
    ASSUME NEW st, NEW c, StoreInv(st, c), NEW i \in DOMAIN st.jobs, NEW new, Store(new),
           new.next = st.next, DOMAIN new.jobs = DOMAIN st.jobs,
           \A j \in DOMAIN st.jobs : new.jobs[j].path = st.jobs[j].path,
           new.files \cup new.parts \subseteq
              (st.files \cup st.parts) \cup {OnDisk(st.jobs[i].path)},
           KeepsParts(new, c)
    PROVE  StoreInv(new, c)
<1>0. Store(st) /\ Room(st)
  BY DEF StoreInv
<1>1. Disjoint(new, c)
  BY DEF StoreInv, Disjoint
<1>2. \A f \in Names : Taken(new, f) \subseteq Taken(st, f)
  BY DEF Taken
<1>3. Room(new)
  BY <1>0, <1>2, RoomStays
<1>. QED BY <1>1, <1>3 DEF StoreInv

\* Claim, finish, stop and clear.
LEMMA QueueKeeps ==
    ASSUME StoreInv(s, contested), QueueMoves
    PROVE  StoreInv(s', contested') /\ contested' = contested
<1>0. Store(s) /\ Disjoint(s, contested) /\ KeepsParts(s, contested) /\ contested' = contested
  BY DEF StoreInv, QueueMoves, history
<1>1. ASSUME NEW i \in JobIds, Claim(i) \/ Finish(i) \/ Stop(i)
      PROVE  StoreInv(s', contested)
  <2>0. i \in DOMAIN s.jobs
    BY <1>1 DEF Claim, Finish, Stop
  <2>. DEFINE d == OnDisk(s.jobs[i].path)
  <2>d. d \in Paths /\ s.files \subseteq Paths /\ s.parts \subseteq Paths
    <3>1. s.jobs[i] \in Row
      BY <1>0, <2>0, StoreFields
    <3>2. s.jobs[i].path \in Paths
      BY <3>1, RowFields
    <3>. QED BY <1>0, <3>2, OnDiskType, StoreFields
  <2>1. CASE Claim(i)
    <3>. DEFINE F == s.files
                P == s.parts \cup {d}
    <3>1. s' = SetRow(s, i, "Active", F, P)
      <4>1. s = [jobs |-> s.jobs, next |-> s.next, files |-> s.files, parts |-> s.parts]
        BY <1>0, StoreFields
      <4>. QED BY <2>1, <4>1 DEF Claim, SetState, SetRow
    <3>2. F \subseteq Paths /\ P \subseteq Paths /\ "Active" \in RowStates
      BY <2>d DEF RowStates
    <3>3. F = s.files /\ P = s.parts \cup {d}
      OBVIOUS
    <3>. HIDE DEF F, P, d
    <3>4. /\ Store(s') /\ s'.next = s.next /\ s'.files = F /\ s'.parts = P
          /\ DOMAIN s'.jobs = DOMAIN s.jobs
          /\ \A j \in DOMAIN s.jobs : /\ s'.jobs[j].path = s.jobs[j].path
                                      /\ j # i => s'.jobs[j] = s.jobs[j]
      <4>1. Moved(s, s', i, "Active", F, P)
        BY <1>0, <2>0, <3>1, <3>2, RowMoved
      <4>. QED BY <4>1 DEF Moved
    <3>5. KeepsParts(s', contested)
      BY <1>0, <3>3, <3>4 DEF KeepsParts, d
    <3>6. s'.files \cup s'.parts \subseteq (s.files \cup s.parts) \cup {OnDisk(s.jobs[i].path)}
      BY <3>3, <3>4 DEF d
    <3>. QED BY <2>0, <3>4, <3>5, <3>6, MoveKeeps
  <2>2. CASE Finish(i)
    <3>. DEFINE F == s.files \cup {d}
                P == s.parts \ {d}
    <3>1. s' = SetRow(s, i, "Completed", F, P)
      <4>1. s = [jobs |-> s.jobs, next |-> s.next, files |-> s.files, parts |-> s.parts]
        BY <1>0, StoreFields
      <4>. QED BY <2>2, <4>1 DEF Finish, SetState, SetRow
    <3>2. F \subseteq Paths /\ P \subseteq Paths /\ "Completed" \in RowStates
      BY <2>d DEF RowStates
    <3>3. F = s.files \cup {d} /\ P = s.parts \ {d}
      OBVIOUS
    <3>. HIDE DEF F, P, d
    <3>4. /\ Store(s') /\ s'.next = s.next /\ s'.files = F /\ s'.parts = P
          /\ DOMAIN s'.jobs = DOMAIN s.jobs /\ s'.jobs[i].state = "Completed"
          /\ \A j \in DOMAIN s.jobs : /\ s'.jobs[j].path = s.jobs[j].path
                                      /\ j # i => s'.jobs[j] = s.jobs[j]
      <4>1. Moved(s, s', i, "Completed", F, P)
        BY <1>0, <2>0, <3>1, <3>2, RowMoved
      <4>. QED BY <4>1 DEF Moved
    <3>5. KeepsParts(s', contested)
      <4>. SUFFICES ASSUME NEW j \in DOMAIN s.jobs, j # i, s.jobs[j].state = "Active",
                           j \notin contested
           PROVE OnDisk(s.jobs[j].path) \in s'.parts
        BY <3>4 DEF KeepsParts
      <4>1. OnDisk(s.jobs[j].path) \in s.parts
        BY <1>0 DEF KeepsParts
      <4>2. OnDisk(s.jobs[j].path) # d
        BY <1>0, <2>0 DEF Disjoint, d
      <4>. QED BY <4>1, <4>2, <3>3, <3>4
    <3>6. s'.files \cup s'.parts \subseteq (s.files \cup s.parts) \cup {OnDisk(s.jobs[i].path)}
      BY <3>3, <3>4 DEF d
    <3>. QED BY <2>0, <3>4, <3>5, <3>6, MoveKeeps
  <2>3. CASE Stop(i)
    <3>. DEFINE F == s.files
                P == s.parts
    <3>1. s' = SetRow(s, i, "Stopped", F, P)
      <4>1. s = [jobs |-> s.jobs, next |-> s.next, files |-> s.files, parts |-> s.parts]
        BY <1>0, StoreFields
      <4>. QED BY <2>3, <4>1 DEF Stop, SetState, SetRow
    <3>2. F \subseteq Paths /\ P \subseteq Paths /\ "Stopped" \in RowStates
      BY <2>d DEF RowStates
    <3>3. F = s.files /\ P = s.parts
      OBVIOUS
    <3>. HIDE DEF F, P, d
    <3>4. /\ Store(s') /\ s'.next = s.next /\ s'.files = F /\ s'.parts = P
          /\ DOMAIN s'.jobs = DOMAIN s.jobs /\ s'.jobs[i].state = "Stopped"
          /\ \A j \in DOMAIN s.jobs : /\ s'.jobs[j].path = s.jobs[j].path
                                      /\ j # i => s'.jobs[j] = s.jobs[j]
      <4>1. Moved(s, s', i, "Stopped", F, P)
        BY <1>0, <2>0, <3>1, <3>2, RowMoved
      <4>. QED BY <4>1 DEF Moved
    <3>5. KeepsParts(s', contested)
      BY <1>0, <3>3, <3>4 DEF KeepsParts
    <3>6. s'.files \cup s'.parts \subseteq (s.files \cup s.parts) \cup {OnDisk(s.jobs[i].path)}
      BY <3>3, <3>4
    <3>. QED BY <2>0, <3>4, <3>5, <3>6, MoveKeeps
  <2>. QED BY <1>1, <2>1, <2>2, <2>3
<1>2. CASE ClearCompleted
  <2>. DEFINE D == DOMAIN s.jobs \ {i \in DOMAIN s.jobs : s.jobs[i].state = "Completed"}
              map == [j \in D |-> s.jobs[j]]
  <2>1. s' = [s EXCEPT !.jobs = map]
    BY <1>2 DEF ClearCompleted
  <2>2. D \subseteq DOMAIN s.jobs
    OBVIOUS
  <2>. HIDE DEF D, map
  <2>3. s' = [jobs |-> map, next |-> s.next, files |-> s.files, parts |-> s.parts]
    <3>1. s = [jobs |-> s.jobs, next |-> s.next, files |-> s.files, parts |-> s.parts]
      BY <1>0, StoreFields
    <3>. QED BY <2>1, <3>1
  <2>4. s' = [jobs |-> [j \in D |-> s.jobs[j]], next |-> s.next, files |-> s.files,
              parts |-> s.parts]
    BY <2>3 DEF map
  <2>5. /\ Store(s') /\ s'.next = s.next /\ s'.files = s.files /\ s'.parts = s.parts
        /\ DOMAIN s'.jobs = D /\ \A j \in D : s'.jobs[j] = s.jobs[j]
    BY <1>0, <2>2, <2>4, Shrunk
  <2>6. Disjoint(s', contested) /\ KeepsParts(s', contested)
    BY <1>0, <2>2, <2>5 DEF Disjoint, KeepsParts
  <2>7. \A f \in Names : Taken(s', f) \subseteq Taken(s, f)
    BY <2>2, <2>5 DEF Taken
  <2>8. Room(s')
    BY <1>0, <2>5, <2>7, RoomStays DEF StoreInv
  <2>. QED BY <1>0, <2>5, <2>6, <2>8 DEF StoreInv
<1>. QED BY <1>0, <1>1, <1>2 DEF QueueMoves

(***************************************************************************)
(* The store over all steps; what the host, the handlers and the user hold.*)
(***************************************************************************)

StoreOK == StoreInv(s, contested) /\ contested \subseteq JobIds

Asks == [type : Types, url : Urls, name : Names]

PipeOK ==
    /\ up \in BOOLEAN /\ window \in BOOLEAN
    /\ ask \in [Askers -> Asks]
    /\ host \in [Requests -> {"idle", "waiting", "done"}]
    /\ told \in [Requests -> Answers \cup {"unreachable", None}]

HandlerOK ==
    /\ h \in [Askers -> Stages \cup {None}]
    /\ found \in [Askers -> BOOLEAN]
    /\ choice \in [Askers -> Details \cup {None}]
    /\ mail \in [Askers -> Decisions \cup {None}]
    /\ \A r \in Askers : h[r] = "enqueuing" => choice[r] \in Details

\* The steps that change rows or files.
LEMMA WhoMovesTheStore ==
    ASSUME [Next]_vars
    PROVE  \/ UNCHANGED <<s, contested>>
           \/ \E r \in Requests : (\E c \in Captures : Captured(r, c)) \/ Adopt(r)
           \/ \E r \in Askers : Enqueue(r)
           \/ \E entries \in Batches : AddBatch(entries)
           \/ QueueMoves
<1>1. CASE UNCHANGED vars
  BY <1>1 DEF vars, history
<1>2. ASSUME NEW r \in Requests, HostStep(r), ~ \E c \in Captures : Captured(r, c)
      PROVE  UNCHANGED <<s, contested>>
  BY <1>2 DEF HostStep, HostRefuses, LaunchApp, HostGivesUp, PipeBusy, history
<1>3. ASSUME NEW r \in Requests, PromptOrEnqueue(r) PROVE UNCHANGED <<s, contested>>
  BY <1>3, Zenon DEF PromptOrEnqueue, history
<1>4. ASSUME NEW r \in Requests, RefuseInvalid(r) \/ RefuseLimited(r) \/ RefuseUntrusted(r)
      PROVE  UNCHANGED <<s, contested>>
  BY <1>4 DEF RefuseInvalid, RefuseLimited, RefuseUntrusted, Refuse, history
<1>5. ASSUME NEW r \in Requests, PromptTimesOut(r) PROVE UNCHANGED <<s, contested>>
  BY <1>5 DEF PromptTimesOut, history
<1>6. ASSUME NEW t \in Tests, TestHandoff(t) PROVE UNCHANGED <<s, contested>>
  BY <1>6, Zenon DEF TestHandoff, history
<1>7. ASSUME NEW r \in Askers, HandlerStep(r), ~ Enqueue(r) PROVE UNCHANGED <<s, contested>>
  BY <1>7, Zenon DEF HandlerStep, ShowWindow, WindowFails, DecisionArrives, Persist, history
<1>8. ASSUME NEW d \in Decisions, UserDecides(d) PROVE UNCHANGED <<s, contested>>
  BY <1>8 DEF UserDecides, history
<1>9. ASSUME DismissWindow PROVE UNCHANGED <<s, contested>>
  BY <1>9 DEF DismissWindow, history
<1>. QED
  BY <1>1, <1>2, <1>3, <1>4, <1>5, <1>6, <1>7, <1>8, <1>9, Zenon DEF Next

\* An adopted file has index 0: it takes no room.
LEMMA CapturedKeepsStore ==
    ASSUME StoreOK, NEW r \in Requests, NEW c \in Captures, Captured(r, c)
    PROVE  StoreOK'
<1>0. StoreInv(s, contested) /\ Store(s) /\ c.name \in Names /\ contested' = contested
  BY CapturesAssumption DEF StoreOK, StoreInv, Captured, history
<1>1. CASE s' = s
  BY <1>0, <1>1 DEF StoreOK
<1>2. CASE s' = [s EXCEPT !.files = @ \cup {OnDisk(Base(c.name))}]
  <2>. DEFINE F == s.files \cup {OnDisk(Base(c.name))}
  <2>1. s' = [jobs |-> s.jobs, next |-> s.next, files |-> F, parts |-> s.parts]
    <3>1. s = [jobs |-> s.jobs, next |-> s.next, files |-> s.files, parts |-> s.parts]
      BY <1>0, StoreFields
    <3>. QED BY <1>2, <3>1
  <2>2. OnDisk(Base(c.name)) \in Paths /\ OnDisk(Base(c.name))[2] = 0
    BY <1>0, BaseType, OnDiskType
  <2>3. F \subseteq Paths
    BY <1>0, <2>2, StoreFields
  <2>4. \A f, k : <<f, k>> \in F => <<f, k>> \in s.files \/ k = 0
    BY <2>2
  <2>. HIDE DEF F
  <2>5. /\ s.next \in 1..MaxJobs + 1 /\ DOMAIN s.jobs \subseteq 1..s.next - 1
        /\ s.parts \subseteq Paths
        /\ s.jobs \in [DOMAIN s.jobs -> Row]
    BY <1>0, StoreFields DEF Store
  <2>6. Store(s') /\ s'.jobs = s.jobs /\ s'.next = s.next /\ s'.files = F /\ s'.parts = s.parts
    BY <2>1, <2>3, <2>5, Assembled
  <2>7. Disjoint(s', contested) /\ KeepsParts(s', contested)
    BY <1>0, <2>6 DEF StoreInv, Disjoint, KeepsParts
  <2>8. \A f \in Names : Taken(s', f) \subseteq Taken(s, f)
    BY <2>4, <2>6 DEF Taken
  <2>9. Room(s')
    BY <1>0, <2>6, <2>8, RoomStays DEF StoreInv
  <2>. QED BY <1>0, <2>6, <2>7, <2>9 DEF StoreOK, StoreInv
<1>. QED BY <1>1, <1>2 DEF Captured

\* An adopted row is contested when another row is at its path.
LEMMA AdoptKeepsStore ==
    ASSUME StoreOK, PipeOK, NEW r \in Requests, Adopt(r)
    PROVE  StoreOK'
<1>1. ask[r].url \in Urls /\ ask[r].name \in Names
  BY DEF PipeOK, Askers, Asks
<1>. DEFINE p == Base(ask[r].name)
            added == PushJob(s, ask[r].url, p, "Completed")
<1>2. CASE UNCHANGED <<s, contested>>
  BY <1>2 DEF StoreOK
<1>3. CASE s.next \in JobIds /\ s' = added /\ contested' = contested \cup SharedByNewest(added)
  <2>. DEFINE c2 == contested \cup SharedByNewest(s')
              url == ask[r].url
  <2>1. StoreInv(s, contested) /\ Store(s) /\ contested \subseteq JobIds
    BY DEF StoreOK, StoreInv
  <2>2. p \in Paths /\ url \in Urls /\ s' = PushJob(s, url, p, "Completed") /\ contested' = c2
    BY <1>1, <1>3, BaseType
  <2>. HIDE DEF p, url
  <2>3. "Completed" \in RowStates /\ "Completed" \in {"Queued", "Completed", "Stopped"}
    BY DEF RowStates
  <2>4. /\ SharedByNewest(s') \subseteq DOMAIN s'.jobs
        /\ \A j \in DOMAIN s.jobs : OnDisk(s.jobs[j].path) = OnDisk(p) =>
              j \in SharedByNewest(s') /\ s.next \in SharedByNewest(s')
    BY <1>3, <2>1, <2>2, <2>3, NewestShares
  <2>5. Store(s')
    BY <1>3, <2>1, <2>2, <2>3, PushedNext
  <2>6. /\ contested \subseteq c2 /\ c2 \subseteq JobIds
        /\ \A j \in DOMAIN s.jobs : OnDisk(s.jobs[j].path) = OnDisk(p) => j \in c2 /\ s.next \in c2
    BY <2>1, <2>4, <2>5, StoreFields
  <2>. HIDE DEF c2
  <2>7. StoreInv(s', c2)
    BY <1>3, <2>1, <2>2, <2>3, <2>6, PushKeeps
  <2>. QED BY <2>2, <2>6, <2>7 DEF StoreOK
<1>. QED BY <1>2, <1>3 DEF Adopt

\* Every step keeps the invariant of the store.
LEMMA StoreStep ==
    ASSUME StoreOK, PipeOK, HandlerOK, [Next]_vars
    PROVE  StoreOK'
<1>1. CASE UNCHANGED <<s, contested>>
  BY <1>1 DEF StoreOK
<1>2. ASSUME NEW r \in Requests, NEW c \in Captures, Captured(r, c) PROVE StoreOK'
  BY <1>2, CapturedKeepsStore
<1>3. ASSUME NEW r \in Requests, Adopt(r) PROVE StoreOK'
  BY <1>3, AdoptKeepsStore
<1>4. ASSUME NEW r \in Askers, Enqueue(r) PROVE StoreOK'
  <2>1. choice[r] \in Details
    BY <1>4 DEF HandlerOK, Enqueue
  <2>2. choice[r].name \in Names /\ ask[r].url \in Urls
    BY <2>1 DEF Details, PipeOK, Asks
  <2>3. PICK outcome : EnqueueInMemory(ask[r].url, choice[r].name, choice[r].policy, outcome)
    BY <1>4 DEF Enqueue
  <2>. QED BY <2>2, <2>3, EnqueueKeeps DEF StoreOK
<1>5. ASSUME NEW entries \in Batches, AddBatch(entries) PROVE StoreOK'
  BY <1>5, BatchKeeps DEF StoreOK
<1>6. CASE QueueMoves
  BY <1>6, QueueKeeps DEF StoreOK
<1>. QED BY <1>1, <1>2, <1>3, <1>4, <1>5, <1>6, WhoMovesTheStore

(***************************************************************************)
(* Who asks what, and what was told.                                       *)
(***************************************************************************)

\* What a host may be told.
LEMMA ToldKeeps ==
    ASSUME PipeOK, NEW r \in Requests, NEW answer \in Answers \cup {"unreachable", None},
           Tell(r, answer)
    PROVE  /\ host' \in [Requests -> {"idle", "waiting", "done"}]
           /\ told' \in [Requests -> Answers \cup {"unreachable", None}]
BY DEF PipeOK, Tell

\* An answer keeps the types of the pipe.
LEMMA AnsweredKeeps ==
    ASSUME PipeOK, NEW r \in Askers, NEW answer \in Answers, Answer(r, answer)
    PROVE  /\ host' \in [Requests -> {"idle", "waiting", "done"}]
           /\ told' \in [Requests -> Answers \cup {"unreachable", None}]
<1>1. CASE r \in Requests /\ host[r] = "waiting"
  <2>1. Tell(r, answer)
    BY <1>1 DEF Answer
  <2>. QED BY <1>1, <2>1, ToldKeeps
<1>2. CASE ~ (r \in Requests /\ host[r] = "waiting")
  <2>1. UNCHANGED <<host, told>>
    BY <1>2 DEF Answer
  <2>. QED BY <2>1 DEF PipeOK
<1>. QED BY <1>1, <1>2

\* Every step keeps the types of the pipe.
LEMMA PipeStep ==
    ASSUME StoreOK, PipeOK, HandlerOK, [Next]_vars
    PROVE  PipeOK'
<1>0. {"queued", "rejected", "dismissed", "duplicate"} \subseteq Answers
  BY DEF Answers
<1>. DEFINE PipeSame == up' = up /\ window' = window /\ ask' = ask
            TalkSame == host' = host /\ told' = told
            TalkOK == /\ host' \in [Requests -> {"idle", "waiting", "done"}]
                      /\ told' \in [Requests -> Answers \cup {"unreachable", None}]
<1>a. ASSUME TalkSame PROVE TalkOK
  BY <1>a DEF PipeOK
<1>b. ASSUME PipeSame, TalkOK PROVE PipeOK'
  BY <1>b DEF PipeOK
<1>1. CASE UNCHANGED vars
  BY <1>1 DEF vars, pipe, PipeOK
<1>2. ASSUME NEW r \in Requests, NEW c \in Captures, Captured(r, c) PROVE PipeOK'
  BY <1>2, CapturesAssumption DEF Captured, PipeOK, Asks, Types, Askers
<1>3. ASSUME NEW r \in Requests, LaunchApp(r) PROVE PipeOK'
  BY <1>3 DEF LaunchApp, PipeOK
<1>4. ASSUME NEW r \in Requests, HostRefuses(r) \/ HostGivesUp(r) \/ PipeBusy(r) PROVE PipeOK'
  <2>1. PICK answer \in Answers \cup {"unreachable", None} : Tell(r, answer)
    BY <1>4, <1>0 DEF HostRefuses, HostGivesUp, PipeBusy
  <2>2. TalkOK
    BY <2>1, ToldKeeps
  <2>. QED BY <1>4, <2>2, <1>b DEF HostRefuses, HostGivesUp, PipeBusy
<1>5. ASSUME NEW r \in Requests, PromptOrEnqueue(r) PROVE PipeOK'
  BY <1>5, <1>a, <1>b, Zenon DEF PromptOrEnqueue, pipe
<1>6. ASSUME NEW r \in Requests, Adopt(r) PROVE PipeOK'
  <2>1. TalkSame \/ \E answer \in Answers : Answer(r, answer)
    BY <1>6, <1>0, Zenon DEF Adopt
  <2>2. TalkOK
    BY <2>1, <1>a, AnsweredKeeps DEF Askers
  <2>. QED BY <1>6, <2>2, <1>b DEF Adopt
<1>7. ASSUME NEW r \in Requests, Refuse(r) PROVE PipeOK'
  <2>1. Answer(r, "rejected") /\ "rejected" \in Answers /\ r \in Askers
    BY <1>7, <1>0 DEF Refuse, Askers
  <2>2. TalkOK
    BY <2>1, AnsweredKeeps
  <2>. QED BY <1>7, <2>2, <1>b DEF Refuse
<1>8. ASSUME NEW r \in Requests, PromptTimesOut(r) PROVE PipeOK'
  BY <1>8, <1>a, <1>b, Zenon DEF PromptTimesOut, pipe
<1>9. ASSUME NEW t \in Tests, TestHandoff(t) PROVE PipeOK'
  BY <1>9, <1>a, <1>b, Zenon DEF TestHandoff, pipe
<1>10. ASSUME NEW r \in Askers, ShowWindow(r) PROVE PipeOK'
  BY <1>10 DEF ShowWindow, pipe, PipeOK
<1>11. ASSUME NEW r \in Askers, WindowFails(r) PROVE PipeOK'
  <2>1. TalkOK
    BY <1>11, <1>0, AnsweredKeeps DEF WindowFails
  <2>. QED BY <1>11, <2>1, <1>b DEF WindowFails
<1>12. ASSUME NEW r \in Askers, DecisionArrives(r) PROVE PipeOK'
  <2>1. TalkSame \/ \E answer \in Answers : Answer(r, answer)
    BY <1>12, <1>0, Zenon DEF DecisionArrives
  <2>2. TalkOK
    BY <2>1, <1>a, AnsweredKeeps
  <2>. QED BY <1>12, <2>2, <1>b DEF DecisionArrives
<1>13. ASSUME NEW r \in Askers, Enqueue(r) PROVE PipeOK'
  <2>0. choice[r].name \in Names /\ ask[r].url \in Urls
    BY <1>13 DEF HandlerOK, Enqueue, Details, PipeOK, Asks
  <2>1. PICK outcome : /\ EnqueueInMemory(ask[r].url, choice[r].name, choice[r].policy, outcome)
                       /\ IF outcome.answer = "queued"
                          THEN Goto(r, "saving") /\ UNCHANGED <<host, told>>
                          ELSE Answer(r, outcome.answer)
    BY <1>13 DEF Enqueue
  <2>2. outcome.answer \in {"rejected", "duplicate", "queued"}
    BY <2>0, <2>1, EnqueueKeeps DEF StoreOK
  <2>3. TalkSame \/ \E answer \in Answers : Answer(r, answer)
    BY <2>1, <2>2, <1>0
  <2>4. TalkOK
    BY <2>3, <1>a, AnsweredKeeps
  <2>. QED BY <1>13, <2>4, <1>b DEF Enqueue
<1>14. ASSUME NEW r \in Askers, Persist(r) PROVE PipeOK'
  <2>1. \E answer \in Answers : Answer(r, answer)
    BY <1>14, <1>0, Zenon DEF Persist
  <2>2. TalkOK
    BY <2>1, AnsweredKeeps
  <2>. QED BY <1>14, <2>2, <1>b DEF Persist
<1>15. ASSUME NEW d \in Decisions, UserDecides(d) PROVE PipeOK'
  BY <1>15 DEF UserDecides, pipe, PipeOK
<1>16. ASSUME NEW entries \in Batches, AddBatch(entries) PROVE PipeOK'
  BY <1>16, <1>a, <1>b, Zenon DEF AddBatch, pipe
<1>17. CASE DismissWindow
  BY <1>17 DEF DismissWindow, pipe, PipeOK
<1>18. CASE QueueMoves
  BY <1>18, <1>a, <1>b, Zenon DEF QueueMoves, pipe
<1>. HIDE DEF PipeSame, TalkSame, TalkOK
<1>. QED
  BY <1>1, <1>2, <1>3, <1>4, <1>5, <1>6, <1>7, <1>8, <1>9, <1>10, <1>11, <1>12, <1>13, <1>14,
     <1>15, <1>16, <1>17, <1>18, Zenon
     DEF Next, HostStep, HandlerStep, RefuseInvalid, RefuseLimited, RefuseUntrusted

(***************************************************************************)
(* The handlers.                                                           *)
(***************************************************************************)

\* Stages of the handlers and what the user decided: no handler enqueues
\* without a choice.
LEMMA GotoKeeps ==
    ASSUME HandlerOK, NEW r \in Askers, NEW pc \in Stages, Goto(r, pc)
    PROVE  /\ h' \in [Askers -> Stages \cup {None}] /\ h'[r] = pc
           /\ \A q \in Askers : q # r => h'[q] = h[q]
BY DEF HandlerOK, Goto

\* An answered handler is done.
LEMMA AnswerGoes ==
    ASSUME NEW r, NEW answer, Answer(r, answer)
    PROVE  Goto(r, "done")
BY DEF Answer

\* The stages, and what None is not.
LEMMA StageNames ==
    /\ {"showing", "waiting", "enqueuing", "saving", "done", "timedOut"} \subseteq Stages
    /\ Requests \subseteq Askers /\ Tests \subseteq Askers
    /\ None \notin Stages /\ None \notin Answers /\ None # "unreachable"
BY NoneAssumption DEF Stages, Waiters, Askers

\* A handler that goes elsewhere than to the enqueue keeps its choice.
LEMMA StageChanged ==
    ASSUME HandlerOK, NEW r \in Askers, NEW pc \in Stages, pc # "enqueuing", Goto(r, pc),
           found' \in [Askers -> BOOLEAN],
           choice' \in [Askers -> Details \cup {None}],
           \A q \in Askers : q # r => choice'[q] = choice[q],
           mail' \in [Askers -> Decisions \cup {None}]
    PROVE  HandlerOK'
BY GotoKeeps DEF HandlerOK

\* A step that leaves the choices alone.
LEMMA ChoiceKept ==
    ASSUME HandlerOK, UNCHANGED choice
    PROVE  /\ choice' \in [Askers -> Details \cup {None}]
           /\ \A q \in Askers : choice'[q] = choice[q]
BY DEF HandlerOK

\* Every step keeps the handlers, their choices and decisions.
LEMMA HandlerKept ==
    ASSUME StoreOK, PipeOK, HandlerOK, [Next]_vars
    PROVE  HandlerOK'
<1>t. /\ found \in [Askers -> BOOLEAN] /\ choice \in [Askers -> Details \cup {None}]
      /\ mail \in [Askers -> Decisions \cup {None}]
  BY DEF HandlerOK
<1>a. ASSUME UNCHANGED <<h, found, choice, mail>> PROVE HandlerOK'
  BY <1>a DEF HandlerOK
<1>b. ASSUME NEW r \in Askers, NEW pc \in Stages, pc # "enqueuing", Goto(r, pc),
             UNCHANGED <<choice, mail>>, found' \in [Askers -> BOOLEAN]
      PROVE  HandlerOK'
  <2>1. mail' \in [Askers -> Decisions \cup {None}]
    BY <1>b, <1>t
  <2>. QED BY <1>b, <2>1, ChoiceKept, StageChanged
<1>c. ASSUME NEW r \in Askers, mail' = [mail EXCEPT ![r] = None]
      PROVE  mail' \in [Askers -> Decisions \cup {None}]
  BY <1>c, <1>t
<1>1. CASE UNCHANGED vars
  BY <1>1, <1>a DEF vars, handler, registry
<1>2. ASSUME NEW r \in Requests, HostStep(r) PROVE HandlerOK'
  <2>1. UNCHANGED <<h, found, choice, mail>>
    BY <1>2 DEF HostStep, Captured, HostRefuses, LaunchApp, HostGivesUp, PipeBusy, handler, registry
  <2>. QED BY <2>1, <1>a
<1>3. ASSUME NEW r \in Askers, EnqueuePrompt(r), UNCHANGED choice, NEW b \in BOOLEAN,
             found' = [found EXCEPT ![r] = b]
      PROVE  HandlerOK'
  <2>1. Goto(r, "showing") /\ UNCHANGED mail /\ "showing" \in Stages /\ "showing" # "enqueuing"
    BY <1>3, StageNames DEF EnqueuePrompt
  <2>2. found' \in [Askers -> BOOLEAN]
    BY <1>3, <1>t
  <2>. QED BY <1>3, <2>1, <2>2, <1>b
<1>4. ASSUME NEW r \in Requests, PromptOrEnqueue(r) PROVE HandlerOK'
  <2>. DEFINE c == ask[r]
              match == DuplicateMatch(s, c.url, Base(c.name))
              b == match.job # 0 /\ c.type # "enqueue_by_user"
              d == [policy |-> "ReturnExisting", name |-> c.name]
  <2>0. b \in BOOLEAN /\ r \in Askers
    BY StageNames
  <2>1. /\ found' = [found EXCEPT ![r] = b]
        /\ \/ EnqueuePrompt(r) /\ UNCHANGED choice
           \/ /\ Goto(r, "enqueuing") /\ choice' = [choice EXCEPT ![r] = d]
              /\ UNCHANGED registry
    BY <1>4, Zenon DEF PromptOrEnqueue
  <2>2. d \in Details
    BY <2>0 DEF Details, Policies, PipeOK, Asks
  <2>. HIDE DEF b, d
  <2>3. CASE EnqueuePrompt(r) /\ UNCHANGED choice
    BY <2>0, <2>1, <2>3, <1>3
  <2>4. CASE /\ Goto(r, "enqueuing") /\ choice' = [choice EXCEPT ![r] = d]
             /\ UNCHANGED registry
    <3>1. /\ h' \in [Askers -> Stages \cup {None}] /\ h'[r] = "enqueuing"
          /\ \A q \in Askers : q # r => h'[q] = h[q]
      BY <2>0, <2>4, GotoKeeps, StageNames
    <3>2. /\ choice' \in [Askers -> Details \cup {None}] /\ choice'[r] = d
          /\ \A q \in Askers : q # r => choice'[q] = choice[q]
      BY <2>0, <2>2, <2>4, <1>t
    <3>3. found' \in [Askers -> BOOLEAN]
      BY <2>0, <2>1, <1>t
    <3>4. mail' \in [Askers -> Decisions \cup {None}]
      BY <2>4, <1>t DEF registry
    <3>. QED BY <3>1, <3>2, <3>3, <3>4, <2>2 DEF HandlerOK
  <2>. QED BY <2>1, <2>3, <2>4
<1>5. ASSUME NEW r \in Requests, Adopt(r) PROVE HandlerOK'
  <2>1. Goto(r, "done") \/ Goto(r, "saving")
    BY <1>5, AnswerGoes, Zenon DEF Adopt
  <2>2. UNCHANGED <<found, choice, mail>>
    BY <1>5 DEF Adopt, registry
  <2>. QED BY <2>1, <2>2, <1>b, <1>t, StageNames
<1>6. ASSUME NEW r \in Requests, Refuse(r) PROVE HandlerOK'
  <2>1. Goto(r, "done") /\ UNCHANGED <<found, choice, mail>>
    BY <1>6, AnswerGoes DEF Refuse, registry
  <2>. QED BY <2>1, <1>b, <1>t, StageNames
<1>7. ASSUME NEW r \in Requests, PromptTimesOut(r) PROVE HandlerOK'
  <2>1. Goto(r, "timedOut") /\ UNCHANGED <<found, choice>> /\ mail' = [mail EXCEPT ![r] = None]
    BY <1>7 DEF PromptTimesOut, GiveUpPrompt
  <2>2. mail' \in [Askers -> Decisions \cup {None}]
    BY <2>1, <1>c, StageNames
  <2>. QED BY <2>1, <2>2, <1>t, ChoiceKept, StageChanged, StageNames
<1>8. ASSUME NEW t \in Tests, TestHandoff(t) PROVE HandlerOK'
  <2>. DEFINE b == DuplicateMatch(s, TestCapture.url, Base(TestCapture.name)).job # 0
  <2>1. b \in BOOLEAN /\ t \in Askers
    BY StageNames
  <2>2. found' = [found EXCEPT ![t] = b] /\ EnqueuePrompt(t) /\ UNCHANGED choice
    BY <1>8 DEF TestHandoff
  <2>. HIDE DEF b
  <2>. QED BY <2>1, <2>2, <1>3
<1>9. ASSUME NEW r \in Askers, ShowWindow(r) PROVE HandlerOK'
  <2>1. Goto(r, "waiting") /\ UNCHANGED <<found, choice, mail>>
    BY <1>9 DEF ShowWindow, registry
  <2>. QED BY <2>1, <1>b, <1>t, StageNames
<1>10. ASSUME NEW r \in Askers, WindowFails(r) PROVE HandlerOK'
  <2>1. Goto(r, "done") /\ UNCHANGED <<found, choice>> /\ mail' = [mail EXCEPT ![r] = None]
    BY <1>10, AnswerGoes DEF WindowFails, GiveUpPrompt
  <2>2. mail' \in [Askers -> Decisions \cup {None}]
    BY <2>1, <1>c
  <2>. QED BY <2>1, <2>2, <1>t, ChoiceKept, StageChanged, StageNames
<1>11. ASSUME NEW r \in Askers, DecisionArrives(r) PROVE HandlerOK'
  <2>0. mail' = [mail EXCEPT ![r] = None] /\ UNCHANGED found
    BY <1>11 DEF DecisionArrives
  <2>1. mail' \in [Askers -> Decisions \cup {None}]
    BY <2>0, <1>c
  <2>2. CASE mail[r].do = "Download"
    <3>. DEFINE d == PromptEnqueueDetails(r, mail[r])
    <3>1. Goto(r, "enqueuing") /\ choice' = [choice EXCEPT ![r] = d]
      BY <1>11, <2>2 DEF DecisionArrives
    <3>2. d \in Details
      <4>1. mail[r] \in Decisions
        BY <1>11, <1>t DEF DecisionArrives
      <4>2. mail[r].action = "Rename" => mail[r].name \in Names
        BY <4>1, <2>2 DEF Decisions, Actions
      <4>3. ask[r].name \in Names
        BY DEF PipeOK, Asks
      <4>. QED BY <4>2, <4>3 DEF PromptEnqueueDetails, Details, Policies
    <3>. HIDE DEF d
    <3>3. /\ h' \in [Askers -> Stages \cup {None}] /\ h'[r] = "enqueuing"
          /\ \A q \in Askers : q # r => h'[q] = h[q]
      BY <3>1, GotoKeeps, StageNames
    <3>4. /\ choice' \in [Askers -> Details \cup {None}] /\ choice'[r] = d
          /\ \A q \in Askers : q # r => choice'[q] = choice[q]
      BY <3>1, <3>2, <1>t
    <3>. QED BY <3>2, <3>3, <3>4, <2>0, <2>1, <1>t DEF HandlerOK
  <2>3. CASE mail[r].do # "Download"
    <3>1. Goto(r, "done") /\ UNCHANGED choice
      BY <1>11, <2>3, AnswerGoes DEF DecisionArrives
    <3>. QED BY <3>1, <2>0, <2>1, <1>t, ChoiceKept, StageChanged, StageNames
  <2>. QED BY <2>2, <2>3
<1>12. ASSUME NEW r \in Askers, Enqueue(r) PROVE HandlerOK'
  <2>1. Goto(r, "done") \/ Goto(r, "saving")
    BY <1>12, AnswerGoes, Zenon DEF Enqueue
  <2>2. UNCHANGED <<found, mail>> /\ choice' = [choice EXCEPT ![r] = None]
    BY <1>12 DEF Enqueue, registry
  <2>3. /\ choice' \in [Askers -> Details \cup {None}]
        /\ \A q \in Askers : q # r => choice'[q] = choice[q]
    BY <2>2, <1>t
  <2>. QED BY <2>1, <2>2, <2>3, <1>t, StageChanged, StageNames
<1>13. ASSUME NEW r \in Askers, Persist(r) PROVE HandlerOK'
  <2>1. Goto(r, "done") /\ UNCHANGED <<found, choice, mail>>
    BY <1>13, AnswerGoes DEF Persist, registry
  <2>. QED BY <2>1, <1>b, <1>t, StageNames
<1>14. ASSUME NEW d \in Decisions, UserDecides(d) PROVE HandlerOK'
  <2>1. UNCHANGED <<h, found, choice>>
    BY <1>14 DEF UserDecides, handler
  <2>2. mail' \in [Askers -> Decisions \cup {None}]
    BY <1>14, <1>t DEF UserDecides
  <2>. QED BY <2>1, <2>2 DEF HandlerOK
<1>15. ASSUME (\E entries \in Batches : AddBatch(entries)) \/ DismissWindow \/ QueueMoves
       PROVE  HandlerOK'
  <2>1. UNCHANGED <<h, found, choice, mail>>
    BY <1>15 DEF AddBatch, DismissWindow, QueueMoves, handler, registry
  <2>. QED BY <2>1, <1>a
<1>. QED
  BY <1>1, <1>2, <1>4, <1>5, <1>6, <1>7, <1>8, <1>9, <1>10, <1>11, <1>12, <1>13, <1>14, <1>15,
     StageNames, Zenon DEF Next, HandlerStep, RefuseInvalid, RefuseLimited, RefuseUntrusted

(***************************************************************************)
(* The registry: a prompt is active or once in the line.                   *)
(***************************************************************************)

Registered ==
    /\ prompts \subseteq Askers /\ active \in prompts \cup {None}
    /\ order \in Seq(prompts)
    /\ prompts = ToSet(order) \cup ({active} \ {None})
    /\ \A i, j \in 1..Len(order) : order[i] = order[j] => i = j
    /\ \A i \in 1..Len(order) : order[i] # active

LineOK == Registered /\ \A r \in prompts : h[r] # None

\* None asks for nothing.
LEMMA NobodyIsNone == None \notin Askers
BY ActorsAssumption DEF Askers

\* The active prompt goes, and the first of the line is active.
LEMMA ResolveKeeps ==
    ASSUME Registered, active # None, Resolve(active)
    PROVE  Registered' /\ prompts' \subseteq prompts /\ active \notin prompts'
<1>1. /\ prompts \subseteq Askers /\ active \in prompts /\ Len(order) \in Nat
      /\ \A i \in 1..Len(order) : order[i] \in prompts /\ order[i] # active
      /\ \A i, j \in 1..Len(order) : order[i] = order[j] => i = j
      /\ \A q : q \in prompts <=> q = active \/ \E i \in 1..Len(order) : order[i] = q
      /\ prompts' = prompts \ {active}
  <2>1. ToSet(order) = {order[i] : i \in 1..Len(order)}
    BY DEF Registered, ToSet
  <2>2. Len(order) \in Nat /\ \A i \in 1..Len(order) : order[i] \in prompts
    BY DEF Registered
  <2>3. \A q : q \in prompts <=> q = active \/ \E i \in 1..Len(order) : order[i] = q
    BY <2>1 DEF Registered
  <2>. QED BY <2>2, <2>3 DEF Registered, Resolve
<1>2. CASE order = <<>>
  <2>1. prompts' = {} /\ active' = None /\ order' = <<>>
    BY <1>1, <1>2 DEF Resolve
  <2>2. Registered'
    BY <2>1 DEF Registered, ToSet
  <2>. QED BY <2>1, <2>2
<1>3. CASE order # <<>>
  <2>0. order \in Seq(prompts)
    BY DEF Registered
  <2>1. active' = order[1] /\ order' = Tail(order) /\ Len(order) >= 1
    BY <1>3, <2>0 DEF Resolve
  <2>2. Len(order') = Len(order) - 1 /\ \A i \in 1..Len(order) - 1 : order'[i] = order[i + 1]
    BY <2>0, <2>1
  <2>3. \A i \in 1..Len(order') : i + 1 \in 1..Len(order) /\ order'[i] = order[i + 1]
    BY <1>1, <2>2
  <2>4. order' \in Seq(prompts')
    <3>1. order' \in Seq(prompts) /\ \A i \in 1..Len(order') : order'[i] \in prompts'
      BY <1>1, <2>0, <2>1, <2>3
    <3>. QED BY <3>1
  <2>5. active' \in prompts' /\ active' # None
    BY <1>1, <2>1, NobodyIsNone
  <2>6. prompts' = ToSet(order') \cup {active'}
    <3>1. ToSet(order') = {order'[i] : i \in 1..Len(order')}
      BY <2>4 DEF ToSet
    <3>2. ASSUME NEW q \in prompts' PROVE q = active' \/ q \in ToSet(order')
      <4>1. PICK i \in 1..Len(order) : order[i] = q
        BY <1>1, <3>2
      <4>2. CASE i = 1
        BY <4>1, <4>2, <2>1
      <4>3. CASE i # 1
        <5>1. i - 1 \in 1..Len(order') /\ order'[i - 1] = q
          BY <1>1, <2>2, <4>1, <4>3
        <5>. QED BY <5>1, <3>1
      <4>. QED BY <4>2, <4>3
    <3>3. ToSet(order') \subseteq prompts'
      BY <3>1, <2>4
    <3>. QED BY <2>5, <3>2, <3>3
  <2>7. \A i, j \in 1..Len(order') : order'[i] = order'[j] => i = j
    BY <1>1, <2>3, SMTT(30)
  <2>8. \A i \in 1..Len(order') : order'[i] # active'
    BY <1>1, <2>1, <2>3
  <2>. QED BY <1>1, <2>4, <2>5, <2>6, <2>7, <2>8 DEF Registered
<1>. QED BY <1>2, <1>3

\* A new prompt is active or the last of the line.
LEMMA PromptKeeps ==
    ASSUME Registered, NEW r \in Askers, r \notin prompts, EnqueuePrompt(r)
    PROVE  Registered' /\ prompts' = prompts \cup {r}
<1>1. prompts' = prompts \cup {r} /\ r # None
  BY NobodyIsNone DEF EnqueuePrompt
<1>2. order \in Seq(prompts')
  BY <1>1 DEF Registered
<1>3. CASE active = None
  <2>1. active' = r /\ order' = order
    BY <1>3 DEF EnqueuePrompt
  <2>2. prompts = ToSet(order)
    BY <1>3 DEF Registered
  <2>3. \A i \in 1..Len(order) : order[i] \in prompts
    BY DEF Registered
  <2>4. \A i \in 1..Len(order') : order'[i] # active'
    BY <2>1, <2>3
  <2>5. prompts' = ToSet(order') \cup ({active'} \ {None})
    BY <1>1, <2>1, <2>2
  <2>. QED BY <1>1, <1>2, <2>1, <2>4, <2>5 DEF Registered
<1>4. CASE active # None
  <2>1. active' = active /\ order' = Append(order, r)
    BY <1>4 DEF EnqueuePrompt
  <2>2. /\ Len(order) \in Nat /\ Len(order') = Len(order) + 1 /\ order' \in Seq(prompts')
        /\ order'[Len(order) + 1] = r /\ \A i \in 1..Len(order) : order'[i] = order[i]
    BY <1>1, <1>2, <2>1
  <2>3. \A i \in 1..Len(order) : order[i] \in prompts /\ order[i] # active /\ order[i] # r
    BY DEF Registered
  <2>4. \A i \in 1..Len(order') : i \in 1..Len(order) \/ i = Len(order) + 1
    BY <2>2
  <2>5. \A i, j \in 1..Len(order') : order'[i] = order'[j] => i = j
    BY <2>2, <2>3, <2>4 DEF Registered
  <2>6. r # active
    BY <1>4 DEF Registered
  <2>7. \A i \in 1..Len(order') : order'[i] # active'
    BY <2>1, <2>2, <2>3, <2>4, <2>6
  <2>8. ToSet(order') = ToSet(order) \cup {r}
    <3>1. ToSet(order') = {order'[i] : i \in 1..Len(order')}
      BY <2>2 DEF ToSet
    <3>2. ToSet(order) = {order[i] : i \in 1..Len(order)}
      BY <1>2 DEF ToSet
    <3>3. 1..Len(order') = 1..Len(order) \cup {Len(order) + 1}
      BY <2>2
    <3>. QED BY <2>2, <3>1, <3>2, <3>3
  <2>9. prompts' = ToSet(order') \cup ({active'} \ {None})
    BY <1>1, <2>1, <2>8 DEF Registered
  <2>10. prompts' \subseteq Askers /\ active' \in prompts' \cup {None}
    BY <1>1, <2>1 DEF Registered
  <2>. QED BY <1>1, <2>2, <2>5, <2>7, <2>9, <2>10 DEF Registered
<1>. QED BY <1>3, <1>4

MailInv == \A r \in Askers : mail[r] # None => h[r] \in Waiters /\ r \notin prompts

\* A handler moves to a stage; it never goes back to no stage.
LEMMA HandlerMoves ==
    ASSUME HandlerOK, [Next]_vars
    PROVE  UNCHANGED h \/ \E r \in Askers, pc \in Stages : Goto(r, pc)
<1>1. CASE UNCHANGED vars
  BY <1>1 DEF vars, handler
<1>2. ASSUME NEW r \in Requests, HostStep(r) PROVE UNCHANGED h
  BY <1>2 DEF HostStep, Captured, HostRefuses, LaunchApp, HostGivesUp, PipeBusy, handler
<1>3. ASSUME NEW r \in Requests,
             PromptOrEnqueue(r) \/ Adopt(r) \/ Refuse(r) \/ PromptTimesOut(r)
      PROVE  \E pc \in Stages : Goto(r, pc)
  <2>1. PromptOrEnqueue(r) => Goto(r, "showing") \/ Goto(r, "enqueuing")
    BY Zenon DEF PromptOrEnqueue, EnqueuePrompt
  <2>2. Adopt(r) => Goto(r, "done") \/ Goto(r, "saving")
    BY AnswerGoes, Zenon DEF Adopt
  <2>3. Refuse(r) => Goto(r, "done")
    BY AnswerGoes DEF Refuse
  <2>4. PromptTimesOut(r) => Goto(r, "timedOut")
    BY DEF PromptTimesOut
  <2>. QED BY <1>3, <2>1, <2>2, <2>3, <2>4, StageNames
<1>4. ASSUME NEW t \in Tests, TestHandoff(t) PROVE Goto(t, "showing")
  BY <1>4 DEF TestHandoff, EnqueuePrompt
<1>5. ASSUME NEW r \in Askers, HandlerStep(r)
      PROVE  \E pc \in Stages : Goto(r, pc)
  <2>1. ShowWindow(r) => Goto(r, "waiting")
    BY DEF ShowWindow
  <2>2. WindowFails(r) \/ Persist(r) => Goto(r, "done")
    BY AnswerGoes, Zenon DEF WindowFails, Persist
  <2>3. DecisionArrives(r) => Goto(r, "enqueuing") \/ Goto(r, "done")
    BY AnswerGoes, Zenon DEF DecisionArrives
  <2>4. Enqueue(r) => Goto(r, "done") \/ Goto(r, "saving")
    BY AnswerGoes, Zenon DEF Enqueue
  <2>. QED BY <1>5, <2>1, <2>2, <2>3, <2>4, StageNames DEF HandlerStep
<1>6. ASSUME \/ \E d \in Decisions : UserDecides(d)
             \/ \E entries \in Batches : AddBatch(entries)
             \/ DismissWindow \/ QueueMoves
      PROVE  UNCHANGED h
  BY <1>6 DEF UserDecides, AddBatch, DismissWindow, QueueMoves, handler
<1>. QED
  BY <1>1, <1>2, <1>3, <1>4, <1>5, <1>6, StageNames, Zenon
     DEF Next, RefuseInvalid, RefuseLimited, RefuseUntrusted

\* A handler that was started stays started.
LEMMA NobodyForgets ==
    ASSUME HandlerOK, [Next]_vars, NEW r \in Askers, h[r] # None
    PROVE  h'[r] # None
<1>1. CASE UNCHANGED h
  BY <1>1
<1>2. ASSUME NEW q \in Askers, NEW pc \in Stages, Goto(q, pc) PROVE h'[r] # None
  BY <1>2, GotoKeeps, StageNames
<1>. QED BY <1>1, <1>2, HandlerMoves

\* What the steps do to the registry and the channels.
LEMMA WhoMovesTheRegistry ==
    ASSUME [Next]_vars
    PROVE  \/ UNCHANGED registry
           \/ \E r \in Askers : h[r] = None /\ EnqueuePrompt(r)
           \/ \E r \in Askers : WindowFails(r) \/ DecisionArrives(r)
           \/ \E r \in Requests : PromptTimesOut(r)
           \/ \E d \in Decisions : UserDecides(d)
<1>1. CASE UNCHANGED vars
  BY <1>1 DEF vars
<1>2. ASSUME NEW r \in Requests, HostStep(r) PROVE UNCHANGED registry
  BY <1>2 DEF HostStep, Captured, HostRefuses, LaunchApp, HostGivesUp, PipeBusy
<1>3. ASSUME NEW r \in Requests, PromptOrEnqueue(r)
      PROVE  UNCHANGED registry \/ (h[r] = None /\ EnqueuePrompt(r))
  BY <1>3, Zenon DEF PromptOrEnqueue, Accepted
<1>4. ASSUME NEW r \in Requests, Adopt(r) \/ Refuse(r) PROVE UNCHANGED registry
  BY <1>4, Zenon DEF Adopt, Refuse
<1>5. ASSUME NEW t \in Tests, TestHandoff(t) PROVE h[t] = None /\ EnqueuePrompt(t)
  BY <1>5 DEF TestHandoff
<1>6. ASSUME NEW r \in Askers, ShowWindow(r) \/ Enqueue(r) \/ Persist(r) PROVE UNCHANGED registry
  BY <1>6, Zenon DEF ShowWindow, Enqueue, Persist
<1>7. ASSUME (\E entries \in Batches : AddBatch(entries)) \/ DismissWindow \/ QueueMoves
      PROVE  UNCHANGED registry
  BY <1>7, Zenon DEF AddBatch, DismissWindow, QueueMoves
<1>. QED
  BY <1>1, <1>2, <1>3, <1>4, <1>5, <1>6, <1>7, StageNames, Zenon
     DEF Next, HandlerStep, RefuseInvalid, RefuseLimited, RefuseUntrusted

\* A prompt that is given up is resolved or stays where it is.
LEMMA GiveUpKeeps ==
    ASSUME Registered, NEW r \in Askers, NEW b, GiveUpPrompt(r, b)
    PROVE  Registered' /\ prompts' \subseteq prompts
<1>1. CASE UNCHANGED <<active, order, prompts>>
  BY <1>1 DEF Registered, ToSet
<1>2. CASE active = r /\ Resolve(r)
  <2>1. active # None /\ Resolve(active)
    BY <1>2, NobodyIsNone
  <2>. QED BY <2>1, ResolveKeeps
<1>. QED BY <1>1, <1>2 DEF GiveUpPrompt

\* Every step keeps the registry in order.
LEMMA LineStep ==
    ASSUME HandlerOK, LineOK, [Next]_vars
    PROVE  LineOK'
<1>0. Registered /\ (\A r \in prompts : h[r] # None) /\ prompts \subseteq Askers
  BY DEF LineOK, Registered
<1>a. ASSUME Registered', prompts' \subseteq prompts PROVE LineOK'
  <2>1. \A r \in prompts' : h'[r] # None
    BY <1>0, <1>a, NobodyForgets
  <2>. QED BY <1>a, <2>1 DEF LineOK
<1>1. CASE UNCHANGED <<active, order, prompts>>
  <2>1. Registered' /\ prompts' \subseteq prompts
    BY <1>0, <1>1 DEF Registered, ToSet
  <2>. QED BY <2>1, <1>a
<1>2. ASSUME NEW r \in Askers, h[r] = None, EnqueuePrompt(r) PROVE LineOK'
  <2>1. r \notin prompts
    BY <1>0, <1>2
  <2>2. Registered' /\ prompts' = prompts \cup {r}
    BY <1>0, <1>2, <2>1, PromptKeeps
  <2>3. h'[r] = "showing"
    BY <1>2, StageNames, GotoKeeps DEF EnqueuePrompt
  <2>4. \A q \in prompts' : h'[q] # None
    BY <1>0, <2>2, <2>3, StageNames, NobodyForgets
  <2>. QED BY <2>2, <2>4 DEF LineOK
<1>3. ASSUME NEW r \in Askers, WindowFails(r) \/ DecisionArrives(r) PROVE LineOK'
  <2>1. UNCHANGED <<active, order, prompts>> \/ GiveUpPrompt(r, r \in Requests)
    BY <1>3 DEF WindowFails, DecisionArrives
  <2>. QED BY <2>1, <1>0, <1>1, <1>a, GiveUpKeeps
<1>4. ASSUME NEW r \in Requests, PromptTimesOut(r) PROVE LineOK'
  <2>1. GiveUpPrompt(r, TRUE) /\ r \in Askers
    BY <1>4, StageNames DEF PromptTimesOut
  <2>. QED BY <2>1, <1>0, <1>a, GiveUpKeeps
<1>5. ASSUME NEW d \in Decisions, UserDecides(d) PROVE LineOK'
  <2>1. active # None /\ Resolve(active)
    BY <1>5 DEF UserDecides
  <2>. QED BY <2>1, <1>0, <1>a, ResolveKeeps
<1>6. UNCHANGED registry => UNCHANGED <<active, order, prompts>>
  BY DEF registry
<1>. QED BY <1>1, <1>2, <1>3, <1>4, <1>5, <1>6, WhoMovesTheRegistry

(***************************************************************************)
(* The channels and the answers.                                           *)
(***************************************************************************)

\* A step of handler r leaves the others' channels alone.
LEMMA MailChanged ==
    ASSUME MailInv, NEW r \in Askers, NEW pc \in Stages, Goto(r, pc), HandlerOK,
           \A q \in Askers : q # r => mail'[q] = mail[q],
           prompts' \subseteq prompts \cup {r}, mail'[r] = None
    PROVE  MailInv'
<1>1. \A q \in Askers : q # r => h'[q] = h[q]
  BY GotoKeeps
<1>. QED BY <1>1 DEF MailInv

\* A decision is only ever in the channel of a handler that listens.
LEMMA MailStep ==
    ASSUME StoreOK, HandlerOK, LineOK, MailInv, [Next]_vars
    PROVE  MailInv'
<1>0. mail \in [Askers -> Decisions \cup {None}] /\ Waiters \subseteq Stages /\ None \notin Waiters
  BY NoneAssumption DEF HandlerOK, Stages
<1>a. ASSUME UNCHANGED <<h, mail, prompts>> PROVE MailInv'
  BY <1>a DEF MailInv
<1>b. ASSUME NEW r \in Askers, NEW pc \in Stages, Goto(r, pc), h[r] \notin Waiters,
             UNCHANGED mail, prompts' \subseteq prompts \cup {r}
      PROVE  MailInv'
  <2>1. mail'[r] = None
    BY <1>b DEF MailInv
  <2>2. \A q \in Askers : q # r => mail'[q] = mail[q]
    BY <1>b
  <2>. QED BY <1>b, <2>1, <2>2, MailChanged
<1>c. ASSUME NEW r \in Askers, NEW pc \in Stages, Goto(r, pc), mail' = [mail EXCEPT ![r] = None],
             prompts' \subseteq prompts
      PROVE  MailInv'
  <2>1. mail'[r] = None /\ \A q \in Askers : q # r => mail'[q] = mail[q]
    BY <1>0, <1>c
  <2>. QED BY <1>c, <2>1, MailChanged
<1>1. CASE UNCHANGED vars
  BY <1>1, <1>a DEF vars, handler, registry
<1>2. ASSUME NEW r \in Requests, HostStep(r) PROVE MailInv'
  <2>1. UNCHANGED <<h, mail, prompts>>
    BY <1>2 DEF HostStep, Captured, HostRefuses, LaunchApp, HostGivesUp, PipeBusy, handler, registry
  <2>. QED BY <2>1, <1>a
<1>3. ASSUME NEW r \in Askers, h[r] = None, EnqueuePrompt(r) PROVE MailInv'
  <2>1. Goto(r, "showing") /\ UNCHANGED mail /\ prompts' \subseteq prompts \cup {r}
    BY <1>3 DEF EnqueuePrompt
  <2>. QED BY <1>0, <1>3, <2>1, <1>b, StageNames
<1>4. ASSUME NEW r \in Requests, PromptOrEnqueue(r) PROVE MailInv'
  <2>1. h[r] = None /\ r \in Askers
    BY <1>4, StageNames, Zenon DEF PromptOrEnqueue, Accepted
  <2>2. EnqueuePrompt(r) \/ (Goto(r, "enqueuing") /\ UNCHANGED registry)
    BY <1>4, Zenon DEF PromptOrEnqueue
  <2>3. CASE Goto(r, "enqueuing") /\ UNCHANGED registry
    <3>1. UNCHANGED mail /\ prompts' \subseteq prompts \cup {r}
      BY <2>3 DEF registry
    <3>. QED BY <1>0, <2>1, <2>3, <3>1, <1>b, StageNames
  <2>. QED BY <2>1, <2>2, <2>3, <1>3
<1>5. ASSUME NEW r \in Requests, Adopt(r) \/ Refuse(r) PROVE MailInv'
  <2>1. h[r] = None /\ r \in Askers /\ UNCHANGED registry
    BY <1>5, StageNames, Zenon DEF Adopt, Refuse, Accepted
  <2>2. Goto(r, "done") \/ Goto(r, "saving")
    BY <1>5, AnswerGoes, Zenon DEF Adopt, Refuse
  <2>3. UNCHANGED mail /\ prompts' \subseteq prompts \cup {r}
    BY <2>1 DEF registry
  <2>. QED BY <1>0, <2>1, <2>2, <2>3, <1>b, StageNames
<1>6. ASSUME NEW r \in Askers, NEW b, GiveUpPrompt(r, b)
      PROVE  mail' = [mail EXCEPT ![r] = None] /\ prompts' \subseteq prompts
  BY <1>6, GiveUpKeeps DEF LineOK, GiveUpPrompt
<1>7. ASSUME NEW r \in Requests, PromptTimesOut(r) PROVE MailInv'
  <2>1. GiveUpPrompt(r, TRUE) /\ r \in Askers /\ Goto(r, "timedOut")
    BY <1>7, StageNames DEF PromptTimesOut
  <2>. QED BY <2>1, <1>6, <1>c, StageNames
<1>8. ASSUME NEW t \in Tests, TestHandoff(t) PROVE MailInv'
  BY <1>8, <1>3, StageNames DEF TestHandoff
<1>9. ASSUME NEW r \in Askers, ShowWindow(r) PROVE MailInv'
  <2>1. Goto(r, "waiting") /\ h[r] = "showing" /\ UNCHANGED <<mail, prompts>>
    BY <1>9 DEF ShowWindow, registry
  <2>2. h'[r] = "waiting" /\ \A q \in Askers : q # r => h'[q] = h[q]
    BY <2>1, GotoKeeps, StageNames
  <2>. QED BY <2>1, <2>2 DEF MailInv, Waiters
<1>10. ASSUME NEW r \in Askers, WindowFails(r) PROVE MailInv'
  <2>1. GiveUpPrompt(r, r \in Requests) /\ Goto(r, "done")
    BY <1>10, AnswerGoes DEF WindowFails
  <2>. QED BY <2>1, <1>6, <1>c, StageNames
<1>11. ASSUME NEW r \in Askers, DecisionArrives(r) PROVE MailInv'
  <2>1. Goto(r, "enqueuing") \/ Goto(r, "done")
    BY <1>11, AnswerGoes, Zenon DEF DecisionArrives
  <2>2. mail' = [mail EXCEPT ![r] = None] /\ prompts' \subseteq prompts
    BY <1>11 DEF DecisionArrives
  <2>. QED BY <2>1, <2>2, <1>c, StageNames
<1>12. ASSUME NEW r \in Askers, Enqueue(r) PROVE MailInv'
  <2>1. Goto(r, "done") \/ Goto(r, "saving")
    BY <1>12, AnswerGoes, Zenon DEF Enqueue
  <2>2. h[r] = "enqueuing" /\ UNCHANGED mail /\ prompts' \subseteq prompts \cup {r}
    BY <1>12 DEF Enqueue, registry
  <2>. QED BY <2>1, <2>2, <1>b, StageNames DEF Waiters
<1>13. ASSUME NEW r \in Askers, Persist(r) PROVE MailInv'
  <2>1. Goto(r, "done") /\ h[r] = "saving" /\ UNCHANGED mail /\ prompts' \subseteq prompts \cup {r}
    BY <1>13, AnswerGoes DEF Persist, registry
  <2>. QED BY <2>1, <1>b, StageNames DEF Waiters
<1>14. ASSUME NEW d \in Decisions, UserDecides(d) PROVE MailInv'
  <2>1. active # None /\ Resolve(active) /\ UNCHANGED h
    BY <1>14 DEF UserDecides, handler
  <2>2. prompts' \subseteq prompts /\ active \notin prompts'
    BY <2>1, ResolveKeeps DEF LineOK
  <2>3. \A q \in Askers : q # active => mail'[q] = mail[q]
    BY <1>14, <1>0 DEF UserDecides
  <2>4. h[active] \in Waiters \/ mail'= mail
    BY <1>14 DEF UserDecides
  <2>. QED BY <2>1, <2>2, <2>3, <2>4 DEF MailInv
<1>15. ASSUME (\E entries \in Batches : AddBatch(entries)) \/ DismissWindow \/ QueueMoves
       PROVE  MailInv'
  <2>1. UNCHANGED <<h, mail, prompts>>
    BY <1>15 DEF AddBatch, DismissWindow, QueueMoves, handler, registry
  <2>. QED BY <2>1, <1>a
<1>. QED
  BY <1>1, <1>2, <1>4, <1>5, <1>7, <1>8, <1>9, <1>10, <1>11, <1>12, <1>13, <1>14, <1>15,
     Zenon DEF Next, HandlerStep, RefuseInvalid, RefuseLimited, RefuseUntrusted

TruthOf(r) ==
    /\ h[r] = "saving" => r \in made
    /\ r \in made => h[r] \in {"saving", "done"}
    /\ r \in Requests =>
          /\ told[r] # None => host[r] = "done"
          /\ told[r] = "queued" => r \in made
          /\ told[r] \in {"dismissed", "duplicate", "rejected"} =>
                h[r] \in {None, "done"} /\ r \notin made \ unsaved

MadeInv == unsaved \subseteq made /\ made \subseteq Askers /\ \A r \in Askers : TruthOf(r)

\* The answer reaches the host that still waits, and no other.
LEMMA AnswerTells ==
    ASSUME PipeOK, HandlerOK, NEW r \in Askers, NEW answer, Answer(r, answer)
    PROVE  /\ h'[r] = "done" /\ \A q \in Askers : q # r => h'[q] = h[q]
           /\ \A q \in Requests : q # r => told'[q] = told[q] /\ host'[q] = host[q]
           /\ r \in Requests =>
                \/ told'[r] = told[r] /\ host'[r] = host[r]
                \/ host[r] = "waiting" /\ told'[r] = answer /\ host'[r] = "done"
<1>1. h'[r] = "done" /\ \A q \in Askers : q # r => h'[q] = h[q]
  BY AnswerGoes, GotoKeeps, StageNames
<1>2. CASE r \in Requests /\ host[r] = "waiting"
  <2>1. Tell(r, answer)
    BY <1>2 DEF Answer
  <2>2. told'[r] = answer /\ host'[r] = "done"
    BY <1>2, <2>1 DEF Tell, PipeOK
  <2>3. \A q \in Requests : q # r => told'[q] = told[q] /\ host'[q] = host[q]
    BY <2>1 DEF Tell, PipeOK
  <2>. QED BY <1>1, <1>2, <2>2, <2>3
<1>3. CASE ~ (r \in Requests /\ host[r] = "waiting")
  <2>1. UNCHANGED <<host, told>>
    BY <1>3 DEF Answer
  <2>. QED BY <1>1, <2>1
<1>. QED BY <1>2, <1>3

\* A step of one handler leaves the truth of the others alone.
LEMMA OneTruth ==
    ASSUME MadeInv, NEW r \in Askers,
           \A q \in Askers : q # r => h'[q] = h[q],
           \A q \in Requests : q # r => told'[q] = told[q] /\ host'[q] = host[q],
           made' \in {made, made \cup {r}}, unsaved' \in {unsaved, unsaved \cup {r}},
           unsaved' \subseteq made', TruthOf(r)'
    PROVE  MadeInv'
<1>1. ASSUME NEW q \in Askers, q # r PROVE TruthOf(q)'
  <2>1. /\ TruthOf(q) /\ h'[q] = h[q]
        /\ (q \in made' <=> q \in made) /\ (q \in unsaved' <=> q \in unsaved)
    BY <1>1 DEF MadeInv
  <2>2. q \in Requests => told'[q] = told[q] /\ host'[q] = host[q]
    BY <1>1
  <2>. QED BY <2>1, <2>2 DEF TruthOf
<1>. QED BY <1>1 DEF MadeInv

\* A step of r's handler that answers nothing and adds no row.
LEMMA QuietTruth ==
    ASSUME MadeInv, HandlerOK, NEW r \in Askers,
           NEW pc \in {"showing", "waiting", "enqueuing", "timedOut"}, Goto(r, pc), UNCHANGED <<host, told, made, unsaved>>,
           \/ h[r] \in {"showing", "waiting"}
           \/ h[r] = None /\ (r \in Requests => told[r] = None)
    PROVE  MadeInv'
<1>1. h'[r] = pc /\ \A q \in Askers : q # r => h'[q] = h[q]
  <2>1. pc \in Stages
    BY StageNames
  <2>. QED BY <2>1, GotoKeeps
<1>2. TruthOf(r) /\ unsaved \subseteq made
  BY DEF MadeInv
<1>3. h[r] \notin {"saving", "done"}
  BY StageNames
<1>4. r \in Requests => told[r] \notin {"queued", "dismissed", "duplicate", "rejected"}
  BY <1>2, <1>3, StageNames, NoneAssumption DEF TruthOf, Answers
<1>5. TruthOf(r)'
  BY <1>1, <1>2, <1>3, <1>4, StageNames DEF TruthOf
<1>. QED BY <1>1, <1>2, <1>5, OneTruth

\* An answer that refuses; no row is added.
LEMMA RefusedTruth ==
    ASSUME MadeInv, PipeOK, HandlerOK, NEW r \in Askers,
           NEW answer \in {"dismissed", "duplicate", "rejected"}, Answer(r, answer),
           UNCHANGED <<made, unsaved>>, h[r] \notin {"saving", "done"}
    PROVE  MadeInv'
<1>1. /\ h'[r] = "done" /\ \A q \in Askers : q # r => h'[q] = h[q]
      /\ \A q \in Requests : q # r => told'[q] = told[q] /\ host'[q] = host[q]
      /\ r \in Requests =>
           \/ told'[r] = told[r] /\ host'[r] = host[r]
           \/ host[r] = "waiting" /\ told'[r] = answer /\ host'[r] = "done"
  BY AnswerTells
<1>2. TruthOf(r) /\ unsaved \subseteq made
  BY DEF MadeInv
<1>3. r \notin made
  BY <1>2 DEF TruthOf
<1>4. TruthOf(r)'
  BY <1>1, <1>2, <1>3 DEF TruthOf
<1>. QED BY <1>1, <1>2, <1>4, OneTruth

\* What the host tells on its own, while no handler has taken the request or
\* without a word on its fate.
LEMMA HostTruth ==
    ASSUME MadeInv, PipeOK, NEW r \in Requests, NEW answer, Tell(r, answer),
           UNCHANGED <<h, made, unsaved>>,
           answer = "unreachable" \/ (answer = "rejected" /\ h[r] = None)
    PROVE  MadeInv'
<1>0. r \in Askers
  BY StageNames
<1>1. /\ told'[r] = answer /\ host'[r] = "done"
      /\ \A q \in Requests : q # r => told'[q] = told[q] /\ host'[q] = host[q]
  BY DEF Tell, PipeOK
<1>2. TruthOf(r) /\ unsaved \subseteq made
  BY <1>0 DEF MadeInv
<1>3. TruthOf(r)'
  BY <1>1, <1>2, StageNames DEF TruthOf
<1>. QED BY <1>0, <1>1, <1>2, <1>3, OneTruth

\* Every step keeps the answers true.
LEMMA MadeStep ==
    ASSUME StoreOK, PipeOK, HandlerOK, MadeInv, [Next]_vars
    PROVE  MadeInv'
<1>0. unsaved \subseteq made /\ \A r \in Askers : TruthOf(r)
  BY DEF MadeInv
<1>a. ASSUME UNCHANGED <<h, host, told, made, unsaved>> PROVE MadeInv'
  BY <1>a DEF MadeInv, TruthOf
<1>b. ASSUME NEW r \in Requests, host[r] = "waiting" PROVE told[r] = None /\ r \in Askers
  BY <1>b, <1>0, StageNames DEF TruthOf
<1>1. CASE UNCHANGED vars
  BY <1>1, <1>a DEF vars, handler, pipe, history
<1>2. ASSUME NEW r \in Requests, NEW c \in Captures, Captured(r, c) PROVE MadeInv'
  <2>1. UNCHANGED <<h, told, made, unsaved>> /\ host[r] = "idle" /\ r \in Askers
    BY <1>2, StageNames DEF Captured, handler, history
  <2>2. host'[r] = "waiting" /\ \A q \in Requests : q # r => host'[q] = host[q]
    BY <1>2 DEF Captured, PipeOK
  <2>3. told[r] = None
    BY <1>0, <2>1 DEF TruthOf
  <2>4. TruthOf(r)'
    BY <1>0, <2>1, <2>2, <2>3, StageNames, NoneAssumption DEF TruthOf, Answers
  <2>. QED BY <1>0, <2>1, <2>2, <2>4, OneTruth
<1>3. ASSUME NEW r \in Requests, HostRefuses(r) \/ HostGivesUp(r) \/ PipeBusy(r) PROVE MadeInv'
  <2>1. UNCHANGED <<h, made, unsaved>>
    BY <1>3 DEF HostRefuses, HostGivesUp, PipeBusy, handler, history
  <2>2. Tell(r, "unreachable") \/ (Tell(r, "rejected") /\ h[r] = None)
    BY <1>3 DEF HostRefuses, HostGivesUp, PipeBusy
  <2>. QED BY <2>1, <2>2, HostTruth
<1>4. ASSUME NEW r \in Requests, LaunchApp(r) PROVE MadeInv'
  BY <1>4, <1>a DEF LaunchApp, handler, history
<1>5. ASSUME NEW r \in Requests, PromptOrEnqueue(r) PROVE MadeInv'
  <2>1. /\ h[r] = None /\ host[r] = "waiting"
        /\ UNCHANGED <<pipe, history>>
        /\ Goto(r, "showing") \/ Goto(r, "enqueuing")
    BY <1>5, Zenon DEF PromptOrEnqueue, Accepted, EnqueuePrompt
  <2>2. UNCHANGED <<host, told, made, unsaved>>
    BY <2>1 DEF pipe, history
  <2>. QED BY <2>1, <2>2, <1>b, QuietTruth
<1>6. ASSUME NEW r \in Requests, Adopt(r) PROVE MadeInv'
  <2>1. h[r] = None /\ host[r] = "waiting" /\ UNCHANGED unsaved
    BY <1>6, Zenon DEF Adopt, Accepted
  <2>2. told[r] = None /\ r \in Askers /\ h[r] \notin {"saving", "done"}
    BY <1>b, <2>1, StageNames
  <2>3. CASE UNCHANGED made /\ (Answer(r, "rejected") \/ Answer(r, "duplicate"))
    BY <2>1, <2>2, <2>3, RefusedTruth
  <2>4. CASE made' = made \cup {r} /\ Goto(r, "saving") /\ UNCHANGED <<host, told>>
    <3>1. h'[r] = "saving" /\ \A q \in Askers : q # r => h'[q] = h[q]
      BY <2>2, <2>4, GotoKeeps, StageNames
    <3>2. TruthOf(r)'
      BY <2>1, <2>2, <2>4, <3>1, StageNames, NoneAssumption DEF TruthOf, Answers
    <3>. QED BY <1>0, <2>1, <2>2, <2>4, <3>1, <3>2, OneTruth
  <2>5. \/ UNCHANGED made /\ (Answer(r, "rejected") \/ Answer(r, "duplicate"))
        \/ made' = made \cup {r} /\ Goto(r, "saving") /\ UNCHANGED <<host, told>>
    BY <1>6, Zenon DEF Adopt
  <2>. QED BY <2>3, <2>4, <2>5
<1>7. ASSUME NEW r \in Requests, Refuse(r) PROVE MadeInv'
  <2>1. h[r] = None /\ Answer(r, "rejected") /\ UNCHANGED <<made, unsaved>> /\ r \in Askers
    BY <1>7, StageNames DEF Refuse, Accepted, history
  <2>. QED BY <2>1, StageNames, RefusedTruth
<1>8. ASSUME NEW r \in Requests, PromptTimesOut(r) PROVE MadeInv'
  <2>1. h[r] = "waiting" /\ Goto(r, "timedOut") /\ UNCHANGED <<host, told, made, unsaved>>
        /\ r \in Askers
    BY <1>8, StageNames DEF PromptTimesOut, pipe, history
  <2>. QED BY <2>1, QuietTruth
<1>9. ASSUME NEW t \in Tests, TestHandoff(t) PROVE MadeInv'
  <2>1. h[t] = None /\ Goto(t, "showing") /\ UNCHANGED <<host, told, made, unsaved>>
        /\ t \in Askers /\ t \notin Requests
    BY <1>9, StageNames, ActorsAssumption DEF TestHandoff, EnqueuePrompt, pipe, history
  <2>. QED BY <2>1, QuietTruth
<1>10. ASSUME NEW r \in Askers, ShowWindow(r) PROVE MadeInv'
  <2>1. h[r] = "showing" /\ Goto(r, "waiting") /\ UNCHANGED <<host, told, made, unsaved>>
    BY <1>10 DEF ShowWindow, pipe, history
  <2>. QED BY <2>1, QuietTruth
<1>11. ASSUME NEW r \in Askers, WindowFails(r) PROVE MadeInv'
  <2>1. h[r] = "showing" /\ Answer(r, "rejected") /\ UNCHANGED <<made, unsaved>>
    BY <1>11 DEF WindowFails, history
  <2>. QED BY <2>1, RefusedTruth
<1>12. ASSUME NEW r \in Askers, DecisionArrives(r) PROVE MadeInv'
  <2>1. h[r] = "waiting" /\ UNCHANGED <<made, unsaved>>
    BY <1>12 DEF DecisionArrives, history
  <2>2. \/ Goto(r, "enqueuing") /\ UNCHANGED <<host, told>>
        \/ Answer(r, "duplicate") \/ Answer(r, "dismissed")
    BY <1>12, Zenon DEF DecisionArrives
  <2>3. CASE Goto(r, "enqueuing") /\ UNCHANGED <<host, told>>
    BY <2>1, <2>3, QuietTruth
  <2>4. CASE Answer(r, "duplicate") \/ Answer(r, "dismissed")
    BY <2>1, <2>4, RefusedTruth
  <2>. QED BY <2>2, <2>3, <2>4
<1>13. ASSUME NEW r \in Askers, Enqueue(r) PROVE MadeInv'
  <2>0. choice[r].name \in Names /\ ask[r].url \in Urls /\ h[r] = "enqueuing"
    BY <1>13 DEF HandlerOK, Enqueue, Details, PipeOK, Asks
  <2>1. PICK outcome : /\ EnqueueInMemory(ask[r].url, choice[r].name, choice[r].policy, outcome)
                       /\ IF outcome.answer = "queued"
                          THEN Goto(r, "saving") /\ UNCHANGED <<host, told>>
                          ELSE Answer(r, outcome.answer)
    BY <1>13 DEF Enqueue
  <2>2. /\ outcome.answer \in {"rejected", "duplicate", "queued"}
        /\ outcome.answer = "queued" <=> s'.next # s.next
    BY <2>0, <2>1, EnqueueKeeps DEF StoreOK
  <2>3. UNCHANGED unsaved /\ made' = IF s'.next # s.next THEN made \cup {r} ELSE made
    BY <1>13 DEF Enqueue
  <2>4. CASE outcome.answer = "queued"
    <3>1. made' = made \cup {r} /\ Goto(r, "saving") /\ UNCHANGED <<host, told>>
      BY <2>1, <2>2, <2>3, <2>4
    <3>2. h'[r] = "saving" /\ \A q \in Askers : q # r => h'[q] = h[q]
      BY <3>1, GotoKeeps, StageNames
    <3>3. r \notin made /\ (r \in Requests => told[r] \notin {"dismissed", "duplicate", "rejected"})
      BY <1>0, <2>0, StageNames DEF TruthOf
    <3>4. TruthOf(r)'
      BY <1>0, <2>3, <3>1, <3>2, <3>3 DEF TruthOf
    <3>. QED BY <1>0, <2>3, <3>1, <3>2, <3>4, OneTruth
  <2>5. CASE outcome.answer # "queued"
    <3>1. UNCHANGED made /\ Answer(r, outcome.answer)
          /\ outcome.answer \in {"dismissed", "duplicate", "rejected"}
      BY <2>1, <2>2, <2>3, <2>5
    <3>. QED BY <2>0, <2>3, <3>1, RefusedTruth
  <2>. QED BY <2>4, <2>5
<1>14. ASSUME NEW r \in Askers, Persist(r) PROVE MadeInv'
  <2>1. h[r] = "saving" /\ UNCHANGED made
    BY <1>14 DEF Persist
  <2>2. PICK answer : /\ Answer(r, answer)
                      /\ \/ answer = "queued" /\ unsaved' = unsaved
                         \/ answer = "rejected" /\ unsaved' = unsaved \cup {r}
    BY <1>14, Zenon DEF Persist
  <2>3. /\ h'[r] = "done" /\ \A q \in Askers : q # r => h'[q] = h[q]
        /\ \A q \in Requests : q # r => told'[q] = told[q] /\ host'[q] = host[q]
        /\ r \in Requests =>
             \/ told'[r] = told[r] /\ host'[r] = host[r]
             \/ host[r] = "waiting" /\ told'[r] = answer /\ host'[r] = "done"
    BY <2>2, AnswerTells
  <2>4. r \in made /\ (r \in Requests => told[r] \notin {"dismissed", "duplicate", "rejected"})
    BY <1>0, <2>1, StageNames DEF TruthOf
  <2>5. TruthOf(r)'
    BY <1>0, <2>1, <2>2, <2>3, <2>4 DEF TruthOf
  <2>6. unsaved' \subseteq made'
    BY <1>0, <2>1, <2>2, <2>4
  <2>. QED BY <2>1, <2>2, <2>3, <2>5, <2>6, OneTruth
<1>15. ASSUME \/ \E d \in Decisions : UserDecides(d)
              \/ \E entries \in Batches : AddBatch(entries)
              \/ DismissWindow \/ QueueMoves
       PROVE  MadeInv'
  <2>1. UNCHANGED <<h, host, told, made, unsaved>>
    BY <1>15 DEF UserDecides, AddBatch, DismissWindow, QueueMoves, handler, pipe, history
  <2>. QED BY <2>1, <1>a
<1>. QED
  BY <1>1, <1>2, <1>3, <1>4, <1>5, <1>6, <1>7, <1>8, <1>9, <1>10, <1>11, <1>12, <1>13, <1>14,
     <1>15, Zenon DEF Next, HostStep, HandlerStep, RefuseInvalid, RefuseLimited, RefuseUntrusted

(***************************************************************************)
(* The invariant and the theorems.                                         *)
(***************************************************************************)

Inv == StoreOK /\ PipeOK /\ HandlerOK /\ LineOK /\ MailInv /\ MadeInv

\* The invariant holds at the start,
LEMMA InitInv == Init => Inv
<1>. SUFFICES ASSUME Init PROVE Inv
  OBVIOUS
<1>1. StoreOK
  <2>1. s = [jobs |-> <<>>, next |-> 1, files |-> {}, parts |-> {}] /\ contested = {}
    BY DEF Init
  <2>2. MaxJobs \in Nat /\ MaxIndex \in Nat
    BY BoundsAssumption
  <2>3. DOMAIN s.jobs = {} /\ s.next = 1 /\ s.files = {} /\ s.parts = {}
    BY <2>1
  <2>4. s.jobs \in [DOMAIN s.jobs -> Row]
    BY <2>1
  <2>5. Store(s)
    BY <2>1, <2>2, <2>3, <2>4 DEF Store
  <2>6. \A f \in Names : Taken(s, f) = {}
    BY <2>3 DEF Taken
  <2>7. Room(s)
    BY <2>3, <2>6, FS_EmptySet DEF Room
  <2>. QED BY <2>1, <2>3, <2>5, <2>7 DEF StoreOK, StoreInv, Disjoint, KeepsParts
<1>2. PipeOK
  BY CapturesAssumption DEF Init, PipeOK, Asks, Types
<1>3. HandlerOK
  BY StageNames DEF Init, HandlerOK
<1>4. LineOK
  BY DEF Init, LineOK, Registered, ToSet
<1>5. MailInv
  BY DEF Init, MailInv
<1>6. MadeInv
  BY StageNames, NoneAssumption DEF Init, MadeInv, TruthOf, Answers
<1>. QED BY <1>1, <1>2, <1>3, <1>4, <1>5, <1>6 DEF Inv

\* every step keeps it,
LEMMA NextInv == Inv /\ [Next]_vars => Inv'
BY StoreStep, PipeStep, HandlerKept, LineStep, MailStep, MadeStep DEF Inv

\* and so it always holds.
LEMMA InvHolds == Spec => []Inv
BY InitInv, NextInv, PTL DEF Spec

\* The hand-off keeps its types, and only what waits in the registry is active
\* or in the line (prompts.rs, ipc/mod.rs, state/enqueue.rs).
THEOREM TypeCorrect == Spec => []TypeOK
<1>1. Inv => TypeOK
  <2>. SUFFICES ASSUME Inv PROVE TypeOK
    OBVIOUS
  <2>1. Store(s) /\ contested \subseteq JobIds
    BY DEF Inv, StoreOK, StoreInv
  <2>2. DOMAIN s.jobs \subseteq 1..s.next - 1 /\ s.next \in 1..MaxJobs + 1
    BY <2>1, StoreFields
  <2>3. \A i \in DOMAIN s.jobs : s.jobs[i] \in
          [url : Urls, path : Paths, state : {"Queued", "Active", "Completed", "Stopped"}]
    BY <2>1, StoreFields DEF Row, RowStates
  <2>4. s.files \cup s.parts \subseteq Paths
    BY <2>1, StoreFields
  <2>5. up \in BOOLEAN /\ window \in BOOLEAN
    BY DEF Inv, PipeOK
  <2>6. ask \in [Askers -> [type : Types, url : Urls, name : Names]]
    BY DEF Inv, PipeOK, Asks, Types
  <2>7. /\ host \in [Requests -> {"idle", "waiting", "done"}]
        /\ told \in [Requests -> Answers \cup {"unreachable", None}]
    BY DEF Inv, PipeOK
  <2>8. /\ h \in [Askers -> Stages \cup {None}]
        /\ found \in [Askers -> BOOLEAN]
        /\ choice \in [Askers -> Details \cup {None}]
        /\ mail \in [Askers -> Decisions \cup {None}]
    BY DEF Inv, HandlerOK
  <2>9. /\ prompts \subseteq Askers /\ active \in prompts \cup {None}
        /\ order \in Seq(prompts)
        /\ prompts = ToSet(order) \cup ({active} \ {None})
    BY DEF Inv, LineOK, Registered
  <2>10. unsaved \subseteq made /\ made \subseteq Askers
    BY DEF Inv, MadeInv
  <2>. QED BY <2>1, <2>2, <2>3, <2>4, <2>5, <2>6, <2>7, <2>8, <2>9, <2>10, Zenon DEF TypeOK
<1>. QED BY <1>1, InvHolds, PTL

\* For any number of requests, names and batches: two rows have one path only
\* in the three ways the code has (allocate_target_paths never picks a path
\* that a row spells the same way, and it never runs out of indices before
\* rows run out).
THEOREM PathsStayDisjoint == Spec => []PathsAreDisjoint
<1>1. Inv => PathsAreDisjoint
  BY DEF Inv, StoreOK, StoreInv, Disjoint, PathsAreDisjoint
<1>. QED BY <1>1, InvHolds, PTL

\* An enqueue that overwrites or replaces never takes the partial file of a
\* running row whose path is its own (prepare_overwrite_target).
THEOREM PartsAreKept == Spec => []RunningKeepsItsPart
<1>1. Inv => RunningKeepsItsPart
  BY DEF Inv, StoreOK, StoreInv, KeepsParts, RunningKeepsItsPart
<1>. QED BY <1>1, InvHolds, PTL

\* The browser is told "queued" only of a request that has a row, and no row
\* comes of a request it was told was dismissed, a duplicate or refused, but
\* for the failed save (run_prompt_download, enqueue_download_with_options).
THEOREM AnswersStayTrue == Spec => []AnswerIsTrue
<1>1. Inv => AnswerIsTrue
  BY StageNames DEF Inv, MadeInv, TruthOf, AnswerIsTrue
<1>. QED BY <1>1, InvHolds, PTL

\* A handler stops listening in three ways.
LEMMA WhoStopsListening ==
    ASSUME HandlerOK, [Next]_vars, NEW r \in Askers, h[r] \in Waiters, h'[r] \notin Waiters
    PROVE  WindowFails(r) \/ DecisionArrives(r) \/ (r \in Requests /\ PromptTimesOut(r))
<1>0. None \notin Waiters /\ "enqueuing" \notin Waiters /\ "saving" \notin Waiters
      /\ "waiting" \in Waiters
  BY NoneAssumption DEF Waiters, Stages
<1>a. ASSUME NEW q \in Askers, NEW pc \in Stages, Goto(q, pc) PROVE q = r /\ pc \notin Waiters
  BY <1>a, GotoKeeps
<1>1. ~ UNCHANGED h
  OBVIOUS
<1>2. ASSUME NEW q \in Requests, PromptOrEnqueue(q) \/ Adopt(q) \/ Refuse(q) PROVE FALSE
  <2>1. h[q] = None
    BY <1>2, Zenon DEF PromptOrEnqueue, Adopt, Refuse, Accepted
  <2>2. Goto(q, "showing") \/ Goto(q, "enqueuing") \/ Goto(q, "done") \/ Goto(q, "saving")
    BY <1>2, AnswerGoes, Zenon DEF PromptOrEnqueue, EnqueuePrompt, Adopt, Refuse
  <2>3. q = r
    BY <2>2, <1>a, StageNames
  <2>. QED BY <2>1, <2>3, <1>0
<1>3. ASSUME NEW t \in Tests, TestHandoff(t) PROVE FALSE
  <2>1. h[t] = None /\ Goto(t, "showing")
    BY <1>3 DEF TestHandoff, EnqueuePrompt
  <2>. QED BY <2>1, <1>0, <1>a, StageNames
<1>4. ASSUME NEW q \in Askers, ShowWindow(q) PROVE FALSE
  BY <1>4, <1>0, <1>a, StageNames DEF ShowWindow
<1>5. ASSUME NEW q \in Askers, Enqueue(q) \/ Persist(q) PROVE FALSE
  <2>1. h[q] \in {"enqueuing", "saving"}
    BY <1>5, Zenon DEF Enqueue, Persist
  <2>2. Goto(q, "done") \/ Goto(q, "saving")
    BY <1>5, AnswerGoes, Zenon DEF Enqueue, Persist
  <2>. QED BY <2>1, <2>2, <1>0, <1>a, StageNames
<1>6. ASSUME NEW q \in Askers, WindowFails(q) \/ DecisionArrives(q) PROVE q = r
  <2>1. Goto(q, "done") \/ Goto(q, "enqueuing")
    BY <1>6, AnswerGoes, Zenon DEF WindowFails, DecisionArrives
  <2>. QED BY <2>1, <1>a, StageNames
<1>7. ASSUME NEW q \in Requests, PromptTimesOut(q) PROVE q = r
  <2>1. Goto(q, "timedOut")
    BY <1>7 DEF PromptTimesOut
  <2>. QED BY <2>1, <1>a, StageNames
<1>8. ASSUME \/ UNCHANGED vars \/ \E q \in Requests : HostStep(q)
             \/ \E d \in Decisions : UserDecides(d)
             \/ \E entries \in Batches : AddBatch(entries)
             \/ DismissWindow \/ QueueMoves
      PROVE  FALSE
  <2>1. UNCHANGED h
    BY <1>8 DEF vars, HostStep, Captured, HostRefuses, LaunchApp, HostGivesUp, PipeBusy,
                UserDecides, AddBatch, DismissWindow, QueueMoves, handler
  <2>. QED BY <2>1, <1>1
<1>. QED
  BY <1>2, <1>3, <1>4, <1>5, <1>6, <1>7, <1>8, Zenon
     DEF Next, HandlerStep, RefuseInvalid, RefuseLimited, RefuseUntrusted

\* A handler that stops listening while its prompt is the active one takes it
\* out of the registry (PromptRegistry::resolve, prompt_decision_or_timeout).
THEOREM PromptsAreResolved == Spec => NoPromptIsAbandoned
<1>. DEFINE Resolved == \A r \in Requests :
              h[r] \in Waiters /\ h'[r] \notin Waiters /\ r \in prompts' => active # r
<1>1. Inv /\ [Next]_vars => Resolved
  <2>. SUFFICES ASSUME Inv, [Next]_vars, NEW r \in Requests, h[r] \in Waiters, h'[r] \notin Waiters,
                       r \in prompts', active = r
       PROVE  FALSE
    OBVIOUS
  <2>0. r \in Askers /\ HandlerOK /\ Registered /\ r # None
    BY StageNames, NobodyIsNone DEF Inv, LineOK
  <2>1. GiveUpPrompt(r, TRUE) => FALSE
    <3>. SUFFICES ASSUME GiveUpPrompt(r, TRUE) PROVE FALSE
      OBVIOUS
    <3>1. active # None /\ Resolve(active)
      BY <2>0 DEF GiveUpPrompt
    <3>. QED BY <3>1, <2>0, ResolveKeeps
  <2>2. WindowFails(r) => GiveUpPrompt(r, TRUE)
    BY DEF WindowFails, GiveUpPrompt
  <2>3. PromptTimesOut(r) => GiveUpPrompt(r, TRUE)
    BY DEF PromptTimesOut
  <2>4. ASSUME DecisionArrives(r) PROVE FALSE
    <3>1. mail[r] # None /\ prompts' = prompts
      BY <2>4 DEF DecisionArrives
    <3>. QED BY <3>1, <2>0 DEF Inv, MailInv
  <2>. QED BY <2>0, <2>1, <2>2, <2>3, <2>4, WhoStopsListening
<1>2. Spec => [][Resolved]_vars
  <2>1. Inv /\ [Next]_vars => [Resolved]_vars
    BY <1>1
  <2>. HIDE DEF Resolved
  <2>. QED BY <2>1, InvHolds, PTL DEF Spec
<1>. QED BY <1>2 DEF NoPromptIsAbandoned
=============================================================================
