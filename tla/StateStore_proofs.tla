-------------------------- MODULE StateStore_proofs --------------------------
(***************************************************************************)
(* For any number of calls, versions, crashes, I/O errors and snapshots:   *)
(* while no file is damaged, saving is atomic, and what was reported as    *)
(* saved is what a start loads unless an older version was saved later.    *)
(* One damaged file never loses the history and costs one save at most.    *)
(*                                                                         *)
(* The argument is one inductive invariant: the mutex holds, the first     *)
(* readable file in the order of the load is known at each stage of a      *)
(* save, and only the rename of the temporary file changes what it holds.  *)
(* On it rest two more, about the copies that are left (Survival) and      *)
(* about how new they are (Freshness).                                     *)
(***************************************************************************)
EXTENDS StateStore, FiniteSetTheorems, WellFoundedInduction, TLAPS

DiskTypes ==
  /\ app \in {"down", "starting", "running"}
  /\ state \in Files /\ tmp \in Files /\ bak \in Files /\ lastGood \in Files
  /\ pc \in [Calls -> Stages]
  /\ ver \in [Calls -> Versions]
  /\ clock \in Versions
  /\ damage \in Nat
  /\ acked \subseteq Versions
  /\ stale \in BOOLEAN

Exclusive ==
  /\ \A c, d \in Calls : pc[c] \in InMutex /\ pc[d] \in InMutex => c = d
  /\ app = "down" => \A c \in Calls : pc[c] = "idle"
  /\ app = "starting" => \A c, d \in Calls : pc[c] # "idle" /\ pc[d] # "idle" => c = d

\* What the files hold at each stage, also when one was damaged before.
Staged ==
  \A c \in Calls :
    /\ pc[c] \in {"clear", "backup", "publish"} => tmp = ver[c]
    /\ pc[c] = "backup" => state # Absent /\ bak = Absent
    /\ pc[c] = "publish" => state = Absent
    /\ pc[c] \in Committed => state = ver[c]

Intact == state # Torn /\ bak # Torn

DiskInv == DiskTypes /\ Exclusive /\ Staged /\ (damage = 0 => Intact)

\* What the provers need to know of the sets of names.
USE DEF Files, Contents, Versions, Readable, Stages, Uncommitted, Committed, InMutex

LEMMA LoadType == OnDisk \in Versions
<1>1. RecoveryCandidate \in Versions
  BY StoreAssumption DEF RecoveryCandidate
<1>. QED  BY <1>1 DEF OnDisk

LEMMA DiskInvInit == Init => DiskInv
<1>. SUFFICES ASSUME Init
              PROVE  DiskInv
  OBVIOUS
<1>1. 0 \in Versions
  BY StoreAssumption
<1>2. DiskTypes
  BY <1>1 DEF Init, DiskTypes
<1>3. Exclusive
  BY DEF Init, Exclusive
<1>4. Staged /\ Intact
  BY StoreAssumption DEF Init, Staged, Intact
<1>. QED  BY <1>2, <1>3, <1>4 DEF DiskInv

LEMMA DiskTypesStep ==
  ASSUME DiskTypes, [Next]_vars
  PROVE  DiskTypes'
<1>. USE StoreAssumption DEF DiskTypes, Goes, files, bounds
<1>1. ASSUME NEW c \in Calls, Start(c)
      PROVE  DiskTypes'
  BY <1>1, LoadType DEF Start, Fault
<1>2. ASSUME NEW c \in Calls, Capture(c)
      PROVE  DiskTypes'
  BY <1>2 DEF Capture
<1>3. ASSUME NEW c \in Calls, Acquire(c) \/ WriteTemp(c) \/ ClearBackup(c) \/ BackUp(c)
      PROVE  DiskTypes'
  BY <1>3 DEF Acquire, WriteTemp, ClearBackup, BackUp
<1>4. ASSUME NEW c \in Calls, Publish(c) \/ OpenLastGood(c) \/ CopyLastGood(c)
      PROVE  DiskTypes'
  BY <1>4 DEF Publish, OpenLastGood, CopyLastGood
<1>5. ASSUME NEW c \in Calls, OpenSnapshot(c) \/ CopySnapshot(c) \/ Prune(c)
      PROVE  DiskTypes'
  BY <1>5 DEF OpenSnapshot, CopySnapshot, Prune, Return
<1>6. ASSUME NEW c \in Calls, Error(c)
      PROVE  DiskTypes'
  BY <1>6 DEF Error, Fault
<1>7. CASE Crash
  BY <1>7 DEF Crash
<1>8. CASE Damage
  BY <1>8 DEF Damage
<1>9. CASE UNCHANGED vars
  BY <1>9 DEF vars
<1>. QED
  BY <1>1, <1>2, <1>3, <1>4, <1>5, <1>6, <1>7, <1>8, <1>9 DEF Next

\* The call that holds the mutex goes to another stage, or leaves.
LEMMA HolderMoves ==
  ASSUME DiskTypes, Exclusive, app' = app,
         NEW c \in Calls, pc[c] \in InMutex,
         NEW s, pc' = [pc EXCEPT ![c] = s]
  PROVE  Exclusive'
<1>1. pc[c] # "idle"
  OBVIOUS
<1>2. app # "down"
  BY <1>1 DEF Exclusive
<1>3. \A d \in Calls : d # c => pc'[d] = pc[d]
  BY DEF DiskTypes
<1>4. \A d \in Calls : pc'[d] \in InMutex => pc[d] \in InMutex
  BY <1>3
<1>5. \A d \in Calls : pc'[d] # "idle" => pc[d] # "idle"
  BY <1>1, <1>3
<1>. QED
  BY <1>2, <1>4, <1>5 DEF Exclusive

LEMMA ExclusiveStep ==
  ASSUME DiskTypes, Exclusive, [Next]_vars
  PROVE  Exclusive'
<1>. USE DEF Goes, files, bounds
<1>1. ASSUME NEW c \in Calls, Start(c)
      PROVE  Exclusive'
  BY <1>1 DEF Start, DiskTypes, Exclusive
<1>2. ASSUME NEW c \in Calls, Capture(c)
      PROVE  Exclusive'
  BY <1>2 DEF Capture, DiskTypes, Exclusive
<1>3. ASSUME NEW c \in Calls, Acquire(c)
      PROVE  Exclusive'
  BY <1>3 DEF Acquire, DiskTypes, Exclusive
<1>4. ASSUME NEW c \in Calls, WriteTemp(c) \/ ClearBackup(c) \/ BackUp(c) \/ Publish(c)
      PROVE  Exclusive'
  <2>1. pc[c] \in InMutex
    BY <1>4 DEF WriteTemp, ClearBackup, BackUp, Publish
  <2>2. app' = app /\ \E s : pc' = [pc EXCEPT ![c] = s]
    BY <1>4 DEF WriteTemp, ClearBackup, BackUp, Publish
  <2>. QED  BY <2>1, <2>2, HolderMoves
<1>5. ASSUME NEW c \in Calls,
             OpenLastGood(c) \/ CopyLastGood(c) \/ OpenSnapshot(c) \/ CopySnapshot(c)
      PROVE  Exclusive'
  <2>1. pc[c] \in InMutex
    BY <1>5 DEF OpenLastGood, CopyLastGood, OpenSnapshot, CopySnapshot
  <2>2. app' = app /\ \E s : pc' = [pc EXCEPT ![c] = s]
    BY <1>5 DEF OpenLastGood, CopyLastGood, OpenSnapshot, CopySnapshot
  <2>. QED  BY <2>1, <2>2, HolderMoves
<1>6. ASSUME NEW c \in Calls, Prune(c)
      PROVE  Exclusive'
  BY <1>6 DEF Prune, Return, DiskTypes, Exclusive
<1>7. ASSUME NEW c \in Calls, Error(c)
      PROVE  Exclusive'
  BY <1>7 DEF Error, DiskTypes, Exclusive
<1>8. CASE Crash
  BY <1>8 DEF Crash, DiskTypes, Exclusive
<1>9. CASE Damage \/ UNCHANGED vars
  BY <1>9 DEF Damage, vars, Exclusive
<1>. QED
  BY <1>1, <1>2, <1>3, <1>4, <1>5, <1>6, <1>7, <1>8, <1>9 DEF Next

LEMMA DamageStays ==
  ASSUME DiskTypes, [Next]_vars
  PROVE  damage' = 0 => damage = 0
<1>1. CASE Damage
  BY <1>1 DEF Damage, DiskTypes
<1>2. ASSUME NEW c \in Calls,
             \/ Acquire(c) \/ WriteTemp(c) \/ ClearBackup(c) \/ BackUp(c) \/ Publish(c)
             \/ OpenLastGood(c) \/ CopyLastGood(c) \/ OpenSnapshot(c) \/ CopySnapshot(c)
      PROVE  damage' = damage
  BY <1>2 DEF Acquire, WriteTemp, ClearBackup, BackUp, Publish, OpenLastGood, CopyLastGood,
              OpenSnapshot, CopySnapshot, Goes, bounds
<1>3. ASSUME NEW c \in Calls, Start(c) \/ Capture(c) \/ Prune(c) \/ Error(c)
      PROVE  damage' = damage
  BY <1>3 DEF Start, Capture, Prune, Return, Error, bounds
<1>4. CASE Crash \/ UNCHANGED vars
  BY <1>4 DEF Crash, vars, bounds
<1>. QED
  BY <1>1, <1>2, <1>3, <1>4 DEF Next

LEMMA StagedStep ==
  ASSUME DiskTypes, Exclusive, Staged, [Next]_vars
  PROVE  Staged'
<1>. USE StoreAssumption DEF DiskTypes, Exclusive, Staged, Goes, files, bounds
<1>1. ASSUME NEW c \in Calls, Start(c)
      PROVE  Staged'
  BY <1>1 DEF Start
<1>2. ASSUME NEW c \in Calls, Capture(c)
      PROVE  Staged'
  BY <1>2 DEF Capture
<1>3. ASSUME NEW c \in Calls, Acquire(c)
      PROVE  Staged'
  BY <1>3 DEF Acquire
<1>4. ASSUME NEW c \in Calls, WriteTemp(c)
      PROVE  Staged'
  BY <1>4 DEF WriteTemp
<1>5. ASSUME NEW c \in Calls, ClearBackup(c)
      PROVE  Staged'
  BY <1>5 DEF ClearBackup
<1>6. ASSUME NEW c \in Calls, BackUp(c)
      PROVE  Staged'
  BY <1>6 DEF BackUp
<1>7. ASSUME NEW c \in Calls, Publish(c)
      PROVE  Staged'
  BY <1>7 DEF Publish
<1>8. ASSUME NEW c \in Calls, OpenLastGood(c) \/ CopyLastGood(c)
      PROVE  Staged'
  BY <1>8 DEF OpenLastGood, CopyLastGood
<1>9. ASSUME NEW c \in Calls, OpenSnapshot(c) \/ CopySnapshot(c)
      PROVE  Staged'
  BY <1>9 DEF OpenSnapshot, CopySnapshot
<1>10. ASSUME NEW c \in Calls, Prune(c)
       PROVE  Staged'
  BY <1>10 DEF Prune, Return
<1>11. ASSUME NEW c \in Calls, Error(c)
       PROVE  Staged'
  BY <1>11 DEF Error
<1>12. CASE Crash
  BY <1>12 DEF Crash
<1>13. CASE Damage
  BY <1>13 DEF Damage
<1>14. CASE UNCHANGED vars
  BY <1>14 DEF vars
<1>. QED
  BY <1>1, <1>2, <1>3, <1>4, <1>5, <1>6, <1>7, <1>8, <1>9, <1>10, <1>11, <1>12, <1>13, <1>14 DEF Next

\* Only damage makes the file or its backup unreadable.
LEMMA IntactStep ==
  ASSUME DiskTypes, Staged, Intact, [Next]_vars, ~Damage
  PROVE  Intact'
<1>. USE StoreAssumption DEF DiskTypes, Staged, Intact, Goes, files, bounds
<1>1. ASSUME NEW c \in Calls, Start(c)
      PROVE  Intact'
  BY <1>1 DEF Start
<1>2. ASSUME NEW c \in Calls, Capture(c) \/ Acquire(c) \/ WriteTemp(c) \/ ClearBackup(c)
      PROVE  Intact'
  BY <1>2 DEF Capture, Acquire, WriteTemp, ClearBackup
<1>3. ASSUME NEW c \in Calls, BackUp(c) \/ Publish(c)
      PROVE  Intact'
  BY <1>3 DEF BackUp, Publish
<1>4. ASSUME NEW c \in Calls, \/ OpenLastGood(c) \/ CopyLastGood(c) \/ OpenSnapshot(c)
                             \/ CopySnapshot(c) \/ Prune(c)
      PROVE  Intact'
  BY <1>4 DEF OpenLastGood, CopyLastGood, OpenSnapshot, CopySnapshot, Prune, Return
<1>5. ASSUME NEW c \in Calls, Error(c)
      PROVE  Intact'
  BY <1>5 DEF Error
<1>6. CASE Crash \/ UNCHANGED vars
  BY <1>6 DEF Crash, vars
<1>. QED
  BY <1>1, <1>2, <1>3, <1>4, <1>5, <1>6 DEF Next

LEMMA DamageCounts ==
  ASSUME DiskTypes, Damage
  PROVE  damage' = damage + 1 /\ damage' # 0
BY DEF Damage, DiskTypes

LEMMA DiskInvStep ==
  ASSUME DiskInv, [Next]_vars
  PROVE  DiskInv'
BY DiskTypesStep, ExclusiveStep, DamageStays, StagedStep, IntactStep, DamageCounts DEF DiskInv

LEMMA DiskInvCorrect == Spec => []DiskInv
<1>. QED  BY DiskInvInit, DiskInvStep, PTL DEF Spec
-----------------------------------------------------------------------------
(***************************************************************************)
(* Atomicity.                                                              *)
(***************************************************************************)
\* A step that keeps what a start would load and the stage of every call.
LEMMA Stutter ==
  ASSUME OnDisk' = OnDisk, \A c \in Calls : Phase(c)' = Phase(c), UNCHANGED <<ver, acked>>
  PROVE  UNCHANGED Atomic!vars
BY DEF Atomic!vars

\* What a start loads is a function of the files.
LEMMA SameFiles ==
  ASSUME UNCHANGED <<state, bak, lastGood, snaps>>
  PROVE  OnDisk' = OnDisk
<1>1. NewestSnapshot' = NewestSnapshot
  BY DEF NewestSnapshot
<1>2. RecoveryCandidate' = RecoveryCandidate
  BY <1>1 DEF RecoveryCandidate
<1>. QED  BY <1>2 DEF OnDisk

\* A readable backup comes before the other copies.
LEMMA BackupIsLoaded ==
  /\ bak \in Versions => RecoveryCandidate = bak
  /\ bak' \in Versions => RecoveryCandidate' = bak'
BY DEF RecoveryCandidate

\* Only the rename of the temporary file changes what a start loads.
LEMMA LoadStays ==
  ASSUME DiskTypes, Staged, Intact, [Next]_vars, ~Damage, ~\E c \in Calls : Publish(c)
  PROVE  OnDisk' = OnDisk
<1>. USE StoreAssumption
<1>1. ASSUME NEW c \in Calls, Start(c)
      PROVE  OnDisk' = OnDisk
  BY <1>1, SameFiles DEF Start, Intact
<1>2. ASSUME NEW c \in Calls, Capture(c) \/ Acquire(c) \/ WriteTemp(c)
      PROVE  OnDisk' = OnDisk
  BY <1>2, SameFiles DEF Capture, files, Acquire, WriteTemp
<1>3. ASSUME NEW c \in Calls, ClearBackup(c)
      PROVE  OnDisk' = OnDisk
  <2>1. CASE state = Absent
    BY <1>3, <2>1, SameFiles DEF ClearBackup
  <2>2. CASE state # Absent
    <3>1. state \in Versions /\ state' = state
      BY <1>3, <2>2 DEF ClearBackup, Staged, Intact, DiskTypes
    <3>. QED  BY <3>1 DEF OnDisk
  <2>. QED  BY <2>1, <2>2
<1>4. ASSUME NEW c \in Calls, BackUp(c)
      PROVE  OnDisk' = OnDisk
  <2>1. state \in Versions /\ state' = Absent /\ bak' = state
    BY <1>4 DEF BackUp, Goes, Staged, Intact, DiskTypes
  <2>2. OnDisk = state /\ OnDisk' = RecoveryCandidate'
    BY <2>1 DEF OnDisk
  <2>. QED  BY <2>1, <2>2, BackupIsLoaded
<1>5. ASSUME NEW c \in Calls, \/ OpenLastGood(c) \/ CopyLastGood(c) \/ OpenSnapshot(c)
                             \/ CopySnapshot(c) \/ Prune(c)
      PROVE  OnDisk' = OnDisk
  <2>1. pc[c] \in Committed /\ state' = state
    BY <1>5 DEF OpenLastGood, CopyLastGood, OpenSnapshot, CopySnapshot, Goes, Prune, Return
  <2>2. state \in Versions
    BY <2>1 DEF Staged, Intact, DiskTypes
  <2>. QED  BY <2>1, <2>2 DEF OnDisk
<1>6. ASSUME NEW c \in Calls, Error(c)
      PROVE  OnDisk' = OnDisk
  <2>1. CASE UNCHANGED <<state, bak>>
    BY <1>6, <2>1, SameFiles DEF Error
  <2>2. CASE state = Absent /\ bak # Absent /\ state' = bak
    <3>1. bak \in Versions
      BY <2>2 DEF Staged, Intact, DiskTypes
    <3>. QED  BY <2>2, <3>1, BackupIsLoaded DEF OnDisk
  <2>. QED  BY <1>6, <2>1, <2>2 DEF Error
<1>7. CASE Crash \/ UNCHANGED vars
  BY <1>7, SameFiles DEF Crash, vars, files
<1>. QED
  BY <1>1, <1>2, <1>3, <1>4, <1>5, <1>6, <1>7 DEF Next

\* A file operation before or after the rename changes nothing that shows.
LEMMA QuietOperation ==
  ASSUME DiskTypes, NEW c \in Calls, NEW from, NEW to, Goes(c, from, to), OnDisk' = OnDisk,
         \/ from \in Uncommitted /\ to \in Uncommitted
         \/ from \in Committed /\ to \in Committed
  PROVE  UNCHANGED Atomic!vars
<1>1. \A d \in Calls : Phase(d)' = Phase(d)
  BY DEF Phase, Goes, DiskTypes
<1>. QED  BY <1>1, Stutter DEF Goes

LEMMA AtomicStep ==
  ASSUME DiskTypes, Exclusive, Staged, Intact, [Next]_vars, damage' = 0
  PROVE  [Atomic!Next]_(Atomic!vars)
<1>. USE StoreAssumption
<1>1. CASE \E c \in Calls : Publish(c)
  <2>1. PICK c \in Calls : Publish(c)
    BY <1>1
  <2>2. OnDisk' = ver[c]
    BY <2>1 DEF Publish, Goes, OnDisk, Staged, Intact, DiskTypes
  <2>3. Phase(c) = "called"
    BY <2>1 DEF Publish, Goes, Phase
  <2>4. \A d \in Calls : Phase(d)' = IF d = c THEN "committed" ELSE Phase(d)
    BY <2>1 DEF Publish, Goes, Phase, DiskTypes
  <2>5. Atomic!Commit(c)
    BY <2>1, <2>2, <2>3, <2>4 DEF Publish, Goes, Atomic!Commit
  <2>. QED  BY <2>5 DEF Atomic!Next
<1>2. CASE ~\E c \in Calls : Publish(c)
  <2>. OnDisk' = OnDisk
    BY <1>2, LoadStays, DamageCounts
  <2>1. ASSUME NEW c \in Calls, Start(c)
        PROVE  [Atomic!Next]_(Atomic!vars)
    <3>1. UNCHANGED acked
      BY <2>1 DEF Start
    <3>2. CASE UNCHANGED <<pc, ver>>
      BY <3>1, <3>2, Stutter DEF Phase
    <3>3. CASE pc' = [pc EXCEPT ![c] = "waiting"] /\ ver' = [ver EXCEPT ![c] = OnDisk]
      <4>1. Phase(c) = "idle"
        BY <2>1 DEF Start, Exclusive, Phase
      <4>2. \A d \in Calls : Phase(d)' = IF d = c THEN "called" ELSE Phase(d)
        BY <3>3 DEF Phase, DiskTypes
      <4>3. Atomic!Call(c, OnDisk)
        BY <3>1, <3>3, <4>1, <4>2 DEF Atomic!Call
      <4>. QED  BY <4>3, LoadType DEF Atomic!Next
    <3>. QED  BY <2>1, <3>2, <3>3 DEF Start
  <2>2. ASSUME NEW c \in Calls, Capture(c)
        PROVE  [Atomic!Next]_(Atomic!vars)
    <3>1. Phase(c) = "idle"
      BY <2>2 DEF Capture, Phase
    <3>2. \A d \in Calls : Phase(d)' = IF d = c THEN "called" ELSE Phase(d)
      BY <2>2 DEF Capture, Phase, DiskTypes
    <3>3. Atomic!Call(c, clock + 1)
      BY <2>2, <3>1, <3>2 DEF Capture, Atomic!Call
    <3>4. clock + 1 \in Versions
      BY <2>2 DEF Capture, DiskTypes
    <3>. QED  BY <3>3, <3>4 DEF Atomic!Next
  <2>3. ASSUME NEW c \in Calls, Acquire(c) \/ WriteTemp(c) \/ ClearBackup(c) \/ BackUp(c)
        PROVE  UNCHANGED Atomic!vars
    BY <2>3, QuietOperation DEF Acquire, WriteTemp, ClearBackup, BackUp
  <2>4. ASSUME NEW c \in Calls,
               OpenLastGood(c) \/ CopyLastGood(c) \/ OpenSnapshot(c) \/ CopySnapshot(c)
        PROVE  UNCHANGED Atomic!vars
    BY <2>4, QuietOperation DEF OpenLastGood, CopyLastGood, OpenSnapshot, CopySnapshot
  <2>5. ASSUME NEW c \in Calls, Prune(c)
        PROVE  [Atomic!Next]_(Atomic!vars)
    <3>1. Phase(c) = "committed"
      BY <2>5 DEF Prune, Phase
    <3>2. \A d \in Calls : Phase(d)' = IF d = c THEN "idle" ELSE Phase(d)
      BY <2>5 DEF Prune, Return, Phase, DiskTypes
    <3>3. Atomic!Succeed(c)
      BY <2>5, <3>1, <3>2 DEF Prune, Return, Atomic!Succeed
    <3>. QED  BY <3>3 DEF Atomic!Next
  <2>6. ASSUME NEW c \in Calls, Error(c)
        PROVE  [Atomic!Next]_(Atomic!vars)
    <3>1. Phase(c) # "idle"
      BY <2>6 DEF Error, Phase
    <3>2. \A d \in Calls : Phase(d)' = IF d = c THEN "idle" ELSE Phase(d)
      BY <2>6 DEF Error, Phase, DiskTypes
    <3>3. Atomic!Fail(c)
      BY <2>6, <3>1, <3>2 DEF Error, Atomic!Fail
    <3>. QED  BY <3>3 DEF Atomic!Next
  <2>7. CASE Crash
    <3>1. \A d \in Calls : Phase(d)' = "idle"
      BY <2>7 DEF Crash, Phase
    <3>2. Atomic!Crash
      BY <2>7, <3>1 DEF Crash, Atomic!Crash
    <3>. QED  BY <3>2 DEF Atomic!Next
  <2>8. CASE Damage
    BY <2>8 DEF Damage, DiskTypes
  <2>9. CASE UNCHANGED vars
    BY <2>9, Stutter DEF vars, Phase
  <2>. QED
    BY <1>2, <2>1, <2>2, <2>3, <2>4, <2>5, <2>6, <2>7, <2>8, <2>9 DEF Next
<1>. QED  BY <1>1, <1>2

(***************************************************************************)
(* persist_state is atomic as long as no file is damaged: whatever calls,  *)
(* I/O errors and crashes interleave, a start loads what the last rename   *)
(* put in place, and a success is reported only after it.                  *)
(***************************************************************************)
THEOREM SavingIsAtomic == Spec => SavesAreAtomic
<1>1. Init => Atomic!Init
  <2>. SUFFICES ASSUME Init
                PROVE  Atomic!Init
    OBVIOUS
  <2>1. \A c \in Calls : Phase(c) = "idle"
    BY DEF Init, Phase
  <2>2. ver \in [Calls -> Versions]
    BY StoreAssumption DEF Init
  <2>. QED  BY <2>1, <2>2, LoadType DEF Init, Atomic!Init
<1>2. DiskInv /\ [Next]_vars => [damage' = 0 => [Atomic!Next]_(Atomic!vars)]_vars
  BY DamageStays, AtomicStep DEF DiskInv
<1>. QED  BY <1>1, <1>2, DiskInvCorrect, PTL DEF Spec, SavesAreAtomic
-----------------------------------------------------------------------------
(***************************************************************************)
(* Durability.  Publish is the only step that can load something older     *)
(* than before, and then it says so in `stale'.                            *)
(***************************************************************************)
LEMMA AckStep ==
  ASSUME DiskInv, AckedIsLoaded, [Next]_vars
  PROVE  AckedIsLoaded'
<1>. SUFFICES ASSUME damage' = 0, ~stale', NEW v \in acked'
              PROVE  v <= OnDisk'
  BY DEF AckedIsLoaded
<1>1. damage = 0 /\ DiskTypes /\ Staged /\ Intact
  BY DamageStays DEF DiskInv
<1>2. OnDisk \in Nat /\ \A u \in acked : u \in Nat
  BY <1>1, LoadType, StoreAssumption DEF DiskTypes
<1>3. CASE \E c \in Calls : Publish(c)
  <2>1. PICK c \in Calls : Publish(c)
    BY <1>3
  <2>2. OnDisk' = ver[c] /\ ver[c] \in Nat
    BY <1>1, <2>1, StoreAssumption DEF Publish, Goes, OnDisk, Staged, Intact, DiskTypes
  <2>3. acked' = acked /\ ~stale /\ ~(ver[c] < OnDisk)
    BY <2>1 DEF Publish, Goes
  <2>. QED  BY <1>1, <1>2, <2>2, <2>3 DEF AckedIsLoaded
<1>4. CASE ~\E c \in Calls : Publish(c)
  <2>1. OnDisk' = OnDisk
    BY <1>1, <1>4, LoadStays, DamageCounts
  <2>2. CASE \E c \in Calls : Prune(c)
    <3>1. PICK c \in Calls : Prune(c)
      BY <2>2
    <3>2. acked' = acked \cup {ver[c]} /\ ~stale
      BY <3>1 DEF Prune, Return
    <3>3. OnDisk = ver[c]
      BY <1>1, <3>1 DEF Prune, OnDisk, Staged, Intact, DiskTypes
    <3>. QED  BY <1>1, <1>2, <2>1, <3>2, <3>3 DEF AckedIsLoaded
  <2>3. CASE ~\E c \in Calls : Prune(c)
    <3>1. acked' = acked /\ stale' = stale
      BY <1>4, <2>3 DEF Next, Start, Capture, Goes, Acquire, WriteTemp, ClearBackup, BackUp,
             OpenLastGood, CopyLastGood, OpenSnapshot, CopySnapshot, Error, Crash, Damage, vars
    <3>. QED  BY <1>1, <2>1, <3>1 DEF AckedIsLoaded
  <2>. QED  BY <2>2, <2>3
<1>. QED  BY <1>3, <1>4

(***************************************************************************)
(* A version that was reported as saved is loaded by the next start, or a  *)
(* newer one is, unless an older version was saved later.                  *)
(***************************************************************************)
THEOREM AckedIsDurable == Spec => []AckedIsLoaded
<1>1. Init => AckedIsLoaded
  BY DEF Init, AckedIsLoaded
<1>. QED  BY <1>1, AckStep, DiskInvCorrect, PTL DEF Spec
-----------------------------------------------------------------------------
(***************************************************************************)
(* The snapshots.  Their type, their number, and what a save has copied at *)
(* each stage of write_recovery_copies.                                    *)
(***************************************************************************)

SnapKept == \E i \in DOMAIN snaps : Readable(snaps[i])

\* Induction over the natural numbers, from the least element of a set.
LEMMA LeastOf ==
  ASSUME NEW T \in SUBSET Nat, T # {}
  PROVE  \E x \in T : \A y \in T : x <= y
<1>1. IsWellFoundedOn(OpToRel(<, Nat), Nat)
  BY NatLessThanWellFounded, Zenon
<1>2. PICK x \in T : \A y \in T : ~ (<<y, x>> \in OpToRel(<, Nat))
  BY <1>1, WFMin, Zenon
<1>3. ASSUME NEW y \in T, ~ (x <= y)
      PROVE  FALSE
  <2>1. y < x /\ y \in Nat /\ x \in Nat
    BY <1>3
  <2>2. <<y, x>> \in {ss \in Nat \X Nat : ss[1] < ss[2]}
    BY <2>1
  <2>3. <<y, x>> \in OpToRel(<, Nat)
    BY <2>2, Zenon DEF OpToRel
  <2>. QED  BY <2>3, <1>2, Zenon
<1>. QED  BY <1>3

LEMMA Induct ==
  ASSUME NEW n \in Nat, NEW S, 0 \in S, \A k \in 0..n-1 : k \in S => k + 1 \in S
  PROVE  0..n \subseteq S
<1>. SUFFICES ASSUME ~(0..n \subseteq S)
              PROVE  FALSE
  OBVIOUS
<1>. DEFINE T == (0..n) \ S
<1>1. T \in SUBSET Nat /\ T # {}
  OBVIOUS
<1>2. \A k \in T : k \in 0..n /\ k \notin S
  OBVIOUS
<1>3. \A k \in 0..n : k \notin S => k \in T
  OBVIOUS
<1>. HIDE DEF T
<1>4. PICK x \in T : \A y \in T : x <= y
  BY <1>1, LeastOf
<1>5. x # 0 /\ x - 1 \in 0..n-1 /\ x \in 0..n
  BY <1>2
<1>6. x - 1 \in S
  BY <1>5, <1>4, <1>3
<1>7. (x - 1) + 1 \in S
  BY <1>5, <1>6
<1>. QED  BY <1>7, <1>5, <1>2

\* The function that Valid chooses exists.
LEMMA ValidExists ==
  ASSUME NEW n \in Nat
  PROVE  \E g : g = [k \in 0..n |-> IF k = 0 THEN <<>> ELSE AddReadable(g[k-1], snaps[k])]
<1>. DEFINE Run(g, m) == g = [k \in 0..m |-> IF k = 0 THEN <<>> ELSE AddReadable(g[k-1], snaps[k])]
            S == {m \in 0..n : \E g : Run(g, m)}
<1>1. \E g : Run(g, 0)
  <2>1. [k \in 0..0 |-> <<>>] =
          [k \in 0..0 |-> IF k = 0 THEN <<>> ELSE AddReadable([i \in 0..0 |-> <<>>][k-1], snaps[k])]
    OBVIOUS
  <2>. QED  BY <2>1
<1>2. ASSUME NEW m \in 0..n-1, NEW g, Run(g, m)
      PROVE  \E e : Run(e, m + 1)
  <2>. DEFINE e == [k \in 0..m+1 |-> IF k = m + 1 THEN AddReadable(g[m], snaps[m+1]) ELSE g[k]]
  <2>1. ASSUME NEW k \in 0..m+1
        PROVE  e[k] = IF k = 0 THEN <<>> ELSE AddReadable(e[k-1], snaps[k])
    <3>1. CASE k = m + 1
      <4>1. e[k] = AddReadable(g[m], snaps[k]) /\ e[k-1] = g[m] /\ k # 0
        BY <3>1
      <4>. QED  BY <4>1
    <3>2. CASE k # m + 1
      <4>1. k \in 0..m /\ e[k] = g[k]
        BY <3>2
      <4>2. g[k] = IF k = 0 THEN <<>> ELSE AddReadable(g[k-1], snaps[k])
        BY <4>1, <1>2
      <4>3. k # 0 => e[k-1] = g[k-1]
        BY <4>1
      <4>. HIDE DEF e
      <4>. QED  BY <4>1, <4>2, <4>3
    <3>. QED  BY <3>1, <3>2
  <2>2. e = [k \in 0..m+1 |-> e[k]]
    OBVIOUS
  <2>. HIDE DEF e
  <2>3. Run(e, m + 1)
    BY <2>1, <2>2
  <2>. QED  BY <2>3
<1>. HIDE DEF Run
<1>3. 0 \in S
  BY <1>1
<1>4. \A m \in 0..n-1 : m \in S => m + 1 \in S
  BY <1>2
<1>. HIDE DEF S
<1>5. n \in S
  BY <1>3, <1>4, Induct
<1>. QED  BY <1>5 DEF S, Run

LEMMA Appended ==
  ASSUME NEW S, NEW s \in Seq(S), NEW x \in S
  PROVE  /\ Append(s, x) \in Seq(S) /\ Append(s, x) # <<>>
         /\ Append(s, x)[1] = IF s = <<>> THEN x ELSE s[1]
<1>1. Len(Append(s, x)) = Len(s) + 1 /\ Len(s) \in Nat /\ Append(s, x) \in Seq(S)
  OBVIOUS
<1>2. Append(s, x) # <<>>
  BY <1>1
<1>. QED  BY <1>1, <1>2

\* The readable snapshots are a sequence of versions, and if the newest
\* snapshot is readable it comes first.
LEMMA ValidFacts ==
  ASSUME snaps \in Seq(Contents)
  PROVE  /\ Valid[Len(snaps)] \in Seq(Versions)
         /\ snaps # <<>> /\ Readable(snaps[1]) =>
              Valid[Len(snaps)] # <<>> /\ Valid[Len(snaps)][1] = snaps[1]
         /\ SnapKept => Valid[Len(snaps)] # <<>>
<1>. DEFINE n == Len(snaps)
            Holds(k) == /\ Valid[k] \in Seq(Versions)
                        /\ k > 0 /\ Readable(snaps[1]) => Valid[k] # <<>> /\ Valid[k][1] = snaps[1]
                        /\ (\E i \in 1..k : Readable(snaps[i])) => Valid[k] # <<>>
            S == {k \in 0..n : Holds(k)}
<1>0. n \in Nat /\ DOMAIN snaps = 1..n
  OBVIOUS
<1>1. Valid = [k \in 0..n |-> IF k = 0 THEN <<>> ELSE AddReadable(Valid[k-1], snaps[k])]
  BY <1>0, ValidExists DEF Valid
<1>2. Valid[0] = <<>> /\ \A k \in 1..n : Valid[k] = AddReadable(Valid[k-1], snaps[k])
  <2>. HIDE DEF n
  <2>. QED  BY <1>0, <1>1
<1>3. 0 \in S
  <2>1. Valid[0] \in Seq(Versions) /\ 1..0 = {}
    BY <1>2
  <2>2. Holds(0)
    BY <2>1
  <2>. HIDE DEF Holds, n
  <2>. QED  BY <1>0, <2>2
<1>4. ASSUME NEW k \in 0..n-1, k \in S
      PROVE  k + 1 \in S
  <2>1. Valid[k+1] = AddReadable(Valid[k], snaps[k+1]) /\ Holds(k) /\ k + 1 \in 1..n
    BY <1>2, <1>4
  <2>2. CASE Readable(snaps[k+1])
    <3>1. Valid[k+1] = Append(Valid[k], snaps[k+1]) /\ snaps[k+1] \in Versions
      BY <2>1, <2>2 DEF AddReadable
    <3>a. Valid[k] \in Seq(Versions)
      BY <2>1
    <3>b. /\ Append(Valid[k], snaps[k+1]) \in Seq(Versions)
          /\ Append(Valid[k], snaps[k+1]) # <<>>
      BY <3>a, <3>1, Appended
    <3>2. Valid[k+1] \in Seq(Versions) /\ Valid[k+1] # <<>>
      BY <3>b, <3>1, Zenon
    <3>3. k = 0 => Valid[k+1][1] = snaps[1]
      BY <1>2, <3>1
    <3>4. Valid[k] # <<>> => Valid[k+1][1] = Valid[k][1]
      BY <2>1, <3>1, Appended
    <3>5. Readable(snaps[1]) => Valid[k+1][1] = snaps[1]
      BY <2>1, <3>3, <3>4
    <3>. QED  BY <2>1, <3>2, <3>5
  <2>3. CASE ~Readable(snaps[k+1])
    <3>1. Valid[k+1] = Valid[k]
      BY <2>1, <2>3 DEF AddReadable
    <3>. QED  BY <2>1, <2>3, <3>1
  <2>. QED  BY <2>2, <2>3
<1>. HIDE DEF S, n
<1>5. n \in S
  BY <1>0, <1>3, <1>4, Induct
<1>6. Holds(n)
  BY <1>5 DEF S
<1>. QED  BY <1>0, <1>6 DEF SnapKept, n

\* What each of the steps that touch the snapshots makes of them.
LEMMA OpenedSnapshot ==
  ASSUME snaps \in Seq(Contents), NEW c \in Calls, OpenSnapshot(c)
  PROVE  /\ snaps' \in Seq(Contents) /\ Len(snaps') = Len(snaps) + 1
         /\ snaps' # <<>> /\ snaps'[1] = Torn
         /\ \A i \in 1..Len(snaps) : snaps'[i+1] = snaps[i]
<1>1. snaps' = <<Torn>> \o snaps /\ <<Torn>> \in Seq(Contents) /\ Len(<<Torn>>) = 1
  BY DEF OpenSnapshot
<1>2. snaps' \in Seq(Contents) /\ Len(snaps') = Len(snaps) + 1 /\ Len(snaps) \in Nat
  BY <1>1
<1>3. snaps'[1] = Torn
  BY <1>1
<1>4. \A i \in 1..Len(snaps) : snaps'[i+1] = snaps[i]
  BY <1>1
<1>5. snaps' # <<>>
  BY <1>2
<1>. QED  BY <1>2, <1>3, <1>4, <1>5

LEMMA CopiedSnapshot ==
  ASSUME snaps \in Seq(Contents), snaps # <<>>, NEW c \in Calls, CopySnapshot(c),
         state \in Versions
  PROVE  /\ snaps' \in Seq(Contents) /\ Len(snaps') = Len(snaps)
         /\ snaps' # <<>> /\ snaps'[1] = state
<1>1. snaps' = [snaps EXCEPT ![1] = state] /\ Len(snaps) \in Nat \ {0} /\ state \in Contents
  BY DEF CopySnapshot
<1>2. snaps' \in Seq(Contents) /\ Len(snaps') = Len(snaps)
  BY <1>1
<1>3. snaps'[1] = state
  BY <1>1
<1>4. snaps' # <<>>
  BY <1>1, <1>2
<1>. QED  BY <1>2, <1>3, <1>4

LEMMA FirstOnes ==
  ASSUME NEW S, NEW s \in Seq(S), NEW n \in 0..Len(s)
  PROVE  /\ SubSeq(s, 1, n) \in Seq(S) /\ Len(SubSeq(s, 1, n)) = n
         /\ DOMAIN SubSeq(s, 1, n) = 1..n
         /\ \A i \in 1..n : SubSeq(s, 1, n)[i] = s[i] /\ s[i] \in S
OBVIOUS

LEMMA PrunedSnapshots ==
  ASSUME snaps \in Seq(Contents), NEW c \in Calls, Prune(c)
  PROVE  /\ snaps' \in Seq(Contents) /\ Len(snaps') <= MaxSnapshots
         /\ \A i \in DOMAIN snaps' : Readable(snaps'[i])
         /\ SnapKept => snaps' # <<>>
         /\ snaps # <<>> /\ Readable(snaps[1]) => snaps' # <<>> /\ snaps'[1] = snaps[1]
<1>. DEFINE good == Valid[Len(snaps)]
<1>1. /\ good \in Seq(Versions)
      /\ snaps # <<>> /\ Readable(snaps[1]) => good # <<>> /\ good[1] = snaps[1]
      /\ SnapKept => good # <<>>
  BY ValidFacts
<1>2. PICK n \in 0..MaxSnapshots : /\ n <= Len(good) /\ (n = 0 => good = <<>>)
                                   /\ snaps' = SubSeq(good, 1, n)
  BY DEF Prune
<1>. HIDE DEF good
<1>3. n \in Nat /\ n <= MaxSnapshots /\ Len(good) \in Nat
  BY <1>1, <1>2, StoreAssumption
<1>4. /\ snaps' \in Seq(Versions) /\ Len(snaps') = n
      /\ DOMAIN snaps' = 1..n
      /\ \A i \in 1..n : snaps'[i] = good[i] /\ good[i] \in Versions
  <2>1. good \in Seq(Versions) /\ n \in 0..Len(good)
    BY <1>1, <1>2, <1>3
  <2>. HIDE DEF Versions
  <2>2. /\ SubSeq(good, 1, n) \in Seq(Versions) /\ Len(SubSeq(good, 1, n)) = n
        /\ DOMAIN SubSeq(good, 1, n) = 1..n
        /\ \A i \in 1..n : SubSeq(good, 1, n)[i] = good[i] /\ good[i] \in Versions
    BY <2>1, FirstOnes
  <2>. QED  BY <1>2, <2>2, Zenon
<1>5. snaps' \in Seq(Contents) /\ \A i \in DOMAIN snaps' : Readable(snaps'[i])
  BY <1>4
<1>6. good # <<>> => snaps' # <<>> /\ snaps'[1] = good[1]
  BY <1>2, <1>3, <1>4
<1>. QED  BY <1>1, <1>3, <1>4, <1>5, <1>6

\* The calls between the opening of a snapshot and the end of the prune.
Snapping == \E c \in Calls : pc[c] \in {"snapping", "prune"}

CopyTypes ==
  /\ snaps \in Seq(Contents)
  /\ Len(snaps) <= MaxSnapshots + faults + crashes + (IF Snapping THEN 1 ELSE 0)
  /\ review \in BOOLEAN
  /\ crashes \in 0..MaxCrashes /\ faults \in 0..MaxFaults /\ damage \in 0..MaxDamage

\* What a call has copied.  No file is damaged while there is one that copies.
CopyStages ==
  \A c \in Calls :
    /\ pc[c] \in {"snapshot", "snapping", "prune"} => lastGood = ver[c]
    /\ pc[c] = "snapping" => snaps # <<>>
    /\ pc[c] = "prune" => snaps # <<>> /\ snaps[1] = ver[c]

CopyInv == CopyTypes /\ CopyStages

LEMMA CopyInvInit == Init => CopyInv
<1>. SUFFICES ASSUME Init
              PROVE  CopyInv
  OBVIOUS
<1>1. snaps \in Seq(Contents) /\ Len(snaps) = 0
  BY DEF Init
<1>2. \A c \in Calls : pc[c] = "idle"
  BY DEF Init
<1>3. ~Snapping /\ CopyStages
  BY <1>2 DEF Snapping, CopyStages
<1>4. faults = 0 /\ crashes = 0 /\ damage = 0 /\ review \in BOOLEAN
  BY DEF Init
<1>5. CopyTypes
  <2>1. MaxSnapshots \in Nat /\ MaxCrashes \in Nat /\ MaxFaults \in Nat /\ MaxDamage \in Nat
    BY StoreAssumption
  <2>2. Len(snaps) <= MaxSnapshots + faults + crashes + (IF Snapping THEN 1 ELSE 0)
    BY <1>1, <1>3, <1>4, <2>1
  <2>. QED  BY <1>1, <1>4, <2>1, <2>2 DEF CopyTypes
<1>. QED  BY <1>3, <1>5 DEF CopyInv

LEMMA CopyInvStep ==
  ASSUME DiskInv, CopyInv, [Next]_vars
  PROVE  CopyInv'
<1>. USE StoreAssumption DEF Goes, files, bounds
<1>0. DiskTypes /\ Exclusive /\ Staged /\ snaps \in Seq(Contents) /\ Len(snaps) \in Nat
  BY DEF DiskInv, CopyInv, CopyTypes
<1>1. ASSUME NEW c \in Calls, Start(c) \/ Capture(c) \/ Acquire(c)
      PROVE  CopyInv'
  <2>1. \A d \in Calls : /\ pc'[d] \in InMutex \ {"temp"} => pc'[d] = pc[d] /\ ver'[d] = ver[d]
                         /\ pc[d] \in InMutex \ {"temp"} => pc'[d] = pc[d]
    BY <1>0, <1>1 DEF Start, Capture, Acquire, DiskTypes, Exclusive
  <2>a. UNCHANGED <<lastGood, snaps, crashes, damage>> /\ review' \in BOOLEAN
    BY <1>1 DEF Start, Capture, Acquire, CopyInv, CopyTypes
  <2>b. faults' = faults \/ (faults < MaxFaults /\ faults' = faults + 1)
    BY <1>1 DEF Start, Capture, Acquire, Fault
  <2>2. /\ UNCHANGED <<lastGood, snaps, crashes, damage>> /\ review' \in BOOLEAN
        /\ faults' \in 0..MaxFaults /\ faults' >= faults
    BY <2>a, <2>b DEF CopyInv, CopyTypes
  <2>3. Snapping' = Snapping
    BY <2>1 DEF Snapping
  <2>4. CopyTypes'
    BY <1>0, <2>2, <2>3 DEF CopyInv, CopyTypes
  <2>5. CopyStages'
    BY <2>1, <2>2 DEF CopyInv, CopyStages
  <2>. QED  BY <2>4, <2>5 DEF CopyInv
<1>2. ASSUME NEW c \in Calls, \/ WriteTemp(c) \/ ClearBackup(c) \/ BackUp(c) \/ Publish(c)
                             \/ OpenLastGood(c)
      PROVE  CopyInv'
  <2>1. /\ pc[c] \in InMutex \ {"copying", "snapshot", "snapping", "prune"}
        /\ pc'[c] \notin {"snapshot", "snapping", "prune"}
        /\ UNCHANGED <<ver, snaps, review, crashes, faults, damage>>
    BY <1>0, <1>2 DEF WriteTemp, ClearBackup, BackUp, Publish, OpenLastGood, DiskTypes
  <2>2. \A d \in Calls : d # c => pc'[d] = pc[d] /\ pc[d] \notin InMutex
    BY <1>0, <1>2, <2>1 DEF WriteTemp, ClearBackup, BackUp, Publish, OpenLastGood, DiskTypes,
                            Exclusive
  <2>3. Snapping' = Snapping
    BY <2>1, <2>2 DEF Snapping
  <2>4. CopyTypes'
    BY <2>1, <2>3 DEF CopyInv, CopyTypes
  <2>5. CopyStages'
    BY <2>1, <2>2 DEF CopyInv, CopyStages
  <2>. QED  BY <2>4, <2>5 DEF CopyInv
<1>3. ASSUME NEW c \in Calls, CopyLastGood(c)
      PROVE  CopyInv'
  <2>1. /\ pc[c] = "copying" /\ pc'[c] = "snapshot" /\ lastGood' = ver[c]
        /\ UNCHANGED <<ver, snaps, review, crashes, faults, damage>>
    BY <1>0, <1>3 DEF CopyLastGood, DiskTypes, Staged
  <2>2. \A d \in Calls : d # c => pc'[d] = pc[d] /\ pc[d] \notin InMutex
    BY <1>0, <1>3, <2>1 DEF CopyLastGood, DiskTypes, Exclusive
  <2>3. Snapping' = Snapping
    BY <2>1, <2>2 DEF Snapping
  <2>4. CopyTypes'
    BY <2>1, <2>3 DEF CopyInv, CopyTypes
  <2>5. CopyStages'
    BY <2>1, <2>2 DEF CopyInv, CopyStages
  <2>. QED  BY <2>4, <2>5 DEF CopyInv
<1>4. ASSUME NEW c \in Calls, OpenSnapshot(c)
      PROVE  CopyInv'
  <2>1. /\ pc[c] = "snapshot" /\ pc'[c] = "snapping" /\ lastGood = ver[c]
        /\ UNCHANGED <<ver, lastGood, review, crashes, faults, damage>>
    BY <1>0, <1>4 DEF OpenSnapshot, DiskTypes, CopyInv, CopyStages
  <2>2. \A d \in Calls : d # c => pc'[d] = pc[d] /\ pc[d] \notin InMutex
    BY <1>0, <1>4, <2>1 DEF OpenSnapshot, DiskTypes, Exclusive
  <2>3. Snapping' /\ ~Snapping
    BY <2>1, <2>2 DEF Snapping
  <2>4. snaps' \in Seq(Contents) /\ Len(snaps') = Len(snaps) + 1 /\ snaps' # <<>>
    BY <1>0, <1>4, OpenedSnapshot
  <2>5. CopyTypes'
    BY <1>0, <2>1, <2>3, <2>4 DEF CopyInv, CopyTypes
  <2>6. CopyStages'
    BY <2>1, <2>2, <2>4 DEF CopyInv, CopyStages
  <2>. QED  BY <2>5, <2>6 DEF CopyInv
<1>5. ASSUME NEW c \in Calls, CopySnapshot(c)
      PROVE  CopyInv'
  <2>1. /\ pc[c] = "snapping" /\ pc'[c] = "prune" /\ lastGood = ver[c] /\ snaps # <<>>
        /\ state = ver[c] /\ state \in Versions
        /\ UNCHANGED <<ver, lastGood, review, crashes, faults, damage>>
    BY <1>0, <1>5 DEF CopySnapshot, DiskTypes, CopyInv, CopyStages, Staged
  <2>2. \A d \in Calls : d # c => pc'[d] = pc[d] /\ pc[d] \notin InMutex
    BY <1>0, <1>5, <2>1 DEF CopySnapshot, DiskTypes, Exclusive
  <2>3. Snapping' /\ Snapping
    BY <2>1 DEF Snapping
  <2>4. /\ snaps' \in Seq(Contents) /\ Len(snaps') = Len(snaps) /\ snaps' # <<>>
        /\ snaps'[1] = state
    BY <1>0, <1>5, <2>1, CopiedSnapshot
  <2>5. CopyTypes'
    BY <1>0, <2>1, <2>3, <2>4 DEF CopyInv, CopyTypes
  <2>6. CopyStages'
    BY <2>1, <2>2, <2>4 DEF CopyInv, CopyStages
  <2>. QED  BY <2>5, <2>6 DEF CopyInv
<1>6. ASSUME NEW c \in Calls, Prune(c)
      PROVE  CopyInv'
  <2>1. /\ pc[c] = "prune" /\ pc'[c] = "idle"
        /\ UNCHANGED <<ver, lastGood, review, crashes, faults, damage>>
    BY <1>0, <1>6 DEF Prune, Return, DiskTypes
  <2>2. \A d \in Calls : d # c => pc'[d] = pc[d] /\ pc[d] \notin InMutex
    BY <1>0, <1>6, <2>1 DEF Prune, Return, DiskTypes, Exclusive
  <2>3. snaps' \in Seq(Contents) /\ Len(snaps') <= MaxSnapshots /\ Len(snaps') \in Nat
    BY <1>0, <1>6, PrunedSnapshots
  <2>4. CopyTypes'
    BY <1>0, <2>1, <2>3 DEF CopyInv, CopyTypes
  <2>5. CopyStages'
    BY <2>1, <2>2 DEF CopyInv, CopyStages
  <2>. QED  BY <2>4, <2>5 DEF CopyInv
<1>7. ASSUME NEW c \in Calls, Error(c)
      PROVE  CopyInv'
  <2>1. /\ pc[c] \in InMutex /\ pc'[c] = "idle" /\ faults' = faults + 1 /\ faults < MaxFaults
        /\ UNCHANGED <<ver, lastGood, snaps, review, crashes, damage>>
    BY <1>0, <1>7 DEF Error, Fault, DiskTypes
  <2>2. \A d \in Calls : d # c => pc'[d] = pc[d] /\ pc[d] \notin InMutex
    BY <1>0, <1>7, <2>1 DEF Error, DiskTypes, Exclusive
  <2>3. CopyTypes'
    BY <1>0, <2>1 DEF CopyInv, CopyTypes
  <2>4. CopyStages'
    BY <2>1, <2>2 DEF CopyInv, CopyStages
  <2>. QED  BY <2>3, <2>4 DEF CopyInv
<1>8. CASE Crash
  <2>1. /\ \A d \in Calls : pc'[d] = "idle"
        /\ crashes' = crashes + 1 /\ crashes < MaxCrashes
        /\ UNCHANGED <<lastGood, snaps, review, faults, damage>>
    BY <1>8 DEF Crash
  <2>2. CopyTypes'
    BY <1>0, <2>1 DEF CopyInv, CopyTypes
  <2>3. CopyStages'
    BY <2>1 DEF CopyStages
  <2>. QED  BY <2>2, <2>3 DEF CopyInv
<1>9. CASE Damage
  <2>1. /\ \A d \in Calls : pc'[d] = pc[d] /\ pc[d] \notin Committed
        /\ damage' = damage + 1 /\ damage < MaxDamage
        /\ UNCHANGED <<review, faults, crashes>>
    BY <1>9 DEF Damage
  <2>2. snaps' \in Seq(Contents) /\ Len(snaps') = Len(snaps)
    BY <1>0, <1>9 DEF Damage
  <2>3. Snapping' = Snapping
    BY <2>1 DEF Snapping
  <2>4. CopyTypes'
    BY <1>0, <2>1, <2>2, <2>3 DEF CopyInv, CopyTypes
  <2>5. CopyStages'
    BY <2>1 DEF CopyStages
  <2>. QED  BY <2>4, <2>5 DEF CopyInv
<1>10. CASE UNCHANGED vars
  BY <1>10 DEF vars, CopyInv, CopyTypes, CopyStages, Snapping
<1>. QED
  BY <1>1, <1>2, <1>3, <1>4, <1>5, <1>6, <1>7, <1>8, <1>9, <1>10 DEF Next

LEMMA CopyInvCorrect == Spec => []CopyInv
<1>. QED  BY CopyInvInit, CopyInvStep, DiskInvCorrect, PTL DEF Spec

(***************************************************************************)
(* Files, calls and histories keep their types, and the snapshots are not  *)
(* more than MAX_STATE_BACKUPS, but for the one being written and one for  *)
(* each save that ended before prune_state_snapshot_backups.               *)
(***************************************************************************)
THEOREM TypeCorrect == Spec => []TypeOK
<1>1. DiskInv /\ CopyInv => TypeOK
  <2>. SUFFICES ASSUME DiskInv, CopyInv
                PROVE  TypeOK
    OBVIOUS
  <2>1. Len(snaps) <= MaxSnapshots + 1 + faults + crashes
    BY StoreAssumption DEF CopyInv, CopyTypes
  <2>. QED  BY <2>1 DEF DiskInv, DiskTypes, CopyInv, CopyTypes, TypeOK
<1>. QED  BY <1>1, DiskInvCorrect, CopyInvCorrect, PTL
-----------------------------------------------------------------------------
(***************************************************************************)
(* Survival.  Three kinds of copies are kept: state.json with its backup,  *)
(* the last good copy, and the snapshots.  Damage takes one of them; the   *)
(* other steps take the last good copy only while state.json can be read.  *)
(***************************************************************************)
MainKept == Intact /\ (Readable(state) \/ Readable(bak))
LastKept == Readable(lastGood)

\* A crash or an error may leave the last good copy torn, so that it counts
\* only while there was none.
Survival ==
  acked # {} =>
    /\ damage = 0 => MainKept /\ SnapKept
    /\ damage = 1 => MainKept \/ SnapKept
    /\ faults = 0 /\ crashes = 0 /\ (\A c \in Calls : pc[c] \notin Committed) =>
         /\ damage = 0 => LastKept
         /\ damage = 1 => \/ MainKept /\ LastKept
                          \/ MainKept /\ SnapKept
                          \/ LastKept /\ SnapKept
         /\ damage = 2 => MainKept \/ LastKept \/ SnapKept

LEMMA MainStays ==
  ASSUME DiskTypes, Staged, MainKept, [Next]_vars, ~Damage
  PROVE  MainKept'
<1>. USE StoreAssumption DEF DiskTypes, Staged, Intact, MainKept, Goes, files, bounds
<1>0. Intact'
  BY IntactStep
<1>1. ASSUME NEW c \in Calls, Start(c)
      PROVE  MainKept'
  BY <1>0, <1>1 DEF Start
<1>2. ASSUME NEW c \in Calls, Capture(c) \/ Acquire(c) \/ WriteTemp(c) \/ ClearBackup(c)
      PROVE  MainKept'
  BY <1>0, <1>2 DEF Capture, Acquire, WriteTemp, ClearBackup
<1>3. ASSUME NEW c \in Calls, BackUp(c) \/ Publish(c)
      PROVE  MainKept'
  BY <1>0, <1>3 DEF BackUp, Publish
<1>4. ASSUME NEW c \in Calls, \/ OpenLastGood(c) \/ CopyLastGood(c) \/ OpenSnapshot(c)
                             \/ CopySnapshot(c) \/ Prune(c)
      PROVE  MainKept'
  BY <1>0, <1>4 DEF OpenLastGood, CopyLastGood, OpenSnapshot, CopySnapshot, Prune, Return
<1>5. ASSUME NEW c \in Calls, Error(c)
      PROVE  MainKept'
  BY <1>0, <1>5 DEF Error
<1>6. CASE Crash \/ UNCHANGED vars
  BY <1>0, <1>6 DEF Crash, vars
<1>. QED
  BY <1>1, <1>2, <1>3, <1>4, <1>5, <1>6 DEF Next

\* Which steps touch the other copies.
LEMMA CopiesUnchanged ==
  ASSUME [Next]_vars, ~Damage,
         ~\E c \in Calls : OpenLastGood(c) \/ CopyLastGood(c) \/ OpenSnapshot(c)
                           \/ CopySnapshot(c) \/ Prune(c)
  PROVE  UNCHANGED <<lastGood, snaps, acked, damage>>
<1>1. ASSUME NEW c \in Calls, Start(c) \/ Capture(c) \/ Error(c)
      PROVE  UNCHANGED <<lastGood, snaps, acked, damage>>
  BY <1>1 DEF Start, Capture, Error, files, bounds
<1>2. ASSUME NEW c \in Calls,
             Acquire(c) \/ WriteTemp(c) \/ ClearBackup(c) \/ BackUp(c) \/ Publish(c)
      PROVE  UNCHANGED <<lastGood, snaps, acked, damage>>
  BY <1>2 DEF Acquire, WriteTemp, ClearBackup, BackUp, Publish, Goes, bounds
<1>3. CASE Crash \/ UNCHANGED vars
  BY <1>3 DEF Crash, vars, files, bounds
<1>. QED  BY <1>1, <1>2, <1>3 DEF Next

LEMMA SnapStays ==
  ASSUME DiskInv, CopyInv, SnapKept, [Next]_vars, ~Damage
  PROVE  SnapKept'
<1>0. snaps \in Seq(Contents) /\ Len(snaps) \in Nat /\ DOMAIN snaps = 1..Len(snaps)
  BY DEF CopyInv, CopyTypes
<1>1. ASSUME NEW c \in Calls, OpenLastGood(c) \/ CopyLastGood(c)
      PROVE  SnapKept'
  BY <1>1 DEF OpenLastGood, CopyLastGood, SnapKept
<1>2. ASSUME NEW c \in Calls, OpenSnapshot(c)
      PROVE  SnapKept'
  <2>1. PICK i \in 1..Len(snaps) : Readable(snaps[i])
    BY <1>0 DEF SnapKept
  <2>2. Len(snaps') = Len(snaps) + 1 /\ snaps' \in Seq(Contents) /\ snaps'[i+1] = snaps[i]
    BY <1>0, <1>2, OpenedSnapshot
  <2>3. i + 1 \in DOMAIN snaps'
    BY <1>0, <2>2
  <2>. QED  BY <2>1, <2>2, <2>3 DEF SnapKept
<1>3. ASSUME NEW c \in Calls, CopySnapshot(c)
      PROVE  SnapKept'
  <2>1. snaps # <<>> /\ state \in Versions
    BY <1>3 DEF CopySnapshot, Goes, CopyInv, CopyStages, DiskInv, DiskTypes, Staged
  <2>2. snaps' \in Seq(Contents) /\ snaps' # <<>> /\ snaps'[1] = state
    BY <1>0, <1>3, <2>1, CopiedSnapshot
  <2>3. 1 \in DOMAIN snaps'
    BY <2>2
  <2>. QED  BY <2>1, <2>2, <2>3 DEF SnapKept
<1>4. ASSUME NEW c \in Calls, Prune(c)
      PROVE  SnapKept'
  <2>1. snaps' \in Seq(Contents) /\ snaps' # <<>> /\ \A i \in DOMAIN snaps' : Readable(snaps'[i])
    BY <1>0, <1>4, PrunedSnapshots
  <2>2. 1 \in DOMAIN snaps'
    BY <2>1
  <2>. QED  BY <2>1, <2>2 DEF SnapKept
<1>5. CASE UNCHANGED snaps
  BY <1>5 DEF SnapKept
<1>. QED  BY <1>1, <1>2, <1>3, <1>4, <1>5, CopiesUnchanged

\* What a call has copied when it reports its success.
LEMMA Reported ==
  ASSUME DiskInv, CopyInv, NEW c \in Calls, Prune(c)
  PROVE  /\ state' = ver[c] /\ lastGood' = ver[c] /\ ver[c] \in Versions
         /\ snaps' \in Seq(Contents) /\ 1 \in DOMAIN snaps' /\ snaps'[1] = ver[c]
         /\ acked' = acked \cup {ver[c]}
         /\ UNCHANGED <<state, lastGood, bak, stale, damage, crashes, faults>>
<1>1. /\ state = ver[c] /\ lastGood = ver[c] /\ ver[c] \in Versions
      /\ snaps # <<>> /\ snaps[1] = ver[c] /\ snaps \in Seq(Contents)
  BY DEF Prune, DiskInv, DiskTypes, Staged, CopyInv, CopyTypes, CopyStages
<1>2. /\ UNCHANGED <<state, lastGood, bak, stale, damage, crashes, faults>>
      /\ acked' = acked \cup {ver[c]}
  BY DEF Prune, Return, bounds
<1>3. snaps' \in Seq(Contents) /\ snaps' # <<>> /\ snaps'[1] = snaps[1]
  BY <1>1, PrunedSnapshots
<1>4. 1 \in DOMAIN snaps'
  BY <1>3
<1>. QED  BY <1>1, <1>2, <1>3, <1>4

\* While nothing fails, a call that has published stays until it has reported.
LEMMA CommittedStays ==
  ASSUME DiskInv, CopyInv, [Next]_vars, faults' = 0, crashes' = 0,
         ~\E c \in Calls : Prune(c), NEW d \in Calls, pc[d] \in Committed
  PROVE  pc'[d] \in Committed
<1>. USE DEF Goes, DiskInv, DiskTypes, Exclusive
<1>0. faults \in Nat /\ crashes \in Nat
  BY StoreAssumption DEF CopyInv, CopyTypes
<1>1. ASSUME NEW c \in Calls, Start(c) \/ Capture(c) \/ Acquire(c)
      PROVE  pc'[d] \in Committed
  BY <1>1 DEF Start, Capture, Acquire
<1>2. ASSUME NEW c \in Calls, WriteTemp(c) \/ ClearBackup(c) \/ BackUp(c) \/ Publish(c)
      PROVE  pc'[d] \in Committed
  BY <1>2 DEF WriteTemp, ClearBackup, BackUp, Publish
<1>3. ASSUME NEW c \in Calls,
             OpenLastGood(c) \/ CopyLastGood(c) \/ OpenSnapshot(c) \/ CopySnapshot(c)
      PROVE  pc'[d] \in Committed
  BY <1>3 DEF OpenLastGood, CopyLastGood, OpenSnapshot, CopySnapshot
<1>4. ASSUME NEW c \in Calls, Error(c)
      PROVE  FALSE
  BY <1>0, <1>4 DEF Error, Fault
<1>5. CASE Crash
  BY <1>0, <1>5 DEF Crash
<1>6. CASE Damage \/ UNCHANGED vars
  BY <1>6 DEF Damage, vars
<1>. QED  BY <1>1, <1>2, <1>3, <1>4, <1>5, <1>6 DEF Next

\* Damage takes one kind of copy.
LEMMA OneIsTaken ==
  ASSUME DiskInv, CopyInv, Damage
  PROVE  \/ (MainKept => MainKept') /\ (LastKept => LastKept')
         \/ (MainKept => MainKept') /\ (SnapKept => SnapKept')
         \/ (LastKept => LastKept') /\ (SnapKept => SnapKept')
<1>1. CASE UNCHANGED <<lastGood, snaps>>
  BY <1>1 DEF LastKept, SnapKept
<1>2. CASE UNCHANGED <<state, bak, snaps>>
  BY <1>2 DEF MainKept, Intact, SnapKept
<1>3. CASE UNCHANGED <<state, bak, lastGood>>
  BY <1>3 DEF MainKept, Intact, LastKept
<1>. QED  BY <1>1, <1>2, <1>3 DEF Damage

LEMMA SurvivalStep ==
  ASSUME DiskInv, CopyInv, DiskInv', Survival, [Next]_vars
  PROVE  Survival'
<1>. DEFINE Still == \A c \in Calls : pc[c] \notin Committed
<1>0. damage \in Nat /\ faults \in Nat /\ crashes \in Nat
  BY StoreAssumption DEF CopyInv, CopyTypes
<1>1. CASE Damage
  <2>1. /\ UNCHANGED <<acked, faults, crashes>> /\ damage' = damage + 1 /\ Still
    BY <1>1 DEF Damage
  <2>. HIDE DEF Still
  <2>2. SUFFICES ASSUME acked # {}
                 PROVE  /\ damage' = 1 => MainKept' \/ SnapKept'
                        /\ faults = 0 /\ crashes = 0 =>
                             /\ damage' = 1 => \/ MainKept' /\ LastKept'
                                               \/ MainKept' /\ SnapKept'
                                               \/ LastKept' /\ SnapKept'
                             /\ damage' = 2 => MainKept' \/ LastKept' \/ SnapKept'
    BY <1>0, <2>1 DEF Survival
  <2>3. damage = 0 => MainKept /\ SnapKept
    BY <2>2 DEF Survival
  <2>4. faults = 0 /\ crashes = 0 =>
          /\ damage = 0 => LastKept
          /\ damage = 1 => \/ MainKept /\ LastKept
                           \/ MainKept /\ SnapKept
                           \/ LastKept /\ SnapKept
    BY <2>1, <2>2 DEF Survival, Still
  <2>. QED  BY <1>0, <1>1, <2>1, <2>3, <2>4, OneIsTaken
<1>2. CASE \E c \in Calls : Prune(c)
  <2>1. PICK c \in Calls : Prune(c)
    BY <1>2
  <2>2. /\ state' = ver[c] /\ lastGood' = ver[c] /\ ver[c] \in Versions
        /\ 1 \in DOMAIN snaps' /\ snaps'[1] = ver[c] /\ damage' = damage
    BY <2>1, Reported
  <2>3. SnapKept' /\ LastKept'
    BY <2>2 DEF SnapKept, LastKept
  <2>4. damage' = 0 => MainKept'
    BY <2>2 DEF MainKept, DiskInv
  <2>. QED  BY <2>3, <2>4 DEF Survival
<1>3. CASE ~Damage /\ ~\E c \in Calls : Prune(c)
  <2>1. acked' = acked /\ damage' = damage
    <3>1. ASSUME NEW c \in Calls, \/ OpenLastGood(c) \/ CopyLastGood(c) \/ OpenSnapshot(c)
                                  \/ CopySnapshot(c)
          PROVE  acked' = acked /\ damage' = damage
      BY <3>1 DEF OpenLastGood, CopyLastGood, OpenSnapshot, CopySnapshot, Goes, bounds
    <3>. QED  BY <1>3, <3>1, CopiesUnchanged
  <2>2. (MainKept => MainKept') /\ (SnapKept => SnapKept')
    BY <1>3, MainStays, SnapStays DEF DiskInv
  <2>3. ASSUME faults' = 0, crashes' = 0, Still'
        PROVE  faults = 0 /\ crashes = 0 /\ Still /\ (LastKept => LastKept')
    <3>1. Still
      BY <1>3, <2>3, CommittedStays
    <3>2. lastGood' = lastGood
      <4>1. ASSUME NEW c \in Calls, OpenSnapshot(c) \/ CopySnapshot(c)
            PROVE  lastGood' = lastGood
        BY <4>1 DEF OpenSnapshot, CopySnapshot
      <4>2. ASSUME NEW c \in Calls, OpenLastGood(c) \/ CopyLastGood(c)
            PROVE  FALSE
        BY <3>1, <4>2 DEF OpenLastGood, CopyLastGood, Goes
      <4>. QED  BY <1>3, <4>1, <4>2, CopiesUnchanged
    <3>3. faults <= faults' /\ crashes <= crashes'
      <4>1. ASSUME NEW c \in Calls, Start(c) \/ Capture(c) \/ Error(c)
            PROVE  faults <= faults' /\ crashes <= crashes'
        BY <1>0, <4>1 DEF Start, Capture, Error, Fault, bounds
      <4>2. ASSUME NEW c \in Calls,
                   Acquire(c) \/ WriteTemp(c) \/ ClearBackup(c) \/ BackUp(c) \/ Publish(c)
            PROVE  faults <= faults' /\ crashes <= crashes'
        BY <1>0, <4>2 DEF Acquire, WriteTemp, ClearBackup, BackUp, Publish, Goes, bounds
      <4>3. ASSUME NEW c \in Calls,
                   OpenLastGood(c) \/ CopyLastGood(c) \/ OpenSnapshot(c) \/ CopySnapshot(c)
            PROVE  faults <= faults' /\ crashes <= crashes'
        BY <1>0, <4>3 DEF OpenLastGood, CopyLastGood, OpenSnapshot, CopySnapshot, Goes, bounds
      <4>4. CASE Crash \/ UNCHANGED vars
        BY <1>0, <4>4 DEF Crash, vars, bounds
      <4>. QED  BY <1>3, <4>1, <4>2, <4>3, <4>4 DEF Next
    <3>. QED  BY <1>0, <2>3, <3>1, <3>2, <3>3 DEF LastKept
  <2>. QED  BY <2>1, <2>2, <2>3 DEF Survival
<1>. QED  BY <1>1, <1>2, <1>3

LEMMA SurvivalCorrect == Spec => []Survival
<1>1. Init => Survival
  BY DEF Init, Survival
<1>2. DiskInv /\ CopyInv /\ DiskInv' /\ Survival /\ [Next]_vars => Survival'
  BY SurvivalStep
<1>. QED  BY <1>1, <1>2, DiskInvCorrect, CopyInvCorrect, PTL DEF Spec

\* The first readable snapshot.
Newest(i) ==
  /\ i \in DOMAIN snaps /\ Readable(snaps[i])
  /\ \A k \in DOMAIN snaps : k < i => ~Readable(snaps[k])

LEMMA NewestIsLoaded ==
  ASSUME snaps \in Seq(Contents), NEW i, Newest(i)
  PROVE  NewestSnapshot = snaps[i]
<1>. DEFINE good == {k \in DOMAIN snaps : Readable(snaps[k])}
<1>1. good \subseteq Nat /\ i \in good /\ \A k \in good : i <= k
  BY DEF Newest
<1>2. \A j \in good : (\A k \in good : j <= k) => j = i
  BY <1>1
<1>3. (CHOOSE j \in good : \A k \in good : j <= k) = i
  <2>. HIDE DEF good
  <2>. QED  BY <1>1, <1>2
<1>. QED  BY <1>1, <1>3 DEF NewestSnapshot

LEMMA KeptIsFound ==
  ASSUME snaps \in Seq(Contents), SnapKept
  PROVE  Readable(NewestSnapshot)
<1>. DEFINE good == {k \in DOMAIN snaps : Readable(snaps[k])}
<1>1. good \in SUBSET Nat /\ good # {}
  BY DEF SnapKept
<1>2. PICK i \in good : \A k \in good : i <= k
  BY <1>1, LeastOf
<1>3. Newest(i)
  BY <1>1, <1>2 DEF Newest
<1>. QED  BY <1>3, NewestIsLoaded DEF Newest

(***************************************************************************)
(* After one acknowledged save something readable is always left: against  *)
(* one damaged file with any crashes and errors, and against two when no   *)
(* save was interrupted, write_recovery_copies left a copy to load.        *)
(***************************************************************************)
THEOREM HistoryIsKept == Spec => []HistorySurvives
<1>1. DiskInv /\ CopyInv /\ Survival => HistorySurvives
  <2>. SUFFICES ASSUME DiskInv, CopyInv, Survival, acked # {},
                       damage <= 1 \/ damage + faults + crashes <= 2
                PROVE  Readable(state) \/ Recoverable
    BY DEF HistorySurvives
  <2>1. /\ damage \in Nat /\ faults \in Nat /\ crashes \in Nat /\ snaps \in Seq(Contents)
    BY StoreAssumption DEF CopyInv, CopyTypes
  <2>2. \/ damage \in {0, 1}
        \/ damage = 2 /\ faults = 0 /\ crashes = 0
    BY <2>1
  <2>3. MainKept \/ LastKept \/ SnapKept \/ \E c \in Calls : pc[c] \in Committed
    BY <2>2 DEF Survival
  <2>4. (\E c \in Calls : pc[c] \in Committed) => Readable(state)
    BY DEF DiskInv, DiskTypes, Staged
  <2>. QED  BY <2>1, <2>3, <2>4, KeptIsFound DEF MainKept, LastKept, Recoverable
<1>. QED  BY <1>1, DiskInvCorrect, CopyInvCorrect, SurvivalCorrect, PTL
-----------------------------------------------------------------------------
(***************************************************************************)
(* How new the copies are.  The last good copy, when it can be read, and   *)
(* the newest readable snapshot are as new as every acknowledged version,  *)
(* the backup as every one but the last.  After one damaged file that is   *)
(* what a start falls back to; later steps lose nothing more.              *)
(***************************************************************************)
Covers(x) == \A v \in acked : v <= x

CopiesFresh ==
  /\ Readable(lastGood) => Covers(lastGood)
  /\ acked # {} => \E i \in DOMAIN snaps : Newest(i) /\ Covers(snaps[i])

BackupFresh == Readable(state) /\ Readable(bak) => \A v \in acked : v <= bak \/ v = state

LostFew == \E x : \A v \in acked : v <= OnDisk \/ v = x

\* After one damage: it is mended, or in a backup that nobody needs, or the
\* copies have to do.
Freshness ==
  ~stale =>
    /\ damage = 0 => CopiesFresh /\ BackupFresh
    /\ damage = 1 =>
         /\ LostFew
         /\ \/ Intact
            \/ Readable(state) /\ bak = Torn
            \/ ~Readable(state) /\ CopiesFresh

LEMMA VersionsAreNumbers ==
  ASSUME DiskInv
  PROVE  OnDisk \in Nat /\ (\A v \in acked : v \in Nat) /\ \A c \in Calls : ver[c] \in Nat
BY LoadType, StoreAssumption DEF DiskInv, DiskTypes

\* Without state.json and its backup the copies are as new as all that was
\* acknowledged.
LEMMA FallBack ==
  DiskInv /\ CopyInv /\ CopiesFresh /\ ~Readable(state) /\ ~Readable(bak) => Covers(OnDisk)
<1>. SUFFICES ASSUME DiskInv, CopyInv, CopiesFresh, ~Readable(state), ~Readable(bak)
              PROVE  Covers(OnDisk)
  OBVIOUS
<1>1. OnDisk = RecoveryCandidate
  BY DEF OnDisk
<1>2. CASE Readable(lastGood)
  <2>1. OnDisk = lastGood
    BY <1>1, <1>2 DEF RecoveryCandidate
  <2>. QED  BY <1>2, <2>1 DEF CopiesFresh
<1>3. CASE ~Readable(lastGood) /\ acked # {}
  <2>1. PICK i \in DOMAIN snaps : Newest(i) /\ Covers(snaps[i])
    BY <1>3 DEF CopiesFresh
  <2>2. NewestSnapshot = snaps[i] /\ Readable(snaps[i])
    BY <2>1, NewestIsLoaded DEF CopyInv, CopyTypes, Newest
  <2>3. OnDisk = snaps[i]
    BY <1>1, <1>3, <2>2 DEF RecoveryCandidate
  <2>. QED  BY <2>1, <2>3
<1>4. CASE acked = {}
  BY <1>4 DEF Covers
<1>. QED  BY <1>2, <1>3, <1>4

\* A published version covers everything acknowledged.
LEMMA CommittedCovers ==
  ASSUME DiskInv, AckedIsLoaded, damage = 0, ~stale, NEW c \in Calls, pc[c] \in Committed
  PROVE  Covers(ver[c]) /\ state = ver[c] /\ ver[c] \in Nat
<1>1. state = ver[c] /\ ver[c] \in Versions
  BY DEF DiskInv, DiskTypes, Staged
<1>2. OnDisk = ver[c]
  BY <1>1 DEF OnDisk
<1>. QED  BY <1>1, <1>2, StoreAssumption DEF AckedIsLoaded, Covers

LEMMA CopiesFreshStep ==
  ASSUME DiskInv, CopyInv, AckedIsLoaded, damage = 0, ~stale, CopiesFresh,
         [Next]_vars, ~Damage
  PROVE  CopiesFresh'
<1>. USE DEF Covers
<1>0. snaps \in Seq(Contents) /\ Len(snaps) \in Nat /\ DOMAIN snaps = 1..Len(snaps)
  BY DEF CopyInv, CopyTypes
<1>1. ASSUME NEW c \in Calls, OpenLastGood(c)
      PROVE  CopiesFresh'
  <2>1. UNCHANGED <<snaps, acked>> /\ lastGood' = Torn
    BY <1>1 DEF OpenLastGood, Goes
  <2>. QED  BY <2>1, StoreAssumption DEF CopiesFresh, Newest
<1>2. ASSUME NEW c \in Calls, CopyLastGood(c)
      PROVE  CopiesFresh'
  <2>1. UNCHANGED <<snaps, acked>> /\ lastGood' = state /\ pc[c] \in Committed
    BY <1>2 DEF CopyLastGood, Goes
  <2>2. Covers(state)
    BY <2>1, CommittedCovers
  <2>. QED  BY <2>1, <2>2 DEF CopiesFresh, Newest
<1>3. ASSUME NEW c \in Calls, OpenSnapshot(c)
      PROVE  CopiesFresh'
  <2>1. UNCHANGED <<lastGood, acked>>
    BY <1>3 DEF OpenSnapshot, Goes
  <2>2. /\ Len(snaps') = Len(snaps) + 1 /\ snaps' \in Seq(Contents) /\ snaps'[1] = Torn
        /\ \A i \in 1..Len(snaps) : snaps'[i+1] = snaps[i]
    BY <1>0, <1>3, OpenedSnapshot
  <2>3. ASSUME acked # {}
        PROVE  (\E i \in DOMAIN snaps : Newest(i) /\ Covers(snaps[i]))'
    <3>1. PICK i \in 1..Len(snaps) : Newest(i) /\ Covers(snaps[i])
      BY <1>0, <2>3 DEF CopiesFresh
    <3>2. DOMAIN snaps' = 1..Len(snaps)+1 /\ i + 1 \in DOMAIN snaps' /\ snaps'[i+1] = snaps[i]
      BY <1>0, <2>2
    <3>3. ASSUME NEW k \in DOMAIN snaps', k < i + 1
          PROVE  ~Readable(snaps'[k])
      <4>1. CASE k = 1
        BY <2>2, <4>1, StoreAssumption
      <4>2. CASE k # 1
        <5>1. k - 1 \in 1..Len(snaps) /\ k - 1 < i /\ (k - 1) + 1 = k
          BY <1>0, <3>2, <3>3, <4>2
        <5>2. snaps'[k] = snaps[k-1]
          BY <2>2, <5>1
        <5>. QED  BY <1>0, <3>1, <5>1, <5>2 DEF Newest
      <4>. QED  BY <4>1, <4>2
    <3>4. Newest(i)  /\ Readable(snaps[i])
      BY <3>1 DEF Newest
    <3>5. Newest(i + 1)'
      BY <3>2, <3>3, <3>4 DEF Newest
    <3>6. Covers(snaps[i+1])'
      BY <2>1, <3>1, <3>2
    <3>. QED  BY <3>2, <3>5, <3>6
  <2>. QED  BY <2>1, <2>3 DEF CopiesFresh
<1>4. ASSUME NEW c \in Calls, CopySnapshot(c)
      PROVE  CopiesFresh'
  <2>1. /\ UNCHANGED <<lastGood, acked>> /\ pc[c] \in Committed
        /\ snaps # <<>> /\ state \in Versions
    BY <1>4 DEF CopySnapshot, Goes, CopyInv, CopyStages, DiskInv, DiskTypes, Staged
  <2>2. snaps' \in Seq(Contents) /\ snaps' # <<>> /\ snaps'[1] = state
    BY <1>0, <1>4, <2>1, CopiedSnapshot
  <2>3. Covers(state)
    BY <2>1, CommittedCovers
  <2>4. 1 \in DOMAIN snaps' /\ \A k \in DOMAIN snaps' : ~(k < 1)
    BY <2>2
  <2>5. Newest(1)'
    BY <2>1, <2>2, <2>4 DEF Newest
  <2>. QED  BY <2>1, <2>2, <2>3, <2>4, <2>5 DEF CopiesFresh
<1>5. ASSUME NEW c \in Calls, Prune(c)
      PROVE  CopiesFresh'
  <2>1. /\ lastGood' = ver[c] /\ ver[c] \in Versions /\ ver[c] \in Nat
        /\ snaps' \in Seq(Contents) /\ 1 \in DOMAIN snaps' /\ snaps'[1] = ver[c]
        /\ acked' = acked \cup {ver[c]}
    BY <1>5, Reported, VersionsAreNumbers
  <2>2. Covers(ver[c])
    BY <1>5, CommittedCovers DEF Prune
  <2>3. \A v \in acked' : v <= ver[c]
    BY <2>1, <2>2
  <2>4. \A k \in DOMAIN snaps' : ~(k < 1)
    BY <2>1
  <2>5. Newest(1)'
    BY <2>1, <2>4 DEF Newest
  <2>. QED  BY <2>1, <2>3, <2>5 DEF CopiesFresh
<1>6. CASE UNCHANGED <<lastGood, snaps, acked>>
  BY <1>6 DEF CopiesFresh, Newest
<1>. QED  BY <1>1, <1>2, <1>3, <1>4, <1>5, <1>6, CopiesUnchanged

LEMMA BackupFreshStep ==
  ASSUME DiskInv, CopyInv, AckedIsLoaded, damage = 0, ~stale, BackupFresh,
         [Next]_vars, ~Damage
  PROVE  BackupFresh'
<1>. USE StoreAssumption DEF Goes, files, bounds
<1>0. DiskTypes /\ Staged /\ Intact
  BY DEF DiskInv
<1>1. ASSUME NEW c \in Calls, Start(c)
      PROVE  BackupFresh'
  BY <1>0, <1>1 DEF Start, Intact, BackupFresh
<1>2. ASSUME NEW c \in Calls, Capture(c) \/ Acquire(c) \/ WriteTemp(c) \/ ClearBackup(c)
      PROVE  BackupFresh'
  BY <1>0, <1>2 DEF Capture, Acquire, WriteTemp, ClearBackup, BackupFresh
<1>3. ASSUME NEW c \in Calls, BackUp(c)
      PROVE  BackupFresh'
  BY <1>0, <1>3 DEF BackUp, BackupFresh
<1>4. ASSUME NEW c \in Calls, Publish(c)
      PROVE  BackupFresh'
  <2>1. state = Absent /\ bak' = bak /\ acked' = acked
    BY <1>0, <1>4 DEF Publish, Staged
  <2>2. Readable(bak) => OnDisk = bak
    BY <2>1 DEF OnDisk, RecoveryCandidate
  <2>. QED  BY <2>1, <2>2 DEF BackupFresh, AckedIsLoaded
<1>5. ASSUME NEW c \in Calls, \/ OpenLastGood(c) \/ CopyLastGood(c) \/ OpenSnapshot(c)
                             \/ CopySnapshot(c)
      PROVE  BackupFresh'
  BY <1>5 DEF OpenLastGood, CopyLastGood, OpenSnapshot, CopySnapshot, BackupFresh
<1>6. ASSUME NEW c \in Calls, Prune(c)
      PROVE  BackupFresh'
  BY <1>6, Reported DEF BackupFresh
<1>7. ASSUME NEW c \in Calls, Error(c)
      PROVE  BackupFresh'
  BY <1>7 DEF Error, BackupFresh
<1>8. CASE Crash \/ UNCHANGED vars
  BY <1>8 DEF Crash, vars, BackupFresh
<1>. QED  BY <1>1, <1>2, <1>3, <1>4, <1>5, <1>6, <1>7, <1>8 DEF Next

\* The damage: what a start falls back to, and what is left to fall back to.
LEMMA DamageStrikes ==
  ASSUME DiskInv, CopyInv, Survival, AckedIsLoaded, damage = 0, ~stale, CopiesFresh, BackupFresh,
         DiskInv', CopyInv', Damage
  PROVE  /\ LostFew'
         /\ (Intact \/ (Readable(state) /\ bak = Torn) \/ (~Readable(state) /\ CopiesFresh))'
<1>0. /\ acked' = acked /\ Covers(OnDisk) /\ Intact
      /\ OnDisk \in Nat /\ OnDisk' \in Nat /\ \A v \in acked : v \in Nat
  <2>1. (OnDisk \in Versions)'
    BY LoadType, PTL
  <2>. QED
    BY <2>1, VersionsAreNumbers, StoreAssumption DEF Damage, AckedIsLoaded, DiskInv, Covers
<1>1. ASSUME Covers(OnDisk')
      PROVE  LostFew'
  BY <1>0, <1>1 DEF LostFew, Covers
<1>2. CASE UNCHANGED <<lastGood, snaps>> /\ ~Readable(state')
  <2>1. CopiesFresh'
    BY <1>0, <1>2 DEF CopiesFresh, Newest, Covers
  <2>2. CASE Readable(bak') /\ Readable(state)
    <3>1. bak' = bak /\ OnDisk' = bak
      BY <1>2, <2>2, StoreAssumption DEF Damage, OnDisk, RecoveryCandidate
    <3>. QED  BY <1>0, <1>2, <2>1, <2>2, <3>1 DEF BackupFresh, LostFew
  <2>3. CASE Readable(bak') /\ ~Readable(state)
    <3>1. bak' = bak /\ OnDisk' = bak /\ OnDisk = bak
      BY <1>2, <2>3, StoreAssumption DEF Damage, OnDisk, RecoveryCandidate
    <3>. QED  BY <1>0, <1>1, <1>2, <2>1, <3>1
  <2>4. CASE ~Readable(bak')
    <3>1. Covers(OnDisk)'
      <4>1. (DiskInv /\ CopyInv /\ CopiesFresh /\ ~Readable(state) /\ ~Readable(bak) =>
               Covers(OnDisk))'
        BY FallBack, PTL
      <4>. QED  BY <1>2, <2>1, <2>4, <4>1
    <3>. QED  BY <1>0, <1>1, <1>2, <2>1, <3>1 DEF Covers
  <2>. QED  BY <2>2, <2>3, <2>4
<1>3. CASE Readable(state') /\ state' = state
  <2>1. OnDisk' = OnDisk
    BY <1>3 DEF OnDisk
  <2>2. bak' = bak \/ bak' = Torn
    BY DEF Damage
  <2>. QED  BY <1>0, <1>1, <1>3, <2>1, <2>2 DEF Intact
<1>4. CASE UNCHANGED <<state, bak>> /\ ~Readable(state)
  <2>1. Intact'
    BY <1>0, <1>4 DEF Intact
  <2>2. acked = {} => LostFew'
    BY <1>0 DEF LostFew
  <2>3. acked # {} => OnDisk' = OnDisk
    BY <1>4 DEF Survival, MainKept, OnDisk, RecoveryCandidate
  <2>. QED  BY <1>0, <1>1, <2>1, <2>2, <2>3
<1>5. \/ UNCHANGED <<lastGood, snaps>> /\ ~Readable(state')
      \/ Readable(state') /\ state' = state
      \/ UNCHANGED <<state, bak>> /\ ~Readable(state)
  BY StoreAssumption DEF Damage
<1>. QED  BY <1>2, <1>3, <1>4, <1>5

\* Not stale before, and every version published covers what was on disk.
LEMMA StaleStays ==
  ASSUME DiskInv, [Next]_vars, ~stale'
  PROVE  ~stale /\ \A c \in Calls : Publish(c) => OnDisk <= ver[c]
<1>0. OnDisk \in Nat /\ \A c \in Calls : ver[c] \in Nat
  BY VersionsAreNumbers
<1>1. ASSUME NEW c \in Calls, Publish(c)
      PROVE  ~stale /\ OnDisk <= ver[c]
  <2>1. ~stale /\ ~(ver[c] < OnDisk)
    BY <1>1 DEF Publish
  <2>. QED  BY <1>0, <2>1
<1>2. CASE ~\E c \in Calls : Publish(c)
  <2>1. ASSUME NEW c \in Calls, Start(c) \/ Capture(c) \/ Prune(c) \/ Error(c)
        PROVE  stale' = stale
    BY <2>1 DEF Start, Capture, Prune, Return, Error
  <2>2. ASSUME NEW c \in Calls, \/ Acquire(c) \/ WriteTemp(c) \/ ClearBackup(c) \/ BackUp(c)
                               \/ OpenLastGood(c) \/ CopyLastGood(c) \/ OpenSnapshot(c)
                               \/ CopySnapshot(c)
        PROVE  stale' = stale
    BY <2>2 DEF Acquire, WriteTemp, ClearBackup, BackUp, OpenLastGood, CopyLastGood,
                OpenSnapshot, CopySnapshot
  <2>3. Crash \/ Damage \/ UNCHANGED vars => stale' = stale
    BY DEF Crash, Damage, vars
  <2>. QED  BY <1>2, <2>1, <2>2, <2>3 DEF Next
<1>. QED  BY <1>1, <1>2

\* What a published version does to what is lost: nothing more.
LEMMA PublishLosesNothing ==
  ASSUME DiskInv, LostFew, NEW c \in Calls, Publish(c), OnDisk <= ver[c]
  PROVE  LostFew' /\ Readable(state') /\ bak' = bak
<1>1. state' = ver[c] /\ ver[c] \in Versions /\ acked' = acked /\ bak' = bak
  BY DEF Publish, Goes, DiskInv, DiskTypes, Staged
<1>2. OnDisk' = ver[c]
  BY <1>1 DEF OnDisk
<1>3. PICK x : \A v \in acked : v <= OnDisk \/ v = x
  BY DEF LostFew
<1>4. \A v \in acked : v <= OnDisk => v <= ver[c]
  BY VersionsAreNumbers
<1>. QED  BY <1>1, <1>2, <1>3, <1>4 DEF LostFew

\* A step that keeps what a start loads, and acknowledges nothing else.
LEMMA LostStays ==
  ASSUME DiskInv, CopyInv, LostFew, OnDisk' = OnDisk,
         acked' = acked \/ \E c \in Calls : Prune(c)
  PROVE  LostFew'
<1>1. PICK x : \A v \in acked : v <= OnDisk \/ v = x
  BY DEF LostFew
<1>2. CASE acked' = acked
  BY <1>1, <1>2 DEF LostFew
<1>3. CASE \E c \in Calls : Prune(c)
  <2>1. PICK c \in Calls : Prune(c)
    BY <1>3
  <2>2. acked' = acked \cup {ver[c]} /\ state' = ver[c] /\ ver[c] \in Versions
    BY <2>1, Reported
  <2>3. OnDisk' = ver[c] /\ ver[c] \in Nat
    BY <2>2, VersionsAreNumbers DEF OnDisk
  <2>. QED  BY <1>1, <2>2, <2>3 DEF LostFew
<1>. QED  BY <1>2, <1>3

\* A damaged backup beside a state.json that can be read is never loaded, and
\* goes with the next save.
LEMMA TornBackup ==
  ASSUME DiskInv, CopyInv, LostFew, Readable(state), bak = Torn, [Next]_vars, ~Damage
  PROVE  LostFew' /\ Readable(state') /\ (bak' = Torn \/ Intact')
<1>. USE StoreAssumption DEF DiskInv, DiskTypes, Staged, Goes, files, bounds
<1>1. ASSUME NEW c \in Calls, BackUp(c) \/ Publish(c)
      PROVE  FALSE
  BY <1>1 DEF BackUp, Publish
<1>2. state' = state /\ (bak' = bak \/ bak' = Absent)
  <2>1. ASSUME NEW c \in Calls, Start(c) \/ Capture(c)
        PROVE  state' = state /\ bak' = bak
    BY <2>1 DEF Start, Capture
  <2>2. ASSUME NEW c \in Calls, Acquire(c) \/ WriteTemp(c) \/ ClearBackup(c)
        PROVE  state' = state /\ (bak' = bak \/ bak' = Absent)
    BY <2>2 DEF Acquire, WriteTemp, ClearBackup
  <2>3. ASSUME NEW c \in Calls, \/ OpenLastGood(c) \/ CopyLastGood(c) \/ OpenSnapshot(c)
                               \/ CopySnapshot(c) \/ Prune(c)
        PROVE  state' = state /\ bak' = bak
    BY <2>3 DEF OpenLastGood, CopyLastGood, OpenSnapshot, CopySnapshot, Prune, Return
  <2>4. ASSUME NEW c \in Calls, Error(c)
        PROVE  state' = state /\ bak' = bak
    BY <2>4 DEF Error
  <2>5. CASE Crash \/ UNCHANGED vars
    BY <2>5 DEF Crash, vars
  <2>. QED  BY <1>1, <2>1, <2>2, <2>3, <2>4, <2>5 DEF Next
<1>3. OnDisk' = OnDisk
  BY <1>2 DEF OnDisk
<1>4. acked' = acked \/ \E c \in Calls : Prune(c)
  <2>1. ASSUME NEW c \in Calls, \/ OpenLastGood(c) \/ CopyLastGood(c) \/ OpenSnapshot(c)
                               \/ CopySnapshot(c)
        PROVE  acked' = acked
    BY <2>1 DEF OpenLastGood, CopyLastGood, OpenSnapshot, CopySnapshot
  <2>. QED  BY <2>1, CopiesUnchanged
<1>. QED  BY <1>2, <1>3, <1>4, LostStays DEF Intact

\* Without a state.json that can be read no call is past its publication; the
\* copies stay as they are, until the file is set aside or published anew.
LEMMA UnreadableState ==
  ASSUME DiskInv, CopyInv, LostFew, CopiesFresh, ~Readable(state), ~stale', [Next]_vars, ~Damage,
         DiskInv', CopyInv'
  PROVE  /\ LostFew'
         /\ Intact' \/ (Readable(state') /\ bak' = Torn) \/ (~Readable(state') /\ CopiesFresh')
<1>. USE StoreAssumption DEF Goes, files, bounds
<1>0. /\ \A c \in Calls : pc[c] \notin Committed
      /\ state \in {Absent, Torn} /\ bak \in Versions \cup {Absent, Torn}
  BY DEF DiskInv, DiskTypes, Staged
<1>1. CASE \E c \in Calls : Publish(c)
  BY <1>0, <1>1, StaleStays, PublishLosesNothing DEF Intact, DiskInv, DiskTypes
<1>2. CASE ~\E c \in Calls : Publish(c)
  <2>1. UNCHANGED <<lastGood, snaps, acked>>
    <3>1. ASSUME NEW c \in Calls, \/ OpenLastGood(c) \/ CopyLastGood(c) \/ OpenSnapshot(c)
                                 \/ CopySnapshot(c) \/ Prune(c)
          PROVE  FALSE
      BY <1>0, <3>1 DEF OpenLastGood, CopyLastGood, OpenSnapshot, CopySnapshot, Prune
    <3>. QED  BY <3>1, CopiesUnchanged
  <2>2. CopiesFresh'
    BY <2>1 DEF CopiesFresh, Newest, Covers
  <2>3. \/ state' \in {Absent, Torn} /\ bak' = bak
        \/ state' \in {Absent, Torn} /\ ~Readable(bak')
        \/ state' = bak /\ bak' = Absent
    <3>1. ASSUME NEW c \in Calls, Start(c) \/ Capture(c)
          PROVE  state' \in {Absent, Torn} /\ bak' = bak
      BY <1>0, <3>1 DEF Start, Capture
    <3>2. ASSUME NEW c \in Calls, Acquire(c) \/ WriteTemp(c) \/ ClearBackup(c)
          PROVE  state' \in {Absent, Torn} /\ (bak' = bak \/ ~Readable(bak'))
      BY <1>0, <3>2 DEF Acquire, WriteTemp, ClearBackup
    <3>3. ASSUME NEW c \in Calls, BackUp(c)
          PROVE  state' \in {Absent, Torn} /\ ~Readable(bak')
      BY <1>0, <3>3 DEF BackUp
    <3>4. ASSUME NEW c \in Calls, Error(c)
          PROVE  UNCHANGED <<state, bak>> \/ (state' = bak /\ bak' = Absent)
      BY <3>4 DEF Error
    <3>5. Crash \/ UNCHANGED vars => UNCHANGED <<state, bak>>
      BY DEF Crash, vars
    <3>6. ASSUME NEW c \in Calls, \/ OpenLastGood(c) \/ CopyLastGood(c) \/ OpenSnapshot(c)
                                 \/ CopySnapshot(c) \/ Prune(c)
          PROVE  FALSE
      BY <1>0, <3>6 DEF OpenLastGood, CopyLastGood, OpenSnapshot, CopySnapshot, Prune
    <3>7. \/ state' \in {Absent, Torn} /\ (bak' = bak \/ ~Readable(bak'))
          \/ UNCHANGED <<state, bak>>
          \/ state' = bak /\ bak' = Absent
      BY <1>2, <3>1, <3>2, <3>3, <3>4, <3>5, <3>6 DEF Next
    <3>. QED  BY <1>0, <3>7
  <2>4. CASE state' \in {Absent, Torn} /\ ~Readable(bak')
    <3>1. (DiskInv /\ CopyInv /\ CopiesFresh /\ ~Readable(state) /\ ~Readable(bak) =>
             Covers(OnDisk))'
      BY FallBack, PTL
    <3>2. \A v \in acked' : v <= OnDisk'
      BY <2>2, <2>4, <3>1 DEF Covers
    <3>. QED  BY <2>2, <2>4, <3>2 DEF LostFew
  <2>5. CASE state' \in {Absent, Torn} /\ bak' = bak /\ Readable(bak)
    <3>1. OnDisk' = OnDisk
      BY <1>0, <2>5 DEF OnDisk, RecoveryCandidate
    <3>. QED  BY <2>1, <2>2, <2>5, <3>1, LostStays
  <2>6. CASE state' = bak /\ bak' = Absent /\ Readable(bak)
    <3>1. OnDisk' = OnDisk /\ Intact'
      BY <1>0, <2>6 DEF OnDisk, RecoveryCandidate, Intact
    <3>. QED  BY <2>1, <3>1, LostStays
  <2>7. \/ state' \in {Absent, Torn} /\ ~Readable(bak')
        \/ state' \in {Absent, Torn} /\ bak' = bak /\ Readable(bak)
        \/ state' = bak /\ bak' = Absent /\ Readable(bak)
    BY <1>0, <2>3
  <2>. QED  BY <2>4, <2>5, <2>6, <2>7
<1>. QED  BY <1>1, <1>2

LEMMA FreshnessStep ==
  ASSUME DiskInv, CopyInv, Survival, AckedIsLoaded, Freshness, [Next]_vars, DiskInv', CopyInv'
  PROVE  Freshness'
<1>. SUFFICES ASSUME ~stale'
              PROVE  /\ damage' = 0 => CopiesFresh' /\ BackupFresh'
                     /\ damage' = 1 => /\ LostFew'
                                       /\ \/ Intact'
                                          \/ Readable(state') /\ bak' = Torn
                                          \/ ~Readable(state') /\ CopiesFresh'
  BY DEF Freshness
<1>0. ~stale /\ damage \in Nat
  BY StaleStays, StoreAssumption DEF CopyInv, CopyTypes
<1>1. CASE Damage
  <2>1. damage' = damage + 1
    BY <1>1 DEF Damage
  <2>2. CASE damage = 0
    BY <1>0, <1>1, <2>1, <2>2, DamageStrikes DEF Freshness
  <2>. QED  BY <1>0, <2>1, <2>2
<1>2. CASE ~Damage
  <2>1. damage' = damage
    <3>1. ASSUME NEW c \in Calls, \/ OpenLastGood(c) \/ CopyLastGood(c) \/ OpenSnapshot(c)
                                 \/ CopySnapshot(c) \/ Prune(c)
          PROVE  damage' = damage
      BY <3>1 DEF OpenLastGood, CopyLastGood, OpenSnapshot, CopySnapshot, Prune, Return, Goes,
                  bounds
    <3>. QED  BY <1>2, <3>1, CopiesUnchanged
  <2>2. CASE damage = 0
    BY <1>0, <1>2, <2>1, <2>2, CopiesFreshStep, BackupFreshStep DEF Freshness
  <2>3. CASE damage = 1
    <3>1. LostFew
      BY <1>0, <2>3 DEF Freshness
    <3>2. CASE Intact
      <4>1. Intact'
        BY <1>2, <3>2, IntactStep DEF DiskInv
      <4>2. LostFew'
        <5>1. CASE \E c \in Calls : Publish(c)
          BY <3>1, <5>1, StaleStays, PublishLosesNothing
        <5>2. CASE ~\E c \in Calls : Publish(c)
          <6>1. OnDisk' = OnDisk
            BY <1>2, <3>2, <5>2, LoadStays DEF DiskInv
          <6>2. acked' = acked \/ \E c \in Calls : Prune(c)
            <7>1. ASSUME NEW c \in Calls, \/ OpenLastGood(c) \/ CopyLastGood(c)
                                         \/ OpenSnapshot(c) \/ CopySnapshot(c)
                  PROVE  acked' = acked
              BY <7>1 DEF OpenLastGood, CopyLastGood, OpenSnapshot, CopySnapshot, Goes
            <7>. QED  BY <1>2, <7>1, CopiesUnchanged
          <6>. QED  BY <3>1, <6>1, <6>2, LostStays
        <5>. QED  BY <5>1, <5>2
      <4>. QED  BY <2>1, <2>3, <4>1, <4>2
    <3>3. CASE Readable(state) /\ bak = Torn
      BY <1>2, <2>1, <2>3, <3>1, <3>3, TornBackup
    <3>4. CASE ~Readable(state) /\ CopiesFresh
      BY <1>2, <2>1, <2>3, <3>1, <3>4, UnreadableState
    <3>. QED  BY <1>0, <2>3, <3>2, <3>3, <3>4 DEF Freshness
  <2>. QED  BY <2>1, <2>2, <2>3
<1>. QED  BY <1>1, <1>2

LEMMA FreshnessCorrect == Spec => []Freshness
<1>1. Init => Freshness
  BY StoreAssumption DEF Init, Freshness, CopiesFresh, BackupFresh, Covers
<1>2. DiskInv /\ CopyInv /\ Survival /\ AckedIsLoaded /\ Freshness /\ [Next]_vars
        /\ DiskInv' /\ CopyInv' => Freshness'
  <2>. SUFFICES ASSUME DiskInv, CopyInv, Survival, AckedIsLoaded, Freshness, [Next]_vars,
                       DiskInv', CopyInv'
                PROVE  Freshness'
    OBVIOUS
  <2>. QED  BY FreshnessStep
<1>. QED
  BY <1>1, <1>2, DiskInvCorrect, CopyInvCorrect, SurvivalCorrect, AckedIsDurable, PTL DEF Spec

(***************************************************************************)
(* One damaged file costs one acknowledged save at most, the last one,     *)
(* through every later crash, error, start and save of persist_state,      *)
(* unless an older version was saved over a newer one.                     *)
(***************************************************************************)
THEOREM DamageCostsLittle == Spec => []OneDamageCostsOneSave
<1>1. DiskInv /\ CopyInv /\ AckedIsLoaded /\ Freshness => OneDamageCostsOneSave
  <2>. SUFFICES ASSUME DiskInv, CopyInv, AckedIsLoaded, Freshness, damage <= 1, ~stale
                PROVE  Cardinality({v \in acked : v > OnDisk}) <= 1
    BY DEF OneDamageCostsOneSave
  <2>. DEFINE lost == {v \in acked : v > OnDisk}
  <2>1. damage \in {0, 1}
    BY StoreAssumption DEF CopyInv, CopyTypes
  <2>2. \E x : lost \subseteq {x}
    <3>1. CASE damage = 0
      <4>1. \A v \in acked : ~(v > OnDisk)
        BY <3>1, VersionsAreNumbers DEF AckedIsLoaded
      <4>. QED  BY <4>1
    <3>2. CASE damage = 1
      <4>1. PICK x : \A v \in acked : v <= OnDisk \/ v = x
        BY <3>2 DEF Freshness, LostFew
      <4>2. \A v \in lost : v = x
        BY <4>1, VersionsAreNumbers
      <4>. QED  BY <4>2
    <3>. QED  BY <2>1, <3>1, <3>2
  <2>. HIDE DEF lost
  <2>3. lost = {} \/ \E x : lost = {x}
    BY <2>2
  <2>4. Cardinality(lost) = 0 \/ Cardinality(lost) = 1
    BY <2>3, FS_EmptySet, FS_Singleton
  <2>5. Cardinality(lost) <= 1
    BY <2>4
  <2>. QED  BY <2>5 DEF lost
<1>. QED  BY <1>1, DiskInvCorrect, CopyInvCorrect, AckedIsDurable, FreshnessCorrect, PTL
=============================================================================
