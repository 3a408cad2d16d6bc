--------------------------- MODULE DownloadQueue_proofs ---------------------------
(***************************************************************************)
(* For any jobs, workers, limits and bounds: the queue keeps its types,    *)
(* every occupied slot has an owner, and a job has one worker at most      *)
(* unless its slot was given up early, the limits bound the workers, a job *)
(* comes back only in the known ways, and while nothing fails a job that   *)
(* could be scheduled has a scheduler run ahead of it.                     *)
(***************************************************************************)
EXTENDS DownloadQueue, FiniteSetTheorems, TLAPS

LEMMA AnyJobType == AnyJob \in Jobs
BY QueueAssumption DEF AnyJob

(***************************************************************************)
(* Type correctness, one step per action.                                  *)
(***************************************************************************)
LEMMA InitTypeOK == Init => TypeOK
<1>1. ASSUME Init
      PROVE  jobState \in [Jobs -> JobStates]
  BY <1>1, QueueAssumption DEF Init, JobStates, RestStates
<1>2. 0 \in 0 .. MaxCommands /\ 0 \in 0 .. MaxFaults /\ 0 \in 0 .. MaxCrashes
  BY QueueAssumption
<1>3. ASSUME Init
      PROVE  /\ wpc \in [Workers -> WorkerPcs]
             /\ wjob \in [Workers -> Jobs]
             /\ wpurge \in [Workers -> BOOLEAN]
  BY <1>3, AnyJobType DEF Init, WorkerPcs
<1>. QED  BY <1>1, <1>2, <1>3, ZenonT(60) DEF Init, TypeOK

(***************************************************************************)
(* The parts that many actions share.                                      *)
(***************************************************************************)
LEMMA FaultType ==
  ASSUME TypeOK, Fault \/ NoFault
  PROVE  faults' \in 0 .. MaxFaults
BY QueueAssumption DEF TypeOK, Fault, NoFault

LEMMA WakeType ==
  ASSUME TypeOK, Wake
  PROVE  /\ sched' \in {"idle", "claim", "persist", "start", "complete"}
         /\ pending' \in BOOLEAN
BY DEF TypeOK, Wake

LEMMA ReplyType ==
  ASSUME TypeOK, Reply
  PROVE  /\ sched' \in {"idle", "claim", "persist", "start", "complete"}
         /\ pending' \in BOOLEAN
         /\ faults' \in 0 .. MaxFaults
<1>1. CASE NoFault /\ Wake
  BY <1>1, WakeType, FaultType
<1>2. CASE Fault /\ UNCHANGED <<sched, pending>>
  BY <1>2, FaultType DEF TypeOK
<1>. QED  BY <1>1, <1>2 DEF Reply

LEMMA CommandType ==
  ASSUME TypeOK, Command
  PROVE  /\ commands' \in 0 .. MaxCommands
         /\ UNCHANGED <<timers, tasks, workerVars, crashes, dropped>>
BY QueueAssumption DEF TypeOK, Command

LEMMA MoveAllType ==
  ASSUME TypeOK, NEW S, NEW s \in JobStates, MoveAll(S, s)
  PROVE  jobState' \in [Jobs -> JobStates]
BY DEF TypeOK, MoveAll

LEMMA CleanUpLaterType ==
  ASSUME TypeOK, NEW j \in Jobs, CleanUpLater(j)
  PROVE  /\ removal' \in [Jobs -> {"none", "Removing", "CleanupFailed"}]
         /\ cleanup' \in [Jobs -> {"none", "wait", "delete", "deleted"}]
         /\ sched' \in {"idle", "claim", "persist", "start", "complete"}
         /\ pending' \in BOOLEAN
         /\ faults' \in 0 .. MaxFaults
<1>1. removal' \in [Jobs -> {"none", "Removing", "CleanupFailed"}]
  BY DEF TypeOK, CleanUpLater
<1>2. CASE /\ NoFault /\ Wake
           /\ cleanup' = [cleanup EXCEPT ![j] = IF j \in active THEN "wait" ELSE "delete"]
  BY <1>1, <1>2, WakeType, FaultType DEF TypeOK
<1>3. CASE Fault /\ UNCHANGED <<sched, pending, cleanup>>
  BY <1>1, <1>3, FaultType DEF TypeOK
<1>. QED  BY <1>2, <1>3 DEF CleanUpLater

LEMMA TypeOKStep ==
  ASSUME TypeOK, [Next]_vars
  PROVE  TypeOK'
<1>. USE QueueAssumption
     DEF TypeOK, JobStates, RestStates, WorkerPcs, Holding, Writing,
         jobVars, slotVars, schedVars, workerVars, historyVars
<1>1. CASE Claim
  BY <1>1 DEF Claim, Claimable, Eligible, Normal
<1>2. CASE PersistClaim
  BY <1>2, FaultType DEF PersistClaim
<1>3. CASE CompleteRun
  BY <1>3 DEF CompleteRun
<1>4. CASE PauseAll
  BY <1>4, ReplyType, CommandType, MoveAllType DEF PauseAll
<1>5. CASE ResumeAll
  BY <1>5, ReplyType, CommandType, MoveAllType DEF ResumeAll
<1>6. CASE RetryFailed
  BY <1>6, ReplyType, CommandType, MoveAllType DEF RetryFailed
<1>7. CASE ClearCompleted
  BY <1>7, CommandType, MoveAllType DEF ClearCompleted, Vanish
<1>8. ASSUME NEW j \in Jobs, NEW w \in Workers, StartWorker(j, w)
      PROVE  TypeOK'
  BY <1>8 DEF StartWorker
<1>9. ASSUME NEW j \in Jobs, DeferExpires(j)
      PROVE  TypeOK'
  BY <1>9 DEF DeferExpires
<1>10. ASSUME NEW j \in Jobs, DelayedWake(j)
      PROVE  TypeOK'
  BY <1>10, WakeType DEF DelayedWake
<1>11. ASSUME NEW j \in Jobs, Pause(j)
      PROVE  TypeOK'
  BY <1>11, ReplyType, CommandType, MoveAllType DEF Pause
<1>12. ASSUME NEW j \in Jobs, Resume(j)
      PROVE  TypeOK'
  BY <1>12, ReplyType, CommandType, MoveAllType DEF Resume
<1>13. ASSUME NEW j \in Jobs, Retry(j)
      PROVE  TypeOK'
  BY <1>13, ReplyType, CommandType DEF Retry, SetState
<1>14. ASSUME NEW j \in Jobs, Restart(j)
      PROVE  TypeOK'
  BY <1>14, ReplyType, CommandType DEF Restart, SetState
<1>15. ASSUME NEW j \in Jobs, Remove(j)
      PROVE  TypeOK'
  BY <1>15, ReplyType, CommandType, MoveAllType DEF Remove, Release, ReleasedEarly, Vanish
<1>16. ASSUME NEW j \in Jobs, CancelRead(j)
      PROVE  TypeOK'
  BY <1>16, CommandType DEF CancelRead
<1>17. ASSUME NEW j \in Jobs, CancelUnlink(j)
      PROVE  TypeOK'
  BY <1>17 DEF CancelUnlink
<1>18. ASSUME NEW j \in Jobs, CancelCommit(j)
      PROVE  TypeOK'
  BY <1>18, ReplyType DEF CancelCommit, SetState
<1>19. ASSUME NEW j \in Jobs, RetryBulkRead(j)
      PROVE  TypeOK'
  BY <1>19, CommandType DEF RetryBulkRead
<1>20. ASSUME NEW j \in Jobs, RetryBulkCommit(j)
      PROVE  TypeOK'
  BY <1>20, ReplyType DEF RetryBulkCommit, SetState, Release, ReleasedEarly
<1>21. ASSUME NEW j \in Jobs, CancelForDelete(j)
      PROVE  TypeOK'
  BY <1>21, CleanUpLaterType, CommandType, MoveAllType DEF CancelForDelete
<1>22. ASSUME NEW j \in Jobs, DeleteFromDisk(j)
      PROVE  TypeOK'
  BY <1>22, CleanUpLaterType, CommandType DEF DeleteFromDisk
<1>23. ASSUME NEW j \in Jobs, CleanupReleased(j)
      PROVE  TypeOK'
  BY <1>23 DEF CleanupReleased, CleanupStep
<1>24. ASSUME NEW j \in Jobs, CleanupFails(j)
      PROVE  TypeOK'
  BY <1>24, ReplyType DEF CleanupFails, CleanupStep, Release, ReleasedEarly, SetState
<1>25. ASSUME NEW j \in Jobs, CleanupDelete(j)
      PROVE  TypeOK'
  BY <1>25 DEF CleanupDelete, CleanupStep
<1>26. ASSUME NEW j \in Jobs, CleanupDone(j)
      PROVE  TypeOK'
  BY <1>26, ReplyType, MoveAllType DEF CleanupDone, CleanupStep, Release, ReleasedEarly, Vanish
<1>27. ASSUME NEW w \in Workers, WorkerEnter(w)
      PROVE  TypeOK'
  BY <1>27 DEF WorkerEnter, WorkerStep
<1>28. ASSUME NEW w \in Workers, Defer(w)
      PROVE  TypeOK'
  BY <1>28, FaultType DEF Defer, WorkerStep, SetState, ReleasedEarly
<1>29. ASSUME NEW w \in Workers, AttemptFails(w)
      PROVE  TypeOK'
  BY <1>29 DEF AttemptFails, Proceed, WorkerStep, Writing
<1>30. ASSUME NEW w \in Workers, MarkDownloading(w)
      PROVE  TypeOK'
  BY <1>30, FaultType DEF MarkDownloading, Saved, NotFound, WorkerStep, SetState, TransferState
<1>31. ASSUME NEW w \in Workers, OpenPartial(w)
      PROVE  TypeOK'
  BY <1>31 DEF OpenPartial, WorkerStep
<1>32. ASSUME NEW w \in Workers, Progress(w)
      PROVE  TypeOK'
  BY <1>32, FaultType DEF Progress, Saved, NotFound, WorkerStep, SetState, TransferState, Writing
<1>33. ASSUME NEW w \in Workers, Poll(w)
      PROVE  TypeOK'
  BY <1>33 DEF Poll, Proceed, WorkerStep
<1>34. ASSUME NEW w \in Workers, ObserveStop(w)
      PROVE  TypeOK'
  BY <1>34 DEF ObserveStop, Proceed, WorkerStep
<1>35. ASSUME NEW w \in Workers, Finish(w)
      PROVE  TypeOK'
  BY <1>35 DEF Finish, WorkerStep, Writing
<1>36. ASSUME NEW w \in Workers, CompleteJob(w)
      PROVE  TypeOK'
  BY <1>36, FaultType DEF CompleteJob, NotFound, WorkerStep, SetState, Release, ReleasedEarly
<1>37. ASSUME NEW w \in Workers, RecordRetry(w)
      PROVE  TypeOK'
  BY <1>37, FaultType DEF RecordRetry, Saved, NotFound, WorkerStep
<1>38. ASSUME NEW w \in Workers, BackoffOver(w)
      PROVE  TypeOK'
  BY <1>38 DEF BackoffOver, Proceed, WorkerStep
<1>39. ASSUME NEW w \in Workers, Exhausted(w)
      PROVE  TypeOK'
  BY <1>39 DEF Exhausted, Proceed, WorkerStep
<1>40. ASSUME NEW w \in Workers, GiveUp(w)
      PROVE  TypeOK'
  BY <1>40 DEF GiveUp, Proceed, WorkerStep
<1>41. ASSUME NEW w \in Workers, PauseRecoverably(w)
      PROVE  TypeOK'
  BY <1>41, FaultType DEF PauseRecoverably, Saved, WorkerStep, SetState, Release, ReleasedEarly
<1>42. ASSUME NEW w \in Workers, AutoRestart(w)
      PROVE  TypeOK'
  BY <1>42, FaultType DEF AutoRestart, WorkerStep, SetState, Release, ReleasedEarly
<1>43. ASSUME NEW w \in Workers, FailJob(w)
      PROVE  TypeOK'
  BY <1>43 DEF FailJob, WorkerStep, Release
<1>44. ASSUME NEW w \in Workers, FinishInterrupted(w)
      PROVE  TypeOK'
  BY <1>44 DEF FinishInterrupted, WorkerStep, Release
<1>45. ASSUME NEW w \in Workers, DecidePurge(w)
      PROVE  TypeOK'
  BY <1>45 DEF DecidePurge, Proceed, WorkerStep
<1>46. ASSUME NEW w \in Workers, Purge(w)
      PROVE  TypeOK'
  BY <1>46 DEF Purge, WorkerStep
<1>47. ASSUME NEW w \in Workers, WorkerExit(w)
      PROVE  TypeOK'
  BY <1>47, WakeType, AnyJobType DEF WorkerExit
<1>48. CASE Crash
  <2>1. ASSUME NEW j \in Jobs
        PROVE  /\ Normalized(j).state \in JobStates
               /\ Normalized(j).removal \in {"none", "Removing", "CleanupFailed"}
    BY DEF Normalized
  <2>2. /\ jobState' \in [Jobs -> JobStates]
        /\ removal' \in [Jobs -> {"none", "Removing", "CleanupFailed"}]
    BY <1>48, <2>1 DEF Crash
  <2>3. crashes' \in 0 .. MaxCrashes
    BY <1>48 DEF Crash
  <2>. QED  BY <1>48, <2>2, <2>3, AnyJobType DEF Crash
<1>49. CASE UNCHANGED vars
  BY <1>49 DEF vars
<1>. QED
  BY <1>1, <1>2, <1>3, <1>4, <1>5, <1>6, <1>7, <1>8, <1>9, <1>10, <1>11, <1>12, <1>13, <1>14, <1>15, <1>16, <1>17, <1>18, <1>19, <1>20, <1>21, <1>22, <1>23, <1>24, <1>25, <1>26, <1>27, <1>28, <1>29, <1>30, <1>31, <1>32, <1>33, <1>34, <1>35, <1>36, <1>37, <1>38, <1>39, <1>40, <1>41, <1>42, <1>43, <1>44, <1>45, <1>46, <1>47, <1>48, <1>49
  DEF Next, SchedulerNext, WorkerNext, CommandNext, CleanupNext

(***************************************************************************)
(* The queue never leaves its types.                                       *)
(***************************************************************************)
THEOREM TypeCorrect == Spec => []TypeOK
<1>. QED  BY InitTypeOK, TypeOKStep, PTL DEF Spec

-----------------------------------------------------------------------------
(***************************************************************************)
(* Slots.  The three invariants about slots are inductive together.  What  *)
(* an action does to them is one of six things; each is a lemma, and the   *)
(* proof of the invariant says which action does which.                    *)
(***************************************************************************)
SlotInv == SlotDiscipline /\ SingleWorker /\ SlotHasOwner

Nudge == sched' = sched \/ (sched = "idle" /\ sched' = "claim")

\* Worker w goes on to stage `to', and nothing else happens to the workers.
Move(w, to) ==
  /\ wpc' = [wpc EXCEPT ![w] = to]
  /\ UNCHANGED <<wjob, sched, tasks, dropped>>

LEMMA HoldersOfMove ==
  ASSUME TypeOK, NEW w \in Workers, NEW to, Move(w, to), NEW j \in Jobs
  PROVE  /\ j # wjob[w] => Holders(j)' = Holders(j)
         /\ to \notin Holding => Holders(j)' = Holders(j) \ {w}
         /\ wpc[w] \in Holding /\ to \in Holding => Holders(j)' = Holders(j)
<1>. USE DEF Move, Holders, TypeOK
<1>1. \A v \in Workers : wpc'[v] = (IF v = w THEN to ELSE wpc[v]) /\ wjob'[v] = wjob[v]
  OBVIOUS
<1>2. Holders(j)' = {v \in Workers : wjob[v] = j /\ wpc'[v] \in Holding}
  BY <1>1
<1>3. ASSUME j # wjob[w]  PROVE  Holders(j)' = Holders(j)
  BY <1>1, <1>2, <1>3
<1>4. ASSUME to \notin Holding  PROVE  Holders(j)' = Holders(j) \ {w}
  BY <1>1, <1>2, <1>4
<1>5. ASSUME wpc[w] \in Holding, to \in Holding  PROVE  Holders(j)' = Holders(j)
  BY <1>1, <1>2, <1>5
<1>. QED  BY <1>3, <1>4, <1>5

\* Nobody's slot, task or worker changes.
LEMMA QuietStep ==
  ASSUME SlotInv, Nudge, UNCHANGED <<active, tasks, wpc, wjob, dropped, early>>
  PROVE  SlotInv'
<1>1. \A j : Holders(j)' = Holders(j)
  BY DEF Holders
<1>. QED  BY <1>1 DEF SlotInv, SlotDiscipline, SingleWorker, SlotHasOwner, Nudge

\* A job loses its slot while its worker, if there is one, goes on.
LEMMA EvictStep ==
  ASSUME SlotInv, Nudge, NEW j \in Jobs, active' = active \ {j}, ReleasedEarly(j),
         UNCHANGED <<tasks, wpc, wjob, dropped>>
  PROVE  SlotInv'
<1>1. \A k : Holders(k)' = Holders(k)
  BY DEF Holders
<1>2. early \subseteq early' /\ (j \in active => j \in early')
  BY DEF ReleasedEarly
<1>. QED  BY <1>1, <1>2 DEF SlotInv, SlotDiscipline, SingleWorker, SlotHasOwner, Nudge

\* A worker goes on to a stage in which it still holds its job.
LEMMA HoldStep ==
  ASSUME TypeOK, SlotInv, NEW w \in Workers, wpc[w] \in Holding,
         NEW to \in Holding, Move(w, to), UNCHANGED <<active, early>>
  PROVE  SlotInv'
<1>1. \A j \in Jobs : Holders(j)' = Holders(j)
  BY HoldersOfMove
<1>. QED
  BY <1>1 DEF SlotInv, SlotDiscipline, SingleWorker, SlotHasOwner, Move, TypeOK

\* A worker gives up its slot and goes on.
LEMMA HoldAndEvictStep ==
  ASSUME TypeOK, SlotInv, NEW w \in Workers, wpc[w] \in Holding,
         NEW to \in Holding, Move(w, to),
         active' = active \ {wjob[w]}, ReleasedEarly(wjob[w])
  PROVE  SlotInv'
<1>1. \A j \in Jobs : Holders(j)' = Holders(j)
  BY HoldersOfMove
<1>2. early \subseteq early' /\ (wjob[w] \in active => wjob[w] \in early')
  BY DEF ReleasedEarly
<1>. QED
  BY <1>1, <1>2 DEF SlotInv, SlotDiscipline, SingleWorker, SlotHasOwner, Move, TypeOK

\* A worker gives up its slot and is done with its job.  Its job has no other
\* worker and no task, unless the job is in `early'.
LEMMA LeaveStep ==
  ASSUME TypeOK, SlotInv, NEW w \in Workers, wpc[w] \in Holding,
         NEW to, to \notin Holding, Move(w, to),
         active' = active \ {wjob[w]}, early' = early
  PROVE  SlotInv'
<1>1. PICK job \in Jobs : job = wjob[w] /\ w \in Holders(job)
  BY DEF TypeOK, Holders
<1>2. \A j \in Jobs : j # job => Holders(j)' = Holders(j)
  BY <1>1, HoldersOfMove
<1>3. \A j \in Jobs : Holders(j)' = Holders(j) \ {w}
  BY HoldersOfMove
<1>4. ASSUME job \notin early
      PROVE  job \notin tasks /\ Holders(job)' = {}
  <2>1. job \notin tasks
    BY <1>1, <1>4 DEF SlotInv, SlotDiscipline
  <2>2. \A v \in Holders(job) : v = w
    BY <1>1, <1>4 DEF SlotInv, SingleWorker
  <2>. QED  BY <1>1, <1>3, <2>1, <2>2
<1>5. SlotDiscipline'
  BY <1>1, <1>2, <1>4 DEF SlotInv, SlotDiscipline, Move
<1>6. SingleWorker'
  BY <1>3 DEF SlotInv, SingleWorker
<1>7. SlotHasOwner'
  BY <1>1, <1>2 DEF SlotInv, SlotHasOwner, Move, TypeOK
<1>. QED  BY <1>5, <1>6, <1>7 DEF SlotInv

\* A worker that holds nothing goes on.
LEMMA TailStep ==
  ASSUME TypeOK, SlotInv, NEW w \in Workers, wpc[w] \notin Holding,
         NEW to, to \notin Holding, Move(w, to), UNCHANGED <<active, early>>
  PROVE  SlotInv'
<1>1. \A j \in Jobs : w \notin Holders(j) /\ Holders(j)' = Holders(j)
  BY HoldersOfMove DEF Holders
<1>. QED
  BY <1>1 DEF SlotInv, SlotDiscipline, SingleWorker, SlotHasOwner, Move, TypeOK

(***************************************************************************)
(* The scheduler.                                                          *)
(***************************************************************************)
LEMMA ClaimSlots ==
  ASSUME TypeOK, SlotInv, Claim
  PROVE  SlotInv'
<1>1. PICK normal \in Claimable(Normal, NormalLimit), bulk \in Claimable(Bulk, BulkLimit) :
        /\ active' = active \cup (normal \cup bulk)
        /\ tasks' = normal \cup bulk
        /\ sched' = IF normal \cup bulk = {} THEN "complete" ELSE "persist"
  BY DEF Claim
<1>2. tasks = {} /\ UNCHANGED <<wpc, wjob, dropped, early>>
  BY DEF Claim, SlotInv, SlotDiscipline, workerVars, historyVars
<1>3. \A j \in normal \cup bulk : j \notin active
  BY DEF Claimable, Eligible
<1>4. \A j : Holders(j)' = Holders(j)
  BY <1>2 DEF Holders
<1>5. SlotDiscipline'
  BY <1>1, <1>2, <1>3, <1>4 DEF SlotInv, SlotDiscipline
<1>6. SingleWorker'
  BY <1>2, <1>4 DEF SlotInv, SingleWorker
<1>7. SlotHasOwner'
  BY <1>1, <1>2, <1>4 DEF SlotInv, SlotHasOwner
<1>. QED  BY <1>5, <1>6, <1>7 DEF SlotInv

LEMMA PersistClaimSlots ==
  ASSUME SlotInv, PersistClaim
  PROVE  SlotInv'
<1>1. UNCHANGED <<active, wpc, wjob, early>>
  BY DEF PersistClaim, slotVars, workerVars
<1>2. \A j : Holders(j)' = Holders(j)
  BY <1>1 DEF Holders
<1>3. CASE sched' = "start" /\ UNCHANGED <<tasks, dropped>>
  BY <1>1, <1>2, <1>3 DEF SlotInv, SlotDiscipline, SingleWorker, SlotHasOwner
<1>4. CASE sched' = "complete" /\ tasks' = {} /\ dropped' = dropped \cup tasks
  BY <1>1, <1>2, <1>4 DEF SlotInv, SlotDiscipline, SingleWorker, SlotHasOwner
<1>. QED  BY <1>3, <1>4 DEF PersistClaim

LEMMA StartWorkerSlots ==
  ASSUME TypeOK, SlotInv, NEW j \in Jobs, NEW w \in Workers, StartWorker(j, w)
  PROVE  SlotInv'
<1>1. /\ j \in tasks /\ tasks' = tasks \ {j}
      /\ wpc[w] = "idle"
      /\ wpc' = [wpc EXCEPT ![w] = "spawned"]
      /\ wjob' = [wjob EXCEPT ![w] = j]
      /\ sched' = IF tasks = {j} THEN "complete" ELSE "start"
      /\ UNCHANGED <<active, dropped, early>>
  BY DEF StartWorker, slotVars, historyVars
<1>2. \A v \in Workers : /\ wpc'[v] = (IF v = w THEN "spawned" ELSE wpc[v])
                         /\ wjob'[v] = (IF v = w THEN j ELSE wjob[v])
  BY <1>1 DEF TypeOK
<1>3. \A k \in Jobs : Holders(k)' = Holders(k) \cup (IF k = j THEN {w} ELSE {})
  BY <1>1, <1>2 DEF Holders, Holding, Writing
<1>4. j \notin early => j \in active /\ Holders(j) = {}
  BY <1>1 DEF SlotInv, SlotDiscipline
<1>5. SlotDiscipline'
  BY <1>1, <1>3, <1>4 DEF SlotInv, SlotDiscipline
<1>6. SingleWorker'
  BY <1>1, <1>3, <1>4 DEF SlotInv, SingleWorker
<1>7. SlotHasOwner'
  BY <1>1, <1>3 DEF SlotInv, SlotHasOwner, TypeOK
<1>. QED  BY <1>5, <1>6, <1>7 DEF SlotInv

\* The end of a worker: its name goes back to the pool.
LEMMA WorkerExitSlots ==
  ASSUME TypeOK, SlotInv, NEW w \in Workers, WorkerExit(w)
  PROVE  SlotInv'
<1>1. /\ wpc[w] = "exit"
      /\ wpc' = [wpc EXCEPT ![w] = "idle"]
      /\ wjob' = [wjob EXCEPT ![w] = AnyJob]
      /\ UNCHANGED <<active, tasks, dropped, early>>
      /\ Nudge
  BY DEF WorkerExit, slotVars, historyVars, Wake, Nudge
<1>2. \A v \in Workers : /\ wpc'[v] = (IF v = w THEN "idle" ELSE wpc[v])
                         /\ v # w => wjob'[v] = wjob[v]
  BY <1>1 DEF TypeOK
<1>3. \A j \in Jobs : Holders(j)' = Holders(j)
  BY <1>1, <1>2 DEF Holders, Holding, Writing
<1>. QED
  BY <1>1, <1>3 DEF SlotInv, SlotDiscipline, SingleWorker, SlotHasOwner, Nudge, TypeOK

(***************************************************************************)
(* The workers.                                                            *)
(***************************************************************************)
LEMMA WorkerSlots ==
  ASSUME TypeOK, SlotInv, NEW w \in Workers, WorkerNext(w)
  PROVE  SlotInv'
<1>. USE DEF Holding, Writing, Move, schedVars, slotVars
<1>1. CASE WorkerEnter(w)
  <2>1. \E to \in Holding : wpc[w] \in Holding /\ Move(w, to) /\ UNCHANGED <<active, early>>
    BY <1>1 DEF WorkerEnter, WorkerStep
  <2>. QED  BY <2>1, HoldStep
<1>2. CASE AttemptFails(w)
  <2>1. \E to \in Holding : wpc[w] \in Holding /\ Move(w, to) /\ UNCHANGED <<active, early>>
    BY <1>2 DEF AttemptFails, Proceed, WorkerStep
  <2>. QED  BY <2>1, HoldStep
<1>3. CASE MarkDownloading(w)
  <2>1. \E to \in Holding : wpc[w] \in Holding /\ Move(w, to) /\ UNCHANGED <<active, early>>
    BY <1>3 DEF MarkDownloading, Saved, NotFound, WorkerStep
  <2>. QED  BY <2>1, HoldStep
<1>4. CASE OpenPartial(w)
  <2>1. \E to \in Holding : wpc[w] \in Holding /\ Move(w, to) /\ UNCHANGED <<active, early>>
    BY <1>4 DEF OpenPartial, WorkerStep
  <2>. QED  BY <2>1, HoldStep
<1>5. CASE Progress(w)
  <2>1. \E to \in Holding : wpc[w] \in Holding /\ Move(w, to) /\ UNCHANGED <<active, early>>
    BY <1>5 DEF Progress, Saved, NotFound, WorkerStep
  <2>. QED  BY <2>1, HoldStep
<1>6. CASE Poll(w)
  <2>1. \E to \in Holding : wpc[w] \in Holding /\ Move(w, to) /\ UNCHANGED <<active, early>>
    BY <1>6 DEF Poll, Proceed, WorkerStep
  <2>. QED  BY <2>1, HoldStep
<1>7. CASE ObserveStop(w)
  <2>1. \E to \in Holding : wpc[w] \in Holding /\ Move(w, to) /\ UNCHANGED <<active, early>>
    BY <1>7 DEF ObserveStop, Proceed, WorkerStep
  <2>. QED  BY <2>1, HoldStep
<1>8. CASE Finish(w)
  <2>1. \E to \in Holding : wpc[w] \in Holding /\ Move(w, to) /\ UNCHANGED <<active, early>>
    BY <1>8 DEF Finish, WorkerStep
  <2>. QED  BY <2>1, HoldStep
<1>9. CASE RecordRetry(w)
  <2>1. \E to \in Holding : wpc[w] \in Holding /\ Move(w, to) /\ UNCHANGED <<active, early>>
    BY <1>9 DEF RecordRetry, Saved, NotFound, WorkerStep
  <2>. QED  BY <2>1, HoldStep
<1>10. CASE BackoffOver(w)
  <2>1. \E to \in Holding : wpc[w] \in Holding /\ Move(w, to) /\ UNCHANGED <<active, early>>
    BY <1>10 DEF BackoffOver, Proceed, WorkerStep
  <2>. QED  BY <2>1, HoldStep
<1>11. CASE Exhausted(w)
  <2>1. \E to \in Holding : wpc[w] \in Holding /\ Move(w, to) /\ UNCHANGED <<active, early>>
    BY <1>11 DEF Exhausted, Proceed, WorkerStep
  <2>. QED  BY <2>1, HoldStep
<1>12. CASE GiveUp(w)
  <2>1. \E to \in Holding : wpc[w] \in Holding /\ Move(w, to) /\ UNCHANGED <<active, early>>
    BY <1>12 DEF GiveUp, Proceed, WorkerStep
  <2>. QED  BY <2>1, HoldStep
<1>13. CASE Defer(w)
  <2>1. CASE \E to \in {"released", "exit"} :
                 /\ wpc[w] \in Holding /\ Move(w, to)
                 /\ active' = active \ {wjob[w]} /\ early' = early
    BY <2>1, LeaveStep
  <2>2. CASE \E to \in Holding :
                 /\ wpc[w] \in Holding /\ Move(w, to)
                 /\ active' = active \ {wjob[w]} /\ ReleasedEarly(wjob[w])
    BY <2>2, HoldAndEvictStep
  <2>. QED  BY <1>13, <2>1, <2>2 DEF Defer, WorkerStep
<1>14. CASE CompleteJob(w)
  <2>1. CASE \E to \in {"released", "exit"} :
                 /\ wpc[w] \in Holding /\ Move(w, to)
                 /\ active' = active \ {wjob[w]} /\ early' = early
    BY <2>1, LeaveStep
  <2>2. CASE \E to \in Holding :
                 /\ wpc[w] \in Holding /\ Move(w, to)
                 /\ active' = active \ {wjob[w]} /\ ReleasedEarly(wjob[w])
    BY <2>2, HoldAndEvictStep
  <2>3. CASE \E to \in Holding : wpc[w] \in Holding /\ Move(w, to) /\ UNCHANGED <<active, early>>
    BY <2>3, HoldStep
  <2>. QED  BY <1>14, <2>1, <2>2, <2>3 DEF CompleteJob, NotFound, Release, WorkerStep
<1>15. CASE PauseRecoverably(w)
  <2>1. CASE \E to \in Holding :
                 /\ wpc[w] \in Holding /\ Move(w, to)
                 /\ active' = active \ {wjob[w]} /\ ReleasedEarly(wjob[w])
    BY <2>1, HoldAndEvictStep
  <2>. QED  BY <1>15, <2>1 DEF PauseRecoverably, Saved, Release, WorkerStep
<1>16. CASE AutoRestart(w)
  <2>1. CASE \E to \in {"released", "exit"} :
                 /\ wpc[w] \in Holding /\ Move(w, to)
                 /\ active' = active \ {wjob[w]} /\ early' = early
    BY <2>1, LeaveStep
  <2>2. CASE \E to \in Holding :
                 /\ wpc[w] \in Holding /\ Move(w, to)
                 /\ active' = active \ {wjob[w]} /\ ReleasedEarly(wjob[w])
    BY <2>2, HoldAndEvictStep
  <2>. QED  BY <1>16, <2>1, <2>2 DEF AutoRestart, Release, WorkerStep
<1>17. CASE FailJob(w)
  <2>1. CASE \E to \in {"released", "exit"} :
                 /\ wpc[w] \in Holding /\ Move(w, to)
                 /\ active' = active \ {wjob[w]} /\ early' = early
    BY <2>1, LeaveStep
  <2>. QED  BY <1>17, <2>1 DEF FailJob, Release, WorkerStep
<1>18. CASE FinishInterrupted(w)
  <2>1. CASE \E to \in {"released", "exit"} :
                 /\ wpc[w] \in Holding /\ Move(w, to)
                 /\ active' = active \ {wjob[w]} /\ early' = early
    BY <2>1, LeaveStep
  <2>. QED  BY <1>18, <2>1 DEF FinishInterrupted, Release, WorkerStep
<1>19. CASE DecidePurge(w)
  <2>1. CASE \E to \in {"purging", "exit"} :
                 wpc[w] \notin Holding /\ Move(w, to) /\ UNCHANGED <<active, early>>
    BY <2>1, TailStep
  <2>. QED  BY <1>19, <2>1 DEF DecidePurge, Proceed, WorkerStep
<1>20. CASE Purge(w)
  <2>1. CASE \E to \in {"purging", "exit"} :
                 wpc[w] \notin Holding /\ Move(w, to) /\ UNCHANGED <<active, early>>
    BY <2>1, TailStep
  <2>. QED  BY <1>20, <2>1 DEF Purge, WorkerStep
<1>21. CASE WorkerExit(w)
  BY <1>21, WorkerExitSlots
<1>. QED
  BY <1>1, <1>2, <1>3, <1>4, <1>5, <1>6, <1>7, <1>8, <1>9, <1>10, <1>11, <1>12, <1>13, <1>14, <1>15, <1>16, <1>17, <1>18, <1>19, <1>20, <1>21 DEF WorkerNext

(***************************************************************************)
(* Commands, clean-ups and timers.                                         *)
(***************************************************************************)
LEMMA OtherSlots ==
  ASSUME TypeOK, SlotInv, CommandNext \/ CleanupNext \/ (\E j \in Jobs : DeferExpires(j) \/ DelayedWake(j))
  PROVE  SlotInv'
<1>. USE DEF Nudge, slotVars, workerVars, schedVars, historyVars
<1>1. ASSUME Reply
      PROVE  Nudge
  BY <1>1 DEF Reply, Wake
<1>2. ASSUME NEW j \in Jobs, DeferExpires(j)
      PROVE  SlotInv'
  BY <1>1, <1>2, QuietStep DEF DeferExpires
<1>3. ASSUME NEW j \in Jobs, DelayedWake(j)
      PROVE  SlotInv'
  BY <1>1, <1>3, QuietStep DEF DelayedWake, Wake
<1>4. ASSUME NEW j \in Jobs, Pause(j)
      PROVE  SlotInv'
  BY <1>1, <1>4, QuietStep DEF Pause, Command
<1>5. ASSUME NEW j \in Jobs, Resume(j)
      PROVE  SlotInv'
  BY <1>1, <1>5, QuietStep DEF Resume, Command
<1>6. ASSUME NEW j \in Jobs, Retry(j)
      PROVE  SlotInv'
  BY <1>1, <1>6, QuietStep DEF Retry, Command
<1>7. ASSUME NEW j \in Jobs, Restart(j)
      PROVE  SlotInv'
  BY <1>1, <1>7, QuietStep DEF Restart, Command
<1>8. ASSUME NEW j \in Jobs, CancelRead(j)
      PROVE  SlotInv'
  BY <1>1, <1>8, QuietStep DEF CancelRead, Command
<1>9. ASSUME NEW j \in Jobs, CancelUnlink(j)
      PROVE  SlotInv'
  BY <1>1, <1>9, QuietStep DEF CancelUnlink
<1>10. ASSUME NEW j \in Jobs, CancelCommit(j)
      PROVE  SlotInv'
  BY <1>1, <1>10, QuietStep DEF CancelCommit
<1>11. ASSUME NEW j \in Jobs, RetryBulkRead(j)
      PROVE  SlotInv'
  BY <1>1, <1>11, QuietStep DEF RetryBulkRead, Command
<1>12. ASSUME NEW j \in Jobs, CancelForDelete(j)
      PROVE  SlotInv'
  BY <1>1, <1>12, QuietStep DEF CancelForDelete, Command, CleanUpLater, Wake
<1>13. ASSUME NEW j \in Jobs, DeleteFromDisk(j)
      PROVE  SlotInv'
  BY <1>1, <1>13, QuietStep DEF DeleteFromDisk, Command, CleanUpLater, Wake
<1>14. ASSUME NEW j \in Jobs, CleanupReleased(j)
      PROVE  SlotInv'
  BY <1>1, <1>14, QuietStep DEF CleanupReleased, CleanupStep
<1>15. ASSUME NEW j \in Jobs, CleanupDelete(j)
      PROVE  SlotInv'
  BY <1>1, <1>15, QuietStep DEF CleanupDelete, CleanupStep
<1>16. CASE PauseAll
  BY <1>1, <1>16, QuietStep DEF PauseAll, Command
<1>17. CASE ResumeAll
  BY <1>1, <1>17, QuietStep DEF ResumeAll, Command
<1>18. CASE RetryFailed
  BY <1>1, <1>18, QuietStep DEF RetryFailed, Command
<1>19. CASE ClearCompleted
  BY <1>1, <1>19, QuietStep DEF ClearCompleted, Command
<1>20. ASSUME NEW j \in Jobs, Remove(j)
      PROVE  SlotInv'
  BY <1>1, <1>20, EvictStep DEF Remove, Command, Release
<1>21. ASSUME NEW j \in Jobs, RetryBulkCommit(j)
      PROVE  SlotInv'
  BY <1>1, <1>21, EvictStep DEF RetryBulkCommit, Release
<1>22. ASSUME NEW j \in Jobs, CleanupFails(j)
      PROVE  SlotInv'
  BY <1>1, <1>22, EvictStep DEF CleanupFails, CleanupStep, Release
<1>23. ASSUME NEW j \in Jobs, CleanupDone(j)
      PROVE  SlotInv'
  BY <1>1, <1>23, EvictStep DEF CleanupDone, CleanupStep, Release
<1>. QED
  BY <1>2, <1>3, <1>4, <1>5, <1>6, <1>7, <1>8, <1>9, <1>10, <1>11, <1>12, <1>13, <1>14, <1>15, <1>16, <1>17, <1>18, <1>19, <1>20, <1>21, <1>22, <1>23 DEF CommandNext, CleanupNext

\* After a crash there are no slots, tasks or workers.
LEMMA CrashSlots ==
  ASSUME Crash
  PROVE  SlotInv'
<1>1. \A j \in Jobs : Holders(j)' = {}
  BY DEF Crash, Holders, Holding, Writing
<1>. QED
  BY <1>1 DEF Crash, SlotInv, SlotDiscipline, SingleWorker, SlotHasOwner

LEMMA SlotInvStep ==
  ASSUME TypeOK, SlotInv, [Next]_vars
  PROVE  SlotInv'
<1>1. CASE Claim
  BY <1>1, ClaimSlots
<1>2. CASE PersistClaim
  BY <1>2, PersistClaimSlots
<1>3. CASE \E j \in Jobs, w \in Workers : StartWorker(j, w)
  BY <1>3, StartWorkerSlots
<1>4. CASE CompleteRun
  <2>1. UNCHANGED <<active, tasks, wpc, wjob, dropped, early>>
    BY <1>4 DEF CompleteRun, slotVars, workerVars, historyVars
  <2>2. sched = "complete" /\ sched' \in {"claim", "idle"}
    BY <1>4 DEF CompleteRun
  <2>3. \A j : Holders(j)' = Holders(j)
    BY <2>1 DEF Holders
  <2>. QED
    BY <2>1, <2>2, <2>3 DEF SlotInv, SlotDiscipline, SingleWorker, SlotHasOwner
<1>5. CASE \E w \in Workers : WorkerNext(w)
  BY <1>5, WorkerSlots
<1>6. CASE CommandNext \/ CleanupNext \/ (\E j \in Jobs : DeferExpires(j) \/ DelayedWake(j))
  BY <1>6, OtherSlots
<1>7. CASE UNCHANGED vars
  BY <1>7, QuietStep DEF vars, Nudge, slotVars, schedVars, workerVars, historyVars
<1>8. CASE Crash
  BY <1>8, CrashSlots
<1>. QED
  BY <1>1, <1>2, <1>3, <1>4, <1>5, <1>6, <1>7, <1>8 DEF Next, SchedulerNext

LEMMA SlotInvInit == Init => SlotInv
<1>. SUFFICES ASSUME Init
              PROVE  SlotInv
  OBVIOUS
<1>1. \A j \in Jobs : Holders(j) = {}
  BY DEF Init, Holders, Holding, Writing
<1>. QED
  BY <1>1 DEF Init, SlotInv, SlotDiscipline, SingleWorker, SlotHasOwner

LEMMA SlotInvCorrect == Spec => []SlotInv
<1>. QED  BY TypeCorrect, SlotInvInit, SlotInvStep, PTL DEF Spec

(***************************************************************************)
(* No slot leaks but through a claim lost to a failed save.                *)
(***************************************************************************)
THEOREM SlotsAreOwned == Spec => []SlotHasOwner
<1>1. SlotInv => SlotHasOwner
  BY DEF SlotInv
<1>. QED  BY <1>1, SlotInvCorrect, PTL

(***************************************************************************)
(* Workers sit in their slots, and claims do not outlive their pass.       *)
(***************************************************************************)
THEOREM SlotsAreKept == Spec => []SlotDiscipline
<1>1. SlotInv => SlotDiscipline
  BY DEF SlotInv
<1>. QED  BY <1>1, SlotInvCorrect, PTL

(***************************************************************************)
(* Two workers share a job only if its slot was given up early.            *)
(***************************************************************************)
THEOREM OneWorkerPerJob == Spec => []SingleWorker
<1>1. SlotInv => SingleWorker
  BY DEF SlotInv
<1>. QED  BY <1>1, SlotInvCorrect, PTL

-----------------------------------------------------------------------------
(***************************************************************************)
(* The concurrency limits.  Slots are counted by listed jobs; only Claim   *)
(* adds to them, and it counts first.                                      *)
(***************************************************************************)
SlotLimit ==
  /\ Cardinality(ActiveIn(Normal)) <= NormalLimit
  /\ Cardinality(ActiveIn(Bulk)) <= BulkLimit

\* No job gains a slot, and none that was removed comes back.
OnlyReleases ==
  /\ active' \subseteq active
  /\ \A j \in Jobs : jobState[j] = "Gone" => jobState'[j] = "Gone"

LEMMA WorkerReleases ==
  ASSUME TypeOK, NEW w \in Workers, WorkerNext(w)
  PROVE  OnlyReleases
<1>. USE DEF OnlyReleases, TypeOK, Listed, slotVars, jobVars
<1>1. CASE WorkerEnter(w)
  BY <1>1 DEF WorkerEnter
<1>2. CASE Defer(w)
  BY <1>2 DEF Defer, SetState
<1>3. CASE AttemptFails(w)
  BY <1>3 DEF AttemptFails, Proceed
<1>4. CASE MarkDownloading(w)
  BY <1>4 DEF MarkDownloading, NotFound, SetState
<1>5. CASE OpenPartial(w)
  BY <1>5 DEF OpenPartial
<1>6. CASE Progress(w)
  BY <1>6 DEF Progress, NotFound, SetState
<1>7. CASE Poll(w)
  BY <1>7 DEF Poll, Proceed
<1>8. CASE ObserveStop(w)
  BY <1>8 DEF ObserveStop, Proceed
<1>9. CASE Finish(w)
  BY <1>9 DEF Finish
<1>10. CASE CompleteJob(w)
  BY <1>10 DEF CompleteJob, NotFound, SetState, Release
<1>11. CASE RecordRetry(w)
  BY <1>11 DEF RecordRetry, NotFound
<1>12. CASE BackoffOver(w)
  BY <1>12 DEF BackoffOver, Proceed
<1>13. CASE Exhausted(w)
  BY <1>13 DEF Exhausted, Proceed
<1>14. CASE GiveUp(w)
  BY <1>14 DEF GiveUp, Proceed
<1>15. CASE PauseRecoverably(w)
  BY <1>15 DEF PauseRecoverably, SetState, Release
<1>16. CASE AutoRestart(w)
  BY <1>16 DEF AutoRestart, SetState, Release
<1>17. CASE FailJob(w)
  BY <1>17 DEF FailJob, Release
<1>18. CASE FinishInterrupted(w)
  BY <1>18 DEF FinishInterrupted, Release
<1>19. CASE DecidePurge(w)
  BY <1>19 DEF DecidePurge, Proceed
<1>20. CASE Purge(w)
  BY <1>20 DEF Purge
<1>21. CASE WorkerExit(w)
  BY <1>21 DEF WorkerExit
<1>. QED
  BY <1>1, <1>2, <1>3, <1>4, <1>5, <1>6, <1>7, <1>8, <1>9, <1>10, <1>11, <1>12, <1>13, <1>14, <1>15, <1>16, <1>17, <1>18, <1>19, <1>20, <1>21 DEF WorkerNext

LEMMA OtherReleases ==
  ASSUME TypeOK, CommandNext \/ CleanupNext \/ (\E j \in Jobs : DeferExpires(j) \/ DelayedWake(j))
  PROVE  OnlyReleases
<1>. USE DEF OnlyReleases, TypeOK, Listed, slotVars, jobVars
<1>1. ASSUME NEW j \in Jobs, DeferExpires(j)
      PROVE  OnlyReleases
  BY <1>1 DEF DeferExpires
<1>2. ASSUME NEW j \in Jobs, DelayedWake(j)
      PROVE  OnlyReleases
  BY <1>2 DEF DelayedWake
<1>3. ASSUME NEW j \in Jobs, Pause(j)
      PROVE  OnlyReleases
  BY <1>3 DEF Pause, MoveAll, Pausable, Running
<1>4. ASSUME NEW j \in Jobs, Resume(j)
      PROVE  OnlyReleases
  BY <1>4 DEF Resume, MoveAll, Resumable
<1>5. ASSUME NEW j \in Jobs, Retry(j)
      PROVE  OnlyReleases
  BY <1>5 DEF Retry, SetState
<1>6. ASSUME NEW j \in Jobs, Restart(j)
      PROVE  OnlyReleases
  BY <1>6 DEF Restart, SetState
<1>7. ASSUME NEW j \in Jobs, CancelRead(j)
      PROVE  OnlyReleases
  BY <1>7 DEF CancelRead
<1>8. ASSUME NEW j \in Jobs, CancelUnlink(j)
      PROVE  OnlyReleases
  BY <1>8 DEF CancelUnlink
<1>9. ASSUME NEW j \in Jobs, CancelCommit(j)
      PROVE  OnlyReleases
  BY <1>9 DEF CancelCommit, SetState
<1>10. ASSUME NEW j \in Jobs, RetryBulkRead(j)
      PROVE  OnlyReleases
  BY <1>10 DEF RetryBulkRead
<1>11. ASSUME NEW j \in Jobs, CancelForDelete(j)
      PROVE  OnlyReleases
  BY <1>11 DEF CancelForDelete, MoveAll, Pausable, Running, CleanUpLater
<1>12. ASSUME NEW j \in Jobs, DeleteFromDisk(j)
      PROVE  OnlyReleases
  BY <1>12 DEF DeleteFromDisk, CleanUpLater
<1>13. ASSUME NEW j \in Jobs, CleanupReleased(j)
      PROVE  OnlyReleases
  BY <1>13 DEF CleanupReleased, CleanupStep
<1>14. ASSUME NEW j \in Jobs, CleanupDelete(j)
      PROVE  OnlyReleases
  BY <1>14 DEF CleanupDelete, CleanupStep
<1>15. ASSUME NEW j \in Jobs, Remove(j)
      PROVE  OnlyReleases
  BY <1>15 DEF Remove, Release, Vanish, MoveAll
<1>16. ASSUME NEW j \in Jobs, RetryBulkCommit(j)
      PROVE  OnlyReleases
  BY <1>16 DEF RetryBulkCommit, Release, SetState
<1>17. ASSUME NEW j \in Jobs, CleanupFails(j)
      PROVE  OnlyReleases
  BY <1>17 DEF CleanupFails, Release, SetState
<1>18. ASSUME NEW j \in Jobs, CleanupDone(j)
      PROVE  OnlyReleases
  BY <1>18 DEF CleanupDone, Release, Vanish, MoveAll
<1>19. CASE PauseAll
  BY <1>19 DEF PauseAll, MoveAll, Pausable, Running
<1>20. CASE ResumeAll
  BY <1>20 DEF ResumeAll, MoveAll, Resumable
<1>21. CASE RetryFailed
  BY <1>21 DEF RetryFailed, MoveAll
<1>22. CASE ClearCompleted
  BY <1>22 DEF ClearCompleted, Vanish, MoveAll
<1>. QED
  BY <1>1, <1>2, <1>3, <1>4, <1>5, <1>6, <1>7, <1>8, <1>9, <1>10, <1>11, <1>12, <1>13, <1>14, <1>15, <1>16, <1>17, <1>18, <1>19, <1>20, <1>21, <1>22 DEF CommandNext, CleanupNext

LEMMA ActiveFinite ==
  ASSUME TypeOK, NEW class
  PROVE  IsFiniteSet(ActiveIn(class)) /\ Cardinality(ActiveIn(class)) \in Nat
<1>1. ActiveIn(class) \in SUBSET Jobs
  BY DEF ActiveIn, TypeOK
<1>. QED  BY <1>1, QueueAssumption, FS_Subset, FS_CardinalityType

LEMMA ReleaseKeepsLimit ==
  ASSUME TypeOK, SlotLimit, OnlyReleases
  PROVE  SlotLimit'
<1>1. ASSUME NEW class
      PROVE  Cardinality(ActiveIn(class)') <= Cardinality(ActiveIn(class))
  <2>1. ActiveIn(class)' \in SUBSET ActiveIn(class)
    BY DEF ActiveIn, OnlyReleases, Listed, TypeOK
  <2>. QED  BY <2>1, ActiveFinite, FS_Subset
<1>2. ASSUME NEW class
      PROVE  Cardinality(ActiveIn(class)') \in Nat
  <2>1. ActiveIn(class)' \in SUBSET ActiveIn(class)
    BY DEF ActiveIn, OnlyReleases, Listed, TypeOK
  <2>. QED  BY <2>1, ActiveFinite, FS_Subset, FS_CardinalityType
<1>. QED
  BY <1>1, <1>2, ActiveFinite, QueueAssumption DEF SlotLimit, Normal

LEMMA ClaimKeepsLimit ==
  ASSUME TypeOK, SlotLimit, Claim
  PROVE  SlotLimit'
<1>1. PICK normal \in Claimable(Normal, NormalLimit), bulk \in Claimable(Bulk, BulkLimit) :
        /\ active' = active \cup (normal \cup bulk)
        /\ jobState' = [j \in Jobs |-> IF j \in normal \cup bulk THEN "Starting" ELSE jobState[j]]
  BY DEF Claim
<1>2. /\ normal \subseteq Normal /\ bulk \subseteq Bulk
      /\ \A j \in normal \cup bulk : j \in Jobs /\ Listed(j)
  BY QueueAssumption DEF Claimable, Eligible, Normal, Listed
<1>3. \A j \in Jobs : Listed(j)' <=> Listed(j)
  BY <1>1, <1>2 DEF Listed
<1>4. /\ ActiveIn(Normal)' = ActiveIn(Normal) \cup normal
      /\ ActiveIn(Bulk)' = ActiveIn(Bulk) \cup bulk
  BY <1>1, <1>2, <1>3, QueueAssumption DEF ActiveIn, Normal, TypeOK
<1>5. ASSUME NEW class \in SUBSET Jobs, NEW limit \in Nat, NEW S \in Claimable(class, limit),
             Cardinality(ActiveIn(class)) <= limit
      PROVE  Cardinality(ActiveIn(class) \cup S) <= limit
  <2>1. S \in SUBSET Jobs
    BY DEF Claimable, Eligible
  <2>2. IsFiniteSet(S) /\ Cardinality(S) \in Nat
    BY <2>1, QueueAssumption, FS_Subset, FS_CardinalityType
  <2>3. CASE S = {}
    BY <1>5, <2>3
  <2>4. CASE Cardinality(S) + Cardinality(ActiveIn(class)) <= limit
    <3>1. Cardinality(ActiveIn(class) \cup S)
            = Cardinality(ActiveIn(class)) + Cardinality(S) - Cardinality(ActiveIn(class) \cap S)
      BY <2>2, ActiveFinite, FS_Union
    <3>2. Cardinality(ActiveIn(class) \cap S) \in Nat
      BY <2>2, FS_Subset, FS_CardinalityType
    <3>. QED  BY <2>2, <2>4, <3>1, <3>2, ActiveFinite
  <2>. QED  BY <2>3, <2>4 DEF Claimable
<1>. QED
  BY <1>4, <1>5, QueueAssumption DEF SlotLimit, Normal

LEMMA SlotLimitInit == Init => SlotLimit
<1>. SUFFICES ASSUME Init
              PROVE  SlotLimit
  OBVIOUS
<1>1. ActiveIn(Normal) = {} /\ ActiveIn(Bulk) = {}
  BY DEF Init, ActiveIn
<1>. QED  BY <1>1, FS_EmptySet, QueueAssumption DEF SlotLimit

LEMMA SlotLimitStep ==
  ASSUME TypeOK, SlotLimit, [Next]_vars
  PROVE  SlotLimit'
<1>1. CASE Claim
  BY <1>1, ClaimKeepsLimit
<1>2. CASE PersistClaim
  BY <1>2, ReleaseKeepsLimit DEF PersistClaim, OnlyReleases, jobVars, slotVars
<1>3. CASE \E j \in Jobs, w \in Workers : StartWorker(j, w)
  BY <1>3, ReleaseKeepsLimit DEF StartWorker, OnlyReleases, jobVars, slotVars
<1>4. CASE CompleteRun
  BY <1>4, ReleaseKeepsLimit DEF CompleteRun, OnlyReleases, jobVars, slotVars
<1>5. CASE \E w \in Workers : WorkerNext(w)
  BY <1>5, ReleaseKeepsLimit, WorkerReleases
<1>6. CASE CommandNext \/ CleanupNext \/ (\E j \in Jobs : DeferExpires(j) \/ DelayedWake(j))
  BY <1>6, ReleaseKeepsLimit, OtherReleases
<1>7. CASE UNCHANGED vars
  BY <1>7, ReleaseKeepsLimit DEF vars, OnlyReleases, jobVars, slotVars
<1>8. CASE Crash
  <2>1. ActiveIn(Normal)' = {} /\ ActiveIn(Bulk)' = {}
    BY <1>8 DEF Crash, ActiveIn
  <2>. QED  BY <2>1, FS_EmptySet, QueueAssumption DEF SlotLimit
<1>. QED
  BY <1>1, <1>2, <1>3, <1>4, <1>5, <1>6, <1>7, <1>8 DEF Next, SchedulerNext

LEMMA SlotLimitCorrect == Spec => []SlotLimit
<1>. QED  BY TypeCorrect, SlotLimitInit, SlotLimitStep, PTL DEF Spec

\* Workers with a slot of their own are no more than the slots taken.
LEMMA HoldersFitSlots ==
  ASSUME TypeOK, SlotInv, NEW class \in SUBSET Jobs
  PROVE  /\ Cardinality(HoldingIn(class)) \in Nat
         /\ Cardinality(HoldingIn(class)) <= Cardinality(ActiveIn(class))
<1>. DEFINE jobOf == [w \in HoldingIn(class) |-> wjob[w]]
<1>1. \A w \in HoldingIn(class) : wjob[w] \in ActiveIn(class)
  BY DEF HoldingIn, ActiveIn, SlotInv, SlotDiscipline, Holders
<1>2. \A v, w \in HoldingIn(class) : wjob[v] = wjob[w] => v = w
  BY DEF HoldingIn, SlotInv, SingleWorker, Holders
<1>3. jobOf \in Injection(HoldingIn(class), ActiveIn(class))
  BY <1>1, <1>2 DEF Injection, IsInjective
<1>. QED  BY <1>3, ActiveFinite, FS_Injection, FS_CardinalityType

(***************************************************************************)
(* The settings bound the running workers, not only the slots that         *)
(* claim_schedulable_jobs_for_scheduler counts: SlotLimit bounds the slots,*)
(* and SlotInv maps the workers one to one into them.                      *)
(***************************************************************************)
THEOREM LimitsBoundWorkers == Spec => []WorkersWithinLimit
<1>1. ASSUME TypeOK, SlotInv, SlotLimit
      PROVE  WorkersWithinLimit
  <2>1. Normal \in SUBSET Jobs /\ Bulk \in SUBSET Jobs
    BY QueueAssumption DEF Normal
  <2>2. \A class \in SUBSET Jobs :
          /\ Cardinality(HoldingIn(class)) \in Nat
          /\ Cardinality(ActiveIn(class)) \in Nat
          /\ Cardinality(HoldingIn(class)) <= Cardinality(ActiveIn(class))
    BY <1>1, ActiveFinite, HoldersFitSlots
  <2>. QED
    BY <1>1, <2>1, <2>2, QueueAssumption DEF SlotLimit, WorkersWithinLimit
<1>. QED  BY <1>1, TypeCorrect, SlotInvCorrect, SlotLimitCorrect, PTL
-----------------------------------------------------------------------------
(***************************************************************************)
(* Revivals.  Commands are the user's; a worker revives its job in two     *)
(* places; nobody else brings a job back.                                  *)
(***************************************************************************)
LEMMA WorkerRevival ==
  ASSUME TypeOK, NEW w \in Workers, WorkerNext(w), NEW j \in Jobs, Revived(j)
  PROVE  RevivedByWorker(j)
<1>. USE DEF Revived, Pausable, Running, TypeOK, jobVars
<1>1. CASE WorkerEnter(w)
  BY <1>1 DEF WorkerEnter
<1>2. CASE AttemptFails(w)
  BY <1>2 DEF AttemptFails, Proceed
<1>3. CASE OpenPartial(w)
  BY <1>3 DEF OpenPartial
<1>4. CASE Poll(w)
  BY <1>4 DEF Poll, Proceed
<1>5. CASE ObserveStop(w)
  BY <1>5 DEF ObserveStop, Proceed
<1>6. CASE Finish(w)
  BY <1>6 DEF Finish
<1>7. CASE RecordRetry(w)
  BY <1>7 DEF RecordRetry, NotFound
<1>8. CASE BackoffOver(w)
  BY <1>8 DEF BackoffOver, Proceed
<1>9. CASE Exhausted(w)
  BY <1>9 DEF Exhausted, Proceed
<1>10. CASE GiveUp(w)
  BY <1>10 DEF GiveUp, Proceed
<1>11. CASE FinishInterrupted(w)
  BY <1>11 DEF FinishInterrupted
<1>12. CASE DecidePurge(w)
  BY <1>12 DEF DecidePurge, Proceed
<1>13. CASE Purge(w)
  BY <1>13 DEF Purge
<1>14. CASE WorkerExit(w)
  BY <1>14 DEF WorkerExit
<1>15. CASE MarkDownloading(w)
  BY <1>15 DEF MarkDownloading, NotFound, SetState, TransferState, PreserveInterrupted
<1>16. CASE Progress(w)
  BY <1>16 DEF Progress, NotFound, SetState, TransferState, PreserveInterrupted
<1>17. CASE CompleteJob(w)
  BY <1>17 DEF CompleteJob, NotFound, SetState
<1>18. CASE PauseRecoverably(w)
  BY <1>18 DEF PauseRecoverably, SetState
<1>19. CASE FailJob(w)
  BY <1>19 DEF FailJob
<1>20. CASE Defer(w)
  <2>1. j = wjob[w] /\ wpc[w] = "attempt" /\ wpc'[w] \in {"exit", "broken"} /\ j \in deferred'
    BY <1>20 DEF Defer, SetState, WorkerStep
  <2>. QED  BY <2>1 DEF RevivedByWorker, Holders, Holding
<1>21. CASE AutoRestart(w)
  <2>1. j = wjob[w] /\ wpc[w] = "restarting" /\ wpc'[w] \in {"exit", "broken"}
    BY <1>21 DEF AutoRestart, SetState, WorkerStep
  <2>. QED  BY <2>1 DEF RevivedByWorker, Holders, Holding
<1>. QED
  BY <1>1, <1>2, <1>3, <1>4, <1>5, <1>6, <1>7, <1>8, <1>9, <1>10, <1>11, <1>12, <1>13, <1>14, <1>15, <1>16, <1>17, <1>18, <1>19, <1>20, <1>21 DEF WorkerNext

LEMMA CommandsAreTheUsers ==
  ASSUME TypeOK, CommandNext
  PROVE  UserStep
<1>. USE DEF TypeOK, UserStep
<1>1. CASE Command
  BY <1>1, QueueAssumption DEF Command
<1>2. ASSUME NEW j \in Jobs, CancelUnlink(j) \/ CancelCommit(j) \/ RetryBulkCommit(j)
      PROVE  UserStep
  BY <1>2 DEF CancelUnlink, CancelCommit, RetryBulkCommit
<1>. QED
  BY <1>1, <1>2 DEF CommandNext, Pause, Resume, Retry, Restart, Remove, CancelRead, RetryBulkRead,
    CancelForDelete, DeleteFromDisk, PauseAll, ResumeAll, RetryFailed, ClearCompleted

LEMMA RevivalStep ==
  ASSUME TypeOK, [Next]_vars, NEW j \in Jobs, Revived(j)
  PROVE  UserStep \/ RevivedByWorker(j)
<1>. USE DEF Revived, Pausable, Running, TypeOK, jobVars
<1>1. CASE SchedulerNext
  BY <1>1 DEF SchedulerNext, Claim, Claimable, Eligible, PersistClaim, StartWorker, CompleteRun,
     DeferExpires, DelayedWake
<1>2. CASE \E w \in Workers : WorkerNext(w)
  BY <1>2, WorkerRevival
<1>3. CASE CommandNext
  BY <1>3, CommandsAreTheUsers
<1>4. CASE CleanupNext
  BY <1>4 DEF CleanupNext, CleanupReleased, CleanupFails, CleanupDelete, CleanupDone, SetState,
     Vanish, MoveAll
<1>5. CASE Crash
  BY <1>5 DEF Crash, Normalized
<1>6. CASE UNCHANGED vars
  BY <1>6 DEF vars
<1>. QED  BY <1>1, <1>2, <1>3, <1>4, <1>5, <1>6 DEF Next

(***************************************************************************)
(* A mark, a progress update, a retry or a restart of the application that *)
(* races with a pause or a cancel never undoes it.                         *)
(***************************************************************************)
THEOREM RevivalsAreKnown == Spec => RevivalIsKnown
<1>1. TypeOK /\ [Next]_vars
        => [\A j \in Jobs : Revived(j) => UserStep \/ RevivedByWorker(j)]_vars
  BY RevivalStep
<1>. QED  BY <1>1, TypeCorrect, PTL DEF Spec, RevivalIsKnown

-----------------------------------------------------------------------------
(***************************************************************************)
(* Wake-ups.  NoLostWake is inductive with three facts about a run without *)
(* a failed save: no claim was dropped, every deferred job has its timer,  *)
(* and a claimed job that is not to run any more has left a pending wake.  *)
(***************************************************************************)
WakeInv ==
  faults = 0 =>
    /\ dropped = {}
    /\ deferred \subseteq timers
    /\ \A j \in tasks \cap active : jobState[j] \in Running \/ pending
    /\ NoLostWake

LEMMA StillNoFault ==
  ASSUME TypeOK, faults' = 0
  PROVE  ~Fault /\ (NoFault => faults = 0)
BY QueueAssumption DEF TypeOK, Fault, NoFault

LEMMA ReplyWakes ==
  ASSUME TypeOK, faults' = 0, Reply
  PROVE  Wake /\ faults = 0
BY StillNoFault DEF Reply

\* A step that wakes the scheduler, and gives up slots at most.
LEMMA WakingStep ==
  ASSUME TypeOK, SlotInv, WakeInv, faults = 0, Wake, deferred' \subseteq timers',
         UNCHANGED <<tasks, dropped>>
  PROVE  WakeInv'
<1>1. WakeAhead'
  BY DEF WakeAhead, Wake
<1>2. tasks # {} => sched # "idle"
  BY DEF SlotInv, SlotDiscipline
<1>3. tasks' # {} => pending'
  BY <1>2 DEF Wake
<1>. QED  BY <1>1, <1>3 DEF WakeInv, NoLostWake

\* A step that gives up no slot, queues no job and lets no worker forget its wake.
Calm ==
  /\ UNCHANGED <<active, deferred, timers, sched, pending, tasks, wjob, dropped>>
  /\ \A j \in Jobs : \/ jobState'[j] = jobState[j]
                     \/ jobState[j] \in Pausable /\ jobState'[j] = "Downloading"
  /\ \A w \in Workers : \/ wpc'[w] = wpc[w]
                        \/ wpc[w] \in Holding /\ wpc'[w] \in Holding
                        \/ wpc[w] \notin Holding /\ wpc'[w] \in {"purging", "exit"}

LEMMA CalmStep ==
  ASSUME TypeOK, WakeInv, faults = 0, Calm
  PROVE  WakeInv'
<1>. USE DEF Calm, Pausable, Running
<1>1. \A j \in Jobs : /\ Listed(j)' = Listed(j)
                      /\ jobState'[j] = "Queued" => jobState[j] = "Queued"
                      /\ jobState[j] \in Running => jobState'[j] \in Running
  BY DEF Listed
<1>2. \A class \in SUBSET Jobs :
        ActiveIn(class)' = ActiveIn(class) /\ Eligible(class)' \subseteq Eligible(class)
  BY <1>1 DEF ActiveIn, Eligible
<1>3. ASSUME NEW j \in Jobs, Schedulable(j)'
      PROVE  Schedulable(j)
  <2>1. Normal \in SUBSET Jobs /\ Bulk \in SUBSET Jobs
    BY QueueAssumption DEF Normal
  <2>2. Normal' = Normal
    BY DEF Normal
  <2>. QED  BY <1>2, <1>3, <2>1, <2>2 DEF Schedulable
<1>4. \A w \in Workers : Slotless(w) => Slotless(w)'
  BY <1>1 DEF Slotless, Holding, Writing, TypeOK
<1>5. NoLostWake => NoLostWake'
  BY <1>3, <1>4 DEF NoLostWake, WakeAhead
<1>. QED  BY <1>1, <1>5 DEF WakeInv, TypeOK

\* A worker leaves its slot behind, with a wake still to do.
LEMMA LeavingStep ==
  ASSUME TypeOK, WakeInv, faults = 0, NEW w \in Workers, wpc'[w] # "idle",
         UNCHANGED <<wjob, tasks, pending, dropped>>,
         active' = active \ {wjob[w]}, deferred' \subseteq timers',
         \A j \in Jobs : j # wjob[w] => jobState'[j] = jobState[j]
  PROVE  WakeInv'
<1>1. Slotless(w)'
  BY DEF Slotless
<1>. QED  BY <1>1 DEF WakeInv, NoLostWake, WakeAhead, TypeOK

(***************************************************************************)
(* The scheduler.                                                          *)
(***************************************************************************)
\* A pass leaves no job behind that a slot is free for.
LEMMA ClaimTakesAll ==
  ASSUME TypeOK, Claim
  PROVE  \A j \in Jobs : ~Schedulable(j)'
<1>1. PICK normal \in Claimable(Normal, NormalLimit), bulk \in Claimable(Bulk, BulkLimit) :
        /\ active' = active \cup (normal \cup bulk)
        /\ jobState' = [j \in Jobs |-> IF j \in normal \cup bulk THEN "Starting" ELSE jobState[j]]
        /\ deferred' = deferred
  BY DEF Claim
<1>2. /\ normal \subseteq Normal /\ bulk \subseteq Bulk
      /\ \A j \in normal \cup bulk : j \in Jobs /\ Listed(j) /\ j \notin active
  BY QueueAssumption DEF Claimable, Eligible, Normal, Listed
<1>3. \A j \in Jobs : Listed(j)' <=> Listed(j)
  BY <1>1, <1>2 DEF Listed
<1>4. /\ ActiveIn(Normal)' = ActiveIn(Normal) \cup normal
      /\ ActiveIn(Bulk)' = ActiveIn(Bulk) \cup bulk
  BY <1>1, <1>2, <1>3, QueueAssumption DEF ActiveIn, Normal, TypeOK
<1>5. /\ Eligible(Normal)' \subseteq Eligible(Normal) \ normal
      /\ Eligible(Bulk)' \subseteq Eligible(Bulk) \ bulk
  BY <1>1, QueueAssumption DEF Eligible, Normal
<1>6. ASSUME NEW class \in SUBSET Jobs, NEW limit \in Nat, NEW S \in Claimable(class, limit),
             S # Eligible(class)
      PROVE  ~(Cardinality(ActiveIn(class) \cup S) < limit)
  <2>1. Cardinality(S) + Cardinality(ActiveIn(class)) >= limit
    BY <1>6 DEF Claimable
  <2>2. S \in SUBSET Jobs /\ ActiveIn(class) \cap S = {}
    BY DEF Claimable, Eligible, ActiveIn
  <2>3. IsFiniteSet(S) /\ Cardinality(S) \in Nat
    BY <2>2, QueueAssumption, FS_Subset, FS_CardinalityType
  <2>4. Cardinality(ActiveIn(class) \cup S)
          = Cardinality(ActiveIn(class)) + Cardinality(S) - Cardinality(ActiveIn(class) \cap S)
    BY <2>3, ActiveFinite, FS_Union
  <2>5. Cardinality(ActiveIn(class) \cap S) = 0
    BY <2>2, FS_EmptySet
  <2>. QED  BY <2>1, <2>3, <2>4, <2>5, ActiveFinite
<1>7. Normal \in SUBSET Jobs /\ Bulk \in SUBSET Jobs /\ Normal' = Normal
  BY QueueAssumption DEF Normal
<1>8. /\ normal = Eligible(Normal) \/ ~(Cardinality(ActiveIn(Normal) \cup normal) < NormalLimit)
      /\ bulk = Eligible(Bulk) \/ ~(Cardinality(ActiveIn(Bulk) \cup bulk) < BulkLimit)
  BY <1>6, <1>7, QueueAssumption
<1>. QED  BY <1>4, <1>5, <1>7, <1>8 DEF Schedulable

LEMMA SchedulerWakes ==
  ASSUME TypeOK, SlotInv, WakeInv, faults' = 0, SchedulerNext
  PROVE  WakeInv'
<1>1. CASE Claim
  <2>1. faults = 0 /\ UNCHANGED <<dropped, deferred, timers, pending>>
    BY <1>1 DEF Claim, historyVars
  <2>2. \A j \in tasks' : jobState'[j] \in Running
    BY <1>1, QueueAssumption DEF Claim, Claimable, Eligible, Normal, Running
  <2>3. NoLostWake'
    BY <1>1, ClaimTakesAll DEF NoLostWake
  <2>. QED  BY <2>1, <2>2, <2>3 DEF WakeInv
<1>2. CASE PersistClaim
  <2>1. /\ faults = 0 /\ sched = "persist" /\ sched' = "start"
        /\ UNCHANGED <<tasks, dropped, jobState, active, deferred, timers, pending, wpc, wjob>>
    BY <1>2, StillNoFault DEF PersistClaim, jobVars, slotVars, workerVars
  <2>2. (\A j : Schedulable(j)' = Schedulable(j)) /\ (\A w : Slotless(w)' = Slotless(w))
    BY <2>1 DEF Schedulable, Eligible, ActiveIn, Listed, Normal, Slotless
  <2>. QED  BY <2>1, <2>2 DEF WakeInv, NoLostWake, WakeAhead
<1>3. ASSUME NEW j \in Jobs, NEW w \in Workers, StartWorker(j, w)
      PROVE  WakeInv'
  <2>1. /\ faults = 0 /\ sched = "start" /\ j \in tasks /\ tasks' = tasks \ {j}
        /\ wpc[w] = "idle" /\ wpc'[w] = "spawned" /\ wjob'[w] = j
        /\ \A v \in Workers : v # w => wpc'[v] = wpc[v] /\ wjob'[v] = wjob[v]
        /\ UNCHANGED <<dropped, jobState, active, deferred, timers, pending>>
    BY <1>3 DEF StartWorker, jobVars, slotVars, historyVars, TypeOK
  <2>2. \A k : Schedulable(k)' = Schedulable(k)
    BY <2>1 DEF Schedulable, Eligible, ActiveIn, Listed, Normal
  <2>3. \A v \in Workers : Slotless(v) => Slotless(v)'
    BY <2>1 DEF Slotless, Listed
  <2>4. j \notin active => Slotless(w)'
    BY <2>1 DEF Slotless
  <2>. QED  BY <2>1, <2>2, <2>3, <2>4 DEF WakeInv, NoLostWake, WakeAhead
<1>4. CASE CompleteRun
  <2>1. /\ faults = 0 /\ sched = "complete" /\ (pending => sched' = "claim")
        /\ UNCHANGED <<tasks, dropped, jobState, active, deferred, timers, wpc, wjob>>
    BY <1>4 DEF CompleteRun, jobVars, slotVars, workerVars, historyVars
  <2>2. (\A j : Schedulable(j)' = Schedulable(j)) /\ (\A w : Slotless(w)' = Slotless(w))
    BY <2>1 DEF Schedulable, Eligible, ActiveIn, Listed, Normal, Slotless
  <2>3. tasks = {}
    BY <2>1 DEF SlotInv, SlotDiscipline
  <2>. QED  BY <2>1, <2>2, <2>3 DEF WakeInv, NoLostWake, WakeAhead
<1>5. ASSUME NEW j \in Jobs, DeferExpires(j)
      PROVE  WakeInv'
  <2>1. /\ faults = 0 /\ j \in deferred /\ deferred' = deferred \ {j}
        /\ UNCHANGED <<tasks, dropped, jobState, active, timers, pending>>
    BY <1>5 DEF DeferExpires, jobVars, schedVars, historyVars
  <2>. QED  BY <2>1 DEF WakeInv, NoLostWake, WakeAhead
<1>6. ASSUME NEW j \in Jobs, DelayedWake(j)
      PROVE  WakeInv'
  BY <1>6, WakingStep DEF DelayedWake, WakeInv, slotVars, historyVars
<1>. QED  BY <1>1, <1>2, <1>3, <1>4, <1>5, <1>6 DEF SchedulerNext

(***************************************************************************)
(* The workers.                                                            *)
(***************************************************************************)
LEMMA WorkerWakes ==
  ASSUME TypeOK, SlotInv, WakeInv, faults' = 0, NEW w \in Workers, WorkerNext(w)
  PROVE  WakeInv'
<1>. USE StillNoFault DEF schedVars, slotVars, jobVars, historyVars, WorkerStep
<1>1. CASE WorkerEnter(w)
  <2>1. Calm /\ faults = 0
    BY <1>1 DEF WorkerEnter, NoFault, Calm, TypeOK, WorkerPcs, Holding, Writing, JobStates, RestStates, Pausable, Running
  <2>. QED  BY <2>1, CalmStep
<1>2. CASE AttemptFails(w)
  <2>1. Calm /\ faults = 0
    BY <1>2 DEF AttemptFails, Proceed, NoFault, Calm, TypeOK, WorkerPcs, Holding, Writing, JobStates, RestStates, Pausable, Running
  <2>. QED  BY <2>1, CalmStep
<1>3. CASE OpenPartial(w)
  <2>1. Calm /\ faults = 0
    BY <1>3 DEF OpenPartial, NoFault, Calm, TypeOK, WorkerPcs, Holding, Writing, JobStates, RestStates, Pausable, Running
  <2>. QED  BY <2>1, CalmStep
<1>4. CASE Poll(w)
  <2>1. Calm /\ faults = 0
    BY <1>4 DEF Poll, Proceed, NoFault, Calm, TypeOK, WorkerPcs, Holding, Writing, JobStates, RestStates, Pausable, Running
  <2>. QED  BY <2>1, CalmStep
<1>5. CASE ObserveStop(w)
  <2>1. Calm /\ faults = 0
    BY <1>5 DEF ObserveStop, Proceed, NoFault, Calm, TypeOK, WorkerPcs, Holding, Writing, JobStates, RestStates, Pausable, Running
  <2>. QED  BY <2>1, CalmStep
<1>6. CASE Finish(w)
  <2>1. Calm /\ faults = 0
    BY <1>6 DEF Finish, NoFault, Calm, TypeOK, WorkerPcs, Holding, Writing, JobStates, RestStates, Pausable, Running
  <2>. QED  BY <2>1, CalmStep
<1>7. CASE RecordRetry(w)
  <2>1. Calm /\ faults = 0
    BY <1>7 DEF RecordRetry, NotFound, Saved, NoFault, Calm, TypeOK, WorkerPcs, Holding, Writing, JobStates, RestStates, Pausable, Running
  <2>. QED  BY <2>1, CalmStep
<1>8. CASE BackoffOver(w)
  <2>1. Calm /\ faults = 0
    BY <1>8 DEF BackoffOver, Proceed, NoFault, Calm, TypeOK, WorkerPcs, Holding, Writing, JobStates, RestStates, Pausable, Running
  <2>. QED  BY <2>1, CalmStep
<1>9. CASE Exhausted(w)
  <2>1. Calm /\ faults = 0
    BY <1>9 DEF Exhausted, Proceed, NoFault, Calm, TypeOK, WorkerPcs, Holding, Writing, JobStates, RestStates, Pausable, Running
  <2>. QED  BY <2>1, CalmStep
<1>10. CASE GiveUp(w)
  <2>1. Calm /\ faults = 0
    BY <1>10 DEF GiveUp, Proceed, NoFault, Calm, TypeOK, WorkerPcs, Holding, Writing, JobStates, RestStates, Pausable, Running
  <2>. QED  BY <2>1, CalmStep
<1>11. CASE DecidePurge(w)
  <2>1. Calm /\ faults = 0
    BY <1>11 DEF DecidePurge, Proceed, NoFault, Calm, TypeOK, WorkerPcs, Holding, Writing, JobStates, RestStates, Pausable, Running
  <2>. QED  BY <2>1, CalmStep
<1>12. CASE Purge(w)
  <2>1. Calm /\ faults = 0
    BY <1>12 DEF Purge, NoFault, Calm, TypeOK, WorkerPcs, Holding, Writing, JobStates, RestStates, Pausable, Running
  <2>. QED  BY <2>1, CalmStep
<1>13. CASE MarkDownloading(w)
  <2>1. Calm /\ faults = 0
    BY <1>13 DEF MarkDownloading, NotFound, Saved, SetState, TransferState, PreserveInterrupted, Listed, NoFault, Calm, TypeOK, WorkerPcs, Holding, Writing, JobStates, RestStates, Pausable, Running
  <2>. QED  BY <2>1, CalmStep
<1>14. CASE Progress(w)
  <2>1. Calm /\ faults = 0
    BY <1>14 DEF Progress, NotFound, Saved, SetState, TransferState, PreserveInterrupted, Listed, NoFault, Calm, TypeOK, WorkerPcs, Holding, Writing, JobStates, RestStates, Pausable, Running
  <2>. QED  BY <2>1, CalmStep
<1>15. CASE Defer(w)
  <2>1. /\ wpc'[w] # "idle" /\ faults = 0
        /\ UNCHANGED <<wjob, tasks, pending, dropped>>
        /\ active' = active \ {wjob[w]} /\ deferred' \subseteq timers'
        /\ \A j \in Jobs : j # wjob[w] => jobState'[j] = jobState[j]
    BY <1>15 DEF Defer, SetState, NoFault, TypeOK, WakeInv
  <2>. QED  BY <2>1, LeavingStep
<1>16. CASE PauseRecoverably(w)
  <2>1. /\ wpc'[w] # "idle" /\ faults = 0
        /\ UNCHANGED <<wjob, tasks, pending, dropped>>
        /\ active' = active \ {wjob[w]} /\ deferred' \subseteq timers'
        /\ \A j \in Jobs : j # wjob[w] => jobState'[j] = jobState[j]
    BY <1>16 DEF PauseRecoverably, SetState, Saved, Release, NoFault, TypeOK, WakeInv
  <2>. QED  BY <2>1, LeavingStep
<1>17. CASE AutoRestart(w)
  <2>1. /\ wpc'[w] # "idle" /\ faults = 0
        /\ UNCHANGED <<wjob, tasks, pending, dropped>>
        /\ active' = active \ {wjob[w]} /\ deferred' \subseteq timers'
        /\ \A j \in Jobs : j # wjob[w] => jobState'[j] = jobState[j]
    BY <1>17 DEF AutoRestart, SetState, Release, NoFault, TypeOK, WakeInv
  <2>. QED  BY <2>1, LeavingStep
<1>18. CASE FailJob(w)
  <2>1. /\ wpc'[w] # "idle" /\ faults = 0
        /\ UNCHANGED <<wjob, tasks, pending, dropped>>
        /\ active' = active \ {wjob[w]} /\ deferred' \subseteq timers'
        /\ \A j \in Jobs : j # wjob[w] => jobState'[j] = jobState[j]
    BY <1>18 DEF FailJob, Release, NoFault, TypeOK, WakeInv
  <2>. QED  BY <2>1, LeavingStep
<1>19. CASE FinishInterrupted(w)
  <2>1. /\ wpc'[w] # "idle" /\ faults = 0
        /\ UNCHANGED <<wjob, tasks, pending, dropped>>
        /\ active' = active \ {wjob[w]} /\ deferred' \subseteq timers'
        /\ \A j \in Jobs : j # wjob[w] => jobState'[j] = jobState[j]
    BY <1>19 DEF FinishInterrupted, Release, NoFault, TypeOK, WakeInv
  <2>. QED  BY <2>1, LeavingStep
<1>20. CASE CompleteJob(w)
  <2>1. CASE NotFound(w, "publish")
    <3>1. Calm /\ faults = 0
      BY <2>1 DEF NotFound, Calm, TypeOK, WorkerPcs, Holding, Writing
    <3>. QED  BY <3>1, CalmStep
  <2>2. CASE ~NotFound(w, "publish")
    <3>1. /\ wpc'[w] # "idle" /\ faults = 0
          /\ UNCHANGED <<wjob, tasks, pending, dropped>>
          /\ active' = active \ {wjob[w]} /\ deferred' \subseteq timers'
          /\ \A j \in Jobs : j # wjob[w] => jobState'[j] = jobState[j]
      BY <1>20, <2>2 DEF CompleteJob, Release, SetState, NoFault, TypeOK, WakeInv
    <3>. QED  BY <3>1, LeavingStep
  <2>. QED  BY <2>1, <2>2
<1>21. CASE WorkerExit(w)
  BY <1>21, WakingStep DEF WorkerExit, WakeInv
<1>. QED
  BY <1>1, <1>2, <1>3, <1>4, <1>5, <1>6, <1>7, <1>8, <1>9, <1>10, <1>11, <1>12, <1>13, <1>14, <1>15, <1>16, <1>17, <1>18, <1>19, <1>20, <1>21 DEF WorkerNext

(***************************************************************************)
(* Commands, clean-ups and crashes.                                        *)
(***************************************************************************)
LEMMA CommandWakes ==
  ASSUME TypeOK, SlotInv, WakeInv, faults' = 0, CommandNext
  PROVE  WakeInv'
<1>. USE DEF schedVars, slotVars, jobVars, workerVars, historyVars, Command
<1>1. ASSUME Wake, faults = 0, UNCHANGED <<tasks, dropped, timers>>, deferred' \subseteq deferred
      PROVE  WakeInv'
  BY <1>1, WakingStep DEF WakeInv
<1>2. ASSUME faults = 0, UNCHANGED <<jobState, active, deferred, timers, sched, pending, tasks, wpc, wjob, dropped>>
      PROVE  WakeInv'
  <2>1. Calm
    BY <1>2 DEF Calm
  <2>. QED  BY <1>2, <2>1, CalmStep
<1>3. ASSUME NEW j \in Jobs, Pause(j)
      PROVE  WakeInv'
  BY <1>3, <1>1, ReplyWakes DEF Pause
<1>4. ASSUME NEW j \in Jobs, Resume(j)
      PROVE  WakeInv'
  BY <1>4, <1>1, ReplyWakes DEF Resume
<1>5. ASSUME NEW j \in Jobs, Retry(j)
      PROVE  WakeInv'
  BY <1>5, <1>1, ReplyWakes DEF Retry
<1>6. ASSUME NEW j \in Jobs, Restart(j)
      PROVE  WakeInv'
  BY <1>6, <1>1, ReplyWakes DEF Restart
<1>7. ASSUME NEW j \in Jobs, Remove(j)
      PROVE  WakeInv'
  BY <1>7, <1>1, ReplyWakes DEF Remove, Release
<1>8. CASE PauseAll
  BY <1>8, <1>1, ReplyWakes DEF PauseAll
<1>9. CASE ResumeAll
  BY <1>9, <1>1, ReplyWakes DEF ResumeAll
<1>10. CASE RetryFailed
  BY <1>10, <1>1, ReplyWakes DEF RetryFailed
<1>11. ASSUME NEW j \in Jobs, CancelRead(j)
      PROVE  WakeInv'
  BY <1>11, <1>2 DEF CancelRead
<1>12. ASSUME NEW j \in Jobs, CancelUnlink(j)
      PROVE  WakeInv'
  BY <1>12, <1>2 DEF CancelUnlink
<1>13. ASSUME NEW j \in Jobs, RetryBulkRead(j)
      PROVE  WakeInv'
  BY <1>13, <1>2 DEF RetryBulkRead
<1>14. ASSUME NEW j \in Jobs, CancelForDelete(j)
      PROVE  WakeInv'
  <2>1. Wake /\ faults = 0 /\ UNCHANGED <<tasks, dropped, timers, deferred>>
    BY <1>14, StillNoFault DEF CancelForDelete, CleanUpLater
  <2>. QED  BY <2>1, <1>1
<1>15. ASSUME NEW j \in Jobs, DeleteFromDisk(j)
      PROVE  WakeInv'
  <2>1. Wake /\ faults = 0 /\ UNCHANGED <<tasks, dropped, timers, deferred>>
    BY <1>15, StillNoFault DEF DeleteFromDisk, CleanUpLater
  <2>. QED  BY <2>1, <1>1
<1>16. ASSUME NEW j \in Jobs, CancelCommit(j)
      PROVE  WakeInv'
  <2>1. CASE Reply
    BY <1>16, <2>1, <1>1, ReplyWakes DEF CancelCommit
  <2>2. CASE UNCHANGED <<jobState, sched, pending, faults>>
    BY <1>16, <2>2, <1>2 DEF CancelCommit
  <2>. QED  BY <1>16, <2>1, <2>2 DEF CancelCommit
<1>17. ASSUME NEW j \in Jobs, RetryBulkCommit(j)
      PROVE  WakeInv'
  <2>1. CASE Reply
    BY <1>17, <2>1, <1>1, ReplyWakes DEF RetryBulkCommit, Release
  <2>2. CASE UNCHANGED <<jobState, sched, pending, faults>>
    <3>1. /\ faults = 0 /\ active' = active \ {j} /\ deferred' = deferred \ {j}
          /\ UNCHANGED <<jobState, timers, sched, pending, tasks, wpc, wjob, dropped>>
      BY <1>17, <2>2 DEF RetryBulkCommit, Release
    <3>2. CASE j \in deferred
      BY <3>1, <3>2 DEF WakeInv, NoLostWake, WakeAhead
    <3>3. CASE j \notin deferred /\ j \notin active
      BY <3>1, <3>3, <1>2
    <3>4. CASE j \in active
      <4>1. j \in tasks \/ Holders(j) # {}
        BY <3>1, <3>4 DEF SlotInv, SlotHasOwner, WakeInv
      <4>2. WakeAhead'
        BY <3>1, <4>1 DEF WakeAhead, Slotless, Holders, Holding, Writing
      <4>. QED  BY <3>1, <4>2 DEF WakeInv, NoLostWake
    <3>. QED  BY <3>2, <3>3, <3>4
  <2>. QED  BY <1>17, <2>1, <2>2 DEF RetryBulkCommit
<1>18. CASE ClearCompleted
  <2>. DEFINE S == {j \in Jobs : jobState[j] \in {"Completed", "Canceled"} /\ removal[j] = "none"}
  <2>1. /\ faults = 0
        /\ jobState' = [j \in Jobs |-> IF j \in S THEN "Gone" ELSE jobState[j]]
        /\ UNCHANGED <<active, deferred, timers, sched, pending, tasks, wpc, wjob, dropped>>
    BY <1>18 DEF ClearCompleted, Vanish, MoveAll
  <2>2. \A j \in tasks \cap active : jobState'[j] \in Running \/ pending'
    BY <2>1 DEF WakeInv, Running, TypeOK
  <2>3. CASE active \cap S = {}
    <3>1. \A j \in Jobs : j \notin S => Listed(j)' = Listed(j)
      BY <2>1 DEF Listed
    <3>2. \A class \in SUBSET Jobs :
            ActiveIn(class)' = ActiveIn(class) /\ Eligible(class)' \subseteq Eligible(class)
      BY <2>1, <2>3, <3>1 DEF ActiveIn, Eligible, TypeOK
    <3>3. Normal \in SUBSET Jobs /\ Bulk \in SUBSET Jobs /\ Normal' = Normal
      BY QueueAssumption DEF Normal
    <3>4. \A j \in Jobs : Schedulable(j)' => Schedulable(j)
      BY <3>2, <3>3 DEF Schedulable
    <3>5. \A w \in Workers : Slotless(w) => Slotless(w)'
      BY <2>1 DEF Slotless, Listed, TypeOK
    <3>6. NoLostWake'
      BY <2>1, <3>4, <3>5 DEF WakeInv, NoLostWake, WakeAhead
    <3>. QED  BY <2>1, <2>2, <3>6 DEF WakeInv
  <2>4. ASSUME NEW j \in active \cap S
        PROVE  WakeInv'
    <3>1. j \in tasks \/ Holders(j) # {}
      BY <2>1 DEF SlotInv, SlotHasOwner, WakeInv
    <3>2. j \in tasks => pending
      BY <2>1 DEF WakeInv, Running
    <3>3. WakeAhead'
      BY <2>1, <3>1, <3>2 DEF WakeAhead, Slotless, Listed, Holders, Holding, Writing, TypeOK
    <3>. QED  BY <2>1, <2>2, <3>3 DEF WakeInv, NoLostWake
  <2>. QED  BY <2>3, <2>4
<1>. QED
  BY <1>3, <1>4, <1>5, <1>6, <1>7, <1>8, <1>9, <1>10, <1>11, <1>12, <1>13, <1>14, <1>15, <1>16, <1>17, <1>18 DEF CommandNext

LEMMA CleanupWakes ==
  ASSUME TypeOK, SlotInv, WakeInv, faults' = 0, CleanupNext
  PROVE  WakeInv'
<1>. USE DEF schedVars, slotVars, jobVars, workerVars, historyVars, CleanupStep
<1>1. ASSUME NEW j \in Jobs, CleanupReleased(j) \/ CleanupDelete(j)
      PROVE  WakeInv'
  <2>1. Calm /\ faults = 0
    BY <1>1 DEF CleanupReleased, CleanupDelete, Calm
  <2>. QED  BY <2>1, CalmStep
<1>2. ASSUME NEW j \in Jobs, CleanupFails(j) \/ CleanupDone(j)
      PROVE  WakeInv'
  <2>1. Reply /\ deferred' \subseteq deferred /\ UNCHANGED <<tasks, dropped, timers>>
    BY <1>2 DEF CleanupFails, CleanupDone, Release
  <2>2. deferred' \subseteq timers'
    BY <2>1, ReplyWakes DEF WakeInv
  <2>. QED  BY <2>1, <2>2, ReplyWakes, WakingStep
<1>. QED  BY <1>1, <1>2 DEF CleanupNext

LEMMA WakeInvStep ==
  ASSUME TypeOK, SlotInv, WakeInv, [Next]_vars
  PROVE  WakeInv'
<1>. SUFFICES ASSUME faults' = 0
              PROVE  WakeInv'
  BY DEF WakeInv
<1>1. CASE Crash
  BY <1>1 DEF Crash, WakeInv, NoLostWake, WakeAhead
<1>2. CASE UNCHANGED vars
  <2>1. Calm /\ faults = 0
    BY <1>2 DEF Calm, vars, jobVars, slotVars, schedVars, workerVars, historyVars
  <2>. QED  BY <2>1, CalmStep
<1>. QED
  BY <1>1, <1>2, SchedulerWakes, WorkerWakes, CommandWakes, CleanupWakes DEF Next

LEMMA WakeInvInit == Init => WakeInv
BY DEF Init, WakeInv, NoLostWake, WakeAhead

(***************************************************************************)
(* Without a failed save, no order of claims, releases, commands, clean-   *)
(* ups and restarts leaves a job that could be claimed with nobody to wake *)
(* the scheduler for it.                                                   *)
(***************************************************************************)
THEOREM WakesAreNotLost == Spec => []NoLostWake
<1>1. Spec => []WakeInv
  BY TypeCorrect, SlotInvCorrect, WakeInvInit, WakeInvStep, PTL DEF Spec
<1>2. TypeOK /\ WakeInv => NoLostWake
  BY DEF WakeInv, NoLostWake
<1>. QED  BY <1>1, <1>2, TypeCorrect, PTL
=============================================================================
