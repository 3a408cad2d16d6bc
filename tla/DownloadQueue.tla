--------------------------- MODULE DownloadQueue ---------------------------
(***************************************************************************)
(* The download queue of the desktop backend: the shared RuntimeState, the *)
(* scheduler loop that claims queued jobs into worker slots, the worker    *)
(* tasks that run them, the commands of the user, and the clean-up tasks   *)
(* that delete files from disk.  Every step below is one critical section  *)
(* of RuntimeState's lock, or one effect outside of it; everything between *)
(* two steps of a task is an await, where any other task may run.          *)
(*                                                                         *)
(* Abstractions.  A job is HTTP, and `Bulk' are the members of a pending   *)
(* bulk archive whose hoster has no admission policy of its own.  Bytes,   *)
(* progress, hand-off credentials and error texts are left out: a job has  *)
(* a partial file with data in it or not (`partial').  The order of the    *)
(* queue is abstracted to any order.  A job that was removed is "Gone":    *)
(* ids are never reused.                                                   *)
(***************************************************************************)
EXTENDS Naturals, FiniteSets

CONSTANTS
  Jobs,            \* job ids
  Bulk,            \* the jobs that belong to a bulk archive
  Workers,         \* a pool of names for worker tasks; bounds those alive at once
  NormalLimit,     \* settings.max_concurrent_downloads
  BulkLimit,       \* settings.bulk.max_concurrent_downloads
  InitialStates,   \* the states that jobs are loaded in
  MaxCommands,     \* bound on the user's commands
  MaxFaults,       \* bound on failures to persist the queue
  MaxCrashes       \* bound on crashes of the application

RestStates == {"Queued", "Paused", "Completed", "Failed", "Canceled"}
JobStates  == RestStates \cup {"Starting", "Downloading", "Gone"}

ASSUME QueueAssumption ==
  /\ Jobs # {}
  /\ IsFiniteSet(Jobs)
  /\ Bulk \subseteq Jobs
  /\ NormalLimit \in Nat \ {0}
  /\ BulkLimit \in Nat \ {0}
  /\ InitialStates \subseteq RestStates
  /\ MaxCommands \in Nat
  /\ MaxFaults \in Nat
  /\ MaxCrashes \in Nat

VARIABLES
  jobState, removal,        \* DownloadJob.state and .removal_state
  active,                   \* RuntimeState.active_workers
  deferred,                 \* RuntimeState.download_admission_defers
  timers,                   \* jobs with a delayed schedule_downloads ahead
  sched, pending,           \* the scheduler task, SchedulerWakeState.pending
  tasks,                    \* claimed by the current pass, worker not spawned yet
  wpc, wjob, wpurge,        \* the worker tasks
  partial,                  \* jobs that have a partial file on disk
  cleanup,                  \* the clean-up task of each job
  halfDone,                 \* a command on the job, between its two critical sections
  commands, faults, crashes, \* the bounds
  dropped, early            \* history, see below

jobVars     == <<jobState, removal>>
slotVars    == <<active, deferred>>
schedVars   == <<sched, pending, tasks>>
workerVars  == <<wpc, wjob, wpurge>>
historyVars == <<dropped, early>>
vars == <<jobVars, slotVars, timers, schedVars, workerVars, partial, cleanup,
          halfDone, commands, faults, crashes, historyVars>>

(***************************************************************************)
(* Worker program counters.                                                *)
(*   spawned      start_download_worker spawned, nothing read yet          *)
(*   attempt      preparing the transfer, before mark_job_downloading      *)
(*   marked       job marked Downloading, partial file not opened yet      *)
(*   transfer     streaming; a WorkerControlPoller runs beside it          *)
(*   told         streaming, and the poller has signalled to stop          *)
(*   publish      file moved to its final path, job not completed yet      *)
(*   failing      the attempt ended in an error                            *)
(*   backoff      sleeping before the next attempt                         *)
(*   exhausted    out of retries, and a recoverable partial download was   *)
(*                seen: counted bytes, or a file with data                 *)
(*   restarting   failed for good, eligible for auto-restart               *)
(*   broken       failed for good, not eligible                            *)
(*   interrupted  the download returned Paused or Canceled                 *)
(*   released     finish_interrupted_job done, clean-up not decided        *)
(*   purging      decided to remove the partial artifacts                  *)
(*   exit         about to wake the scheduler and end                      *)
(***************************************************************************)
Writing == {"transfer", "told"}
Holding == Writing \cup {"spawned", "attempt", "marked", "publish", "failing", "backoff",
                         "exhausted", "restarting", "broken", "interrupted"}
WorkerPcs == Holding \cup {"idle", "released", "purging", "exit"}

(***************************************************************************)
(* One type invariant.  `dropped' and `early' are history: the jobs whose  *)
(* claim was lost to a failed save, and the jobs whose slot some operation *)
(* gave up before the worker that holds it was done.                       *)
(***************************************************************************)
TypeOK ==
  /\ jobState \in [Jobs -> JobStates]
  /\ removal \in [Jobs -> {"none", "Removing", "CleanupFailed"}]
  /\ active \subseteq Jobs
  /\ deferred \subseteq Jobs
  /\ timers \subseteq Jobs
  /\ sched \in {"idle", "claim", "persist", "start", "complete"}
  /\ pending \in BOOLEAN
  /\ tasks \subseteq Jobs
  /\ wpc \in [Workers -> WorkerPcs]
  /\ wjob \in [Workers -> Jobs]
  /\ wpurge \in [Workers -> BOOLEAN]
  /\ partial \subseteq Jobs
  /\ cleanup \in [Jobs -> {"none", "wait", "delete", "deleted"}]
  /\ halfDone \in [Jobs -> {"none", "unlink", "cancel", "retry"}]
  /\ commands \in 0 .. MaxCommands
  /\ faults \in 0 .. MaxFaults
  /\ crashes \in 0 .. MaxCrashes
  /\ dropped \subseteq Jobs
  /\ early \subseteq Jobs

AnyJob == CHOOSE j \in Jobs : TRUE   \* what an unused worker name points at

Init ==
  /\ jobState \in [Jobs -> InitialStates]
  /\ removal = [j \in Jobs |-> "none"]
  /\ active = {}
  /\ deferred = {}
  /\ timers = {}
  /\ sched = "claim"                    \* main schedules once at start-up
  /\ pending = FALSE
  /\ tasks = {}
  /\ wpc = [w \in Workers |-> "idle"]
  /\ wjob = [w \in Workers |-> AnyJob]
  /\ wpurge = [w \in Workers |-> FALSE]
  /\ partial = {}
  /\ cleanup = [j \in Jobs |-> "none"]
  /\ halfDone = [j \in Jobs |-> "none"]
  /\ commands = 0
  /\ faults = 0
  /\ crashes = 0
  /\ dropped = {}
  /\ early = {}

Listed(j) == jobState[j] # "Gone"

\* schedule_downloads: start the loop, or leave a pending wake for it.
Wake ==
  IF sched = "idle"
    THEN sched' = "claim" /\ UNCHANGED pending
    ELSE pending' = TRUE /\ UNCHANGED sched

\* persist_state failed after the critical section: the state stays changed,
\* the operation returns an error.
Fault ==
  /\ faults < MaxFaults
  /\ faults' = faults + 1

NoFault == UNCHANGED faults

-----------------------------------------------------------------------------
(* Helpers of RuntimeState.                                                *)

\* SharedState::worker_control.
WorkerControl(j) ==
  IF jobState[j] = "Gone" THEN "Missing"
  ELSE IF removal[j] = "Removing" THEN "Canceled"
  ELSE CASE jobState[j] \in {"Paused", "Canceled"}  -> jobState[j]
         [] jobState[j] \in {"Completed", "Failed"} -> "Missing"
         [] OTHER                                   -> "Continue"

\* Mutated form: a pause is not an interruption.
PreserveUnlessPaused(s) == s \in {"Canceled", "Failed", "Completed"}

\* should_preserve_worker_interrupted_state.
PreserveInterrupted(s) == s \in {"Paused", "Canceled", "Failed", "Completed"}

SetState(j, s) == jobState' = [jobState EXCEPT ![j] = s]

\* remove_active_worker: the slot and the defer of the job, whoever holds it.
Release(j) ==
  /\ active' = active \ {j}
  /\ deferred' = deferred \ {j}

\* The job loses its slot although the worker that holds it goes on.
ReleasedEarly(j) == early' = IF j \in active THEN early \cup {j} ELSE early

-----------------------------------------------------------------------------
(* The scheduler.                                                          *)

ActiveIn(class) == {j \in active \cap class : Listed(j)}

\* Mutated form: a queued job whose worker is still running may be claimed.
EligibleWhileActive(class) == {j \in class : jobState[j] = "Queued" /\ j \notin deferred}

Eligible(class) ==
  {j \in class : jobState[j] = "Queued" /\ j \notin active /\ j \notin deferred}

\* Mutated form: the workers that are active already are not counted.
ClaimableAnew(class, limit) == {S \in SUBSET Eligible(class) : Cardinality(S) <= limit}

\* The claims a pass may make in one class: as many as there are free slots.
Claimable(class, limit) ==
  {S \in SUBSET Eligible(class) :
     /\ Cardinality(S) + Cardinality(ActiveIn(class)) <= limit \/ S = {}
     /\ \/ S = Eligible(class)
        \/ Cardinality(S) + Cardinality(ActiveIn(class)) >= limit}

Normal == Jobs \ Bulk

\* claim_schedulable_jobs_for_scheduler, inside the lock.
Claim ==
  /\ sched = "claim"
  /\ \E normal \in Claimable(Normal, NormalLimit), bulk \in Claimable(Bulk, BulkLimit) :
       LET claimed == normal \cup bulk
       IN  /\ jobState' = [j \in Jobs |-> IF j \in claimed THEN "Starting" ELSE jobState[j]]
           /\ active' = active \cup claimed
           /\ tasks' = claimed
           /\ sched' = IF claimed = {} THEN "complete" ELSE "persist"
  /\ UNCHANGED <<removal, deferred, timers, pending, workerVars, partial, cleanup,
                 halfDone, commands, crashes, faults, historyVars>>

\* The claim is saved before its tasks are returned.  If the save fails the
\* error replaces the tasks and nobody starts a worker for them.
PersistClaim ==
  /\ sched = "persist"
  /\ \/ /\ NoFault
        /\ sched' = "start"
        /\ UNCHANGED <<tasks, dropped>>
     \/ /\ Fault
        /\ sched' = "complete"
        /\ tasks' = {}
        /\ dropped' = dropped \cup tasks
  /\ UNCHANGED <<jobVars, slotVars, timers, pending, workerVars, partial, cleanup,
                 halfDone, commands, crashes, early>>

\* run_scheduler_once: one worker task per claimed job.
StartWorker(j, w) ==
  /\ sched = "start"
  /\ j \in tasks
  /\ wpc[w] = "idle"
  /\ wpc' = [wpc EXCEPT ![w] = "spawned"]
  /\ wjob' = [wjob EXCEPT ![w] = j]
  /\ tasks' = tasks \ {j}
  /\ sched' = IF tasks = {j} THEN "complete" ELSE "start"
  /\ UNCHANGED <<jobVars, slotVars, timers, pending, wpurge, partial, cleanup,
                 halfDone, commands, crashes, faults, historyVars>>

\* Mutated form: the loop stops with a wake pending.
CompleteRunForgetsPending ==
  /\ sched = "complete"
  /\ sched' = "idle"
  /\ pending' = FALSE
  /\ UNCHANGED <<jobVars, slotVars, timers, tasks, workerVars, partial, cleanup,
                 halfDone, commands, crashes, faults, historyVars>>

\* complete_scheduler_run.
CompleteRun ==
  /\ sched = "complete"
  /\ sched' = IF pending THEN "claim" ELSE "idle"
  /\ pending' = FALSE
  /\ UNCHANGED <<jobVars, slotVars, timers, tasks, workerVars, partial, cleanup,
                 halfDone, commands, crashes, faults, historyVars>>

-----------------------------------------------------------------------------
(* The worker task: start_download_worker, run_download, one HTTP attempt. *)

WorkerStep(w, from, to) ==
  /\ wpc[w] = from
  /\ wpc' = [wpc EXCEPT ![w] = to]
  /\ UNCHANGED <<wjob, schedVars, cleanup, halfDone, commands, crashes, dropped>>

\* A critical section of worker w: it is saved and the worker goes on at `to',
\* or the save fails and the error ends the download.
Saved(w, from, to) ==
  \/ NoFault /\ WorkerStep(w, from, to)
  \/ Fault /\ WorkerStep(w, from, "broken")

\* The job is gone: "Job not found." ends the download.
NotFound(w, from) ==
  /\ ~Listed(wjob[w])
  /\ WorkerStep(w, from, "broken")
  /\ UNCHANGED <<jobVars, slotVars, timers, wpurge, partial, faults, early>>

\* A step that only moves the worker on.
Proceed(w, from, to) ==
  /\ WorkerStep(w, from, to)
  /\ UNCHANGED <<jobVars, slotVars, timers, wpurge, partial, faults, early>>

\* Whether to clean up on exit is decided, among others, by the control that
\* the worker reads first of all.
WorkerEnter(w) ==
  /\ WorkerStep(w, "spawned", "attempt")
  /\ wpurge' = [wpurge EXCEPT ![w] = WorkerControl(wjob[w]) = "Canceled"]
  /\ UNCHANGED <<jobVars, slotVars, timers, partial, faults, early>>

\* defer_active_job: the job goes back to the queue, whatever its state was,
\* and is not eligible before the defer expires.
Defer(w) ==
  LET j == wjob[w]
  IN  /\ Listed(j)
      /\ SetState(j, "Queued")
      /\ active' = active \ {j}
      /\ deferred' = deferred \cup {j}
      /\ \/ NoFault /\ timers' = timers \cup {j} /\ UNCHANGED early
            /\ WorkerStep(w, "attempt", "exit")
         \/ Fault /\ ReleasedEarly(j) /\ UNCHANGED timers
            /\ WorkerStep(w, "attempt", "broken")
      /\ UNCHANGED <<removal, wpurge, partial>>

\* An attempt fails with an error the retry policy looks at, or one it does not.
AttemptFails(w) ==
  \E from \in {"attempt", "marked"} \cup Writing, to \in {"failing", "broken"} :
    Proceed(w, from, to)

\* What a worker writes into the state of a job that the user interrupted.
TransferState(s) == IF PreserveInterrupted(s) THEN s ELSE "Downloading"

\* mark_job_downloading.
MarkDownloading(w) ==
  \/ LET j == wjob[w]
     IN  /\ Listed(j)
         /\ SetState(j, TransferState(jobState[j]))
         /\ Saved(w, "attempt", "marked")
         /\ UNCHANGED <<removal, slotVars, timers, wpurge, partial, early>>
  \/ NotFound(w, "attempt")

\* The partial file is opened or created, and the control poller starts.
OpenPartial(w) ==
  /\ WorkerStep(w, "marked", "transfer")
  /\ partial' = partial \cup {wjob[w]}
  /\ UNCHANGED <<jobVars, slotVars, timers, wpurge, faults, early>>

\* update_job_progress_delta.
Progress(w) ==
  \E pc \in Writing :
    \/ LET j == wjob[w]
       IN  /\ Listed(j)
           /\ SetState(j, TransferState(jobState[j]))
           /\ Saved(w, pc, pc)
           /\ UNCHANGED <<removal, slotVars, timers, wpurge, partial, early>>
    \/ NotFound(w, pc)

\* Mutated form: the poller reports pauses only.
PollSeesOnlyPauses(w) ==
  /\ WorkerControl(wjob[w]) = "Paused"
  /\ Proceed(w, "transfer", "told")

\* WorkerControlPoller: it ends with the first control that is not Continue.
Poll(w) ==
  /\ WorkerControl(wjob[w]) # "Continue"
  /\ Proceed(w, "transfer", "told")

\* The stream loop sees the signal of the poller.
ObserveStop(w) == Proceed(w, "told", "interrupted")

\* The stream ended: the partial file is moved to its final path.
Finish(w) ==
  /\ wjob[w] \in partial
  /\ \E pc \in Writing : WorkerStep(w, pc, "publish")
  /\ partial' = partial \ {wjob[w]}
  /\ UNCHANGED <<jobVars, slotVars, timers, wpurge, faults, early>>

\* complete_job_with_integrity; Failed when the checksum does not match.
CompleteJob(w) ==
  \/ LET j == wjob[w]
     IN  /\ Listed(j)
         /\ \E s \in {"Completed", "Failed"} : SetState(j, s)
         /\ Release(j)
         /\ \/ NoFault /\ UNCHANGED early /\ WorkerStep(w, "publish", "exit")
            \/ Fault /\ ReleasedEarly(j) /\ WorkerStep(w, "publish", "broken")
         /\ UNCHANGED <<removal, timers, wpurge, partial>>
  \/ NotFound(w, "publish")

\* Mutated form: the slot is given back for the time of the back-off.
RecordRetryFreesSlot(w) ==
  /\ Listed(wjob[w])
  /\ Release(wjob[w])
  /\ Saved(w, "failing", "backoff")
  /\ UNCHANGED <<jobVars, timers, wpurge, partial, early>>

\* run_download, after an error: retry_decision_for_attempt_error chooses
\* between another attempt, a recoverable pause and giving up.
RecordRetry(w) ==
  \/ /\ Listed(wjob[w])
     /\ Saved(w, "failing", "backoff")
     /\ UNCHANGED <<jobVars, slotVars, timers, wpurge, partial, early>>
  \/ NotFound(w, "failing")

BackoffOver(w) == Proceed(w, "backoff", "attempt")

\* has_recoverable_partial_download, read before the decision.  It looks at the
\* file only when the row has counted no bytes yet, and the rows here count
\* none: a row without a file may pass.
Exhausted(w) ==
  /\ jobState[wjob[w]] \notin {"Gone", "Completed", "Canceled"}
  /\ Proceed(w, "failing", "exhausted")

\* bulk_member_auto_restart_candidate: members of a pending archive restart.
GiveUp(w) ==
  \/ Proceed(w, "failing", "broken")
  \/ /\ wjob[w] \in Bulk
     /\ Listed(wjob[w])
     /\ Proceed(w, "failing", "restarting")

\* pause_job_after_retry_exhaustion: it releases the slot, and the Paused
\* outcome that follows releases it again (FinishInterrupted).
PauseRecoverably(w) ==
  LET j == wjob[w]
  IN  /\ Release(j)
      /\ ReleasedEarly(j)
      /\ \/ Listed(j) /\ SetState(j, "Paused") /\ Saved(w, "exhausted", "interrupted")
         \/ /\ ~Listed(j)
            /\ WorkerStep(w, "exhausted", "broken")
            /\ UNCHANGED <<jobState, faults>>
      /\ UNCHANGED <<removal, timers, wpurge, partial>>

\* auto_restart_bulk_member, with the partial file preserved.
AutoRestart(w) ==
  LET j == wjob[w]
  IN  /\ Release(j)
      /\ \/ /\ Listed(j)
            /\ SetState(j, "Queued")
            /\ removal' = [removal EXCEPT ![j] = "none"]
            /\ \/ NoFault /\ UNCHANGED early /\ WorkerStep(w, "restarting", "exit")
               \/ Fault /\ ReleasedEarly(j) /\ WorkerStep(w, "restarting", "broken")
         \/ /\ ~Listed(j)
            /\ ReleasedEarly(j)
            /\ WorkerStep(w, "restarting", "broken")
            /\ UNCHANGED <<jobVars, faults>>
      /\ UNCHANGED <<timers, wpurge, partial>>

\* Mutated form: the job fails and keeps its slot.
FailJobKeepsSlot(w) ==
  LET j == wjob[w]
  IN  /\ WorkerStep(w, "broken", "exit")
      /\ jobState' = IF Listed(j) THEN [jobState EXCEPT ![j] = "Failed"] ELSE jobState
      /\ UNCHANGED <<removal, slotVars, timers, wpurge, partial, faults, early>>

\* fail_job.  A failed save is ignored here, so it makes no difference.
FailJob(w) ==
  LET j == wjob[w]
  IN  /\ WorkerStep(w, "broken", "exit")
      /\ Release(j)
      /\ jobState' = IF Listed(j) THEN [jobState EXCEPT ![j] = "Failed"] ELSE jobState
      /\ UNCHANGED <<removal, timers, wpurge, partial, faults, early>>

\* finish_interrupted_job: releases whatever slot the job has by now.
FinishInterrupted(w) ==
  /\ WorkerStep(w, "interrupted", "released")
  /\ Release(wjob[w])
  /\ UNCHANGED <<jobVars, timers, wpurge, partial, faults, early>>

\* The control is read again, after the slot was released.
DecidePurge(w) ==
  LET purge == wpurge[w] \/ WorkerControl(wjob[w]) \in {"Canceled", "Missing"}
  IN  Proceed(w, "released", IF purge THEN "purging" ELSE "exit")

\* cleanup_partial_artifacts.
Purge(w) ==
  /\ WorkerStep(w, "purging", "exit")
  /\ partial' = partial \ {wjob[w]}
  /\ UNCHANGED <<jobVars, slotVars, timers, wpurge, faults, early>>

\* Mutated form: the worker ends without a word to the scheduler.
WorkerExitSilently(w) ==
  /\ wpc[w] = "exit"
  /\ wpc' = [wpc EXCEPT ![w] = "idle"]
  /\ wjob' = [wjob EXCEPT ![w] = AnyJob]
  /\ wpurge' = [wpurge EXCEPT ![w] = FALSE]
  /\ UNCHANGED <<jobVars, slotVars, timers, schedVars, partial, cleanup, halfDone,
                 commands, crashes, faults, historyVars>>

\* The last thing a worker does is to wake the scheduler.
WorkerExit(w) ==
  /\ wpc[w] = "exit"
  /\ wpc' = [wpc EXCEPT ![w] = "idle"]
  /\ wjob' = [wjob EXCEPT ![w] = AnyJob]
  /\ wpurge' = [wpurge EXCEPT ![w] = FALSE]
  /\ Wake
  /\ UNCHANGED <<jobVars, slotVars, timers, tasks, partial, cleanup, halfDone,
                 commands, crashes, faults, historyVars>>

\* The defer of a job expires; the delayed schedule_downloads fires after that.
DeferExpires(j) ==
  /\ j \in deferred
  /\ deferred' = deferred \ {j}
  /\ UNCHANGED <<jobVars, active, timers, schedVars, workerVars, partial, cleanup,
                 halfDone, commands, crashes, faults, historyVars>>

DelayedWake(j) ==
  /\ j \in timers \ deferred
  /\ timers' = timers \ {j}
  /\ Wake
  /\ UNCHANGED <<jobVars, slotVars, tasks, workerVars, partial, cleanup, halfDone,
                 commands, crashes, faults, historyVars>>

-----------------------------------------------------------------------------
(* The commands.  Batches act on one job at a time here.                   *)

\* The command succeeds and wakes the scheduler, or its save fails and it
\* returns before the wake.
Reply ==
  \/ NoFault /\ Wake
  \/ Fault /\ UNCHANGED <<sched, pending>>

Command ==
  /\ commands < MaxCommands
  /\ commands' = commands + 1
  /\ UNCHANGED <<timers, tasks, workerVars, crashes, dropped>>

Running      == {"Starting", "Downloading"}
Pausable     == Running \cup {"Queued"}
Resumable(j) == jobState[j] \in {"Paused", "Failed", "Canceled"} /\ removal[j] = "none"

\* What job_removal_block_reason refuses.
Blocked(j) == jobState[j] # "Canceled" /\ (j \in active \/ jobState[j] \in Running)

MoveAll(S, s) == jobState' = [j \in Jobs |-> IF j \in S THEN s ELSE jobState[j]]

\* pause_job and resume_job, pause_all_jobs and resume_all_jobs.
Pause(j) ==
  /\ Command
  /\ Listed(j)
  /\ MoveAll({j} \cap {k \in Jobs : jobState[k] \in Pausable}, "Paused")
  /\ Reply
  /\ UNCHANGED <<removal, slotVars, partial, cleanup, halfDone, early>>

Resume(j) ==
  /\ Command
  /\ Listed(j) /\ removal[j] = "none"
  /\ MoveAll({k \in {j} : Resumable(k)}, "Queued")
  /\ Reply
  /\ UNCHANGED <<removal, slotVars, partial, cleanup, halfDone, early>>

PauseAll ==
  /\ Command
  /\ MoveAll({j \in Jobs : jobState[j] \in Pausable}, "Paused")
  /\ deferred' = {}
  /\ Reply
  /\ UNCHANGED <<removal, active, partial, cleanup, halfDone, early>>

ResumeAll ==
  /\ Command
  /\ MoveAll({j \in Jobs : Resumable(j)}, "Queued")
  /\ deferred' = {}
  /\ Reply
  /\ UNCHANGED <<removal, active, partial, cleanup, halfDone, early>>

\* retry_job takes a job in any state, retry_failed_jobs the failed ones.
Retry(j) ==
  /\ Command
  /\ Listed(j) /\ removal[j] = "none"
  /\ SetState(j, "Queued")
  /\ Reply
  /\ UNCHANGED <<removal, slotVars, partial, cleanup, halfDone, early>>

RetryFailed ==
  /\ Command
  /\ MoveAll({j \in Jobs : jobState[j] = "Failed" /\ removal[j] = "none"}, "Queued")
  /\ Reply
  /\ UNCHANGED <<removal, slotVars, partial, cleanup, halfDone, early>>

\* restart_job removes the partial file inside its critical section.
Restart(j) ==
  /\ Command
  /\ Listed(j) /\ j \notin active /\ removal[j] = "none"
  /\ partial' = partial \ {j}
  /\ SetState(j, "Queued")
  /\ Reply
  /\ UNCHANGED <<removal, slotVars, cleanup, halfDone, early>>

\* cancel_jobs reads which jobs are inactive, unlinks their partial files
\* without the lock, and then cancels them, whatever happened in between.
CancelRead(j) ==
  /\ Command
  /\ Listed(j) /\ halfDone[j] = "none"
  /\ halfDone' = [halfDone EXCEPT ![j] = IF j \in active THEN "cancel" ELSE "unlink"]
  /\ UNCHANGED <<jobVars, slotVars, sched, pending, partial, cleanup, faults, early>>

CancelUnlink(j) ==
  /\ halfDone[j] = "unlink"
  /\ halfDone' = [halfDone EXCEPT ![j] = "cancel"]
  /\ partial' = partial \ {j}
  /\ UNCHANGED <<jobVars, slotVars, timers, schedVars, workerVars, cleanup,
                 commands, crashes, faults, historyVars>>

CancelCommit(j) ==
  /\ halfDone[j] = "cancel"
  /\ halfDone' = [halfDone EXCEPT ![j] = "none"]
  /\ \/ Listed(j) /\ SetState(j, "Canceled") /\ Reply
     \/ ~Listed(j) /\ UNCHANGED <<jobState, sched, pending, faults>>
  /\ UNCHANGED <<removal, slotVars, timers, tasks, workerVars, partial, cleanup,
                 commands, crashes, historyVars>>

\* bulk_member_retry_candidates, then retry_bulk_member for what was seen: it
\* releases the slot of the job before it looks at its state.
RetryBulkRead(j) ==
  /\ Command
  /\ j \in Bulk /\ jobState[j] = "Failed" /\ halfDone[j] = "none"
  /\ halfDone' = [halfDone EXCEPT ![j] = "retry"]
  /\ UNCHANGED <<jobVars, slotVars, sched, pending, partial, cleanup, faults, early>>

RetryBulkCommit(j) ==
  /\ halfDone[j] = "retry"
  /\ halfDone' = [halfDone EXCEPT ![j] = "none"]
  /\ Release(j)
  /\ ReleasedEarly(j)
  /\ \/ /\ jobState[j] = "Failed"
        /\ SetState(j, "Queued")
        /\ removal' = [removal EXCEPT ![j] = "none"]
        /\ Reply
     \/ jobState[j] # "Failed" /\ UNCHANGED <<jobVars, sched, pending, faults>>
  /\ UNCHANGED <<timers, tasks, workerVars, partial, cleanup, commands, crashes, dropped>>

Vanish(S) ==
  /\ MoveAll(S, "Gone")
  /\ removal' = [j \in Jobs |-> IF j \in S THEN "none" ELSE removal[j]]

\* remove_job; the partial file of a job that is not Completed goes with it.
Remove(j) ==
  /\ Command
  /\ Listed(j) /\ removal[j] = "none" /\ ~Blocked(j)
  /\ Release(j)
  /\ ReleasedEarly(j)
  /\ Vanish({j})
  /\ partial' = IF jobState[j] = "Completed" THEN partial ELSE partial \ {j}
  /\ Reply
  /\ UNCHANGED <<cleanup, halfDone>>

\* clear_completed_jobs touches no slot, and its command wakes nobody.
ClearCompleted ==
  /\ Command
  /\ Vanish({j \in Jobs : jobState[j] \in {"Completed", "Canceled"} /\ removal[j] = "none"})
  /\ UNCHANGED <<slotVars, sched, pending, partial, cleanup, halfDone, faults, early>>

\* cancel_jobs_for_delete and delete_jobs_for_disk_cleanup mark the job, and if
\* that was saved a clean-up task is spawned.  It waits for the worker if the
\* job had one when it was marked.
CleanUpLater(j) ==
  /\ removal' = [removal EXCEPT ![j] = "Removing"]
  /\ \/ /\ NoFault
        /\ Wake
        /\ cleanup' = [cleanup EXCEPT ![j] = IF j \in active THEN "wait" ELSE "delete"]
     \/ /\ Fault
        /\ UNCHANGED <<sched, pending, cleanup>>

CancelForDelete(j) ==
  /\ Command
  /\ Listed(j) /\ cleanup[j] = "none"      \* bound: one clean-up of a job at a time
  /\ MoveAll({j} \cap {k \in Jobs : jobState[k] \in Pausable \cup {"Paused", "Failed"}},
             "Canceled")
  /\ CleanUpLater(j)
  /\ UNCHANGED <<slotVars, partial, halfDone, early>>

DeleteFromDisk(j) ==
  /\ Command
  /\ Listed(j) /\ cleanup[j] = "none" /\ ~Blocked(j)
  /\ CleanUpLater(j)
  /\ UNCHANGED <<jobState, slotVars, partial, halfDone, early>>

-----------------------------------------------------------------------------
(* The clean-up task: cleanup_destructive_job and what records its result. *)

CleanupStep(j, from, to) ==
  /\ cleanup[j] = from
  /\ cleanup' = [cleanup EXCEPT ![j] = to]
  /\ UNCHANGED <<timers, tasks, workerVars, halfDone, commands, crashes, dropped>>

\* wait_for_active_worker_release sees the slot free.
CleanupReleased(j) ==
  /\ Listed(j) /\ j \notin active
  /\ CleanupStep(j, "wait", "delete")
  /\ UNCHANGED <<jobVars, slotVars, sched, pending, partial, faults, early>>

\* The wait times out or the job is gone, or the files cannot be deleted:
\* record_destructive_cleanup_failure.
CleanupFails(j) ==
  /\ \E from \in {"wait", "delete"} : CleanupStep(j, from, "none")
  /\ Release(j)
  /\ ReleasedEarly(j)
  /\ IF Listed(j)
       THEN SetState(j, "Canceled") /\ removal' = [removal EXCEPT ![j] = "CleanupFailed"]
       ELSE UNCHANGED jobVars
  /\ Reply
  /\ UNCHANGED partial

\* remove_destructive_cleanup_paths, without the lock.
CleanupDelete(j) ==
  /\ CleanupStep(j, "delete", "deleted")
  /\ partial' = partial \ {j}
  /\ UNCHANGED <<jobVars, slotVars, sched, pending, faults, early>>

\* finish_destructive_cleanup_success.
CleanupDone(j) ==
  /\ CleanupStep(j, "deleted", "none")
  /\ Release(j)
  /\ ReleasedEarly(j)
  /\ Vanish({j})
  /\ Reply
  /\ UNCHANGED partial

-----------------------------------------------------------------------------
(* The application ends at any moment and is started again.                *)

\* Mutated form: an interrupted clean-up is not looked at.
NormalizedButForRemoval(j) ==
  [state   |-> IF jobState[j] \in Running THEN "Queued" ELSE jobState[j],
   removal |-> removal[j]]

\* normalize_job of a row that was loaded: nobody runs the job any more, and
\* nobody deletes its files.
Normalized(j) ==
  IF removal[j] = "Removing"
    THEN [state |-> "Canceled", removal |-> "CleanupFailed"]
    ELSE [state   |-> IF jobState[j] \in Running THEN "Queued" ELSE jobState[j],
          removal |-> removal[j]]

\* A start builds RuntimeState from the rows: they and the partial files survive,
\* slots, defers and tasks do not.  The rows on disk are those in memory as long
\* as no save failed (bound: no crash after one); a crash between a critical
\* section and its save is a crash before the section.
Crash ==
  /\ crashes < MaxCrashes
  /\ crashes' = crashes + 1
  /\ faults = 0
  /\ jobState' = [j \in Jobs |-> Normalized(j).state]
  /\ removal' = [j \in Jobs |-> Normalized(j).removal]
  /\ active' = {} /\ deferred' = {} /\ timers' = {} /\ tasks' = {}
  /\ sched' = "claim" /\ pending' = FALSE
  /\ wpc' = [w \in Workers |-> "idle"]
  /\ wjob' = [w \in Workers |-> AnyJob]
  /\ wpurge' = [w \in Workers |-> FALSE]
  /\ cleanup' = [j \in Jobs |-> "none"]
  /\ halfDone' = [j \in Jobs |-> "none"]
  /\ dropped' = {} /\ early' = {}
  /\ UNCHANGED <<partial, commands, faults>>

-----------------------------------------------------------------------------
SchedulerNext ==
  \/ Claim
  \/ PersistClaim
  \/ \E j \in Jobs, w \in Workers : StartWorker(j, w)
  \/ CompleteRun
  \/ \E j \in Jobs : DeferExpires(j) \/ DelayedWake(j)

WorkerNext(w) ==
  \/ WorkerEnter(w) \/ Defer(w) \/ AttemptFails(w) \/ MarkDownloading(w)
  \/ OpenPartial(w) \/ Progress(w) \/ Poll(w) \/ ObserveStop(w) \/ Finish(w)
  \/ CompleteJob(w)
  \/ RecordRetry(w) \/ BackoffOver(w) \/ Exhausted(w) \/ GiveUp(w)
  \/ PauseRecoverably(w) \/ AutoRestart(w) \/ FailJob(w)
  \/ FinishInterrupted(w) \/ DecidePurge(w) \/ Purge(w) \/ WorkerExit(w)

CommandNext ==
  \/ \E j \in Jobs :
       \/ Pause(j) \/ Resume(j) \/ Retry(j) \/ Restart(j) \/ Remove(j)
       \/ CancelRead(j) \/ CancelUnlink(j) \/ CancelCommit(j)
       \/ RetryBulkRead(j) \/ RetryBulkCommit(j)
       \/ CancelForDelete(j) \/ DeleteFromDisk(j)
  \/ PauseAll \/ ResumeAll \/ RetryFailed \/ ClearCompleted

CleanupNext ==
  \E j \in Jobs : CleanupReleased(j) \/ CleanupFails(j) \/ CleanupDelete(j) \/ CleanupDone(j)

Next ==
  \/ SchedulerNext \/ (\E w \in Workers : WorkerNext(w))
  \/ CommandNext \/ CleanupNext \/ Crash

Spec == Init /\ [][Next]_vars

(***************************************************************************)
(* Fairness.  The runtime polls every task that can run, timers fire and   *)
(* the control poller polls, so each step a task takes without the network *)
(* or the user is weakly fair.  A transfer need not progress or end: no    *)
(* fairness for Progress, Finish and AttemptFails in general, except that  *)
(* requests have timeouts, so an attempt does not stay in preparation.     *)
(* max_retry_attempts bounds the retries of a download, so one that keeps  *)
(* failing gives up: strong fairness on the two ways out.                  *)
(***************************************************************************)
Fairness ==
  /\ WF_vars(Claim) /\ WF_vars(PersistClaim) /\ WF_vars(CompleteRun)
  /\ WF_vars(\E j \in Jobs, w \in Workers : StartWorker(j, w))
  /\ \A j \in Jobs :
       /\ WF_vars(DeferExpires(j))
       /\ WF_vars(DelayedWake(j))
       /\ WF_vars(CancelUnlink(j) \/ CancelCommit(j) \/ RetryBulkCommit(j))
       /\ WF_vars(CleanupReleased(j) \/ CleanupFails(j))
       /\ WF_vars(CleanupDelete(j) \/ CleanupFails(j))
       /\ WF_vars(CleanupDone(j))
  /\ \A w \in Workers :
       /\ WF_vars(WorkerEnter(w) \/ MarkDownloading(w) \/ OpenPartial(w))
       /\ WF_vars(Poll(w)) /\ WF_vars(ObserveStop(w))
       /\ WF_vars(CompleteJob(w))
       /\ WF_vars(RecordRetry(w) \/ GiveUp(w) \/ Exhausted(w))
       /\ SF_vars(GiveUp(w) \/ Exhausted(w))
       /\ WF_vars(BackoffOver(w))
       /\ WF_vars(PauseRecoverably(w) \/ AutoRestart(w) \/ FailJob(w))
       /\ WF_vars(FinishInterrupted(w) \/ DecidePurge(w) \/ Purge(w) \/ WorkerExit(w))

FairSpec == Spec /\ Fairness
-----------------------------------------------------------------------------
(* Properties.                                                             *)

Holders(j) == {w \in Workers : wjob[w] = j /\ wpc[w] \in Holding}

(***************************************************************************)
(* Every occupied slot is accounted for: the job in it has a task that is  *)
(* about to be started, or a worker that will release the slot - unless    *)
(* its claim was lost to a failed save (claim_schedulable_jobs_for_        *)
(* scheduler returns the error and drops the tasks).  Nothing else leaks a *)
(* slot, whichever way a worker ends.                                      *)
(***************************************************************************)
SlotHasOwner == \A j \in active : j \in tasks \cup dropped \/ Holders(j) # {}

(***************************************************************************)
(* A running worker sits in the slot of its job, and a job that was claimed*)
(* waits in its slot for the one worker it will get; claims do not outlive *)
(* their pass.  Again the exceptions are the jobs in `early'.              *)
(***************************************************************************)
SlotDiscipline ==
  /\ sched \notin {"persist", "start"} => tasks = {}
  /\ \A j \in Jobs \ early :
       /\ j \in tasks => j \in active /\ Holders(j) = {}
       /\ Holders(j) # {} => j \in active

(***************************************************************************)
(* A job has at most one live worker, so two workers never write one       *)
(* partial file - unless an operation gave up the slot of a running worker *)
(* (a clean-up that timed out, a recoverable pause, the removal of a       *)
(* canceled job, ...), which are the only ways to get there.               *)
(***************************************************************************)
SingleWorker == \A j \in Jobs \ early : \A v, w \in Holders(j) : v = w

(***************************************************************************)
(* The concurrency limits bound the workers and not only the slots: in     *)
(* each class at most as many workers hold a job of the queue as the       *)
(* settings allow, again except for jobs whose slot was given up early.    *)
(***************************************************************************)
HoldingIn(class) ==
  {w \in Workers : wpc[w] \in Holding /\ wjob[w] \in class \ early /\ Listed(wjob[w])}

WorkersWithinLimit ==
  /\ Cardinality(HoldingIn(Normal)) <= NormalLimit
  /\ Cardinality(HoldingIn(Bulk)) <= BulkLimit

(***************************************************************************)
(* No wake-up is lost.  When a queued job could be claimed, a pass is to   *)
(* come, a delayed wake is armed, or a worker that has lost its slot is on *)
(* its way to the wake it ends with, or about to be started without one.   *)
(* A failed save may cut a command off before its wake.                    *)
(***************************************************************************)
Schedulable(j) ==
  \/ j \in Eligible(Normal) /\ Cardinality(ActiveIn(Normal)) < NormalLimit
  \/ j \in Eligible(Bulk) /\ Cardinality(ActiveIn(Bulk)) < BulkLimit

Slotless(w) ==
  /\ wpc[w] # "idle"
  /\ wpc[w] \notin Holding \/ wjob[w] \notin active \/ ~Listed(wjob[w])

WakeAhead ==
  \/ sched = "claim" \/ pending
  \/ timers # {}
  \/ \E w \in Workers : Slotless(w)
  \/ ~ tasks \subseteq active

NoLostWake == faults = 0 /\ (\E j \in Jobs : Schedulable(j)) => WakeAhead

(***************************************************************************)
(* A job that the user paused or canceled comes back to life only by a     *)
(* command, or by one of two steps of its worker that do not look at its   *)
(* state: the admission defer and the auto-restart of a bulk member.  A    *)
(* mark or a progress update that races with the command never does it,    *)
(* nor does a start of the application.                                    *)
(***************************************************************************)
Revived(j) == jobState[j] \in {"Paused", "Canceled"} /\ jobState'[j] \in Pausable

UserStep == crashes' = crashes /\ (commands' # commands \/ halfDone' # halfDone)

RevivedByWorker(j) ==
  \E w \in Holders(j) :
    /\ wpc'[w] # wpc[w]
    /\ (wpc[w] = "attempt" /\ j \in deferred') \/ wpc[w] = "restarting"

RevivalIsKnown == [][\A j \in Jobs : Revived(j) => UserStep \/ RevivedByWorker(j)]_vars

(***************************************************************************)
(* A free slot and a job that may have it do not coexist forever, whatever *)
(* a crash interrupted.                                                    *)
(***************************************************************************)
SchedulableIsServed ==
  [](faults = 0) => \A j \in Jobs : []<>~Schedulable(j)

(***************************************************************************)
(* A job that stays paused, canceled, failed or removed is let go by its   *)
(* worker, wherever that was when the command arrived.                     *)
(***************************************************************************)
InterruptedWorkersStop ==
  \A j \in Jobs :
    <>[](WorkerControl(j) # "Continue") => <>[](Holders(j) = {})

(***************************************************************************)
(* A deletion from disk comes to an end: the job does not stay in Removing *)
(* forever, it is removed or reported as failed, also when the application *)
(* ended in the middle of it.                                              *)
(***************************************************************************)
CleanupEnds ==
  [](faults = 0) => \A j \in Jobs : removal[j] = "Removing" ~> removal[j] # "Removing"

-----------------------------------------------------------------------------
(* What the tests and the interface say, and the code does not keep.       *)

(***************************************************************************)
(* "Max Concurrent Downloads - Active job limit.": no more normal jobs are *)
(* transferred at a time than the setting allows, not even counting only   *)
(* the transfers nobody has asked to stop.                                 *)
(***************************************************************************)
Transferring(class) ==
  {w \in Workers : wpc[w] \in Writing /\ wjob[w] \in class /\ WorkerControl(wjob[w]) = "Continue"}

ActiveJobLimit == Cardinality(Transferring(Normal)) <= NormalLimit

(***************************************************************************)
(* A pause requested during start-up is preserved: only the user revives a *)
(* paused or canceled job.                                                 *)
(***************************************************************************)
PausePreserved == [][\A j \in Jobs : Revived(j) => UserStep]_vars

(***************************************************************************)
(* "delete should wait for the active worker release before removing       *)
(* files": the clean-up never deletes under a worker that is writing.      *)
(***************************************************************************)
DeleteWaitsForWorker ==
  [][\A j \in Jobs : cleanup[j] = "delete" /\ cleanup'[j] = "deleted" =>
       ~\E w \in Workers : wjob[w] = j /\ wpc[w] \in Writing]_vars

(***************************************************************************)
(* A job shown as starting or downloading has a worker, or will have one.  *)
(***************************************************************************)
RunningHasWorker ==
  \A j \in Jobs : jobState[j] \in Running => j \in tasks \cup dropped \/ Holders(j) # {}
=============================================================================
