--------------------------- MODULE HosterFairness ---------------------------
(***************************************************************************)
(* Which parts of bulk archives may be downloaded at once from one         *)
(* protected hoster: the scheduler's claim pass as it sees one origin      *)
(* (state/scheduler.rs), the health record kept for every worker, and the  *)
(* adaptive controller that raises and lowers the number of workers        *)
(* (state.rs, BulkHosterWorkerHealth and BulkHosterFairnessController).    *)
(*                                                                         *)
(* Jobs are numbered as in state.jobs and all come from the same origin;   *)
(* origins do not meet in the code except for the bulk slots.  The passes, *)
(* the reports and the commands each run under the queue's lock.  Time is  *)
(* in ticks: ages that no comparison tells apart are capped, and a grace   *)
(* shorter than a tick lasts to the end of the tick.                       *)
(***************************************************************************)
EXTENDS Integers, Sequences, FiniteSets, FiniteSetsExt

CONSTANTS
    Archive,        \* of each job: the archive it is a part of
    Rank,           \* of each job: its number among the archive's parts
    Starts,         \* situations to start in: the fairness mode, whether the
                    \* hoster is an accelerated one, the parts that are done,
                    \* and (bound) how many commands, defers and
                    \* restarts follow
    BulkLimit,      \* settings.bulk.max_concurrent_downloads
    FastLimit,      \* concurrency of an accelerated hoster
    MaxAdaptive,    \* BULK_HOSTER_MAX_ADAPTIVE_CONCURRENCY
    Window,         \* ticks of the startup, low speed and degradation windows
    Runway,         \* ticks an accelerated worker has to run
    Cooldown,       \* ticks after a downshift without a ramp
    Samples, FastSamples, FastSteps, \* healthy samples a worker needs, in an
                    \* accelerated one's runway, or samples of any progress there
    MaxSpeed,       \* bound: speeds are 0 (below the health floor)..MaxSpeed
    RescueFloor     \* aggregate speed below which an archive is rescued

Jobs == 1..Len(Archive)

ASSUME PartsAssumption ==
    /\ Archive \in Seq(STRING) /\ Rank \in [Jobs -> Nat]
    /\ \A j, k \in Jobs : Archive[j] = Archive[k] /\ Rank[j] = Rank[k] => j = k
ASSUME PolicyAssumption ==
    /\ Starts \subseteq [mode : {"Off", "Safe", "Adaptive"}, fast : BOOLEAN,
                         done : SUBSET Jobs, commands : Nat]
    /\ {BulkLimit, FastLimit, MaxAdaptive, Window, Runway, Cooldown,
        Samples, FastSamples, FastSteps} \subseteq Nat \ {0}
    /\ Samples <= FastSamples
    /\ {MaxSpeed, RescueFloor} \subseteq Nat

None == -1
Least(a, b)    == IF a < b THEN a ELSE b
Greatest(a, b) == IF a > b THEN a ELSE b

\* How old something can be before nothing more depends on its age.
Old == Window + 1
Aged(t, cap) == IF t = None THEN None ELSE Least(t + 1, cap)

Running == {"Starting", "Downloading"}
Ended   == {"Completed", "Canceled"}
States  == Running \cup Ended \cup {"Queued", "Paused", "Failed"}

VARIABLES
    mode, fast,     \* settings and hoster; they do not change
    state,          \* state of each job
    slot,           \* jobs in active_workers
    health,         \* bulk_hoster_worker_health
    ctl,            \* the origin's controller, NoController when it has none
    deferred,       \* jobs under an admission defer
    wake,           \* a scheduler pass is due
    left,           \* commands, defers and restarts that may still come
    revived,        \* history: paused or canceled while their worker ran on
    unseen,         \* history: workers whose records a resume of all jobs dropped
    quiet           \* history: a cancel asked for no pass, and none came since

\* Healthy samples after which nothing more depends on their number.
Enough == IF fast THEN FastSamples ELSE Samples

policy == <<mode, fast>>
histories == <<revived, unseen>>
vars == <<policy, state, slot, health, ctl, deferred, wake, left, histories, quiet>>

NoHealth == [moving |-> FALSE, age |-> None, idle |-> None, low |-> None,
             good |-> None, fresh |-> None, steps |-> None, speed |-> None]
NoController == [target |-> 0, base |-> None, slow |-> None, cool |-> 0]
NewController == [NoController EXCEPT !.target = 1]

\* A worker's record when it is claimed; ages count from the transfer's start.
Claimed == [moving |-> FALSE, age |-> 0, idle |-> 0, low |-> None, good |-> 0,
            fresh |-> None, steps |-> 0, speed |-> 0]

-----------------------------------------------------------------------------
(* A worker's health.                                                      *)

Transferring(h) ==
    [h EXCEPT !.moving = TRUE, !.age = 0, !.idle = 0, !.low = 0, !.good = 0,
              !.fresh = None, !.steps = 0, !.speed = 0]

\* update: the samples of low speed, healthy progress and any progress.
Updated(h, progressed, speed) ==
    LET low   == IF speed > 0 THEN None ELSE Greatest(h.low, 0)
        well  == progressed /\ speed > 0
        kept  == IF low > 0 THEN 0 ELSE h.good
        steps == IF progressed
                 THEN IF fast THEN Least((IF h.idle > Window THEN 0 ELSE h.steps) + 1, FastSteps)
                      ELSE 0
                 ELSE IF h.idle >= Window THEN 0 ELSE h.steps
    IN  [h EXCEPT !.idle = IF progressed THEN 0 ELSE @,
                  !.low = low,
                  !.good = IF well THEN Least(kept + 1, Enough) ELSE kept,
                  !.fresh = IF well THEN 0 ELSE IF kept = 0 THEN None ELSE @,
                  !.steps = steps,
                  !.speed = speed]

RecentProgress(h) ==
    h.moving /\ h.good >= Samples /\ h.fresh \in 0..Window /\ h.idle < Window
RecentSamples(h) == h.speed > 0 /\ RecentProgress(h)
TransientLow(h)  == h.speed = 0 /\ h.low = 0 /\ RecentProgress(h)

ClaimReady(h) ==
    IF fast
    THEN /\ h.age >= Runway
         /\ \/ h.good >= FastSamples /\ RecentSamples(h)
            \/ h.steps >= FastSteps /\ h.idle < Window
    ELSE RecentSamples(h)
LowReady(h) ==
    TransientLow(h) /\ (fast => h.good >= FastSamples /\ h.age >= Runway)

Blocks(h) ==
    \/ ~h.moving
    \/ fast /\ ~ClaimReady(h) /\ ~LowReady(h)
    \/ ~fast /\ h.age < Window
    \/ ~fast /\ h.speed = 0 /\ (h.low >= Window \/ h.idle >= Window)

Healthy(h) ==
    /\ h.moving
    /\ fast \/ h.age >= Window
    /\ ClaimReady(h) \/ RecentSamples(h) \/ LowReady(h) \/ (~fast /\ TransientLow(h))

\* A tick later.
Older(h) ==
    [h EXCEPT !.age = Aged(@, Window), !.idle = Aged(@, Old),
              !.low = Aged(@, Window), !.fresh = Aged(@, Old)]

-----------------------------------------------------------------------------
(* What a pass computes about the origin.                                  *)

\* Mutant of Watched: jobs that were claimed and have not reported yet do
\* not count.
WatchedOnceMoving == {j \in slot : state[j] = "Downloading" /\ health[j] # NoHealth}

\* The workers bulk_hoster_fairness_metrics_by_key counts.
Watched == {j \in slot : state[j] \in Running /\ health[j] # NoHealth}

\* Whether an accelerated worker, not the newest, is under pressure: its speed
\* is below three quarters of its own average.  The averages are not kept, so
\* it may be so whenever another worker runs beside one that transfers.
PressureSeen ==
    IF fast /\ Cardinality(Watched) >= 2 /\ \E j \in Watched : health[j].moving
    THEN BOOLEAN ELSE {FALSE}

Metrics(pressure) ==
    [count    |-> Cardinality(Watched),
     speed    |-> MapThenSumSet(LAMBDA j : health[j].speed, Watched),
     healthy  |-> Watched # {} /\ ~pressure /\ \A j \in Watched : Healthy(health[j]),
     blocking |-> pressure \/ \E j \in Watched : Blocks(health[j])]

SlotLimit == IF fast THEN Greatest(BulkLimit, FastLimit) ELSE BulkLimit
AdaptiveLimit == IF fast THEN FastLimit ELSE MaxAdaptive
MaxTarget == Least(SlotLimit, AdaptiveLimit)

\* The baseline of aggregate speed after a round that found no ramp.
Baseline(c, m, compared, down) ==
    IF ~compared THEN c.base
    ELSE IF down \/ c.base = None THEN Greatest(m.speed, 1)
    ELSE Greatest(c.base, m.speed)

\* reconcile: lower the target after a lasting loss of aggregate speed, raise
\* it by one where all workers are healthy and the target is used up.
Reconcile(c, m) ==
    LET target   == Greatest(1, Least(c.target, MaxTarget))
        compared == m.count >= 2 /\ m.healthy
        degraded == compared /\ c.base # None /\ m.speed * 100 < c.base * 65
        since    == IF degraded THEN Greatest(c.slow, 0)
                    ELSE IF (compared /\ c.base # None) \/ (~compared /\ m.blocking)
                    THEN None ELSE c.slow
        down     == degraded /\ since >= Window /\ target > 1
        lowered  == IF down THEN target - 1 ELSE target
        ramp     == /\ ~m.blocking /\ m.healthy /\ c.cool = 0 /\ ~down
                    /\ m.count >= lowered /\ lowered < MaxTarget
    IN  [target |-> IF ramp THEN lowered + 1 ELSE lowered,
         base   |-> IF ramp THEN Greatest(m.speed, 1) ELSE Baseline(c, m, compared, down),
         slow   |-> IF ramp \/ down THEN None ELSE since,
         cool   |-> IF down THEN Cooldown ELSE c.cool]

\* Controllers without an active worker are dropped; other modes keep none.
Controller(m) ==
    IF mode # "Adaptive" \/ m.count = 0 THEN NoController
    ELSE Reconcile(IF ctl = NoController THEN NewController ELSE ctl, m)

Target(c) ==
    CASE mode = "Off"      -> SlotLimit
      [] mode = "Safe"     -> 1
      [] mode = "Adaptive" -> Greatest(1, Least(c.target, MaxTarget))

-----------------------------------------------------------------------------
(* The window of an archive and the order of the queue.                    *)

Members(a) == {j \in Jobs : Archive[j] = a}
Before(j, k) == Archive[j] = Archive[k] /\ Rank[j] < Rank[k]

\* Groups stand where their first member stands, in the order of the parts.
Precedes(j, k) ==
    LET head(i) == Min(Members(Archive[i]))
    IN  head(j) < head(k) \/ (head(j) = head(k) /\ Rank[j] < Rank[k])

Order == CHOOSE s \in [Jobs -> Jobs] :
            \A i, k \in Jobs : i < k => Precedes(s[i], s[k])

\* Mutant of Unfinished: a canceled part is waited for.
UnfinishedOrCanceled(j) == state[j] # "Completed"

Unfinished(j) == state[j] \notin Ended

Rescued(a, m, target) ==
    /\ mode = "Adaptive" /\ fast /\ ~m.blocking
    /\ \E j \in Members(a) : state[j] = "Queued"
    /\ m.count > 0 /\ m.speed > 0 /\ m.speed < RescueFloor
    /\ FastLimit > target

WindowSize(a, m, target) ==
    Least(SlotLimit, IF Rescued(a, m, target) THEN FastLimit ELSE target)

\* The first Size members from the first unfinished one on; members that
\* ended in between count.
Allowed(j, size) ==
    /\ Unfinished(j)
    /\ Cardinality({k \in Jobs : /\ Before(k, j)
                                 /\ \E i \in Jobs : (i = k \/ Before(i, k)) /\ Unfinished(i)})
         < size

-----------------------------------------------------------------------------
(* The claim pass.                                                         *)

Free == Greatest(SlotLimit - Cardinality(slot), 0)

\* An older job of the archive that is close to its end keeps newer ones out.
Protected(j, near) == \E k \in near : k < j /\ Archive[k] = Archive[j]

\* One job of the pass: acc holds what was picked, and whether a deferred job
\* or a refused accelerated one closed the origin for the rest of the pass.
Consider(acc, j, m, target, near) ==
    LET rescue  == Rescued(Archive[j], m, target)
        size    == WindowSize(Archive[j], m, target)
        room    == Cardinality(acc.picked) < Free /\ ~acc.held
        refused == \/ mode # "Off" /\ m.blocking /\ ~rescue
                   \/ m.count + Cardinality(acc.picked) >= size
                   \/ fast /\ acc.picked # {} /\ ~rescue
    IN  IF state[j] # "Queued" \/ j \in slot \/ ~room THEN acc
        ELSE IF j \in deferred THEN [acc EXCEPT !.held = TRUE]
        ELSE IF Protected(j, near) \/ ~Allowed(j, size) \/ acc.shut THEN acc
        ELSE IF refused THEN [acc EXCEPT !.shut = fast]
        ELSE [acc EXCEPT !.picked = @ \cup {j}]

Picked(m, target, near) ==
    LET order == Order
        round[n \in 0..Len(Archive)] ==
            IF n = 0 THEN [picked |-> {}, held |-> FALSE, shut |-> FALSE]
            ELSE Consider(round[n - 1], order[n], m, target, near)
    IN  round[Len(Archive)].picked

\* One pass.  Where all slots are taken it returns at once, unless slots of
\* the other pool, which are not modelled, are free.
Pass ==
    /\ wake
    /\ wake' = FALSE /\ quiet' = FALSE
    /\ \/ /\ Free = 0
          /\ UNCHANGED <<state, slot, health, ctl>>
       \/ \E pressure \in PressureSeen,
             near \in SUBSET {j \in slot : state[j] \in Running} :
             LET m      == Metrics(pressure)
                 c      == Controller(m)
                 picked == Picked(m, Target(c), near)
             IN  /\ ctl' = c
                 /\ state' = [j \in Jobs |-> IF j \in picked THEN "Starting" ELSE state[j]]
                 /\ slot' = slot \cup picked
                 /\ health' = [j \in Jobs |-> IF j \in picked THEN Claimed ELSE health[j]]
    /\ UNCHANGED <<policy, deferred, left, histories>>

-----------------------------------------------------------------------------
(* Workers.                                                                *)

Interrupted(j) == state[j] \in {"Paused", "Canceled", "Failed", "Completed"}

\* A health record goes; with the last one go all controllers.
ClearHealth(j) ==
    /\ health' = [health EXCEPT ![j] = NoHealth]
    /\ ctl' = IF \A k \in Jobs \ {j} : health[k] = NoHealth THEN NoController ELSE ctl

\* A report takes a job that is not interrupted to Downloading.
Reported(j) == state' = [state EXCEPT ![j] = IF Interrupted(j) THEN @ ELSE "Downloading"]

\* mark_job_downloading: the response has come.  An attempt after the first
\* does not start the record anew.
Begin(j) ==
    /\ j \in slot
    /\ Reported(j)
    /\ health' = IF health[j] = NoHealth THEN health
                 ELSE [health EXCEPT ![j] =
                         Updated(IF @.moving THEN @ ELSE Transferring(@), FALSE, 0)]
    /\ UNCHANGED <<policy, slot, ctl, deferred, wake, left, histories, quiet>>

\* A progress report.  Speed is an average: it may be high without progress.
\* A report at or above the floor asks for a pass.
Report(j, progressed, speed) ==
    /\ j \in slot
    /\ health[j] = NoHealth \/ health[j].moving
    /\ state[j] # "Starting"
    /\ Reported(j)
    /\ health' = IF health[j] = NoHealth THEN health
                 ELSE [health EXCEPT ![j] = Updated(@, progressed, speed)]
    /\ wake' = (wake \/ speed > 0)
    /\ UNCHANGED <<policy, slot, ctl, deferred, left, histories, quiet>>

\* remove_active_worker, and the pass every worker asks for at its end.
Release(j) ==
    /\ j \in slot
    /\ slot' = slot \ {j}
    /\ ClearHealth(j)
    /\ deferred' = deferred \ {j}
    /\ revived' = revived \ {j} /\ unseen' = unseen \ {j}
    /\ wake' = TRUE

\* The download is complete, has failed for good, or is paused with what it
\* has after the last retry, whatever the user did meanwhile.
Finish(j) ==
    /\ Release(j)
    /\ \E s \in {"Completed", "Failed", "Paused"} : state' = [state EXCEPT ![j] = s]
    /\ UNCHANGED <<policy, left, quiet>>

\* The worker saw a pause or a cancel; the job may be queued again by now.
Stop(j) ==
    /\ Release(j)
    /\ j \in revived
    /\ UNCHANGED <<policy, state, left, quiet>>

\* defer_active_job: no connection is to be had, the job waits in the queue.
\* auto_restart_bulk_member: it is queued at once with a new link.
Requeue(j) ==
    /\ j \in slot /\ left > 0
    /\ left' = left - 1
    /\ slot' = slot \ {j}
    /\ ClearHealth(j)
    /\ state' = [state EXCEPT ![j] = "Queued"]
    /\ \E later \in BOOLEAN : deferred' = IF later THEN deferred \cup {j} ELSE deferred \ {j}
    /\ revived' = revived \ {j} /\ unseen' = unseen \ {j}
    /\ wake' = TRUE
    /\ UNCHANGED <<policy, quiet>>

\* The pass that was scheduled for the end of the defer.
DeferEnds(j) ==
    /\ j \in deferred
    /\ deferred' = deferred \ {j}
    /\ wake' = TRUE
    /\ UNCHANGED <<policy, state, slot, health, ctl, left, histories, quiet>>

Tick ==
    /\ health' = [j \in Jobs |->
            IF health[j].moving THEN Older(health[j]) ELSE health[j]]
    /\ ctl' = [ctl EXCEPT !.slow = Aged(@, Window), !.cool = Greatest(@ - 1, 0)]
    /\ UNCHANGED <<policy, state, slot, deferred, wake, left, histories, quiet>>

-----------------------------------------------------------------------------
(* Commands.                                                               *)

Command(j) ==
    /\ left > 0
    /\ left' = left - 1
    /\ UNCHANGED <<policy, slot, deferred, unseen>>

\* The worker keeps its slot until it notices; its record goes at once.
Pause(j) ==
    /\ Command(j)
    /\ state[j] \in Running \cup {"Queued"}
    /\ state' = [state EXCEPT ![j] = "Paused"]
    /\ ClearHealth(j)
    /\ revived' = revived \cup ({j} \cap slot)
    /\ wake' = TRUE
    /\ UNCHANGED quiet

\* The command for one job asks for a pass, the one for a selection does not.
Cancel(j) ==
    /\ Command(j)
    /\ state[j] # "Canceled"
    /\ state' = [state EXCEPT ![j] = "Canceled"]
    /\ ClearHealth(j)
    /\ revived' = revived \cup ({j} \cap slot)
    /\ \/ wake' = TRUE /\ UNCHANGED quiet
       \/ UNCHANGED wake /\ quiet' = ~wake

Resume(j) ==
    /\ Command(j)
    /\ state[j] \in {"Paused", "Failed", "Canceled"}
    /\ state' = [state EXCEPT ![j] = "Queued"]
    /\ wake' = TRUE
    /\ UNCHANGED <<health, ctl, revived, quiet>>

\* pause_all_jobs and resume_all_jobs: the records of all workers, all
\* controllers and all defers go, whatever became of the jobs.
CommandAll(from, to) ==
    /\ left > 0
    /\ left' = left - 1
    /\ state' = [j \in Jobs |-> IF state[j] \in from THEN to ELSE state[j]]
    /\ health' = [j \in Jobs |-> NoHealth]
    /\ ctl' = NoController
    /\ deferred' = {}
    /\ wake' = TRUE
    /\ UNCHANGED <<policy, slot, quiet>>

PauseAll ==
    /\ CommandAll(Running \cup {"Queued"}, "Paused")
    /\ revived' = revived \cup slot
    /\ UNCHANGED unseen

\* The workers that run on are not asked to stop.
ResumeAll ==
    /\ CommandAll({"Paused", "Failed", "Canceled"}, "Queued")
    /\ unseen' = unseen \cup slot
    /\ UNCHANGED revived

\* Something else asks for a pass: a command for another job, the end of
\* another worker, the timer of a defer that is gone.
OtherWake ==
    /\ wake' = TRUE
    /\ UNCHANGED <<policy, state, slot, health, ctl, deferred, left, histories, quiet>>

-----------------------------------------------------------------------------
Init ==
    /\ \E s \in Starts :
        /\ mode = s.mode /\ fast = s.fast /\ left = s.commands
        /\ state = [j \in Jobs |-> IF j \in s.done THEN "Completed" ELSE "Queued"]
    /\ slot = {} /\ deferred = {} /\ revived = {} /\ unseen = {} /\ quiet = FALSE
    /\ health = [j \in Jobs |-> NoHealth]
    /\ ctl = NoController
    /\ wake = TRUE

WorkerEnds(j) == Finish(j) \/ Stop(j)

Next ==
    \/ Pass \/ Tick \/ PauseAll \/ ResumeAll \/ OtherWake
    \/ \E j \in Jobs :
        \/ Begin(j) \/ WorkerEnds(j) \/ Requeue(j) \/ DeferEnds(j)
        \/ \E progressed \in BOOLEAN, speed \in 0..MaxSpeed :
              Report(j, progressed, speed)
        \/ Pause(j) \/ Cancel(j) \/ Resume(j)

\* A pass that is due runs - only a pass takes the request back -, timers
\* fire, and a worker ends: transfers that bring nothing are cut off by the
\* stall and low speed limits and fail after their retries.
Fairness ==
    /\ WF_wake(wake /\ wake' = FALSE)
    /\ \A j \in Jobs : WF_vars(WorkerEnds(j)) /\ WF_vars(DeferEnds(j))

Spec == Init /\ [][Next]_vars /\ Fairness

-----------------------------------------------------------------------------
(* Properties.                                                             *)

Ages(cap) == None..cap
HealthRecords ==
    [moving : BOOLEAN, age : Ages(Window), idle : Ages(Old), low : Ages(Window),
     good : None..FastSamples, fresh : Ages(Old), steps : None..FastSteps, speed : None..MaxSpeed]

(***************************************************************************)
(* Types of the queue, the health records and the controller; a record     *)
(* exists only for a job that holds a slot.                                *)
(***************************************************************************)
TypeOK ==
    /\ mode \in {"Off", "Safe", "Adaptive"} /\ fast \in BOOLEAN
    /\ state \in [Jobs -> States]
    /\ {slot, deferred, revived, unseen} \subseteq SUBSET Jobs
    /\ health \in [Jobs -> HealthRecords]
    /\ \A j \in Jobs : health[j] # NoHealth => j \in slot
    /\ ctl.target \in 0..MaxTarget /\ ctl.base >= None
    /\ ctl.slow \in Ages(Window) /\ ctl.cool \in 0..Cooldown
    /\ {wake, quiet} \subseteq BOOLEAN /\ left \in Nat

\* The most workers the mode ever lets onto the origin.
Ceiling ==
    CASE mode = "Off"      -> SlotLimit
      [] mode = "Safe"     -> 1
      [] mode = "Adaptive" -> MaxTarget

(***************************************************************************)
(* The hoster never serves more workers than the mode allows: one in the   *)
(* safe mode, the adaptive limit in the adaptive one.  Workers come and go *)
(* by claims, ends, defers, pauses and cancels, and a claim counts others  *)
(* by their health records.  The exceptions are workers whose records a    *)
(* command dropped, so that no later pass counts them: that of a job which *)
(* was paused or canceled and queued again before the worker noticed, and  *)
(* every worker that runs while all jobs are resumed (state/jobs.rs        *)
(* pause_job, state/runtime.rs resume_all_jobs, state/scheduler.rs         *)
(* bulk_hoster_fairness_metrics_by_key).                                   *)
(***************************************************************************)
OriginWithinCeiling ==
    Cardinality({j \in slot : state[j] \in Running} \ (revived \cup unseen)) <= Ceiling

\* A job left without a worker in a state that says it has one.
Adrift(j) == state[j] \in Running /\ j \notin slot

(***************************************************************************)
(* A part that is queued is started, or is no longer queued, or an earlier *)
(* part of its archive has stopped: whatever workers that warm up, stall,  *)
(* finish or are deferred, targets that fall and windows of other archives *)
(* do in between.  The exceptions: an earlier part that is paused, failed, *)
(* or left Downloading by a worker that stopped after a pause the user had *)
(* taken back keeps its place in the window (state/scheduler.rs            *)
(* protected_bulk_archive_scheduling_windows); and canceling a selection,  *)
(* which may free such a place, asks for no pass (commands/mod.rs          *)
(* cancel_jobs).                                                           *)
(***************************************************************************)
EveryPartStarts ==
    \A j \in Jobs :
        state[j] = "Queued" ~>
            \/ state[j] # "Queued"
            \/ \E k \in Jobs : Before(k, j) /\ (state[k] \in {"Paused", "Failed"} \/ Adrift(k))
            \/ quiet
=============================================================================
