--------------------------- MODULE SchedulerWake ---------------------------
(***************************************************************************)
(* The wake-up protocol of the download scheduler: any number of callers   *)
(* ask for a scheduling pass (schedule_downloads), at most one task runs   *)
(* the passes (run_scheduler_loop), and the two meet in SchedulerWakeState,*)
(* a pair of flags behind a mutex.  A caller whose request arrives while a *)
(* pass is running leaves `pending' behind; the loop looks at it only when *)
(* the pass is over.                                                       *)
(*                                                                         *)
(* Each caller is one thread: a command handler, a worker on its way out,  *)
(* a delayed wake.  `owed' is a history variable: the callers whose        *)
(* request no claim has covered yet.                                       *)
(*                                                                         *)
(* Names that every specification has begin with `Wake' here, so that the  *)
(* proofs about the scheduler can extend this module and HosterFairness,   *)
(* which says what a pass may claim.                                       *)
(***************************************************************************)
EXTENDS Naturals

CONSTANT Callers      \* the tasks that call schedule_downloads

VARIABLES
  running, pending,   \* SchedulerWakeState
  caller,             \* caller[c]: "idle", or "spawn" once its request won the run
  runner,             \* the scheduler task: "none", "claim" or "complete"
  owed                \* callers whose request has not been followed by a claim

wakeVars == <<running, pending, caller, runner, owed>>

WakeTypeOK ==
  /\ running \in BOOLEAN
  /\ pending \in BOOLEAN
  /\ caller \in [Callers -> {"idle", "spawn"}]
  /\ runner \in {"none", "claim", "complete"}
  /\ owed \subseteq Callers

WakeInit ==
  /\ running = FALSE
  /\ pending = FALSE
  /\ caller = [c \in Callers |-> "idle"]
  /\ runner = "none"
  /\ owed = {}

(***************************************************************************)
(* request_scheduler_wake, under the mutex: a running scheduler absorbs    *)
(* the request; otherwise the caller becomes the one to spawn the loop.    *)
(***************************************************************************)
RequestAbsorbed(c) ==
  /\ caller[c] = "idle"
  /\ running
  /\ pending' = TRUE
  /\ owed' = owed \cup {c}
  /\ UNCHANGED <<running, caller, runner>>

\* Mutated form: the request does not look at `running'.
RequestIgnoresRunning(c) ==
  /\ caller[c] = "idle"
  /\ running' = TRUE
  /\ caller' = [caller EXCEPT ![c] = "spawn"]
  /\ owed' = owed \cup {c}
  /\ UNCHANGED <<pending, runner>>

RequestWins(c) ==
  /\ caller[c] = "idle"
  /\ ~running
  /\ running' = TRUE
  /\ caller' = [caller EXCEPT ![c] = "spawn"]
  /\ owed' = owed \cup {c}
  /\ UNCHANGED <<pending, runner>>

\* schedule_downloads, after a request that returned true: spawn the loop.
Spawn(c) ==
  /\ caller[c] = "spawn"
  /\ caller' = [caller EXCEPT ![c] = "idle"]
  /\ runner' = "claim"
  /\ UNCHANGED <<running, pending, owed>>

\* run_scheduler_once: the claim reads the queue under its lock, so it covers
\* every request made before that moment.
Claim ==
  /\ runner = "claim"
  /\ runner' = "complete"
  /\ owed' = {}
  /\ UNCHANGED <<running, pending, caller>>

\* Mutated form: the pending flag is read but not consumed.
CompleteKeepsPending ==
  /\ runner = "complete"
  /\ pending
  /\ runner' = "claim"
  /\ UNCHANGED <<running, pending, caller, owed>>

\* complete_scheduler_run, under the mutex: consume one pending wake, or stop.
CompleteAgain ==
  /\ runner = "complete"
  /\ pending
  /\ pending' = FALSE
  /\ runner' = "claim"
  /\ UNCHANGED <<running, caller, owed>>

\* Mutated form: the loop ends without looking at the pending flag.
CompleteStopIgnoresPending ==
  /\ runner = "complete"
  /\ running' = FALSE
  /\ runner' = "none"
  /\ UNCHANGED <<pending, caller, owed>>

CompleteStop ==
  /\ runner = "complete"
  /\ ~pending
  /\ running' = FALSE
  /\ runner' = "none"
  /\ UNCHANGED <<pending, caller, owed>>

Complete == CompleteAgain \/ CompleteStop

WakeNext ==
  \/ \E c \in Callers : RequestAbsorbed(c) \/ RequestWins(c) \/ Spawn(c)
  \/ Claim
  \/ Complete

(***************************************************************************)
(* Fairness: the runtime polls spawned tasks, so a spawn, a claim and the  *)
(* end of a pass all happen.  Nobody is obliged to call.                   *)
(***************************************************************************)
WakeFairness ==
  /\ \A c \in Callers : WF_wakeVars(Spawn(c))
  /\ WF_wakeVars(Claim)
  /\ WF_wakeVars(Complete)

WakeSpec == WakeInit /\ [][WakeNext]_wakeVars /\ WakeFairness
-----------------------------------------------------------------------------
Spawning == {c \in Callers : caller[c] = "spawn"}

(***************************************************************************)
(* At most one scheduler exists, counting one that is about to be spawned: *)
(* two passes never claim from the queue at the same time.                 *)
(***************************************************************************)
OneScheduler ==
  /\ running <=> (runner # "none" \/ Spawning # {})
  /\ runner # "none" => Spawning = {}
  /\ \A c, d \in Spawning : c = d

(***************************************************************************)
(* A request that was not served is never forgotten: a claim is still to   *)
(* come, in the current pass, in the pending one, or in a loop that is     *)
(* about to be spawned.                                                    *)
(***************************************************************************)
NoForgottenWake ==
  owed # {} => \/ Spawning # {}
               \/ runner = "claim"
               \/ runner = "complete" /\ pending

(***************************************************************************)
(* Every request of schedule_downloads is followed by a claim that starts  *)
(* after it.                                                               *)
(***************************************************************************)
EveryWakeServed == \A c \in Callers : c \in owed ~> c \notin owed

(***************************************************************************)
(* The scheduler does not spin: once the callers fall silent it stops, and *)
(* complete_scheduler_run has consumed every flag they left.               *)
(***************************************************************************)
SchedulerRests ==
  <>[][~\E c \in Callers : RequestAbsorbed(c) \/ RequestWins(c)]_wakeVars
    => <>[](runner = "none" /\ ~pending)
-----------------------------------------------------------------------------
(***************************************************************************)
(* What the callers are promised, without flags or mutex.                  *)
(***************************************************************************)
Contract == INSTANCE WakeContract

ImplementsContract == Contract!Spec
=============================================================================
