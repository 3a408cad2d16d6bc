-------------------------- MODULE SegmentAdmission --------------------------
(***************************************************************************)
(* How many connections a segmented download may open: the broker of       *)
(* connection leases every job shares (download/http.rs) and the adaptive  *)
(* controller of one attempt, which measures throughput, tries more        *)
(* workers, keeps or rolls back the trial, and spawns and sheds workers    *)
(* (download/segmented.rs, AdaptiveSegmentAdmission).                      *)
(*                                                                         *)
(* Job Me runs the controller; the other jobs are only seen through their  *)
(* leases.  The broker's map is behind one mutex, so each of its           *)
(* operations is atomic.  A throughput sample is a small number.           *)
(***************************************************************************)
EXTENDS Integers, FiniteSets

CONSTANTS
    Jobs, Me, Origins, Classes,
    TotalBudget, OriginBudget,   \* connections per class, and per class and origin
    FairWorkers,                 \* jobs one protected origin is shared between
    HosterInitial, HosterMax,    \* caps of the hoster's policy
    InitialSegs, SoftMax, MaxSegs, RampStep,   \* performance profile
    Cooldown, MaxCooldown,       \* windows a rejected worker count rests
    HealthyWindows,              \* windows an accepted trial is watched
    MaxSpeed,                    \* bound: throughput samples are 1..MaxSpeed
    MaxWorkers                   \* bound: workers at work, rolled back ones included

ASSUME JobsAssumption == IsFiniteSet(Jobs) /\ Me \in Jobs
ASSUME ClassesAssumption == Classes \subseteq {"Normal", "DirectBulk", "ProtectedHosterBulk"}
\* Every policy of hosters.rs starts at no more connections than it allows.
ASSUME ProfileAssumption ==
    /\ {InitialSegs, SoftMax, MaxSegs, HosterInitial, HosterMax} \subseteq Nat \ {0, 1}
    /\ InitialSegs <= SoftMax /\ SoftMax <= MaxSegs /\ HosterInitial <= HosterMax
    /\ {TotalBudget, OriginBudget, FairWorkers, RampStep} \subseteq Nat
    /\ {Cooldown, MaxCooldown, HealthyWindows, MaxSpeed} \subseteq Nat \ {0}
    /\ MaxWorkers \in Nat /\ MaxWorkers >= MaxSegs
    /\ Cooldown <= MaxCooldown

FairMin == 2
Minimum(a, b) == IF a < b THEN a ELSE b
Maximum(a, b) == IF a > b THEN a ELSE b
Less(a, b)    == Maximum(a - b, 0)      \* saturating_sub

VARIABLES
    class,     \* admission class of each job
    leases,    \* the broker's map
    stale,     \* jobs whose lease has passed its time to live
    phase,     \* Me's attempt: "idle", "running", or "admit" (a ramp decided)
    ctl,       \* the controller's counters
    shed       \* history: Me rolled back and still has workers it gave up

vars == <<class, leases, stale, phase, ctl, shed>>

NoLease == [origin |-> "none", segs |-> 0]
Leased  == {j \in Jobs : leases[j] # NoLease}

-----------------------------------------------------------------------------
(* The broker.                                                             *)

\* The connections that jobs js lease, one by one, and their number.
Connections(map, js) == {c \in js \X (1..MaxSegs) : c[2] <= map[c[1]].segs}
SegsOf(map, js) == Cardinality(Connections(map, js))

\* Drop what is past its time to live; every reservation and growth does.
Fresh == [j \in Jobs |-> IF j \in stale THEN NoLease ELSE leases[j]]

\* Connections job j may hold on origin o beside the other leases of its
\* class, or 0 where two connections do not fit.
Available(map, j, o, cap) ==
    LET others == {k \in Jobs \ {j} : class[k] = class[j] /\ map[k] # NoLease}
        here   == {k \in others : map[k].origin = o}
        left   == Less(OriginBudget, SegsOf(map, here))
        plain  == Minimum(cap, Minimum(Less(TotalBudget, SegsOf(map, others)), left))
        later  == Less(FairWorkers, Cardinality(here) + 1)
        shared == Minimum(plain, Less(left, later * FairMin))
        fair   == IF here = {} THEN shared ELSE Minimum(shared, FairMin)
        n      == IF class[j] = "ProtectedHosterBulk" THEN fair ELSE plain
    IN  IF cap < 2 \/ n < 2 THEN 0 ELSE n

InitialCap(j)  == IF class[j] = "ProtectedHosterBulk" THEN HosterInitial ELSE MaxSegs
AdaptiveCap(j) == IF class[j] = "ProtectedHosterBulk" THEN HosterMax ELSE MaxSegs

\* Reserve, plan the ranges, and lower the lease to the planned workers.
Reserve(j, o, planned) ==
    LET budget == Available(Fresh, j, o, InitialCap(j))
    IN  /\ planned \in 2..Minimum(InitialSegs, budget)
        /\ leases' = [Fresh EXCEPT ![j] = [origin |-> o, segs |-> planned]]
        /\ stale' = {}

\* Mutant of Granted: the profile's limit alone decides.
GrantedUnchecked(map, j, o, desired) ==
    Maximum(map[j].segs, Minimum(desired, AdaptiveCap(j)))

\* What grow_to returns: never less than the lease, nothing for a job whose
\* lease lapsed where the budget is taken.
Granted(map, j, o, desired) ==
    LET cap == Minimum(desired, AdaptiveCap(j))
    IN  Maximum(map[j].segs, Minimum(Available(map, j, o, cap), cap))

\* A lease that lapsed meanwhile is not made again.
GrowTo(j, o, desired) ==
    /\ leases' = IF Fresh[j] = NoLease THEN Fresh
                 ELSE [Fresh EXCEPT ![j].segs = Granted(Fresh, j, o, desired)]
    /\ stale' = {}

ShrunkTo(j, n) ==
    IF leases[j] = NoLease THEN leases
    ELSE [leases EXCEPT ![j].segs = Minimum(@, Minimum(n, AdaptiveCap(j)))]

-----------------------------------------------------------------------------
(* The other jobs.                                                         *)

RivalReserves(j) ==
    /\ j # Me /\ leases[j] = NoLease
    /\ \E o \in Origins, n \in 2..InitialSegs : Reserve(j, o, n)
    /\ UNCHANGED <<class, phase, ctl, shed>>

RivalGrows(j) ==
    /\ j # Me /\ leases[j] # NoLease
    /\ GrowTo(j, leases[j].origin, Minimum(leases[j].segs + RampStep, MaxSegs))
    /\ UNCHANGED <<class, phase, ctl, shed>>

RivalShrinks(j) ==
    /\ j # Me
    /\ \E n \in 2..Less(leases[j].segs, 1) : leases' = ShrunkTo(j, n)
    /\ stale' = stale \ {j}
    /\ UNCHANGED <<class, phase, ctl, shed>>

RivalEnds(j) ==
    /\ j # Me /\ leases[j] # NoLease
    /\ leases' = [leases EXCEPT ![j] = NoLease] /\ stale' = stale \ {j}
    /\ UNCHANGED <<class, phase, ctl, shed>>

\* Half an hour without growing or shrinking.
LeaseAges(j) ==
    /\ leases[j] # NoLease /\ stale' = stale \cup {j}
    /\ UNCHANGED <<class, leases, phase, ctl, shed>>

-----------------------------------------------------------------------------
(* The controller's state.                                                 *)

NoTrigger == [n |-> 0, to |-> 0, need |-> 0, base |-> 0]
NoTrial   == [to |-> 0, base |-> 0, n |-> 0, sum |-> 0, probe |-> FALSE]
NoGuard   == [to |-> 0, prev |-> 0, prevBase |-> 0, avg |-> 0, healthy |-> 0, bad |-> 0]
NoReject  == [cool |-> 0, next |-> 0, base |-> 0]

\* A new attempt with n workers on origin o.
Fixed(o, n) ==
    [origin |-> o, admitted |-> n, target |-> n, live |-> n, blocked |-> FALSE,
     last |-> 0, stable |-> n, warm |-> 0, count |-> 0, base |-> 0,
     probe |-> "ready", trig |-> NoTrigger, trial |-> NoTrial, guard |-> NoGuard,
     rejected |-> [w \in 2..MaxSegs |-> NoReject]]
Idle == Fixed("none", 0)

Percent(s, p) == (s * p + 99) \div 100

Desired(c) == Minimum(c.admitted + RampStep, MaxSegs)
StableTarget(c) ==
    IF c.stable = 0 \/ c.stable > c.admitted
    THEN Maximum(Minimum(c.admitted, SoftMax), 1) ELSE c.stable
TrialActive(c) == c.trial.to > 0 \/ c.admitted > StableTarget(c)
GuardActive(c) == c.guard.to = c.admitted /\ c.guard.healthy > 0
Baseline(c) == IF c.count < 2 THEN 0 ELSE c.base

ResetTrigger(c) == [c EXCEPT !.trig = NoTrigger]
ClearTrial(c)   ==
    [ResetTrigger(c) EXCEPT !.trial = NoTrial,
                            !.probe = IF @ = "pending" THEN "ready" ELSE @]
ResetStable(c, w) ==
    [ResetTrigger(c) EXCEPT !.stable = w, !.warm = 0, !.count = 0, !.base = 0]
EstablishStable(c, w, s) ==
    [ResetTrigger(c) EXCEPT !.stable = w, !.warm = 1, !.count = 2, !.base = s]

\* The worker count that failed rests, twice as long after each failure.
Reject(c, s) ==
    LET r    == c.rejected[c.admitted]
        rest == IF r.next = 0 THEN Cooldown ELSE Minimum(2 * r.next, MaxCooldown)
    IN  [c EXCEPT !.rejected[c.admitted] =
            [cool |-> rest, next |-> rest, base |-> Maximum(r.base, s)]]

RollBack(c, w, s) ==
    [ClearTrial(Reject(c, s)) EXCEPT
        !.target = w, !.admitted = w, !.guard = NoGuard]

\* Without a baseline, the sample itself above the soft limit.
TrialBase(c, s) ==
    IF c.trial.base > 0 THEN c.trial.base
    ELSE IF Baseline(c) > 0 THEN Baseline(c)
    ELSE IF c.admitted > SoftMax THEN s ELSE 0

-----------------------------------------------------------------------------
(* Samples.  Each ramp interval of a running attempt takes one, unless the *)
(* attempt may not ramp, its workers are idle or nothing was received.     *)

\* The last sample is read again only below the soft limit, where an attempt
\* that started or was rolled back there ramps.
Sampled(s) == [ctl EXCEPT !.last = IF ctl.stable < SoftMax THEN s ELSE 0]

\* No window is sampled after a reconnect or a regression: the counts of
\* workers are all that is left to know.
Blocked(c) ==
    [Fixed(c.origin, c.admitted) EXCEPT
        !.target = c.target, !.live = c.live, !.blocked = TRUE]

\* The code counts the segments in hand, which are those of some of the live
\* workers: it skips a tick in more states than this, and a tick that is skipped
\* changes nothing.
MaySample ==
    /\ phase = "running" /\ RampStep > 0 /\ ~ctl.blocked
    /\ ctl.admitted < MaxSegs \/ TrialActive(ctl)
    /\ ctl.live >= ctl.admitted - 1

Step(c) == ctl' = c /\ UNCHANGED <<class, leases, stale, shed>>

\* Below the soft limit: ramp unless throughput fell.
RampSample(s) ==
    /\ MaySample /\ ctl.admitted < SoftMax
    /\ IF ctl.last > 0 /\ s * 100 < ctl.last * 90
       THEN Step(Blocked(ctl)) /\ phase' = phase
       ELSE Step(Sampled(s)) /\ phase' \in {phase, "admit"}

TrialFails(c, s, average) ==
    LET base == TrialBase(c, s)
    IN  \/ base > 0 /\ s * 100 < base * 95
        \/ c.trial.n = 1 /\ base > 0 /\ average * 100 < base * 105

\* Back to the stable count; the workers above it go when their segment ends.
Give(c, w) ==
    /\ ctl' = c
    /\ leases' = ShrunkTo(Me, w)
    /\ stale' = IF leases[Me] = NoLease THEN stale ELSE stale \ {Me}
    /\ shed' = (ctl.live > w)
    /\ UNCHANGED <<class, phase>>

TrialSample(s) ==
    LET c       == Sampled(s)
        average == (c.trial.sum + s) \div 2
        stable  == Minimum(StableTarget(c), c.admitted)
        counted == [c EXCEPT !.trial.n = 1, !.trial.sum = s]
        settled == IF c.trial.probe THEN ResetStable(c, c.admitted)
                   ELSE EstablishStable(c, c.admitted, average)
        watched == [settled EXCEPT
            !.rejected[c.admitted] = NoReject,
            !.guard = IF stable > SoftMax /\ c.admitted > stable
                      THEN [to |-> c.admitted, prev |-> stable, prevBase |-> TrialBase(c, s),
                            avg |-> average, healthy |-> HealthyWindows, bad |-> 0]
                      ELSE NoGuard]
    IN  /\ MaySample /\ ctl.admitted >= SoftMax /\ TrialActive(ctl)
        /\ \/ /\ TrialFails(c, s, average)
              /\ Give(ResetStable(RollBack(c, stable, TrialBase(c, s)), stable), stable)
           \/ /\ ~TrialFails(c, s, average) /\ c.trial.n = 0
              /\ Step(counted) /\ phase' = phase
           \/ /\ ~TrialFails(c, s, average) /\ c.trial.n = 1
              /\ Step(ClearTrial(watched)) /\ phase' = phase

StableSampling == MaySample /\ ctl.admitted >= SoftMax /\ ~TrialActive(ctl)

\* Once per attempt, a fast start is tried at once.
ProbeOffered ==
    /\ InitialSegs = SoftMax /\ SoftMax < MaxSegs /\ ctl.admitted = SoftMax
    /\ ctl.probe = "ready"

ProbeSample(s) ==
    /\ StableSampling /\ ProbeOffered
    /\ Step([Sampled(s) EXCEPT !.probe = "pending", !.trig.base = s])
    /\ phase' \in {phase, "admit"}

GuardBad(s) ==
    /\ GuardActive(ctl)
    /\ s < Percent(ctl.guard.avg, 95) \/ s < ctl.guard.prevBase

\* The second bad window after an accepted trial takes it back.
GuardRollsBack(s) ==
    LET c    == Sampled(s)
        g    == c.guard
        w    == Minimum(g.prev, c.admitted)
        back == RollBack(c, w, Maximum(g.avg, g.prevBase))
    IN  /\ StableSampling /\ GuardBad(s) /\ g.bad = 1
        /\ Give(IF g.prevBase > 0 THEN EstablishStable(back, w, g.prevBase)
                ELSE ResetStable(back, w), w)

Guarded(c, s) ==
    IF ~GuardActive(c) THEN c
    ELSE IF GuardBad(s) THEN [c EXCEPT !.guard.bad = 1]
    ELSE IF c.guard.healthy = 1 THEN [c EXCEPT !.guard = NoGuard]
    ELSE [c EXCEPT !.guard.bad = 0, !.guard.healthy = @ - 1]

\* Count the window off the rest of the worker count that would be tried.
Ticked(c) ==
    LET d == Desired(c) IN [c EXCEPT !.rejected[d].cool = Less(@, 1)]
Resting(c) == c.rejected[Desired(c)].cool > 0

\* Mutant of Ready: the rest after a failed trial is not observed.
ReadyAtOnce(c) ==
    Baseline(c) > 0 /\ Desired(c) > c.admitted /\ ~GuardActive(c)

Ready(c) ==
    Baseline(c) > 0 /\ Desired(c) > c.admitted /\ ~GuardActive(c) /\ ~Resting(c)

Required(c) ==
    LET base == c.rejected[Desired(c)].base
    IN  IF base > 0 THEN Maximum(Percent(Baseline(c), 112), Percent(base, 110))
        ELSE Percent(Baseline(c), 108)

\* One warm-up window, two for the baseline, then two in a row above it.
Measured(c, s) ==
    LET next  == Ticked(Guarded(c, s))
        again == c.trig.to = Desired(c) /\ c.trig.need = Required(c)
        n     == IF again THEN Minimum(c.trig.n + 1, 2) ELSE 1
    IN  IF c.warm = 0 THEN [ResetTrigger(next) EXCEPT !.warm = 1, !.count = 0, !.base = 0]
        ELSE IF c.count < 2
             THEN [ResetTrigger(next) EXCEPT !.count = @ + 1, !.base = Maximum(@, s)]
        ELSE IF ~Ready(c) \/ s < Required(c) THEN ResetTrigger(next)
        ELSE [next EXCEPT !.trig = [n |-> n, to |-> Desired(c), need |-> Required(c),
                                    base |-> IF n = 2 THEN Baseline(c) ELSE @.base]]

\* A probe may be put off because the sample says too little.
StableSample(s) ==
    LET c == Measured(Sampled(s), s)
    IN  /\ StableSampling
        /\ ~(GuardBad(s) /\ ctl.guard.bad = 1)
        /\ Step(c)
        /\ phase' \in IF c.trig.n = 2 THEN {phase, "admit"} ELSE {phase}

-----------------------------------------------------------------------------
(* Workers.                                                                *)

\* Mutant of Admitted: a spawn counts from the workers asked for.
AdmittedAsAsked(c, got) == Desired(c)

\* Workers admitted once the broker has answered.
Admitted(c, got) == Minimum(got, MaxSegs)

\* The ramp that a sample decided; workers and other jobs moved meanwhile.
Admit ==
    LET c     == ctl
        got   == Admitted(c, Granted(Fresh, Me, c.origin, Desired(c)))
        more  == got > c.admitted
        trial == [to |-> got, base |-> c.trig.base, n |-> 0, sum |-> 0,
                  probe |-> c.probe = "pending"]
        tried == IF more /\ c.admitted >= SoftMax
                 THEN [ResetTrigger(c) EXCEPT
                          !.stable = c.admitted, !.trial = trial,
                          !.probe = IF @ = "pending" THEN "tried" ELSE @]
                 ELSE IF ~more /\ Desired(c) > c.admitted
                 THEN [c EXCEPT !.probe = IF @ = "pending" THEN "ready" ELSE @]
                 ELSE c
    IN  /\ phase = "admit" /\ phase' = "running"
        /\ c.live + Less(got, c.admitted) <= MaxWorkers
        /\ GrowTo(Me, c.origin, Desired(c))
        /\ ctl' = [tried EXCEPT !.target = got,
                                !.live = @ + Less(got, c.admitted),
                                !.admitted = Maximum(@, got)]
        /\ UNCHANGED <<class, shed>>

\* A segment ended and there are more workers than wanted.
WorkerSteps ==
    /\ phase # "idle" /\ ctl.live > Maximum(ctl.target, 1)
    /\ ctl' = [ctl EXCEPT !.live = @ - 1]
    /\ shed' = (shed /\ ctl.live - 1 > leases[Me].segs)
    /\ UNCHANGED <<class, leases, stale, phase>>

\* No segment is left to claim.
WorkerRunsDry ==
    /\ phase # "idle" /\ ctl.live > 1
    /\ ctl' = [ctl EXCEPT !.live = @ - 1]
    /\ shed' = (shed /\ ctl.live - 1 > leases[Me].segs)
    /\ UNCHANGED <<class, leases, stale, phase>>

\* A reconnect ends ramping; every third answer 429 also halves the target.
WorkerReconnects ==
    LET less == Minimum(Maximum(ctl.target \div 2, 2), Less(ctl.target, 1))
        next == IF phase = "admit" THEN [ctl EXCEPT !.blocked = TRUE] ELSE Blocked(ctl)
    IN  /\ phase # "idle"
        /\ \/ ctl' = next
           \/ ctl.target > 2 /\ ctl' = [next EXCEPT !.target = less]
        /\ UNCHANGED <<class, leases, stale, phase, shed>>

Begin ==
    /\ phase = "idle"
    /\ \E o \in Origins, n \in 2..InitialSegs :
        Reserve(Me, o, n) /\ ctl' = Fixed(o, n)
    /\ phase' = "running" /\ shed' = FALSE
    /\ UNCHANGED class

\* Finished, stopped or failed: the guard gives the lease back.
End ==
    /\ phase # "idle" /\ phase' = "idle"
    /\ leases' = [leases EXCEPT ![Me] = NoLease] /\ stale' = stale \ {Me}
    /\ ctl' = Idle /\ shed' = FALSE
    /\ UNCHANGED class

Init ==
    /\ class \in [Jobs -> Classes]
    /\ leases = [j \in Jobs |-> NoLease] /\ stale = {}
    /\ phase = "idle" /\ ctl = Idle /\ shed = FALSE

Next ==
    \/ \E j \in Jobs :
        RivalReserves(j) \/ RivalGrows(j) \/ RivalShrinks(j) \/ RivalEnds(j) \/ LeaseAges(j)
    \/ \E s \in 1..MaxSpeed :
        \/ RampSample(s) \/ TrialSample(s) \/ ProbeSample(s)
        \/ GuardRollsBack(s) \/ StableSample(s)
    \/ Admit \/ WorkerSteps \/ WorkerRunsDry \/ WorkerReconnects
    \/ Begin \/ End

Spec == Init /\ [][Next]_vars

-----------------------------------------------------------------------------
(* Properties.                                                             *)

Speeds == 0..MaxSpeed
Counts == {0} \cup 2..MaxSegs
Leases == [origin : Origins \cup {"none"}, segs : 0..MaxSegs]
Triggers == [n : 0..2, to : Counts, need : Nat, base : Speeds]
Trials   == [to : Counts, base : Speeds, n : 0..1, sum : Speeds, probe : BOOLEAN]
Guards   == [to : Counts, prev : Counts, prevBase : Speeds, avg : Speeds,
             healthy : 0..HealthyWindows, bad : 0..1]
Rejects  == [cool : 0..MaxCooldown, next : 0..MaxCooldown, base : Speeds]
Controllers ==
    [origin : Origins \cup {"none"}, admitted : Counts, target : 0..MaxSegs,
     live : 0..MaxWorkers, blocked : BOOLEAN, last : Speeds, stable : Counts,
     warm : 0..1, count : 0..2, base : Speeds, probe : {"ready", "pending", "tried"},
     trig : Triggers, trial : Trials, guard : Guards, rejected : [2..MaxSegs -> Rejects]]

TypeOK ==
    /\ class \in [Jobs -> Classes]
    /\ leases \in [Jobs -> Leases] /\ stale \subseteq Leased
    /\ phase \in {"idle", "running", "admit"} /\ shed \in BOOLEAN
    /\ ctl \in Controllers
    /\ IF phase = "idle" THEN ctl = Idle ELSE ctl.admitted # 0
    /\ ctl.guard.healthy > 0 => ctl.guard.prev # 0

\* The leases of a class never add up to more than its budget, in all and
\* per origin, whichever jobs reserve, grow, shrink, lapse and end in
\* between (segment_budget_from_leases_locked).
BudgetRespected ==
    \A j \in Leased :
        LET peers == {k \in Leased : class[k] = class[j]}
        IN  /\ SegsOf(leases, peers) <= TotalBudget
            /\ SegsOf(leases, {k \in peers : leases[k].origin = leases[j].origin})
                    <= OriginBudget

\* An attempt that still has its lease has no more workers than leased
\* connections, except the ones a rollback has given up and that have not
\* ended their segment yet (admit_worker_target, spawn_until, shrink_to).
CoveredByLease ==
    leases[Me] # NoLease => ctl.live <= leases[Me].segs \/ shed

\* What the broker is for: a job and the leases of the others in its class
\* never hold more than OriginBudget connections to one origin.
OriginConnectionsLimited ==
    phase # "idle" =>
        ctl.live + SegsOf(leases, {j \in Leased \ {Me} :
            class[j] = class[Me] /\ leases[j].origin = ctl.origin}) <= OriginBudget

\* A trial never starts at a worker count that is resting after a failure,
\* but for two ways back that the code leaves open: the broker grants less
\* than was asked (tick_rejected_trial_cooldown looks up the count that is
\* asked for), and a startup probe that was put off until a trial had failed
\* (evaluate_stable_sample_for_trial starts it before it looks at rests).
RejectedCountRests ==
    [][ctl.trial.to = 0 /\ ctl'.trial.to > 0 =>
         \/ ctl.rejected[ctl'.trial.to].cool = 0
         \/ ctl'.trial.to < Desired(ctl)
         \/ ctl.probe = "pending"]_vars
=============================================================================
