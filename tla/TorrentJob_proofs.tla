-------------------------- MODULE TorrentJob_proofs --------------------------
(***************************************************************************)
(* For any seeding target and any bounds: the torrent job keeps its types, *)
(* one engine serves it but for what a command has yet to have forgotten,  *)
(* a job marked for reseeding has its task, and what the row says was      *)
(* uploaded was uploaded.                                                  *)
(*                                                                         *)
(* The last needs most: what the worker and the row know of the torrent    *)
(* (WorkerKnows, RowKnows), and that reading the session would not make    *)
(* the row say more than was uploaded, nor would the next worker's reading *)
(* a session that the slot's engine has meanwhile (CountsOK).              *)
(***************************************************************************)
EXTENDS TorrentJob, TLAPS

(***************************************************************************)
(* The engines: a worker holds one from its first step with it to its      *)
(* last, a command from taking one to having it forget, and a session of   *)
(* the torrent is in the worker's engine, or, when no worker holds one, in *)
(* the manager's slot; or a command has yet to have it forgotten, or       *)
(* failed to.                                                              *)
(***************************************************************************)
WithEngine == {"begin", "lookup", "adding", "again", "control", "stale", "recheck", "apply", "last"}

Asking == {"restart_forget", "remove_forget", "clear_forget"}

Holder == IF w.eng # 0 THEN w.eng ELSE cur

CommandRecords == [pc : Commands, blk : BOOLEAN, known : BOOLEAN, eng : {0} \cup Engines]

EnginesOK ==
  /\ w \in Workers /\ cur \in {0} \cup Engines /\ sess \in [Engines -> Sessions]
  /\ cmd \in CommandRecords
  /\ w.pc \in WithEngine <=> w.eng # 0
  /\ cmd.pc \in Asking <=> cmd.eng # 0
  /\ \A e \in Engines : sess[e] # NoSession =>
        e \in {Holder, cmd.eng} \/ (unforgot /\ e = cur)

(***************************************************************************)
(* What the helpers return.                                                *)
(***************************************************************************)
LEMMA LiveSessionsAre == Sessions = LiveSessions \cup {NoSession} /\ NoSession \notin LiveSessions
<1>1. Sessions = LiveSessions \cup {NoSession}
  BY DEF Sessions
<1>2. NoSession.ph = "none" /\ \A u \in LiveSessions : u.ph # "none"
  BY DEF NoSession, LiveSessions
<1>. QED  BY <1>1, <1>2

LEMMA ZeroCount == 0 \in 0..MaxUp
BY TargetAssumption

\* A session that is added anew: paused or about to be checked.
LEMMA NewSessionType ==
  ASSUME NEW paused \in BOOLEAN
  PROVE  /\ [NoSession EXCEPT !.ph = "init", !.stop = paused] \in LiveSessions
         /\ [NoSession EXCEPT !.ph = "init", !.stop = paused].cnt = 0
<1>. DEFINE Any == [ph : {"none", "init", "paused", "live", "error"}, stop : BOOLEAN, fin : BOOLEAN,
                    cnt : 0..MaxUp, got : BOOLEAN]
            u == [NoSession EXCEPT !.ph = "init", !.stop = paused]
<1>1. NoSession \in Any /\ NoSession.cnt = 0
  BY ZeroCount DEF NoSession
<1>2. u \in Any /\ u.ph = "init" /\ u.cnt = 0
  BY <1>1
<1>. QED  BY <1>2 DEF LiveSessions

LEMMA IdleWorkerType ==
  /\ NoSession \in Sessions
  /\ IdleWorker \in Workers
  /\ IdleWorker.pc = "idle" /\ IdleWorker.eng = 0
  /\ IdleWorker.known = FALSE /\ IdleWorker.restoring = FALSE
BY DEF IdleWorker, Sessions, Workers, WorkerSteps

\* A worker that has let its engine go.
LEMMA ReturnedType ==
  ASSUME w \in Workers, NEW step \in WorkerSteps, NEW v, v = IdleWorker,
         w' = [v EXCEPT !.pc = step, !.began = w.began, !.bare = w.bare]
  PROVE  w' \in Workers /\ w'.pc = step /\ w'.eng = 0 /\ w'.known = FALSE /\ w'.restoring = FALSE
BY IdleWorkerType DEF Workers

LEMMA ReturnedWithAccessType ==
  ASSUME w \in Workers, NEW step \in WorkerSteps, NEW acc \in BOOLEAN, NEW v, v = IdleWorker,
         w' = [v EXCEPT !.pc = step, !.began = w.began, !.bare = w.bare, !.access = acc]
  PROVE  w' \in Workers /\ w'.pc = step /\ w'.eng = 0 /\ w'.known = FALSE /\ w'.restoring = FALSE
BY IdleWorkerType DEF Workers

LEMMA StartedType ==
  ASSUME NEW began \in BOOLEAN, NEW bare \in BOOLEAN, NEW known \in BOOLEAN, NEW v, v = IdleWorker,
         w' = [v EXCEPT !.pc = "start", !.began = began, !.bare = bare, !.known = known]
  PROVE  w' \in Workers /\ w'.pc = "start" /\ w'.eng = 0 /\ w'.known = known /\ w'.restoring = FALSE /\ w'.began = began
<1>1. "start" \in WorkerSteps
  BY DEF WorkerSteps
<1>. QED  BY <1>1, IdleWorkerType DEF Workers

LEMMA AliveType ==
  ASSUME NEW s \in [Engines -> Sessions], NEW held
  PROVE  /\ Alive(s, held) \in [Engines -> Sessions]
         /\ \A e \in Engines : Alive(s, held)[e] = IF e \in held THEN s[e] ELSE NoSession
BY DEF Alive, Sessions

LEMMA ForgottenType ==
  ASSUME NEW s \in [Engines -> Sessions], NEW e
  PROVE  /\ Forgotten(s, e) \in [Engines -> Sessions]
         /\ \A f \in Engines : Forgotten(s, e)[f] = IF f = e THEN NoSession ELSE s[f]
BY DEF Forgotten, Sessions

LEMMA RestoredType ==
  ASSUME TypeOK
  PROVE  Restored \in Sessions /\ Restored.cnt = 0
<1>1. CASE kept = "none"
  BY <1>1 DEF Restored, Sessions, NoSession
<1>2. CASE kept # "none"
  <2>0. (kept = "paused") \in BOOLEAN
    OBVIOUS
  <2>1. Restored \in LiveSessions /\ Restored.cnt = 0
    BY <1>2, <2>0, NewSessionType, Zenon DEF Restored
  <2>. QED  BY <2>1, LiveSessionsAre
<1>. QED  BY <1>1, <1>2

LEMMA SessionTypes ==
  ASSUME NEW u \in Sessions, u # NoSession
  PROVE  /\ Quiet(u) \in Sessions \ {NoSession} /\ Quiet(u).cnt = 0
         /\ Woken(u) \in Sessions \ {NoSession} /\ Woken(u).cnt = u.cnt
         /\ Woken(Quiet(u)) \in Sessions \ {NoSession} /\ Woken(Quiet(u)).cnt = 0
<1>1. u \in LiveSessions
  BY LiveSessionsAre
<1>2. /\ Quiet(u) \in LiveSessions /\ Quiet(u).cnt = 0
      /\ Woken(u) \in LiveSessions /\ Woken(u).cnt = u.cnt
  BY <1>1, ZeroCount DEF Quiet, Woken, LiveSessions
<1>3. Woken(Quiet(u)) \in LiveSessions /\ Woken(Quiet(u)).cnt = 0
  BY <1>2 DEF Woken, LiveSessions
<1>. QED  BY <1>2, <1>3, LiveSessionsAre

LEMMA CumulativeType ==
  ASSUME NEW total \in Nat, NEW prev \in {None} \cup Nat, NEW runtime \in Nat
  PROVE  Cumulative(total, prev, runtime) \in Nat
BY DEF Cumulative, None

LEMMA NextEngineType ==
  ASSUME TypeOK, NEW blk, 0 \in {w.eng, cmd.eng}
  PROVE  /\ NextEngine(blk) \in Engines /\ NextEngine(blk) # 0
         /\ Reused(blk) => NextEngine(blk) = cur
         /\ ~Reused(blk) => NextEngine(blk) \notin {w.eng, cmd.eng}
<1>1. \E e \in Engines : e \notin {w.eng, cmd.eng}
  BY DEF Engines
<1>2. \A e \in Engines : e # 0
  BY DEF Engines
<1>. QED  BY <1>1, <1>2 DEF NextEngine, Reused, TypeOK

LEMMA ReturnType ==
  ASSUME TypeOK, NEW step \in WorkerSteps, Return(step) \/ ForgetAndReturn(step)
  PROVE  /\ w' \in Workers /\ w'.pc = step /\ w'.eng = 0 /\ w'.known = FALSE /\ w'.restoring = FALSE
         /\ cur' = cur
         /\ sess' \in [Engines -> Sessions]
         /\ \A e \in Engines : sess'[e] = NoSession \/ (e \in {cur, cmd.eng} /\ sess'[e] = sess[e])
<1>1. w' = [IdleWorker EXCEPT !.pc = step, !.began = w.began, !.bare = w.bare]
  BY DEF Return, ForgetAndReturn
<1>2. w' \in Workers /\ w'.pc = step /\ w'.eng = 0 /\ w'.known = FALSE /\ w'.restoring = FALSE
  BY <1>1, ReturnedType, Zenon DEF TypeOK
<1>3. /\ sess' \in [Engines -> Sessions]
      /\ \A e \in Engines : sess'[e] = NoSession \/ (e \in {cur, cmd.eng} /\ sess'[e] = sess[e])
  <2>1. sess \in [Engines -> Sessions] /\ Forgotten(sess, w.eng) \in [Engines -> Sessions]
    BY ForgottenType DEF TypeOK
  <2>2. CASE Return(step)
    BY <2>1, <2>2, AliveType DEF Return
  <2>3. CASE ForgetAndReturn(step)
    BY <2>1, <2>3, AliveType, ForgottenType DEF ForgetAndReturn
  <2>. QED  BY <2>2, <2>3
<1>. QED  BY <1>2, <1>3 DEF Return, ForgetAndReturn

LEMMA ForgetAndGoType ==
  ASSUME TypeOK, NEW step \in WorkerSteps, ForgetAndGo(step)
  PROVE  /\ w' \in Workers /\ w'.pc = step /\ w'.eng = w.eng
         /\ w'.known = w.known /\ w'.restoring = w.restoring
         /\ w'.src = w.src /\ w'.tried = w.tried /\ w'.began = w.began
         /\ cur' = cur
         /\ sess' \in [Engines -> Sessions]
         /\ \A e \in Engines : sess'[e] = IF e = w.eng THEN NoSession ELSE sess[e]
BY ForgottenType DEF TypeOK, ForgetAndGo, Workers


(***************************************************************************)
(* What keeps EnginesOK: the worker goes on with its engine, lets it go,   *)
(* or the manager replaces one that holds no session.                      *)
(***************************************************************************)
LEMMA GoesOn ==
  ASSUME EnginesOK, w.pc \in WithEngine,
         w' \in Workers, w'.pc \in WithEngine, w'.eng = w.eng,
         UNCHANGED <<cur, cmd, unforgot>>, sess' \in [Engines -> Sessions],
         \A e \in Engines : sess'[e] # NoSession => sess[e] # NoSession \/ e = w.eng
  PROVE  EnginesOK'
BY DEF EnginesOK, Holder

LEMMA LetsGo ==
  ASSUME TypeOK, EnginesOK, NEW step \in {"fail", "leave", "vanished", "finish", "release"},
         Return(step) \/ ForgetAndReturn(step), UNCHANGED <<cmd, unforgot>>
  PROVE  EnginesOK'
<1>1. step \in WorkerSteps /\ step \notin WithEngine
  BY DEF WorkerSteps, WithEngine
<1>. QED  BY <1>1, ReturnType DEF EnginesOK, Holder

LEMMA GetsEngine ==
  ASSUME TypeOK, EnginesOK, GetEngine
  PROVE  EnginesOK'
<1>. DEFINE e == NextEngine(Blocking)
<1>0. w.eng = 0 /\ w.pc \notin WithEngine /\ cmd' = cmd
  BY DEF EnginesOK, GetEngine, WithEngine
<1>1. e \in Engines /\ e # 0 /\ (Reused(Blocking) => e = cur)
  BY <1>0, NextEngineType
<1>2. w' \in Workers /\ w'.pc = "begin" /\ w'.eng = e /\ cur' = e
  BY <1>1 DEF GetEngine, EnginesOK, Workers, WorkerSteps
<1>3. CASE Reused(Blocking)
  <2>1. sess' = sess /\ e = cur
    BY <1>1, <1>3 DEF GetEngine
  <2>. QED  BY <1>0, <1>1, <1>2, <2>1 DEF EnginesOK, Holder, WithEngine
<1>4. CASE ~Reused(Blocking)
  <2>. DEFINE s == [sess EXCEPT ![e] = Restored]
              held == {e, cmd.eng}
  <2>1. sess' = Alive(s, held)
    BY <1>4 DEF GetEngine
  <2>2. s \in [Engines -> Sessions]
    BY RestoredType DEF EnginesOK
  <2>. HIDE DEF e, s, held
  <2>4. sess' \in [Engines -> Sessions] /\ \A f \in Engines : sess'[f] # NoSession => f \in held
    BY <2>1, <2>2, AliveType
  <2>3. sess' \in [Engines -> Sessions] /\ \A f \in Engines : sess'[f] # NoSession => f \in {e, cmd.eng}
    BY <2>4 DEF held
  <2>. QED  BY <1>0, <1>1, <1>2, <2>3 DEF EnginesOK, Holder, WithEngine
<1>. QED  BY <1>3, <1>4

\* A session is added, taken over, woken, quieted.
LEMMA WorkerTouchesSession ==
  ASSUME TypeOK, EnginesOK, Lookup \/ AddDone \/ RefreshPeers \/ SeesProgress
  PROVE  EnginesOK'
<1>0. w.eng \in Engines /\ w.pc \in WithEngine /\ sess[w.eng] \in Sessions /\ UNCHANGED <<cur, cmd, unforgot>>
  BY DEF EnginesOK, Lookup, AddDone, RefreshPeers, SeesProgress, Observe, WithEngine, Workers, engines, late
<1>1. \E u \in Sessions : sess' = sess \/ sess' = [sess EXCEPT ![w.eng] = u]
  <2>1. CASE Lookup
    BY <1>0, <2>1, SessionTypes DEF Lookup
  <2>2. CASE AddDone
    <3>1. PICK p \in BOOLEAN : sess' = sess \/ sess' = [sess EXCEPT ![w.eng] = [NoSession EXCEPT !.ph = "init", !.stop = p]]
      <4>. DEFINE q == w.pc = "adding" /\ w.restoring
      <4>1. q \in BOOLEAN
        OBVIOUS
      <4>2. sess' = sess \/ sess' = [sess EXCEPT ![w.eng] = [NoSession EXCEPT !.ph = "init", !.stop = q]]
        BY <2>2 DEF AddDone
      <4>. QED  BY <4>1, <4>2, Zenon
    <3>2. [NoSession EXCEPT !.ph = "init", !.stop = p] \in Sessions
      BY NewSessionType, LiveSessionsAre, Zenon
    <3>. QED  BY <3>1, <3>2
  <2>3. CASE RefreshPeers
    <3>1. sess[w.eng] # NoSession
      BY <2>3, LiveSessionsAre DEF RefreshPeers, Observe, NoSession
    <3>. QED  BY <1>0, <2>3, <3>1, SessionTypes DEF RefreshPeers, Observe
  <2>4. CASE SeesProgress
    <3>1. sess[w.eng] # NoSession
      BY <2>4, LiveSessionsAre DEF SeesProgress, Observe, NoSession
    <3>. QED  BY <1>0, <2>4, <3>1, SessionTypes DEF SeesProgress, Observe
  <2>. QED  BY <2>1, <2>2, <2>3, <2>4
<1>2. /\ sess' \in [Engines -> Sessions]
      /\ \A e \in Engines : sess'[e] # NoSession => sess[e] # NoSession \/ e = w.eng
  BY <1>0, <1>1 DEF EnginesOK
<1>3. w' \in Workers /\ w'.pc \in WithEngine /\ w'.eng = w.eng
  <2>1. CASE Lookup
    <3>1. w' = [w EXCEPT !.pc = "control"] \/ w' = [w EXCEPT !.pc = "adding", !.src = TRUE]
      BY <2>1 DEF Lookup
    <3>. QED  BY <3>1 DEF EnginesOK, Workers, WorkerSteps, WithEngine
  <2>3. CASE RefreshPeers
    BY <1>0, <2>3 DEF RefreshPeers, Observe, EnginesOK, Workers, WorkerSteps, WithEngine
  <2>4. CASE SeesProgress
    BY <1>0, <2>4 DEF SeesProgress, Observe, EnginesOK, Workers, WorkerSteps, WithEngine
  <2>2. CASE AddDone
    <3>1. PICK tried \in BOOLEAN : w' = [w EXCEPT !.pc = "control", !.first = TRUE, !.tried = tried]
      <4>. DEFINE t == w.tried \/ (sess[w.eng] # NoSession /\ ~(sess[w.eng] # NoSession /\ (w.pc = "again" \/ w.restoring)))
      <4>1. t \in BOOLEAN
        OBVIOUS
      <4>2. w' = [w EXCEPT !.pc = "control", !.first = TRUE, !.tried = t]
        BY <2>2 DEF AddDone, EnginesOK, Workers
      <4>. QED  BY <4>1, <4>2, Zenon
    <3>. QED  BY <3>1 DEF EnginesOK, Workers, WorkerSteps, WithEngine
  <2>. QED  BY <2>1, <2>2, <2>3, <2>4
<1>. QED  BY <1>0, <1>2, <1>3, GoesOn

LEMMA StartsOver ==
  ASSUME TypeOK, EnginesOK, w.pc \in WithEngine,
         sess' = Alive(sess, {cur, cmd.eng}), UNCHANGED <<cur, cmd, unforgot>>,
         w' \in Workers, w'.pc \in {"start", "fail", "leave"}, w'.eng = 0
  PROVE  EnginesOK'
BY AliveType DEF EnginesOK, Holder, WithEngine

\* A worker without an engine goes from one step to the next, or ends.
LEMMA WithoutEngine ==
  ASSUME EnginesOK, w.pc \notin WithEngine, w' \in Workers, w'.pc \notin WithEngine, w'.eng = 0,
         UNCHANGED <<cur, sess, cmd, unforgot>>
  PROVE  EnginesOK'
BY DEF EnginesOK, Holder

\* The command's record: its step, and the engine it holds for some of them.
LEMMA NoCommandType == NoCommand \in CommandRecords /\ NoCommand.pc = "none" /\ NoCommand.eng = 0
BY DEF NoCommand, CommandRecords, Commands

LEMMA PlainCommandType ==
  ASSUME NEW pc \in Commands, NEW v, v = NoCommand, NEW c, c = [v EXCEPT !.pc = pc]
  PROVE  c \in CommandRecords /\ c.pc = pc /\ c.eng = 0
BY NoCommandType DEF CommandRecords

LEMMA GoesOnType == ClearGoesOn \in CommandRecords /\ ClearGoesOn.pc = "clear_drop" /\ ClearGoesOn.eng = 0
<1>1. Blocking \in BOOLEAN /\ "clear_drop" \in Commands
  BY DEF Blocking, Commands
<1>2. PICK v, c : v = NoCommand /\ c = ClearGoesOn /\ c = [v EXCEPT !.pc = "clear_drop", !.blk = Blocking]
  BY Zenon DEF ClearGoesOn
<1>3. v \in CommandRecords /\ v.eng = 0
  BY <1>2, NoCommandType
<1>4. c \in CommandRecords /\ c.pc = "clear_drop" /\ c.eng = 0
  BY <1>1, <1>2, <1>3 DEF CommandRecords
<1>. QED  BY <1>2, <1>4

\* A command goes on, or ends, without an engine before or after.
LEMMA CommandMoves ==
  ASSUME EnginesOK, cmd.pc \notin Asking, cmd' \in CommandRecords, cmd'.pc \notin Asking, cmd'.eng = 0,
         UNCHANGED <<w, cur, sess, unforgot>>
  PROVE  EnginesOK'
BY DEF EnginesOK, Holder

LEMMA TakesEngine ==
  ASSUME TypeOK, EnginesOK, cmd.pc \notin Asking,
         NEW forget \in Commands \cap Asking, NEW next \in Commands \ Asking, TakeEngine(forget, next)
  PROVE  EnginesOK'
<1>0. w' = w /\ cmd.eng = 0
  BY Zenon DEF TakeEngine, EnginesOK
<1>1. CASE ~cmd.known
  <2>1. cmd' = [NoCommand EXCEPT !.pc = next] /\ UNCHANGED <<cur, sess, unforgot>>
    BY <1>1 DEF TakeEngine, engines
  <2>2. cmd' \in CommandRecords /\ cmd'.pc = next /\ cmd'.eng = 0
    BY <2>1, PlainCommandType, Zenon
  <2>. QED  BY <1>0, <2>1, <2>2, CommandMoves
<1>2. CASE cmd.known /\ CommandEnds /\ UNCHANGED <<engines, unforgot>>
  <2>1. cmd' \in CommandRecords /\ cmd'.pc \notin Asking /\ cmd'.eng = 0
    BY <1>2, NoCommandType DEF CommandEnds, Asking
  <2>. QED  BY <1>0, <1>2, <2>1, CommandMoves DEF engines
<1>3. CASE cmd.known /\ ~(CommandEnds /\ UNCHANGED <<engines, unforgot>>)
  <2>1. PICK blk \in Looked :
           LET e == NextEngine(blk)
           IN /\ cur' = e /\ cmd' = [NoCommand EXCEPT !.pc = forget, !.eng = e]
              /\ sess' = IF Reused(blk) THEN sess ELSE Alive([sess EXCEPT ![e] = Restored], {e, w.eng})
              /\ unforgot' = (unforgot /\ Reused(blk))
    BY <1>3, Zenon DEF TakeEngine
  <2>. DEFINE e == NextEngine(blk)
  <2>2. e \in Engines /\ e # 0 /\ (Reused(blk) => e = cur)
    BY <1>0, NextEngineType
  <2>3. cmd' \in CommandRecords /\ cmd'.pc = forget /\ cmd'.eng = e
    <3>1. cmd' = [NoCommand EXCEPT !.pc = forget, !.eng = e] /\ forget \in Commands
      BY <2>1
    <3>. HIDE DEF e
    <3>2. PICK v : v = NoCommand /\ cmd' = [v EXCEPT !.pc = forget, !.eng = e]
      BY <3>1, Zenon
    <3>3. v \in CommandRecords
      BY <3>2, NoCommandType
    <3>. QED  BY <2>2, <3>1, <3>2, <3>3 DEF CommandRecords
  <2>4. CASE Reused(blk)
    <3>1. sess' = sess /\ cur' = cur /\ e = cur
      BY <2>1, <2>2, <2>4
    <3>2. unforgot => unforgot'
      BY <2>1, <2>4, Zenon
    <3>3. forget \in Asking /\ cur' \in {0} \cup Engines
      BY <3>1 DEF EnginesOK
    <3>. HIDE DEF e
    <3>4. \A f \in Engines : sess'[f] # NoSession => f \in {w.eng, cur} \/ (unforgot' /\ f = cur)
      BY <1>0, <3>1, <3>2 DEF EnginesOK, Holder, Engines
    <3>5. \A f \in Engines : sess'[f] # NoSession => f \in {Holder', cmd'.eng} \/ (unforgot' /\ f = cur')
      BY <1>0, <2>3, <3>1, <3>4 DEF Holder, Engines
    <3>. QED  BY <1>0, <2>2, <2>3, <3>1, <3>3, <3>5 DEF EnginesOK
  <2>5. CASE ~Reused(blk)
    <3>. DEFINE s == [sess EXCEPT ![e] = Restored]
                held == {e, w.eng}
    <3>1. sess' = Alive(s, held) /\ cur' = e
      BY <2>1, <2>5
    <3>2. s \in [Engines -> Sessions]
      BY RestoredType DEF EnginesOK
    <3>. HIDE DEF e, s, held
    <3>5. sess' \in [Engines -> Sessions] /\ \A f \in Engines : sess'[f] # NoSession => f \in held
      BY <3>1, <3>2, AliveType
    <3>3. sess' \in [Engines -> Sessions] /\ \A f \in Engines : sess'[f] # NoSession => f \in {e, w.eng}
      BY <3>5 DEF held
    <3>4. \A f \in Engines : f # 0
      BY DEF Engines
    <3>. QED  BY <1>0, <2>2, <2>3, <3>1, <3>3, <3>4 DEF EnginesOK, Holder
  <2>. QED  BY <2>4, <2>5
<1>. QED  BY <1>1, <1>2, <1>3

LEMMA AskedForgets ==
  ASSUME TypeOK, EnginesOK, cmd.pc \in Asking,
         NEW then \in CommandRecords, then.pc \notin Asking, then.eng = 0,
         NEW failed \in CommandRecords, failed.pc \notin Asking, failed.eng = 0,
         ForgetTaken(then, failed)
  PROVE  /\ EnginesOK'
         /\ \A e \in Engines : sess'[e] = NoSession \/ (e \in {cur, w.eng} /\ sess'[e] = sess[e])
<1>0. UNCHANGED <<w, cur>> /\ cmd.eng # 0 /\ cmd' \in {then, failed}
  BY DEF ForgetTaken, EnginesOK
<1>1. CASE sess' = Alive(Forgotten(sess, cmd.eng), {cur, w.eng}) /\ unforgot' = (unforgot /\ cur # cmd.eng)
  <2>. DEFINE s == Forgotten(sess, cmd.eng)
  <2>1. s \in [Engines -> Sessions] /\ \A e \in Engines : s[e] = IF e = cmd.eng THEN NoSession ELSE sess[e]
    BY ForgottenType DEF EnginesOK
  <2>. HIDE DEF s
  <2>2. /\ sess' \in [Engines -> Sessions]
        /\ \A e \in Engines : sess'[e] = IF e \in {cur, w.eng} THEN s[e] ELSE NoSession
    BY <1>1, <2>1, AliveType DEF s
  <2>3. \A e \in Engines : sess'[e] = NoSession
                         \/ (e \in {cur, w.eng} /\ e # cmd.eng /\ sess'[e] = sess[e])
    BY <2>1, <2>2
  <2>4. \A e \in Engines : sess'[e] # NoSession => e = Holder \/ (unforgot' /\ e = cur)
    <3>. SUFFICES ASSUME NEW e \in Engines, sess'[e] # NoSession  PROVE e = Holder \/ (unforgot' /\ e = cur)
      OBVIOUS
    <3>1. e # cmd.eng /\ e \in {cur, w.eng} /\ sess[e] # NoSession
      BY <2>3
    <3>2. e = Holder \/ (unforgot /\ e = cur)
      BY <3>1 DEF EnginesOK
    <3>. QED  BY <1>1, <3>1, <3>2, Zenon
  <2>5. \A e \in Engines : sess'[e] # NoSession => e \in {Holder', cmd'.eng} \/ (unforgot' /\ e = cur')
    BY <1>0, <2>4 DEF Holder
  <2>6. cmd' \in CommandRecords /\ cmd'.pc \notin Asking /\ cmd'.eng = 0
    BY <1>0
  <2>. QED  BY <1>0, <2>2, <2>3, <2>5, <2>6 DEF EnginesOK
<1>2. CASE sess' = Alive(sess, {cur, w.eng}) /\ unforgot' = (unforgot \/ cur = cmd.eng)
  <2>1. /\ sess' \in [Engines -> Sessions]
        /\ \A e \in Engines : sess'[e] = NoSession \/ (e \in {cur, w.eng} /\ sess'[e] = sess[e])
    BY <1>2, AliveType DEF EnginesOK
  <2>. QED  BY <1>0, <1>2, <2>1 DEF EnginesOK, Holder
<1>. QED  BY <1>1, <1>2 DEF ForgetTaken

LEMMA SomeoneForgets ==
  ASSUME TypeOK, EnginesOK, RestartForgets \/ RemoveForgets \/ ClearForgets
  PROVE  /\ EnginesOK'
         /\ \A e \in Engines : sess'[e] = NoSession \/ (e \in {cur, w.eng} /\ sess'[e] = sess[e])
<1>. DEFINE reset == [NoCommand EXCEPT !.pc = "restart_reset"]
            delete == [NoCommand EXCEPT !.pc = "remove_delete"]
<1>1. /\ reset \in CommandRecords /\ reset.pc = "restart_reset" /\ reset.eng = 0
      /\ delete \in CommandRecords /\ delete.pc = "remove_delete" /\ delete.eng = 0
      /\ NoCommand \in CommandRecords /\ NoCommand.pc = "none" /\ NoCommand.eng = 0
  BY NoCommandType, PlainCommandType DEF Commands
<1>2. /\ cmd.pc \in Asking
      /\ ForgetTaken(reset, NoCommand) \/ ForgetTaken(delete, NoCommand) \/ ForgetTaken(ClearGoesOn, ClearGoesOn)
  BY DEF RestartForgets, RemoveForgets, ClearForgets, Asking
<1>. HIDE DEF reset, delete
<1>3. CASE ForgetTaken(reset, NoCommand)
  BY <1>1, <1>2, <1>3, AskedForgets DEF Asking
<1>4. CASE ForgetTaken(delete, NoCommand)
  BY <1>1, <1>2, <1>4, AskedForgets DEF Asking
<1>5. CASE ForgetTaken(ClearGoesOn, ClearGoesOn)
  BY <1>2, <1>5, GoesOnType, AskedForgets DEF Asking
<1>. QED  BY <1>2, <1>3, <1>4, <1>5

LEMMA ManagerDrops ==
  ASSUME TypeOK, EnginesOK, DropSlot, w' = w, cmd.pc \notin Asking,
         cmd' \in CommandRecords, cmd'.pc \notin Asking, cmd'.eng = 0
  PROVE  EnginesOK'
<1>1. \A e \in Engines : e # 0
  BY DEF Engines
<1>. QED  BY <1>1, AliveType DEF DropSlot, EnginesOK, Holder

\* What an engine does, it does to a session it has.
LEMMA EngineActs ==
  ASSUME EnginesOK, NEW e \in Engines,
         EngineChecks(e) \/ EngineFetches(e) \/ EngineUploads(e) \/ EngineFails(e)
  PROVE  EnginesOK'
<1>1. sess[e] \in LiveSessions /\ sess[e] # NoSession
  <2>1. sess[e].ph # "none"
    BY DEF EngineChecks, EngineFetches, EngineUploads, EngineFails
  <2>2. NoSession.ph = "none"
    BY DEF NoSession
  <2>. QED  BY <2>1, <2>2, LiveSessionsAre DEF EnginesOK
<1>2. \E u \in LiveSessions : sess' = [sess EXCEPT ![e] = u]
  <2>1. CASE EngineChecks(e)
    <3>1. PICK fin \in BOOLEAN :
             sess' = [sess EXCEPT ![e].ph = IF sess[e].stop THEN "paused" ELSE "live", ![e].fin = fin]
      BY <2>1 DEF EngineChecks
    <3>. DEFINE u == [sess[e] EXCEPT !.ph = IF sess[e].stop THEN "paused" ELSE "live", !.fin = fin]
    <3>2. u \in LiveSessions
      BY <1>1 DEF LiveSessions
    <3>3. sess' = [sess EXCEPT ![e] = u]
      BY <3>1 DEF EnginesOK
    <3>. QED  BY <3>2, <3>3, Zenon
  <2>2. CASE EngineFetches(e)
    <3>. DEFINE fin == payload' = "full"
                u == [sess[e] EXCEPT !.got = TRUE, !.fin = fin]
    <3>1. fin \in BOOLEAN
      OBVIOUS
    <3>. HIDE DEF fin
    <3>2. u \in LiveSessions
      BY <1>1, <3>1 DEF LiveSessions
    <3>3. sess' = [sess EXCEPT ![e] = u]
      BY <2>2 DEF EngineFetches, EnginesOK, fin
    <3>. QED  BY <3>2, <3>3, Zenon
  <2>3. CASE EngineUploads(e)
    <3>. DEFINE u == [sess[e] EXCEPT !.cnt = @ + 1]
    <3>2. u \in LiveSessions
      BY <1>1, <2>3, TargetAssumption DEF EngineUploads, LiveSessions
    <3>3. sess' = [sess EXCEPT ![e] = u]
      BY <2>3 DEF EngineUploads, EnginesOK
    <3>. QED  BY <3>2, <3>3, Zenon
  <2>4. CASE EngineFails(e)
    <3>1. PICK access \in BOOLEAN : sess' = [sess EXCEPT ![e].ph = "error", ![e].stop = access]
      BY <2>4 DEF EngineFails
    <3>. DEFINE u == [sess[e] EXCEPT !.ph = "error", !.stop = access]
    <3>2. u \in LiveSessions
      BY <1>1 DEF LiveSessions
    <3>3. sess' = [sess EXCEPT ![e] = u]
      BY <3>1 DEF EnginesOK
    <3>. QED  BY <3>2, <3>3, Zenon
  <2>. QED  BY <2>1, <2>2, <2>3, <2>4
<1>3. PICK u \in Sessions : sess' = [sess EXCEPT ![e] = u]
  BY <1>2, LiveSessionsAre
<1>4. UNCHANGED <<w, cur, cmd, unforgot>>
  BY DEF EngineChecks, EngineFetches, EngineUploads, EngineFails, Unseen, late
<1>. QED  BY <1>1, <1>3, <1>4 DEF EnginesOK, Holder

\* A worker edits no command, and but for taking an engine nothing of what one left.
WorkerAlone ==
  \/ Claim \/ BeginStale \/ BeginRestore \/ BeginDownload \/ Lookup \/ AddDone \/ AddTimesOut
  \/ AddInterrupted \/ Control \/ SnapshotFails \/ EngineReportsError \/ SeesStaleCompletion
  \/ SeesPayloadGone \/ RefusesRestore \/ RestoreStalls \/ RefreshPeers \/ SeesProgress
  \/ Apply \/ ApplyMissesRow \/ Finish \/ ClearStale \/ Recheck \/ PauseVanished \/ Last
  \/ Release \/ Leave \/ FailKeepsReseed \/ FailPausesRestore \/ FailJob

LEMMA WorkerLeavesCommands ==
  ASSUME WorkerAlone
  PROVE  UNCHANGED <<cmd, unforgot>>
<1>. USE DEF late
<1>1. CASE \/ Claim \/ BeginStale \/ BeginRestore \/ BeginDownload \/ Lookup \/ AddDone \/ AddTimesOut
           \/ AddInterrupted \/ Control \/ SnapshotFails \/ EngineReportsError \/ SeesStaleCompletion
           \/ SeesPayloadGone \/ RefusesRestore \/ RestoreStalls \/ RefreshPeers \/ SeesProgress
  BY <1>1, Zenon DEF Claim, BeginStale, BeginRestore, BeginDownload, Lookup, AddDone, AddTimesOut, AddInterrupted, Control,
              SnapshotFails, EngineReportsError, SeesStaleCompletion, SeesPayloadGone, RefusesRestore, RestoreStalls,
              RefreshPeers, SeesProgress, Observe
<1>2. CASE \/ Apply \/ ApplyMissesRow \/ Finish \/ ClearStale \/ Recheck \/ PauseVanished \/ Last
           \/ Release \/ Leave \/ FailKeepsReseed \/ FailPausesRestore \/ FailJob
  BY <1>2, Zenon DEF Apply, ApplyMissesRow, Finish, ClearStale, Recheck, PauseVanished, Last, Release, Leave,
              FailKeepsReseed, FailPausesRestore, FailJob
<1>. QED  BY <1>1, <1>2 DEF WorkerAlone

(***************************************************************************)
(* EnginesOK is kept, one step per action or kind of action.               *)
(***************************************************************************)
LEMMA EnginesStep ==
  ASSUME TypeOK, EnginesOK, [Next]_vars
  PROVE  EnginesOK'
<1>. USE DEF engines
<1>0. WorkerAlone => UNCHANGED <<cmd, unforgot>>
  BY WorkerLeavesCommands
<1>1. CASE Claim
  <2>0. UNCHANGED <<cmd, unforgot>>
    BY <1>0, <1>1 DEF WorkerAlone
  <2>1. (row.up = 0 /\ ~row.got) \in BOOLEAN
    OBVIOUS
  <2>2. row.began \in BOOLEAN /\ row.known \in BOOLEAN
    BY DEF TypeOK, Rows
  <2>3. w' = [IdleWorker EXCEPT !.pc = "start", !.began = row.began, !.bare = (row.up = 0 /\ ~row.got),
                                !.known = row.known]
    BY <1>1 DEF Claim
  <2>4. w' \in Workers /\ w'.pc = "start" /\ w'.eng = 0
    BY <2>1, <2>2, <2>3, StartedType, Zenon
  <2>. QED  BY <2>0, <1>1, <2>4, WithoutEngine DEF Claim, WithEngine
<1>2. CASE GetEngine
  BY <1>2, GetsEngine
<1>3. CASE BeginStale
  <2>0. UNCHANGED <<cmd, unforgot>>
    BY <1>0, <1>3 DEF WorkerAlone
  <2>1. w.pc \in WithEngine /\ w'.pc \in WithEngine /\ w' \in Workers /\ w'.eng = w.eng /\ cur' = cur
    BY <1>3 DEF BeginStale, EnginesOK, Workers, WorkerSteps, WithEngine
  <2>2. /\ sess' \in [Engines -> Sessions]
        /\ \A e \in Engines : sess'[e] # NoSession => sess[e] # NoSession \/ e = w.eng
    BY <1>3, ForgottenType DEF BeginStale, EnginesOK
  <2>. QED  BY <2>0, <2>1, <2>2, GoesOn
<1>4. CASE BeginRestore
  <2>0. UNCHANGED <<cmd, unforgot>>
    BY <1>0, <1>4 DEF WorkerAlone
  <2>1. CASE Return("fail")
    BY <2>0, <2>1, LetsGo
  <2>2. CASE w' = [w EXCEPT !.pc = "lookup", !.restoring = TRUE] /\ cur' = cur
    <3>1. w.pc \in WithEngine /\ w'.pc \in WithEngine /\ w' \in Workers /\ w'.eng = w.eng /\ cur' = cur
      BY <1>4, <2>2 DEF BeginRestore, EnginesOK, Workers, WorkerSteps, WithEngine
    <3>2. sess' = sess \/ sess' = Forgotten(sess, w.eng) \/ Return("fail")
      BY <1>4 DEF BeginRestore
    <3>3. CASE Return("fail")
      BY <2>0, <3>3, LetsGo
    <3>4. CASE ~Return("fail")
      <4>1. /\ sess' \in [Engines -> Sessions]
            /\ \A e \in Engines : sess'[e] # NoSession => sess[e] # NoSession \/ e = w.eng
        BY <3>2, <3>4, ForgottenType DEF EnginesOK
      <4>. QED  BY <2>0, <3>1, <4>1, GoesOn
    <3>. QED  BY <3>3, <3>4
  <2>. QED  BY <1>4, <2>1, <2>2 DEF BeginRestore
<1>5. CASE BeginDownload
  <2>0. UNCHANGED <<cmd, unforgot>>
    BY <1>0, <1>5 DEF WorkerAlone
  <2>1. w.pc \in WithEngine /\ w'.pc \in WithEngine /\ w' \in Workers /\ w'.eng = w.eng /\ UNCHANGED <<cur, sess>>
    BY <1>5 DEF BeginDownload, EnginesOK, Workers, WorkerSteps, WithEngine
  <2>. QED  BY <2>0, <2>1, GoesOn DEF EnginesOK
<1>6. CASE Lookup \/ AddDone \/ RefreshPeers \/ SeesProgress
  BY <1>6, WorkerTouchesSession
<1>7. CASE AddTimesOut
  <2>0. UNCHANGED <<cmd, unforgot>>
    BY <1>0, <1>7 DEF WorkerAlone
  <2>1. CASE ForgetAndReturn("fail") \/ Return("fail")
    BY <2>0, <2>1, LetsGo
  <2>2. CASE ~(ForgetAndReturn("fail") \/ Return("fail"))
    <3>1. w' = [IdleWorker EXCEPT !.pc = "start", !.began = w.began, !.bare = w.bare, !.known = w.known]
      BY <1>7, <2>2, Zenon DEF AddTimesOut
    <3>2. w.began \in BOOLEAN /\ w.bare \in BOOLEAN /\ w.known \in BOOLEAN
      BY DEF EnginesOK, Workers
    <3>3. w' \in Workers /\ w'.pc = "start" /\ w'.eng = 0
      BY <3>1, <3>2, StartedType, Zenon
    <3>. QED  BY <2>0, <1>7, <2>2, <3>3, StartsOver DEF AddTimesOut, WithEngine
  <2>. QED  BY <2>1, <2>2
<1>8. CASE AddInterrupted
  BY <1>0, <1>8, LetsGo DEF WorkerAlone, AddInterrupted
<1>9. CASE Control
  <2>0. UNCHANGED <<cmd, unforgot>>
    BY <1>0, <1>9 DEF WorkerAlone
  <2>1. CASE ForgetAndReturn("leave")
    BY <2>0, <2>1, LetsGo
  <2>2. CASE ~ForgetAndReturn("leave")
    <3>1. w.pc \in WithEngine /\ w'.pc \in WithEngine /\ w' \in Workers /\ w'.eng = w.eng /\ UNCHANGED <<cur, sess>>
      BY <1>9, <2>2 DEF Control, EnginesOK, Workers, WorkerSteps, WithEngine
    <3>. QED  BY <2>0, <3>1, GoesOn DEF EnginesOK
  <2>. QED  BY <2>1, <2>2
<1>10. CASE SnapshotFails \/ RefusesRestore
  BY <1>0, <1>10, LetsGo DEF WorkerAlone, SnapshotFails, RefusesRestore, Observe
<1>11. CASE EngineReportsError
  <2>0. UNCHANGED <<cmd, unforgot>>
    BY <1>0, <1>11 DEF WorkerAlone
  <2>1. /\ w' = [IdleWorker EXCEPT !.pc = "fail", !.began = w.began, !.bare = w.bare, !.access = sess[w.eng].stop]
        /\ sess' = Alive(sess, {cur, cmd.eng}) /\ cur' = cur /\ w.pc = "control" /\ sess[w.eng].ph = "error"
    BY <1>11 DEF EngineReportsError, Observe
  <2>2. sess[w.eng] \in LiveSessions
    <3>1. sess[w.eng] \in Sessions /\ NoSession.ph = "none"
      BY <2>1 DEF EnginesOK, WithEngine, Workers, NoSession
    <3>. QED  BY <2>1, <3>1, LiveSessionsAre
  <2>3. sess[w.eng].stop \in BOOLEAN /\ "fail" \in WorkerSteps /\ w \in Workers
    BY <2>2 DEF LiveSessions, WorkerSteps, EnginesOK
  <2>4. w' \in Workers /\ w'.pc = "fail" /\ w'.eng = 0
    BY <2>1, <2>3, ReturnedWithAccessType, Zenon
  <2>. QED  BY <2>0, <2>1, <2>4, StartsOver DEF WithEngine
<1>12. CASE SeesStaleCompletion
  <2>0. UNCHANGED <<cmd, unforgot>>
    BY <1>0, <1>12 DEF WorkerAlone
  <2>1. CASE Return("fail")
    BY <2>0, <2>1, LetsGo
  <2>2. CASE ForgetAndGo("stale")
    <3>1. "stale" \in WorkerSteps /\ "stale" \in WithEngine
      BY DEF WorkerSteps, WithEngine
    <3>2. w.pc \in WithEngine
      BY <1>12 DEF SeesStaleCompletion, Observe, WithEngine
    <3>. QED  BY <2>0, <2>2, <3>1, <3>2, ForgetAndGoType, GoesOn
  <2>. QED  BY <1>12, <2>1, <2>2 DEF SeesStaleCompletion, Observe
<1>13. CASE SeesPayloadGone
  BY <1>0, <1>13, LetsGo DEF WorkerAlone, SeesPayloadGone, Observe
<1>14. CASE RestoreStalls
  <2>0. UNCHANGED <<cmd, unforgot>>
    BY <1>0, <1>14 DEF WorkerAlone
  <2>1. CASE ForgetAndReturn("fail")
    BY <2>0, <2>1, LetsGo
  <2>2. CASE ForgetAndGo("recheck")
    <3>1. "recheck" \in WorkerSteps /\ "recheck" \in WithEngine
      BY DEF WorkerSteps, WithEngine
    <3>2. w.pc \in WithEngine
      BY <1>14 DEF RestoreStalls, Observe, WithEngine
    <3>. QED  BY <2>0, <2>2, <3>1, <3>2, ForgetAndGoType, GoesOn
  <2>. QED  BY <1>14, <2>1, <2>2 DEF RestoreStalls, Observe
<1>15. CASE Apply
  <2>0. UNCHANGED <<cmd, unforgot>>
    BY <1>0, <1>15 DEF WorkerAlone
  <2>1. CASE ForgetAndReturn("finish")
    BY <2>0, <2>1, LetsGo
  <2>2. CASE ~ForgetAndReturn("finish")
    <3>1. w' = [w EXCEPT !.pc = "control", !.first = FALSE, !.upd = NoSession] /\ UNCHANGED <<cur, sess>> /\ w.pc = "apply"
      BY <1>15, <2>2 DEF Apply
    <3>2. w'.pc \in WithEngine /\ w' \in Workers /\ w'.eng = w.eng /\ w.pc \in WithEngine
      BY <3>1, IdleWorkerType DEF EnginesOK, Workers, WorkerSteps, WithEngine
    <3>. QED  BY <2>0, <3>1, <3>2, GoesOn DEF EnginesOK
  <2>. QED  BY <2>1, <2>2
<1>16. CASE ApplyMissesRow
  BY <1>0, <1>16, LetsGo DEF WorkerAlone, ApplyMissesRow
<1>17. CASE Finish \/ PauseVanished \/ Leave \/ FailKeepsReseed \/ FailPausesRestore \/ FailJob
  <2>0. UNCHANGED <<cmd, unforgot>>
    BY <1>0, <1>17 DEF WorkerAlone
  <2>1. w' = IdleWorker /\ UNCHANGED <<cur, sess>> /\ w.pc \notin WithEngine
    BY <1>17 DEF Finish, PauseVanished, Leave, FailKeepsReseed, FailPausesRestore, FailJob, EndWorker, WithEngine
  <2>2. IdleWorker.pc \notin WithEngine
    BY IdleWorkerType DEF WithEngine
  <2>. QED  BY <2>0, <2>1, <2>2, IdleWorkerType, WithoutEngine
<1>18. CASE ClearStale \/ Recheck
  <2>0. UNCHANGED <<cmd, unforgot>>
    BY <1>0, <1>18 DEF WorkerAlone
  <2>1. /\ w.pc \in WithEngine /\ UNCHANGED <<cur, sess>>
        /\ \/ w' = [w EXCEPT !.pc = "again", !.tried = TRUE]
           \/ w' = [w EXCEPT !.pc = "lookup", !.known = FALSE]
           \/ w' = [w EXCEPT !.pc = "again", !.src = TRUE, !.rechecked = TRUE]
    BY <1>18 DEF ClearStale, Recheck, WithEngine
  <2>2. w' \in Workers /\ w'.pc \in WithEngine /\ w'.eng = w.eng
    BY <2>1 DEF EnginesOK, Workers, WorkerSteps, WithEngine
  <2>. QED  BY <2>0, <2>1, <2>2, GoesOn DEF EnginesOK
<1>19. CASE Last
  <2>0. UNCHANGED <<cmd, unforgot>>
    BY <1>0, <1>19 DEF WorkerAlone
  <2>1. CASE Return("fail") \/ ForgetAndReturn("release")
    BY <2>0, <2>1, LetsGo
  <2>2. CASE ~(Return("fail") \/ ForgetAndReturn("release"))
    <3>. DEFINE u == sess[w.eng]
                s == [sess EXCEPT ![w.eng] = Quiet(u)]
    <3>1. u # NoSession /\ w' = [IdleWorker EXCEPT !.pc = "leave"] /\ sess' = Alive(s, {cur, cmd.eng}) /\ cur' = cur
          /\ w.pc = "last"
      BY <1>19, <2>2 DEF Last
    <3>2. w.eng \in Engines /\ u \in Sessions
      BY <3>1 DEF EnginesOK, Workers, WithEngine
    <3>3. \A e \in Engines : s[e] # NoSession => sess[e] # NoSession
      BY <3>1, <3>2 DEF EnginesOK
    <3>7. s \in [Engines -> Sessions]
      BY <3>1, <3>2, SessionTypes DEF EnginesOK
    <3>4. w' \in Workers /\ w'.pc = "leave" /\ w'.eng = 0
      BY <3>1, IdleWorkerType DEF Workers, WorkerSteps
    <3>. HIDE DEF s, u
    <3>6. /\ sess' \in [Engines -> Sessions]
          /\ \A e \in Engines : sess'[e] = IF e \in {cur, cmd.eng} THEN s[e] ELSE NoSession
      BY <3>1, <3>7, AliveType
    <3>. QED  BY <2>0, <3>1, <3>3, <3>4, <3>6 DEF EnginesOK, Holder, WithEngine
  <2>. QED  BY <2>1, <2>2
<1>20. CASE Release
  <2>0. UNCHANGED <<cmd, unforgot>>
    BY <1>0, <1>20 DEF WorkerAlone
  <2>1. w' = [IdleWorker EXCEPT !.pc = "leave"] /\ UNCHANGED <<cur, sess>> /\ w.pc \notin WithEngine
    BY <1>20 DEF Release, WithEngine
  <2>2. w' \in Workers /\ w'.pc \notin WithEngine /\ w'.eng = 0
    BY <2>1, IdleWorkerType DEF Workers, WorkerSteps, WithEngine
  <2>. QED  BY <2>0, <2>1, <2>2, WithoutEngine
<1>21. CASE LeaveLate \/ HandOff \/ ReseedTick \/ PayloadLost
  BY <1>21 DEF LeaveLate, HandOff, ReseedTick, PayloadLost, Unseen, late, EnginesOK, Holder
<1>22. CASE Pause \/ Resume \/ Retry \/ Cancel
  BY <1>22 DEF Pause, Resume, Retry, Cancel, Edits, late, EnginesOK, Holder
<1>23. CASE Restart \/ Remove \/ Open \/ ClearCache \/ ChangeSettings
  <2>1. /\ cmd.pc = "none" /\ UNCHANGED <<w, cur, sess, unforgot>>
        /\ \E pc \in Commands \ Asking, known \in BOOLEAN, blk \in BOOLEAN : Command(pc, known, blk)
    <3>1. row.known \in BOOLEAN /\ (row.st # "Gone" /\ row.known) \in BOOLEAN /\ Blocking \in BOOLEAN
      BY DEF TypeOK, Rows, Blocking
    <3>. QED  BY <1>23, <3>1 DEF Restart, Remove, Open, ClearCache, ChangeSettings, late, Commands, Asking
  <2>2. cmd.pc \notin Asking /\ cmd' \in CommandRecords /\ cmd'.pc \notin Asking /\ cmd'.eng = 0
    BY <2>1 DEF Command, CommandRecords, Asking
  <2>. QED  BY <2>1, <2>2, CommandMoves
<1>24. CASE RestartTakes \/ RemoveTakes
  BY <1>24, TakesEngine DEF RestartTakes, RemoveTakes, Commands, Asking
<1>25. CASE RestartForgets \/ RemoveForgets \/ ClearForgets
  BY <1>25, SomeoneForgets
<1>26. CASE RestartResets \/ RemoveWaits \/ RemoveDeletes \/ OpenWaits \/ OpenUses
  <2>1. /\ cmd.pc \in Commands \ Asking /\ UNCHANGED <<w, cur, sess, unforgot>>
        /\ \/ cmd' = NoCommand
           \/ cmd' = [cmd EXCEPT !.pc = "remove", !.blk = Blocking]
           \/ cmd' = [cmd EXCEPT !.pc = "open_use"]
    BY <1>26 DEF RestartResets, RemoveWaits, RemoveDeletes, OpenWaits, OpenUses, CommandEnds, late, Commands, Asking
  <2>2. Blocking \in BOOLEAN /\ cmd.eng = 0 /\ cmd \in CommandRecords
    BY <2>1 DEF EnginesOK, Blocking
  <2>3. cmd' \in CommandRecords /\ cmd'.pc \notin Asking /\ cmd'.eng = 0
    BY <2>1, <2>2, NoCommandType DEF CommandRecords, Commands, Asking
  <2>. QED  BY <2>1, <2>3, CommandMoves
<1>30. CASE ClearTakes
  <2>1. cmd.pc = "clear" /\ UNCHANGED <<w, cur, sess, unforgot>> /\ cmd.eng = 0
    BY <1>30 DEF ClearTakes, late, EnginesOK, Asking
  <2>2. CASE cmd' = [NoCommand EXCEPT !.pc = "clear_forget", !.eng = cur] /\ cur # 0
    <3>1. cmd' \in CommandRecords /\ cmd'.pc = "clear_forget" /\ cmd'.eng = cur
      BY <2>2, NoCommandType DEF EnginesOK, Commands, CommandRecords
    <3>. QED  BY <2>1, <2>2, <3>1 DEF EnginesOK, Holder, Asking, Engines
  <2>3. CASE cmd' = ClearGoesOn
    BY <2>1, <2>3, GoesOnType, CommandMoves DEF Asking
  <2>. QED  BY <1>30, <2>2, <2>3 DEF ClearTakes
<1>31. CASE ClearDrops \/ RefreshDrops
  <2>1. w' = w /\ (DropSlot \/ UNCHANGED <<cur, sess, unforgot>>) /\ cmd' = NoCommand /\ cmd.pc \notin Asking
    BY <1>31 DEF ClearDrops, RefreshDrops, CommandEnds, Asking
  <2>2. cmd' \in CommandRecords /\ cmd'.pc \notin Asking /\ cmd'.eng = 0
    BY <2>1, NoCommandType DEF Asking
  <2>. QED  BY <2>1, <2>2, ManagerDrops, CommandMoves
<1>27. CASE Engine
  BY <1>27, EngineActs DEF Engine
<1>28. CASE Crash
  <2>1. w' = IdleWorker /\ cur' = 0 /\ sess' = [e \in Engines |-> NoSession] /\ cmd' = NoCommand
    BY <1>28 DEF Crash
  <2>2. sess' \in [Engines -> Sessions] /\ \A e \in Engines : sess'[e] = NoSession
    BY <2>1, IdleWorkerType
  <2>. QED  BY <2>1, <2>2, IdleWorkerType, NoCommandType DEF EnginesOK, WithEngine, Asking
<1>29. CASE UNCHANGED vars
  BY <1>29 DEF vars, late, EnginesOK, Holder
<1>. QED
  BY <1>1, <1>2, <1>3, <1>4, <1>5, <1>6, <1>7, <1>8, <1>9, <1>10, <1>11, <1>12, <1>13, <1>14, <1>15,
     <1>16, <1>17, <1>18, <1>19, <1>20, <1>21, <1>22, <1>23, <1>24, <1>25, <1>26, <1>27, <1>28, <1>29,
     <1>30, <1>31
  DEF Next, Worker, User, Commanded, World

(***************************************************************************)
(* The row and its saved counters.                                         *)
(***************************************************************************)
LEMMA SessionFields ==
  ASSUME NEW u \in Sessions
  PROVE  u.fin \in BOOLEAN /\ u.got \in BOOLEAN /\ u.stop \in BOOLEAN /\ u.cnt \in 0..MaxUp
<1>1. CASE u \in LiveSessions
  BY <1>1 DEF LiveSessions
<1>2. CASE u = NoSession
  BY <1>2, ZeroCount DEF NoSession
<1>. QED  BY <1>1, <1>2, LiveSessionsAre

LEMMA CountersType ==
  ASSUME NEW r \in Rows
  PROVE  Counters(r) \in SavedCounters /\ Counters(r).up = r.up /\ Counters(r).prev = r.prev
BY DEF Counters, Rows, SavedCounters

LEMMA UpdateType ==
  ASSUME NEW r \in Rows, NEW u \in Sessions
  PROVE  /\ Update(r, u) \in Rows
         /\ Update(r, u).up = Cumulative(r.up, r.prev, u.cnt) /\ Update(r, u).prev = u.cnt
         /\ Update(r, u).known = TRUE /\ Update(r, u).st \in {"Paused", "Seeding", "Downloading"}
<1>. DEFINE st == IF r.st = "Paused" THEN r.st ELSE IF u.fin THEN "Seeding" ELSE "Downloading"
            up == Cumulative(r.up, r.prev, u.cnt)
            got == r.got \/ u.got
            began == r.began \/ u.fin
<1>1. st \in States /\ st \in {"Paused", "Seeding", "Downloading"}
  BY DEF States
<1>2. up \in Nat /\ u.cnt \in 0..MaxUp
  <2>1. r.up \in Nat /\ r.prev \in {None} \cup Nat /\ u.cnt \in Nat /\ u.cnt \in 0..MaxUp
    BY SessionFields, TargetAssumption DEF Rows
  <2>. QED  BY <2>1, CumulativeType
<1>3. got \in BOOLEAN /\ began \in BOOLEAN
  OBVIOUS
<1>4. Update(r, u) = [r EXCEPT !.st = st, !.known = TRUE, !.up = up, !.prev = u.cnt, !.got = got, !.began = began]
  BY DEF Update, Rows
<1>. HIDE DEF st, up, got, began
<1>5. Update(r, u) \in Rows
  BY <1>1, <1>2, <1>3, <1>4 DEF Rows
<1>6. Update(r, u).up = up /\ Update(r, u).prev = u.cnt /\ Update(r, u).st = st
  BY <1>4 DEF Rows
<1>7. Update(r, u).known = TRUE
  BY <1>4 DEF Rows
<1>. QED  BY <1>1, <1>5, <1>6, <1>7 DEF up

LEMMA ResetTypes ==
  ASSUME NEW r \in Rows
  PROVE  /\ ResetStale(r) \in Rows /\ ResetStale(r).up = 0 /\ ResetStale(r).prev = None
         /\ ResetRestore(r) \in Rows /\ ResetRestore(r).up = r.up /\ ResetRestore(r).prev = None
         /\ MarkReleased(r) \in Rows /\ MarkReleased(r).up = r.up /\ MarkReleased(r).prev = None
BY DEF ResetStale, ResetRestore, MarkReleased, Rows, States

LEMMA NewRowType == NewRow \in Rows /\ NewRow.up = 0 /\ NewRow.prev = None
BY DEF NewRow, Rows, States

\* The steps of a command that take an engine or have it forget.
Asks == RestartTakes \/ RestartForgets \/ RemoveTakes \/ RemoveForgets \/ ClearTakes \/ ClearForgets

LEMMA AsksOnly ==
  ASSUME Asks
  PROVE  /\ UNCHANGED <<row, saved, active, reseeding, w, leaving, took, payload, real>>
         /\ kept' \in {kept, "none"} /\ (Mishap \/ spent' = spent)
<1>1. CASE ClearTakes
  BY <1>1 DEF ClearTakes, late, engines
<1>2. ASSUME NEW forget, NEW next, TakeEngine(forget, next)
      PROVE  /\ UNCHANGED <<row, saved, active, reseeding, w, leaving, took, payload, real>>
             /\ kept' = kept /\ (Mishap \/ spent' = spent)
  BY <1>2, Zenon DEF TakeEngine, engines
<1>3. ASSUME NEW then, NEW failed, ForgetTaken(then, failed)
      PROVE  /\ UNCHANGED <<row, saved, active, reseeding, w, leaving, took, payload, real>>
             /\ kept' \in {kept, "none"} /\ (Mishap \/ spent' = spent)
  BY <1>3 DEF ForgetTaken, KeptWithout
<1>4. CASE RestartTakes \/ RemoveTakes
  BY <1>2, <1>4 DEF RestartTakes, RemoveTakes
<1>5. CASE RestartForgets \/ RemoveForgets \/ ClearForgets
  BY <1>3, <1>5 DEF RestartForgets, RemoveForgets, ClearForgets
<1>. QED  BY <1>1, <1>4, <1>5 DEF Asks

LEMMA RowStep ==
  ASSUME TypeOK, EnginesOK, [Next]_vars
  PROVE  row' \in Rows /\ saved' \in SavedCounters
<1>1. CASE Claim \/ ReseedTick \/ User
  <2>1. saved' = saved \/ saved' = Counters(row) \/ saved' = Counters(row')
    BY <1>1 DEF Claim, ReseedTick, User, Pause, Resume, Retry, Cancel, Edits, Restart, Remove, Open, ClearCache,
                ChangeSettings, Persist
  <2>2. CASE row' = row \/ \E st \in States : row' = [row EXCEPT !.st = st]
    BY <2>1, <2>2, CountersType DEF TypeOK, Rows
  <2>3. CASE row' = [row EXCEPT !.prev = None]
    BY <2>1, <2>3, CountersType DEF TypeOK, Rows
  <2>. QED
    BY <1>1, <2>2, <2>3
    DEF Claim, ReseedTick, User, Pause, Resume, Retry, Cancel, Edits, Restart, Remove, Open, ClearCache,
        ChangeSettings, Persist, States
<1>2. CASE Apply
  <2>1. row' = Update(row, w.upd) /\ (saved' = saved \/ saved' = Counters(row')) /\ w.upd \in Sessions
    BY <1>2 DEF Apply, EnginesOK, Workers
  <2>2. row' \in Rows /\ saved \in SavedCounters
    BY <2>1, UpdateType DEF TypeOK
  <2>. QED  BY <2>1, <2>2, CountersType
<1>3. CASE Last
  <2>1. w.eng \in Engines
    BY <1>3 DEF Last, EnginesOK, Workers, WithEngine
  <2>2. UNCHANGED <<row, saved>> \/ (row' = Update(row, sess[w.eng]) /\ saved' = Counters(row'))
    BY <1>3 DEF Last, Persist
  <2>3. sess[w.eng] \in Sessions
    BY <2>1 DEF EnginesOK
  <2>5. row \in Rows /\ Update(row, sess[w.eng]) \in Rows
    BY <2>3, UpdateType DEF TypeOK
  <2>4. row' \in Rows
    BY <2>2, <2>5
  <2>. QED  BY <2>2, <2>4, CountersType DEF TypeOK
<1>4. CASE ClearStale \/ Recheck \/ Release
  BY <1>4, ResetTypes, CountersType DEF ClearStale, Recheck, Release, Persist, TypeOK
<1>5. CASE Finish \/ PauseVanished \/ FailKeepsReseed \/ FailPausesRestore \/ FailJob \/ RemoveDeletes
  <2>1. row' = row \/ \E st \in States : row' = [row EXCEPT !.st = st]
    BY <1>5 DEF Finish, PauseVanished, FailKeepsReseed, FailPausesRestore, FailJob, RemoveDeletes, Persist, States
  <2>2. saved' = Counters(row') \/ saved' = saved
    BY <1>5 DEF Finish, PauseVanished, FailKeepsReseed, FailPausesRestore, FailJob, RemoveDeletes, Persist
  <2>3. row' \in Rows
    BY <2>1 DEF TypeOK, Rows
  <2>. QED  BY <2>2, <2>3, CountersType DEF TypeOK
<1>6. CASE Leave \/ LeaveLate
  BY <1>6, CountersType DEF Leave, LeaveLate, TypeOK
<1>7. CASE RestartResets
  BY <1>7, NewRowType, CountersType DEF RestartResets, Persist, TypeOK
<1>8. CASE Crash
  <2>1. PICK st \in Reloaded :
           row' = [st |-> st, began |-> row.began, known |-> row.known,
                   up |-> saved.up, prev |-> saved.prev, got |-> saved.got]
    BY <1>8 DEF Crash
  <2>2. st \in States /\ saved' = saved
    BY <1>8 DEF Crash, Reloaded, TypeOK, Rows, States
  <2>. QED  BY <2>1, <2>2 DEF TypeOK, Rows, SavedCounters
<1>9. CASE \/ GetEngine \/ BeginStale \/ BeginRestore \/ BeginDownload \/ Lookup \/ AddDone \/ AddTimesOut
           \/ AddInterrupted \/ Control \/ SnapshotFails \/ EngineReportsError \/ SeesStaleCompletion
           \/ SeesPayloadGone \/ RefusesRestore \/ RestoreStalls \/ RefreshPeers \/ SeesProgress \/ ApplyMissesRow
  BY <1>9 DEF GetEngine, BeginStale, BeginRestore, BeginDownload, Lookup, AddDone, AddTimesOut, AddInterrupted,
              Control, SnapshotFails, EngineReportsError, SeesStaleCompletion, SeesPayloadGone, RefusesRestore,
              RestoreStalls, RefreshPeers, SeesProgress, ApplyMissesRow, Observe, TypeOK
<1>10. CASE HandOff \/ RemoveWaits \/ OpenWaits \/ OpenUses \/ ClearDrops \/ RefreshDrops \/ PayloadLost \/ Asks
  BY <1>10, AsksOnly DEF HandOff, RemoveWaits, OpenWaits, OpenUses, ClearDrops, RefreshDrops, PayloadLost, Unseen, TypeOK
<1>11. CASE Engine
  BY <1>11 DEF Engine, EngineChecks, EngineFetches, EngineUploads, EngineFails, Unseen, TypeOK
<1>12. CASE UNCHANGED vars
  BY <1>12 DEF vars, TypeOK
<1>. QED
  BY <1>1, <1>2, <1>3, <1>4, <1>5, <1>6, <1>7, <1>8, <1>9, <1>10, <1>11, <1>12
  DEF Next, Worker, Commanded, World, Asks

(***************************************************************************)
(* The flags, the directory and the counts.                                *)
(***************************************************************************)
LEMMA FlagStep ==
  ASSUME TypeOK, EnginesOK, [Next]_vars
  PROVE  /\ active' \in BOOLEAN /\ leaving' \in BOOLEAN /\ took' \in BOOLEAN /\ unforgot' \in BOOLEAN
         /\ lapsed' \in BOOLEAN /\ reseed' \in BOOLEAN /\ handing' \in BOOLEAN /\ fresh' \in BOOLEAN
<1>. USE DEF TypeOK, engines, reseeding, late, Unmark
<1>1. CASE Claim \/ Worker
  <2>1. w.access \in BOOLEAN
    BY DEF Workers
  <2>2. CASE Claim \/ GetEngine \/ BeginStale \/ BeginRestore \/ BeginDownload \/ Lookup \/ AddDone \/ AddTimesOut
    BY <2>2, Zenon DEF Claim, GetEngine, BeginStale, BeginRestore, BeginDownload, Lookup, AddDone, AddTimesOut,
                Return, ForgetAndReturn
  <2>3. CASE \/ AddInterrupted \/ Control \/ SnapshotFails \/ EngineReportsError \/ SeesStaleCompletion
             \/ SeesPayloadGone \/ RefusesRestore \/ RestoreStalls \/ RefreshPeers \/ SeesProgress
    <3>1. UNCHANGED <<active, reseeding, late>>
      BY <2>3, Zenon DEF AddInterrupted, Control, SnapshotFails, EngineReportsError, SeesStaleCompletion,
                  SeesPayloadGone, RefusesRestore, RestoreStalls, RefreshPeers, SeesProgress, Observe
    <3>2. fresh' = fresh
      <4>1. CASE AddInterrupted \/ Control \/ SnapshotFails \/ EngineReportsError \/ SeesStaleCompletion
        BY <4>1, Zenon DEF AddInterrupted, Control, SnapshotFails, EngineReportsError, SeesStaleCompletion, Observe,
                    Return, ForgetAndReturn, ForgetAndGo
      <4>2. CASE SeesPayloadGone \/ RefusesRestore \/ RestoreStalls \/ RefreshPeers \/ SeesProgress
        BY <4>2, Zenon DEF SeesPayloadGone, RefusesRestore, RestoreStalls, RefreshPeers, SeesProgress, Observe,
                    Return, ForgetAndReturn, ForgetAndGo
      <4>. QED  BY <2>3, <4>1, <4>2
    <3>. QED  BY <3>1, <3>2
  <2>4. CASE \/ Apply \/ ApplyMissesRow \/ Finish \/ ClearStale \/ Recheck \/ PauseVanished \/ Last \/ Release
             \/ Leave \/ LeaveLate
    BY <2>4, Zenon DEF Apply, ApplyMissesRow, Finish, ClearStale, Recheck, PauseVanished, Last, Release, Leave, LeaveLate,
                Return, ForgetAndReturn
  <2>5. CASE FailKeepsReseed \/ FailPausesRestore \/ FailJob
    BY <2>1, <2>5, Zenon DEF FailKeepsReseed, FailPausesRestore, FailJob, EndWorker
  <2>. QED  BY <1>1, <2>2, <2>3, <2>4, <2>5 DEF Worker
<1>2. CASE HandOff \/ ReseedTick \/ User
  BY <1>2, Zenon DEF HandOff, ReseedTick, User, Pause, Resume, Retry, Cancel, Edits, Restart, Remove, Open,
              ClearCache, ChangeSettings
<1>3. CASE RestartResets \/ RemoveWaits \/ RemoveDeletes \/ OpenWaits \/ OpenUses \/ ClearDrops \/ RefreshDrops
  BY <1>3, Zenon DEF RestartResets, RemoveWaits, RemoveDeletes, OpenWaits, OpenUses, ClearDrops, RefreshDrops, DropSlot
<1>7. CASE Asks
  <2>1. UNCHANGED <<active, reseeding, leaving, took>>
    BY <1>7, AsksOnly
  <2>2. fresh' \in BOOLEAN /\ unforgot' \in BOOLEAN
    <3>1. CASE RestartTakes \/ RemoveTakes
      BY <3>1, Zenon DEF RestartTakes, RemoveTakes, TakeEngine
    <3>2. CASE RestartForgets \/ RemoveForgets \/ ClearForgets
      BY <3>2, Zenon DEF RestartForgets, RemoveForgets, ClearForgets, ForgetTaken
    <3>3. CASE ClearTakes
      BY <3>3 DEF ClearTakes
    <3>. QED  BY <1>7, <3>1, <3>2, <3>3 DEF Asks
  <2>. QED  BY <2>1, <2>2
<1>4. CASE Engine \/ PayloadLost
  <2>1. UNCHANGED Unseen
    BY <1>4 DEF Engine, EngineChecks, EngineFetches, EngineUploads, EngineFails, PayloadLost
  <2>2. UNCHANGED <<active, leaving, took, unforgot, reseed, handing, lapsed, fresh>>
    BY <2>1 DEF Unseen
  <2>. QED  BY <2>2
<1>6. CASE Crash
  BY <1>6 DEF Crash
<1>5. CASE UNCHANGED vars
  BY <1>5, Zenon DEF vars
<1>. QED  BY <1>1, <1>2, <1>3, <1>4, <1>5, <1>6, <1>7 DEF Next, World, Commanded, Asks

LEMMA CountStep ==
  ASSUME TypeOK, [Next]_vars
  PROVE  /\ loops' \in 0..MaxLoops /\ payload' \in {"none", "part", "full", "beside"}
         /\ real' \in 0..MaxUp
         /\ spent' \in [commands : 0..MaxCommands, mishaps : 0..MaxMishaps]
         /\ kept' \in {"none", "paused", "live"}
<1>. USE LimitsAssumption, TargetAssumption DEF TypeOK, engines, reseeding, KeptWithout
<1>1. CASE \/ Claim \/ GetEngine \/ BeginStale \/ BeginRestore \/ BeginDownload \/ Lookup \/ AddDone \/ AddTimesOut
           \/ AddInterrupted \/ Control \/ SnapshotFails \/ EngineReportsError
  BY <1>1 DEF Claim, GetEngine, BeginStale, BeginRestore, BeginDownload, Lookup, AddDone, AddTimesOut, AddInterrupted,
              Control, SnapshotFails, EngineReportsError, Observe, Return, ForgetAndReturn, Mishap
<1>2. CASE \/ SeesStaleCompletion \/ SeesPayloadGone \/ RefusesRestore \/ RestoreStalls \/ RefreshPeers \/ SeesProgress
  BY <1>2 DEF SeesStaleCompletion, SeesPayloadGone, RefusesRestore, RestoreStalls, RefreshPeers, SeesProgress, Observe,
              Return, ForgetAndReturn, ForgetAndGo
<1>0. CASE ClearStale
  <2>1. Elsewhere \in 0..MaxUp
    BY SessionFields, ZeroCount DEF Elsewhere
  <2>. QED  BY <1>0, <2>1 DEF ClearStale
<1>3. CASE \/ Apply \/ ApplyMissesRow \/ Finish \/ Recheck \/ PauseVanished \/ Last \/ Release
           \/ Leave \/ LeaveLate
  BY <1>3 DEF Apply, ApplyMissesRow, Finish, Recheck, PauseVanished, Last, Release, Leave, LeaveLate,
              Return, ForgetAndReturn
<1>4. CASE FailKeepsReseed \/ FailPausesRestore \/ FailJob \/ HandOff \/ ReseedTick
  BY <1>4 DEF FailKeepsReseed, FailPausesRestore, FailJob, HandOff, ReseedTick, Mishap
<1>5. CASE User
  <2>1. (Given \/ spent' = spent) /\ UNCHANGED <<loops, payload, real, kept>>
    BY <1>5 DEF User, Pause, Resume, Retry, Cancel, Edits, Restart, Remove, Open, ClearCache, ChangeSettings
  <2>. QED  BY <2>1 DEF Given
<1>6. CASE Commanded
  <2>1. CASE Asks
    BY <2>1, AsksOnly DEF Mishap
  <2>2. CASE RestartResets \/ RemoveWaits \/ RemoveDeletes \/ OpenWaits
    BY <2>2 DEF RestartResets, RemoveWaits, RemoveDeletes, OpenWaits
  <2>3. CASE ClearDrops \/ RefreshDrops
    BY <2>3 DEF ClearDrops, RefreshDrops
  <2>4. CASE OpenUses
    <3>1. (loops' = loops \/ (loops < MaxLoops /\ loops' = loops + 1)) /\ UNCHANGED <<payload, real, spent, kept>>
      BY <2>4 DEF OpenUses
    <3>. QED  BY <3>1
  <2>. QED  BY <1>6, <2>1, <2>2, <2>3, <2>4 DEF Commanded, Asks
<1>7. CASE Engine
  BY <1>7 DEF Engine, EngineChecks, EngineFetches, EngineUploads, EngineFails, Unseen, Mishap
<1>8. CASE World
  BY <1>8 DEF World, PayloadLost, Crash, Unseen
<1>9. CASE UNCHANGED vars
  BY <1>9 DEF vars
<1>. QED  BY <1>0, <1>1, <1>2, <1>3, <1>4, <1>5, <1>6, <1>7, <1>8, <1>9 DEF Next, Worker

(***************************************************************************)
(* The theorems.                                                           *)
(***************************************************************************)
Inv == TypeOK /\ EnginesOK

LEMMA InvInit == Init => Inv
<1>. SUFFICES ASSUME Init PROVE Inv
  OBVIOUS
<1>1. row \in Rows /\ saved \in SavedCounters
  BY NewRowType, CountersType DEF Init
<1>2. w \in Workers /\ sess \in [Engines -> Sessions] /\ w.pc = "idle" /\ w.eng = 0
      /\ \A e \in Engines : sess[e] = NoSession
  BY IdleWorkerType DEF Init
<1>3. cmd \in CommandRecords /\ cmd.pc = "none" /\ cmd.eng = 0
  BY NoCommandType DEF Init
<1>4. /\ loops \in 0..MaxLoops /\ real \in 0..MaxUp
      /\ spent \in [commands : 0..MaxCommands, mishaps : 0..MaxMishaps]
  BY LimitsAssumption, TargetAssumption DEF Init
<1>. QED  BY <1>1, <1>2, <1>3, <1>4 DEF Init, Inv, TypeOK, EnginesOK, WithEngine, CommandRecords, Asking

LEMMA InvStep == Inv /\ [Next]_vars => Inv'
<1>. SUFFICES ASSUME TypeOK, EnginesOK, [Next]_vars PROVE TypeOK' /\ EnginesOK'
  BY DEF Inv
<1>1. EnginesOK'
  BY EnginesStep
<1>. QED  BY <1>1, RowStep, FlagStep, CountStep DEF TypeOK, EnginesOK, CommandRecords

\* The model keeps its types: the row and its counters, the worker, the engines'
\* sessions and the commands of the user stay what the code can hold.
THEOREM TypeCorrect == Spec => []TypeOK
<1>1. Spec => []Inv
  BY InvInit, InvStep, PTL DEF Spec
<1>. QED  BY <1>1, PTL DEF Inv

\* However engines are replaced, deferred and dropped, at most one of them serves
\* the torrent (TorrentEngineManager): a session is in the worker's engine, or in
\* the slot's when no worker holds one.  The exceptions are the engine that a
\* command has taken and yet to have forget the torrent
\* (forget_torrent_session_for_restart), and one that failed to.
THEOREM ServedOnce == Spec => []NeverServedTwice
<1>1. Spec => []Inv
  BY InvInit, InvStep, PTL DEF Spec
<1>2. Inv => NeverServedTwice
  <2>1. NoSession.ph # "live"
    BY DEF NoSession
  <2>. QED  BY <2>1 DEF Inv, EnginesOK, NeverServedTwice
<1>. QED  BY <1>1, <1>2, PTL

LEMMA ReseedStep ==
  ASSUME TypeOK, ReseedHasALoop, [Next]_vars
  PROVE  ReseedHasALoop'
<1>. USE DEF ReseedHasALoop, engines, reseeding, Unmark
<1>0. loops \in Nat
  BY LimitsAssumption DEF TypeOK
<1>1. CASE FailPausesRestore \/ FailJob \/ FailKeepsReseed \/ PauseVanished
  BY <1>1 DEF FailPausesRestore, FailJob, FailKeepsReseed, PauseVanished
<1>2. CASE HandOff
  BY <1>0, <1>2 DEF HandOff
<1>3. CASE ReseedTick
  BY <1>3 DEF ReseedTick
<1>4. CASE User
  BY <1>4 DEF User, Pause, Resume, Retry, Cancel, Edits, Restart, Remove, Open, ClearCache, ChangeSettings
<1>5. CASE RestartResets \/ RemoveDeletes
  BY <1>5 DEF RestartResets, RemoveDeletes
<1>6. CASE OpenUses
  <2>1. CASE UNCHANGED <<reseed, loops, lapsed>>
    BY <1>6, <2>1, Zenon DEF OpenUses
  <2>2. CASE loops' = loops + 1
    <3>1. loops' > 0
      BY <1>0, <2>2
    <3>. QED  BY <3>1
  <2>. QED  BY <1>6, <2>1, <2>2 DEF OpenUses
<1>7. CASE RemoveWaits \/ OpenWaits \/ ClearDrops \/ RefreshDrops \/ Asks
  BY <1>7, AsksOnly DEF RemoveWaits, OpenWaits, ClearDrops, RefreshDrops
<1>8. CASE \/ Claim \/ GetEngine \/ BeginStale \/ BeginRestore \/ BeginDownload \/ Lookup \/ AddDone \/ AddTimesOut
           \/ AddInterrupted \/ Control \/ SnapshotFails \/ EngineReportsError \/ SeesStaleCompletion
           \/ SeesPayloadGone \/ RefusesRestore \/ RestoreStalls \/ RefreshPeers \/ SeesProgress
  BY <1>8 DEF Claim, GetEngine, BeginStale, BeginRestore, BeginDownload, Lookup, AddDone, AddTimesOut, AddInterrupted,
              Control, SnapshotFails, EngineReportsError, SeesStaleCompletion, SeesPayloadGone, RefusesRestore,
              RestoreStalls, RefreshPeers, SeesProgress, Observe
<1>9. CASE \/ Apply \/ ApplyMissesRow \/ Finish \/ ClearStale \/ Recheck \/ Last \/ Release \/ Leave \/ LeaveLate
  BY <1>9 DEF Apply, ApplyMissesRow, Finish, ClearStale, Recheck, Last, Release, Leave, LeaveLate
<1>10. CASE Engine \/ World
  BY <1>10 DEF Engine, World, EngineChecks, EngineFetches, EngineUploads, EngineFails, PayloadLost, Crash, Unseen
<1>11. CASE UNCHANGED vars
  BY <1>11 DEF vars
<1>. QED
  BY <1>1, <1>2, <1>3, <1>4, <1>5, <1>6, <1>7, <1>8, <1>9, <1>10, <1>11 DEF Next, Worker, Commanded, Asks

\* A job marked for reseeding has a task that will try it: no command, failure or
\* crash leaves a mark behind whose task is gone (begin_external_reseed,
\* schedule_external_reseed); a task that failed to save the job does, and nothing
\* else.
THEOREM MarkedHasATask == Spec => []ReseedHasALoop
<1>1. Init => ReseedHasALoop
  BY DEF Init, ReseedHasALoop
<1>2. TypeOK /\ ReseedHasALoop /\ [Next]_vars => ReseedHasALoop'
  BY ReseedStep
<1>. QED  BY <1>1, <1>2, TypeCorrect, PTL DEF Spec

(***************************************************************************)
(* What a worker knows of the torrent, and the row knows too.              *)
(***************************************************************************)
WorkerKnows ==
  /\ w.pc = "idle" => ~w.known
  /\ w.restoring => w.known /\ w.pc \notin {"start", "begin"}
  /\ w.began /\ ~w.known /\ w.pc \in WithEngine \cup {"start"} =>
        w.tried /\ w.pc \in {"lookup", "adding", "control", "apply", "last"}
  /\ w.pc = "stale" => w.src \/ (w.tried /\ ~w.restoring)

RowKnows ==
  /\ row.began => row.known
  /\ ~took => (w.known => row.known) /\ (w.pc # "idle" => active)

LEMMA ReturnedKnows ==
  ASSUME w'.pc \in {"fail", "leave", "vanished", "finish", "release"},
         w'.known = FALSE, w'.restoring = FALSE
  PROVE  WorkerKnows'
BY DEF WorkerKnows, WithEngine

LEMMA LetsGoKnows ==
  ASSUME TypeOK, NEW step \in {"fail", "leave", "vanished", "finish", "release"},
         Return(step) \/ ForgetAndReturn(step)
  PROVE  WorkerKnows' /\ w'.known = FALSE /\ w'.pc = step
<1>1. step \in WorkerSteps
  BY DEF WorkerSteps
<1>. QED  BY <1>1, ReturnType, ReturnedKnows

LEMMA IdleKnows ==
  ASSUME w' = IdleWorker
  PROVE  WorkerKnows' /\ w'.known = FALSE /\ w'.pc = "idle"
BY IdleWorkerType DEF WorkerKnows, WithEngine

LEMMA WorkerKnowsStep ==
  ASSUME TypeOK, EnginesOK, WorkerKnows, RowKnows, [Next]_vars
  PROVE  /\ WorkerKnows'
         /\ w'.known => w.known \/ (Claim /\ row.known)
<1>0. w \in Workers /\ row \in Rows
  BY DEF TypeOK
<1>1. CASE Claim
  <2>1. (row.up = 0 /\ ~row.got) \in BOOLEAN
    OBVIOUS
  <2>2. row.began \in BOOLEAN /\ row.known \in BOOLEAN
    BY DEF TypeOK, Rows
  <2>3. w' = [IdleWorker EXCEPT !.pc = "start", !.began = row.began, !.bare = (row.up = 0 /\ ~row.got),
                                !.known = row.known]
    BY <1>1 DEF Claim
  <2>4. w'.pc = "start" /\ w'.known = row.known /\ w'.restoring = FALSE /\ w'.began = row.began
    BY <2>1, <2>2, <2>3, StartedType, Zenon
  <2>. QED  BY <1>1, <2>4 DEF RowKnows, WorkerKnows, WithEngine
<1>2. CASE GetEngine
  BY <1>0, <1>2 DEF GetEngine, WorkerKnows, WithEngine, Workers
<1>3. CASE BeginStale
  BY <1>0, <1>3 DEF BeginStale, WorkerKnows, WithEngine, Workers
<1>4. CASE BeginRestore
  <2>1. CASE Return("fail")
    BY <2>1, LetsGoKnows
  <2>2. CASE w' = [w EXCEPT !.pc = "lookup", !.restoring = TRUE]
    BY <1>0, <1>4, <2>2 DEF BeginRestore, WorkerKnows, WithEngine, Workers
  <2>. QED  BY <1>4, <2>1, <2>2 DEF BeginRestore
<1>5. CASE BeginDownload
  BY <1>0, <1>5 DEF BeginDownload, WorkerKnows, WithEngine, Workers
<1>6. CASE Lookup
  <2>1. w' = [w EXCEPT !.pc = "control"] \/ w' = [w EXCEPT !.pc = "adding", !.src = TRUE]
    BY <1>6 DEF Lookup
  <2>. QED  BY <1>0, <1>6, <2>1 DEF Lookup, WorkerKnows, WithEngine, Workers
<1>7. CASE AddDone
  <2>1. PICK tried : w' = [w EXCEPT !.pc = "control", !.first = TRUE, !.tried = tried] /\ (w.tried => tried)
    <3>. DEFINE t == w.tried \/ (sess[w.eng] # NoSession /\ ~(sess[w.eng] # NoSession /\ (w.pc = "again" \/ w.restoring)))
    <3>1. w' = [w EXCEPT !.pc = "control", !.first = TRUE, !.tried = t] /\ (w.tried => t)
      BY <1>0, <1>7 DEF AddDone, Workers
    <3>. QED  BY <3>1, Zenon
  <2>. QED  BY <1>0, <1>7, <2>1 DEF AddDone, WorkerKnows, WithEngine, Workers
<1>8. CASE AddTimesOut
  <2>1. CASE ForgetAndReturn("fail") \/ Return("fail")
    BY <2>1, LetsGoKnows
  <2>2. CASE ~(ForgetAndReturn("fail") \/ Return("fail"))
    <3>1. w' = [IdleWorker EXCEPT !.pc = "start", !.began = w.began, !.bare = w.bare, !.known = w.known]
          /\ w.pc = "again"
      BY <1>8, <2>2 DEF AddTimesOut
    <3>2. w.began \in BOOLEAN /\ w.bare \in BOOLEAN /\ w.known \in BOOLEAN
      BY <1>0 DEF Workers
    <3>3. w'.pc = "start" /\ w'.known = w.known /\ w'.restoring = FALSE /\ w'.began = w.began
      BY <3>1, <3>2, StartedType, Zenon
    <3>. QED  BY <3>1, <3>3 DEF WorkerKnows, WithEngine
  <2>. QED  BY <2>1, <2>2
<1>9. CASE AddInterrupted
  BY <1>9, LetsGoKnows DEF AddInterrupted
<1>10. CASE Control
  <2>1. CASE ForgetAndReturn("leave")
    BY <2>1, LetsGoKnows
  <2>2. CASE ~ForgetAndReturn("leave")
    BY <1>0, <1>10, <2>2 DEF Control, WorkerKnows, WithEngine, Workers
  <2>. QED  BY <2>1, <2>2
<1>11. CASE SnapshotFails \/ RefusesRestore
  BY <1>11, LetsGoKnows DEF SnapshotFails, RefusesRestore, Observe
<1>12. CASE EngineReportsError
  <2>1. w' = [IdleWorker EXCEPT !.pc = "fail", !.began = w.began, !.bare = w.bare, !.access = sess[w.eng].stop]
    BY <1>12 DEF EngineReportsError, Observe
  <2>2. PICK v, acc : v = IdleWorker /\ w' = [v EXCEPT !.pc = "fail", !.began = w.began, !.bare = w.bare, !.access = acc]
    BY <2>1, Zenon
  <2>3. w'.pc = "fail" /\ w'.known = FALSE /\ w'.restoring = FALSE
    BY <2>2, IdleWorkerType DEF Workers
  <2>. QED  BY <2>3, ReturnedKnows
<1>13. CASE SeesStaleCompletion
  <2>1. CASE Return("fail")
    BY <2>1, LetsGoKnows
  <2>2. CASE ~Return("fail")
    <3>1. w' = [w EXCEPT !.pc = "stale"] /\ ~w.tried /\ w.src /\ w.pc = "control"
      BY <1>13, <2>2 DEF SeesStaleCompletion, Observe, StaleCompletion, ForgetAndGo
    <3>. QED  BY <1>0, <3>1 DEF WorkerKnows, WithEngine, Workers
  <2>. QED  BY <2>1, <2>2
<1>14. CASE SeesPayloadGone
  BY <1>14, LetsGoKnows DEF SeesPayloadGone, Observe
<1>15. CASE RestoreStalls
  <2>1. CASE ForgetAndReturn("fail")
    BY <2>1, LetsGoKnows
  <2>2. CASE ForgetAndGo("recheck")
    BY <1>0, <1>15, <2>2 DEF RestoreStalls, Observe, ForgetAndGo, WorkerKnows, WithEngine, Workers
  <2>. QED  BY <1>15, <2>1, <2>2 DEF RestoreStalls, Observe
<1>16. CASE RefreshPeers
  BY <1>16 DEF RefreshPeers, Observe, WorkerKnows
<1>17. CASE SeesProgress
  BY <1>0, <1>17 DEF SeesProgress, Observe, WorkerKnows, WithEngine, Workers
<1>18. CASE Apply
  <2>1. CASE ForgetAndReturn("finish")
    BY <2>1, LetsGoKnows
  <2>2. CASE ~ForgetAndReturn("finish")
    <3>1. w' = [w EXCEPT !.pc = "control", !.first = FALSE, !.upd = NoSession] /\ w.pc = "apply"
      BY <1>18, <2>2 DEF Apply
    <3>. QED  BY <1>0, <3>1 DEF WorkerKnows, WithEngine, Workers
  <2>. QED  BY <2>1, <2>2
<1>19. CASE ApplyMissesRow
  BY <1>19, LetsGoKnows DEF ApplyMissesRow
<1>20. CASE Finish \/ PauseVanished \/ Leave \/ FailKeepsReseed \/ FailPausesRestore \/ FailJob \/ Crash
  BY <1>20, IdleKnows DEF Finish, PauseVanished, Leave, FailKeepsReseed, FailPausesRestore, FailJob, EndWorker, Crash
<1>21. CASE ClearStale
  BY <1>0, <1>21 DEF ClearStale, WorkerKnows, WithEngine, Workers
<1>22. CASE Recheck
  BY <1>0, <1>22 DEF Recheck, WorkerKnows, WithEngine, Workers
<1>23. CASE Last
  <2>1. CASE Return("fail") \/ ForgetAndReturn("release")
    BY <2>1, LetsGoKnows
  <2>2. CASE ~(Return("fail") \/ ForgetAndReturn("release"))
    <3>1. w' = [IdleWorker EXCEPT !.pc = "leave"]
      BY <1>23, <2>2 DEF Last
    <3>. QED  BY <3>1, IdleWorkerType, ReturnedKnows DEF Workers
  <2>. QED  BY <2>1, <2>2
<1>24. CASE Release
  BY <1>24, IdleWorkerType, ReturnedKnows DEF Release, Workers
<1>25. CASE w' = w
  BY <1>25 DEF WorkerKnows
<1>26. CASE \/ LeaveLate \/ HandOff \/ ReseedTick \/ User \/ Commanded \/ Engine \/ PayloadLost \/ UNCHANGED vars
  <2>1. w' = w
    BY <1>26, AsksOnly
    DEF LeaveLate, HandOff, ReseedTick, User, Pause, Resume, Retry, Cancel, Edits, Restart, Remove, Open, ClearCache,
        ChangeSettings, Commanded, Asks, RestartResets, RemoveWaits, RemoveDeletes, OpenWaits,
        OpenUses, ClearDrops, RefreshDrops, Engine, EngineChecks, EngineFetches,
        EngineUploads, EngineFails, PayloadLost, Unseen, vars
  <2>. QED  BY <1>25, <2>1
<1>. QED
  BY <1>1, <1>2, <1>3, <1>4, <1>5, <1>6, <1>7, <1>8, <1>9, <1>10, <1>11, <1>12, <1>13, <1>14, <1>15,
     <1>16, <1>17, <1>18, <1>19, <1>20, <1>21, <1>22, <1>23, <1>24, <1>26
  DEF Next, Worker, World

LEMMA RowKnowsStep ==
  ASSUME TypeOK, EnginesOK, WorkerKnows, RowKnows, [Next]_vars
  PROVE  RowKnows'
<1>0. /\ w'.known => w.known \/ (Claim /\ row.known)
      /\ row \in Rows
  BY WorkerKnowsStep DEF TypeOK
<1>1. CASE Claim
  BY <1>0, <1>1 DEF Claim, RowKnows, Rows, late, WorkerKnows
<1>2. CASE Apply
  <2>1. row' = Update(row, w.upd) /\ UNCHANGED <<active, took>> /\ w.pc = "apply" /\ w.upd \in Sessions
    BY <1>2 DEF Apply, late, EnginesOK, Workers
  <2>. QED  BY <1>0, <2>1, UpdateType DEF RowKnows
<1>3. CASE Last
  <2>1. w.eng \in Engines
    BY <1>3 DEF Last, EnginesOK, Workers, WithEngine
  <2>2. sess[w.eng] \in Sessions
    BY <2>1 DEF EnginesOK
  <2>3. (row' = row \/ row' = Update(row, sess[w.eng])) /\ UNCHANGED <<active, took>> /\ w.pc = "last" /\ ~Claim
    BY <1>3 DEF Last, late, Persist, Claim
  <2>4. row' = row \/ row'.known = TRUE
    BY <1>0, <2>2, <2>3, UpdateType
  <2>. QED  BY <1>0, <2>3, <2>4 DEF RowKnows
<1>4. CASE ClearStale \/ Recheck \/ Release
  <2>1. /\ row' \in {ResetStale(row), ResetRestore(row), MarkReleased(row)}
        /\ UNCHANGED <<active, took>> /\ w.pc # "idle" /\ ~Claim
    BY <1>4 DEF ClearStale, Recheck, Release, Persist, late, Claim
  <2>2. row'.known = row.known /\ (row'.began => row.began)
    BY <1>0, <2>1 DEF ResetStale, ResetRestore, MarkReleased, Rows
  <2>. QED  BY <1>0, <2>1, <2>2 DEF RowKnows
<1>5. CASE Finish \/ PauseVanished \/ Leave \/ FailKeepsReseed \/ FailPausesRestore \/ FailJob \/ Crash
  <2>1. w' = IdleWorker /\ took' = took
    BY <1>5 DEF Finish, PauseVanished, Leave, FailKeepsReseed, FailPausesRestore, FailJob, Crash, EndWorker, late
  <2>2. row'.known = row.known /\ row'.began = row.began
    <3>1. CASE Crash
      BY <3>1 DEF Crash
    <3>2. CASE ~Crash
      <4>1. row' = row \/ \E st \in States : row' = [row EXCEPT !.st = st]
        BY <1>5, <3>2 DEF Finish, PauseVanished, Leave, FailKeepsReseed, FailPausesRestore, FailJob, Persist, States
      <4>. QED  BY <1>0, <4>1 DEF Rows
    <3>. QED  BY <3>1, <3>2
  <2>. QED  BY <2>1, <2>2, IdleKnows DEF RowKnows
<1>6. CASE LeaveLate
  BY <1>0, <1>6 DEF LeaveLate, RowKnows
<1>7. CASE RestartResets
  <2>1. CASE ~active /\ row' = NewRow /\ w' = w /\ took' = took
    BY <2>1 DEF RowKnows, WorkerKnows, NewRow
  <2>2. CASE row' = row
    BY <1>7, <2>2 DEF RestartResets, RowKnows, late
  <2>. QED  BY <1>7, <2>1, <2>2 DEF RestartResets, Persist, late
<1>8. CASE ReseedTick \/ User \/ RemoveDeletes
  <2>1. UNCHANGED <<w, active, took>>
    BY <1>8 DEF ReseedTick, User, Pause, Resume, Retry, Cancel, Edits, Restart, Remove, Open, ClearCache, ChangeSettings,
                RemoveDeletes, late
  <2>2. row' = row \/ row' = [row EXCEPT !.prev = None] \/ \E st \in States : row' = [row EXCEPT !.st = st]
    BY <1>8 DEF ReseedTick, User, Pause, Resume, Retry, Cancel, Edits, Restart, Remove, Open, ClearCache, ChangeSettings,
                RemoveDeletes, Persist, States
  <2>3. row'.known = row.known /\ row'.began = row.began
    BY <1>0, <2>2 DEF Rows
  <2>. QED  BY <2>1, <2>3 DEF RowKnows
<1>9. CASE /\ UNCHANGED <<row, active, took>> /\ ~Claim
           /\ w'.pc # "idle" => w.pc # "idle"
  BY <1>0, <1>9 DEF RowKnows
<1>10. CASE \/ GetEngine \/ BeginStale \/ BeginRestore \/ BeginDownload \/ Lookup \/ AddDone \/ AddTimesOut
            \/ AddInterrupted \/ Control \/ SnapshotFails \/ EngineReportsError \/ SeesStaleCompletion
            \/ SeesPayloadGone \/ RefusesRestore \/ RestoreStalls \/ RefreshPeers \/ SeesProgress \/ ApplyMissesRow
  <2>1. UNCHANGED <<row, active, took>> /\ w.pc # "idle"
    BY <1>10, Zenon DEF late, GetEngine, BeginStale, BeginRestore, BeginDownload, Lookup, AddDone, AddTimesOut, AddInterrupted,
                 Control, SnapshotFails, EngineReportsError, SeesStaleCompletion, SeesPayloadGone, RefusesRestore,
                 RestoreStalls, RefreshPeers, SeesProgress, ApplyMissesRow, Observe
  <2>. QED  BY <1>9, <2>1 DEF Claim
<1>11. CASE \/ HandOff \/ RemoveWaits \/ OpenWaits \/ OpenUses \/ ClearDrops \/ RefreshDrops
            \/ PayloadLost \/ Engine \/ Asks
  <2>1. UNCHANGED <<row, active, took, w>>
    BY <1>11, AsksOnly DEF HandOff, RemoveWaits, OpenWaits, OpenUses, ClearDrops, RefreshDrops, PayloadLost, Unseen, late,
                 Engine, EngineChecks, EngineFetches, EngineUploads, EngineFails
  <2>. QED  BY <2>1 DEF RowKnows
<1>12. CASE UNCHANGED vars
  BY <1>12 DEF vars, late, RowKnows
<1>. QED
  BY <1>1, <1>2, <1>3, <1>4, <1>5, <1>6, <1>7, <1>8, <1>10, <1>11, <1>12 DEF Next, Worker, Commanded, World, Asks

(***************************************************************************)
(* The counters.                                                           *)
(***************************************************************************)
LEMMA CumulativeIs ==
  ASSUME NEW t \in Nat, NEW p \in {None} \cup Nat, NEW n \in Nat
  PROVE  /\ Cumulative(t, p, n) \in Nat /\ Cumulative(t, p, n) >= t
         /\ Cumulative(t, p, n + 1) <= Cumulative(t, p, n) + 1
         /\ (t = 0 => p \in {None, 0}) => Cumulative(t, None, n) \in {t, Cumulative(t, p, n)}
         /\ (t = 0 => p \in {None, 0}) /\ Cumulative(t, p, n) = 0 => n = 0
BY DEF Cumulative, None

LEMMA CumulativeOfNothing ==
  ASSUME NEW t \in Nat, NEW p \in {None} \cup Nat
  PROVE  Cumulative(t, p, 0) = t
BY DEF Cumulative, None

LEMMA CumulativeAgain ==
  ASSUME NEW t \in Nat, NEW n \in Nat, NEW m \in Nat, m >= n
  PROVE  Cumulative(t, n, m) = t + (m - n)
BY DEF Cumulative, None

LEMMA CumulativeAtMost ==
  ASSUME NEW t \in Nat, NEW p \in {None} \cup Nat, NEW n \in Nat
  PROVE  Cumulative(t, p, n) <= t + n
BY DEF Cumulative, None

\* The units of the session that the worker reads, or the next one will.
Mine == IF Holder = 0 THEN 0 ELSE sess[Holder].cnt

\* What the row will say once the worker reads n from its session; the next worker
\* may read another one after it.
Accounted(n) == Cumulative(row.up, row.prev, n) + Elsewhere <= real
Consistent(c) == c.up = 0 => c.prev \in {None, 0}

\* The sessions' counters continue the row's: not before the row, or the worker,
\* knows of a session (a session left by a removed torrent counts nothing).
Tracked == row.known \/ w.pc \in {"again", "control", "stale", "recheck", "apply", "last"}

\* The worker holds a snapshot, and the session has counted on since.
SnapshotAccounted ==
  /\ Accounted(w.upd.cnt)
  /\ sess[w.eng] = NoSession
     \/ /\ w.upd.cnt <= sess[w.eng].cnt
        /\ Cumulative(row.up, row.prev, w.upd.cnt) + (sess[w.eng].cnt - w.upd.cnt) + Elsewhere <= real

CountsOK ==
  /\ row.up + Elsewhere <= real /\ saved.up <= real
  /\ Consistent(row) /\ Consistent(saved)
  /\ row.st = "Completed" \/ w.pc = "finish" => real >= SeedTarget
  /\ row.st # "Gone" /\ Tracked => Accounted(Mine)
  /\ row.st # "Gone" /\ w.pc = "apply" => SnapshotAccounted
  /\ w.pc = "stale" => sess[w.eng] = NoSession

\* The worker keeps its engine, lets it go or takes the slot's, the slot is emptied
\* or gets an engine that starts to count, and sessions go or start over.
EnginesMove ==
  /\ w'.eng \in {w.eng, 0} \/ (w.eng = 0 /\ w'.eng = cur')
  /\ cur' \in {cur, 0} \/ sess'[cur'].cnt = 0
  /\ \A e \in Engines : sess'[e].cnt \in {0, sess[e].cnt}

\* The session read goes on, or another takes its place that nobody read so far.
ReadingGoesOn ==
  \/ Mine' \in {0, Mine} /\ Elsewhere' \in {0, Elsewhere}
  \/ Mine' = Elsewhere /\ Elsewhere' = 0

LEMMA Numbers ==
  ASSUME TypeOK, EnginesOK
  PROVE  /\ row \in Rows /\ row.up \in Nat /\ row.prev \in {None} \cup Nat
         /\ saved.up \in Nat /\ saved.prev \in {None} \cup Nat
         /\ real \in Nat /\ w.upd \in Sessions /\ w.upd.cnt \in Nat
         /\ \A e \in Engines : sess[e] \in Sessions /\ sess[e].cnt \in Nat
         /\ NoSession.cnt = 0 /\ \A e \in Engines : e # 0
         /\ cur \in {0} \cup Engines /\ w.eng \in {0} \cup Engines
         /\ Mine \in Nat /\ Elsewhere \in Nat
<1>1. \A u \in Sessions : u.cnt \in Nat
  BY SessionFields, TargetAssumption
<1>2. w.upd \in Sessions /\ \A e \in Engines : sess[e] \in Sessions
  BY DEF EnginesOK, Workers
<1>3. row.up \in Nat /\ row.prev \in {None} \cup Nat /\ saved.up \in Nat /\ saved.prev \in {None} \cup Nat
  BY TargetAssumption DEF TypeOK, Rows, SavedCounters
<1>4. real \in Nat
  BY TargetAssumption DEF TypeOK
<1>5. NoSession.cnt = 0 /\ \A e \in Engines : e # 0
  BY DEF NoSession, Engines
<1>6. cur \in {0} \cup Engines /\ w.eng \in {0} \cup Engines
  BY DEF EnginesOK, Workers
<1>7. Mine \in Nat /\ Elsewhere \in Nat
  BY <1>1, <1>2, <1>6 DEF Mine, Holder, Elsewhere
<1>. QED  BY <1>1, <1>2, <1>3, <1>4, <1>5, <1>6, <1>7 DEF TypeOK

LEMMA ReadingFollows ==
  ASSUME TypeOK, EnginesOK, EnginesOK', EnginesMove
  PROVE  ReadingGoesOn
<1>1. /\ cur \in {0} \cup Engines /\ w.eng \in {0} \cup Engines
      /\ cur' \in {0} \cup Engines /\ w'.eng \in {0} \cup Engines
      /\ \A e \in Engines : e # 0
  BY Numbers DEF EnginesOK, Workers
<1>2. CASE w'.eng = 0 \/ (w.eng = 0 /\ w'.eng = cur')
  <2>1. Elsewhere' = 0 /\ Mine' = IF cur' = 0 THEN 0 ELSE sess'[cur'].cnt
    BY <1>2 DEF Elsewhere, Mine, Holder
  <2>2. w.eng \in {0, cur} \/ cur = 0 => (cur # 0 => Mine = sess[cur].cnt)
    BY DEF Mine, Holder
  <2>3. w.eng \notin {0, cur} /\ cur # 0 => Elsewhere = sess[cur].cnt
    BY DEF Elsewhere
  <2>4. cur' = 0 \/ sess'[cur'].cnt = 0 \/ (cur # 0 /\ cur' = cur /\ sess'[cur].cnt = sess[cur].cnt)
    BY <1>1 DEF EnginesMove
  <2>. QED  BY <2>1, <2>2, <2>3, <2>4 DEF ReadingGoesOn
<1>3. CASE w'.eng = w.eng /\ w.eng # 0
  <2>1. Mine' = sess'[w.eng].cnt /\ Mine = sess[w.eng].cnt
    BY <1>3 DEF Mine, Holder
  <2>2. Mine' \in {0, Mine}
    BY <1>1, <1>3, <2>1 DEF EnginesMove
  <2>3. Elsewhere' \in {0, Elsewhere}
    BY <1>1, <1>3 DEF EnginesMove, Elsewhere
  <2>. QED  BY <2>2, <2>3 DEF ReadingGoesOn
<1>. QED  BY <1>2, <1>3 DEF EnginesMove

LEMMA ReadingStays ==
  ASSUME UNCHANGED <<cur, sess>>, w'.eng = w.eng
  PROVE  Mine' = Mine /\ Elsewhere' = Elsewhere
BY DEF Mine, Holder, Elsewhere

\* A step after which the counters stand as they stood, but that a session may be
\* gone or start again, and the row may have forgotten where it read one.
LEMMA CountsStay ==
  ASSUME TypeOK, EnginesOK, EnginesOK', CountsOK,
         row'.up = row.up, row'.prev \in {row.prev, None}, real' = real,
         saved' \in {saved, Counters(row), Counters(row')}, row' \in Rows,
         row'.st = "Completed" => row.st = "Completed" \/ w.pc = "finish",
         w'.pc = "finish" => w.pc = "finish",
         EnginesMove,
         row'.st # "Gone" /\ Tracked' => (row.st # "Gone" /\ Tracked) \/ Mine' = 0,
         row'.st # "Gone" /\ w'.pc = "apply" =>
            /\ row.st # "Gone" /\ w.pc = "apply" /\ w'.upd = w.upd /\ w'.eng = w.eng /\ row'.prev = row.prev
            /\ \/ sess'[w.eng] = NoSession
               \/ sess[w.eng] # NoSession /\ sess'[w.eng].cnt = sess[w.eng].cnt,
         w'.pc = "stale" => sess'[w'.eng] = NoSession
  PROVE  CountsOK'
<1>1. /\ row.up \in Nat /\ row.prev \in {None} \cup Nat /\ real \in Nat
      /\ Mine \in Nat /\ Elsewhere \in Nat
  BY Numbers
<1>2. Consistent(row) /\ Consistent(row)'
  BY DEF CountsOK, Consistent
<1>0. row.up + Elsewhere <= real /\ row.up <= real
  BY <1>1 DEF CountsOK
<1>3. Consistent(saved)' /\ saved'.up <= real
  <2>1. CASE saved' = saved
    BY <2>1 DEF CountsOK, Consistent
  <2>2. CASE saved' # saved
    <3>1. saved'.up = row.up /\ saved'.prev \in {row.prev, None}
      BY <2>2 DEF Counters
    <3>. QED  BY <1>0, <1>2, <3>1 DEF CountsOK, Consistent
  <2>. QED  BY <2>1, <2>2
<1>4. ReadingGoesOn
  BY ReadingFollows
<1>5. Elsewhere' \in {0, Elsewhere} /\ row'.up + Elsewhere' <= real'
  BY <1>0, <1>1, <1>4 DEF ReadingGoesOn
<1>6. row'.st # "Gone" /\ Tracked' => Accounted(Mine)'
  <2>. SUFFICES ASSUME row'.st # "Gone", Tracked'
                PROVE  Cumulative(row.up, row'.prev, Mine') + Elsewhere' <= real
    BY DEF Accounted
  <2>1. CASE Mine' = 0
    <3>1. Cumulative(row.up, row'.prev, 0) = row.up
      BY <1>1, CumulativeOfNothing
    <3>. QED  BY <1>5, <2>1, <3>1
  <2>2. CASE Mine' = Mine /\ row.st # "Gone" /\ Tracked
    <3>1. Cumulative(row.up, row.prev, Mine) + Elsewhere <= real
      BY <2>2 DEF CountsOK, Accounted
    <3>2. /\ Cumulative(row.up, None, Mine) \in {row.up, Cumulative(row.up, row.prev, Mine)}
          /\ Cumulative(row.up, row.prev, Mine) \in Nat
      BY <1>1, <1>2, CumulativeIs DEF Consistent
    <3>3. Cumulative(row.up, row'.prev, Mine) \in {row.up, Cumulative(row.up, row.prev, Mine)}
      BY <3>2
    <3>. QED  BY <1>0, <1>1, <1>5, <2>2, <3>1, <3>2, <3>3
  <2>3. CASE Mine' = Elsewhere /\ Elsewhere' = 0
    <3>1. /\ Cumulative(row.up, row'.prev, Elsewhere) <= row.up + Elsewhere
          /\ Cumulative(row.up, row'.prev, Elsewhere) \in Nat
      BY <1>1, CumulativeAtMost, CumulativeIs
    <3>. QED  BY <1>0, <1>1, <2>3, <3>1
  <2>. QED  BY <1>4, <2>1, <2>2, <2>3 DEF ReadingGoesOn
<1>7. row'.st # "Gone" /\ w'.pc = "apply" => SnapshotAccounted'
  <2>. SUFFICES ASSUME row'.st # "Gone", w'.pc = "apply"
                PROVE  /\ Cumulative(row.up, row.prev, w.upd.cnt) + Elsewhere' <= real
                       /\ sess'[w.eng] = NoSession
                          \/ /\ w.upd.cnt <= sess'[w.eng].cnt
                             /\ Cumulative(row.up, row.prev, w.upd.cnt) + (sess'[w.eng].cnt - w.upd.cnt) + Elsewhere' <= real
    BY DEF SnapshotAccounted, Accounted
  <2>1. SnapshotAccounted /\ w.upd.cnt \in Nat /\ Cumulative(row.up, row.prev, w.upd.cnt) \in Nat
    BY <1>1, Numbers, CumulativeIs DEF CountsOK
  <2>2. sess[w.eng].cnt \in Nat
    BY Numbers DEF EnginesOK, WithEngine
  <2>3. Cumulative(row.up, row.prev, w.upd.cnt) + Elsewhere' <= real
    BY <1>1, <1>5, <2>1 DEF SnapshotAccounted, Accounted
  <2>4. CASE sess[w.eng] # NoSession /\ sess'[w.eng].cnt = sess[w.eng].cnt
    BY <1>1, <1>5, <2>1, <2>2, <2>3, <2>4 DEF SnapshotAccounted
  <2>. QED  BY <2>3, <2>4
<1>8. row'.st = "Completed" \/ w'.pc = "finish" => real' >= SeedTarget
  BY DEF CountsOK
<1>. QED  BY <1>2, <1>3, <1>5, <1>6, <1>7, <1>8 DEF CountsOK

\* The row is not touched: the worker takes a step of its own.
LEMMA WorkerMoves ==
  ASSUME TypeOK, EnginesOK, EnginesOK', CountsOK,
         UNCHANGED <<row, real>>, saved' \in {saved, Counters(row)},
         w'.pc \notin {"apply", "finish"},
         row'.st # "Gone" /\ Tracked' => Tracked \/ Mine' = 0,
         w'.eng \in {w.eng, 0}, cur' = cur, \A e \in Engines : sess'[e].cnt \in {0, sess[e].cnt},
         w'.pc = "stale" => sess'[w'.eng] = NoSession
  PROVE  CountsOK'
<1>1. row' \in Rows /\ row'.up = row.up /\ row'.prev = row.prev
  BY DEF TypeOK
<1>2. EnginesMove
  BY DEF EnginesMove
<1>. QED  BY <1>1, <1>2, CountsStay

\* The worker is not touched.
LEMMA Bystander ==
  ASSUME TypeOK, EnginesOK, EnginesOK', CountsOK, w' = w, real' = real,
         row' \in Rows, row'.up = row.up, row'.prev \in {row.prev, None},
         row'.prev = row.prev \/ w.pc # "apply" \/ row.st = "Gone",
         saved' \in {saved, Counters(row')},
         row'.st = "Completed" => row.st = "Completed",
         row'.st # "Gone" => row.st # "Gone",
         row'.known = row.known,
         cur' \in {cur, 0} \/ sess'[cur'].cnt = 0,
         \A e \in Engines : sess'[e].cnt \in {0, sess[e].cnt},
         w.eng # 0 => \/ sess'[w.eng] = NoSession
                      \/ sess[w.eng] # NoSession /\ sess'[w.eng].cnt = sess[w.eng].cnt
  PROVE  CountsOK'
<1>1. EnginesMove
  BY DEF EnginesMove
<1>2. w.pc \in {"apply", "stale"} => w.eng # 0
  BY DEF EnginesOK, WithEngine
<1>3. w.pc = "stale" => sess'[w.eng] = NoSession
  BY <1>2 DEF CountsOK
<1>4. Tracked' => Tracked
  BY DEF Tracked
<1>. QED  BY <1>1, <1>2, <1>3, <1>4, CountsStay

LEMMA ReturnCounts ==
  ASSUME TypeOK, EnginesOK, EnginesOK', CountsOK, UNCHANGED <<row, saved, real>>,
         NEW step \in {"fail", "leave", "vanished", "release"},
         Return(step) \/ ForgetAndReturn(step)
  PROVE  CountsOK'
<1>1. step \in WorkerSteps
  BY DEF WorkerSteps
<1>2. /\ w'.pc = step /\ w'.eng = 0 /\ cur' = cur
      /\ \A e \in Engines : sess'[e] = NoSession \/ sess'[e] = sess[e]
  BY <1>1, ReturnType
<1>3. \A e \in Engines : sess'[e].cnt \in {0, sess[e].cnt}
  BY <1>2, Numbers
<1>. QED  BY <1>2, <1>3, WorkerMoves DEF Tracked

\* The session is read: the row, or the snapshot that goes to it, counts what it says.
LEMMA SnapshotTaken ==
  ASSUME TypeOK, EnginesOK, CountsOK, SeesProgress
  PROVE  CountsOK'
<1>. DEFINE u == sess[w.eng]
<1>0. UNCHANGED <<row, saved, real, cur>> /\ w.pc = "control" /\ w' = [w EXCEPT !.pc = "apply", !.upd = u]
      /\ row.st # "Gone"
  BY DEF SeesProgress, Observe, Running
<1>1. w.eng \in Engines /\ w.eng # 0 /\ u \in Sessions /\ u # NoSession
  <2>1. w.eng \in Engines /\ w.eng # 0 /\ u \in Sessions
    BY <1>0 DEF EnginesOK, WithEngine, Workers
  <2>2. u.ph # "none" /\ NoSession.ph = "none"
    BY DEF SeesProgress, Observe, NoSession
  <2>. QED  BY <2>1, <2>2
<1>2. sess' = sess \/ sess' = [sess EXCEPT ![w.eng] = Woken(u)]
  BY DEF SeesProgress, Observe
<1>3. Woken(u).cnt = u.cnt /\ Woken(u) # NoSession
  BY <1>1, SessionTypes
<1>4. /\ \A e \in Engines : sess'[e].cnt = sess[e].cnt
      /\ sess'[w.eng].cnt = u.cnt
  BY <1>1, <1>2, <1>3 DEF EnginesOK
<1>5. w'.upd = u /\ w'.eng = w.eng /\ w'.pc = "apply"
  BY <1>0 DEF EnginesOK, Workers
<1>6. Mine = u.cnt /\ Mine' = u.cnt /\ Elsewhere' = Elsewhere
  <2>1. Holder = w.eng /\ Holder' = w.eng
    BY <1>1, <1>5 DEF Holder
  <2>2. cur \in {0} \cup Engines
    BY Numbers
  <2>. QED  BY <1>0, <1>1, <1>4, <1>5, <2>1, <2>2 DEF Mine, Elsewhere
<1>7. Accounted(u.cnt)
  BY <1>0, <1>6 DEF CountsOK, Tracked
<1>8. SnapshotAccounted' /\ Accounted(Mine)'
  <2>1. u.cnt \in Nat /\ Cumulative(row.up, row.prev, u.cnt) \in Nat /\ Elsewhere \in Nat /\ real \in Nat
    BY <1>1, Numbers, CumulativeIs
  <2>2. Cumulative(row.up, row.prev, u.cnt) + Elsewhere <= real
    BY <1>7 DEF Accounted
  <2>. HIDE DEF u
  <2>3. Cumulative(row.up, row.prev, u.cnt) + (u.cnt - u.cnt) + Elsewhere <= real
    BY <2>1, <2>2
  <2>. QED  BY <1>0, <1>4, <1>5, <1>6, <2>1, <2>2, <2>3 DEF SnapshotAccounted, Accounted
<1>. QED  BY <1>0, <1>5, <1>6, <1>8 DEF CountsOK, Consistent

\* What the row says after it read n.
LEMMA UpdateCounts ==
  ASSUME TypeOK, EnginesOK, CountsOK, NEW u \in Sessions, row' = Update(row, u), Accounted(u.cnt),
         saved' \in {saved, Counters(row')}, real' = real
  PROVE  /\ row'.up \in Nat /\ row'.up + Elsewhere <= real /\ saved'.up <= real'
         /\ Consistent(row)' /\ Consistent(saved)'
         /\ row'.st # "Completed"
         /\ row'.up = Cumulative(row.up, row.prev, u.cnt) /\ row'.prev = u.cnt /\ u.cnt \in Nat
<1>0. /\ row \in Rows /\ u.cnt \in Nat /\ row.up \in Nat /\ row.prev \in {None} \cup Nat
      /\ Elsewhere \in Nat /\ real \in Nat
  BY Numbers, SessionFields, TargetAssumption
<1>1. /\ row' \in Rows /\ row'.st # "Completed"
      /\ row'.up = Cumulative(row.up, row.prev, u.cnt) /\ row'.prev = u.cnt
  BY <1>0, UpdateType
<1>2. row'.up \in Nat /\ row'.up + Elsewhere <= real
  <2>1. Cumulative(row.up, row.prev, u.cnt) \in Nat
    BY <1>0, CumulativeIs
  <2>. QED  BY <1>1, <2>1 DEF Accounted
<1>3. row'.up = 0 => row'.prev = 0
  <2>1. row.up = 0 => row.prev \in {None, 0}
    BY DEF CountsOK, Consistent
  <2>. QED  BY <1>0, <1>1, <2>1 DEF Cumulative, None
<1>4. row'.up <= real
  BY <1>0, <1>2
<1>5. saved'.up <= real' /\ (saved'.up = 0 => saved'.prev \in {None, 0})
  BY <1>1, <1>3, <1>4, CountersType DEF CountsOK, Consistent
<1>. QED  BY <1>0, <1>1, <1>2, <1>3, <1>5 DEF Consistent

\* Once the row has read n, the session goes on from there, or another takes its place.
LEMMA ReadOn ==
  ASSUME TypeOK, EnginesOK, ReadingGoesOn, real' = real, NEW n \in Nat,
         row'.up \in Nat, row'.prev = n, row'.up + Elsewhere <= real,
         Mine = 0 \/ (n <= Mine /\ row'.up + (Mine - n) + Elsewhere <= real)
  PROVE  row'.up + Elsewhere' <= real' /\ Accounted(Mine)'
<1>1. Mine \in Nat /\ Elsewhere \in Nat /\ real \in Nat
  BY Numbers
<1>2. \A m \in Nat : Cumulative(row'.up, n, m) \in Nat /\ Cumulative(row'.up, n, m) <= row'.up + m
  BY CumulativeAtMost, CumulativeIs
<1>3. CASE Mine' = 0 /\ Elsewhere' \in {0, Elsewhere}
  <2>1. Cumulative(row'.up, n, 0) = row'.up
    BY CumulativeOfNothing
  <2>. QED  BY <1>1, <1>3, <2>1 DEF Accounted
<1>4. CASE Mine' = Mine /\ Mine # 0 /\ Elsewhere' \in {0, Elsewhere}
  <2>1. Cumulative(row'.up, n, Mine) = row'.up + (Mine - n)
    BY <1>1, <1>4, CumulativeAgain
  <2>2. row'.up + (Mine - n) + Elsewhere' <= real /\ row'.up + Elsewhere' <= real
    BY <1>1, <1>4
  <2>. QED  BY <1>4, <2>1, <2>2 DEF Accounted
<1>5. CASE Mine' = Elsewhere /\ Elsewhere' = 0
  BY <1>1, <1>2, <1>5 DEF Accounted
<1>. QED  BY <1>3, <1>4, <1>5 DEF ReadingGoesOn

LEMMA ApplyCounts ==
  ASSUME TypeOK, EnginesOK, EnginesOK', CountsOK, Apply
  PROVE  CountsOK'
<1>. DEFINE u == w.upd
<1>0. /\ u \in Sessions /\ row' = Update(row, u) /\ saved' \in {saved, Counters(row')} /\ real' = real
      /\ row.st # "Gone" /\ w.pc = "apply"
  BY Numbers DEF Apply
<1>1. SnapshotAccounted /\ Accounted(u.cnt) /\ w.eng \in Engines /\ w.eng # 0
  BY <1>0 DEF CountsOK, SnapshotAccounted, EnginesOK, WithEngine, Workers
<1>2. /\ row'.up \in Nat /\ row'.up + Elsewhere <= real /\ saved'.up <= real'
      /\ Consistent(row)' /\ Consistent(saved)'
      /\ row'.st # "Completed"
      /\ row'.up = Cumulative(row.up, row.prev, u.cnt) /\ row'.prev = u.cnt /\ u.cnt \in Nat
  BY <1>0, <1>1, UpdateCounts
<1>3. /\ \A e \in Engines : sess'[e] = NoSession \/ sess'[e] = sess[e]
      /\ cur' = cur /\ w'.eng \in {0, w.eng}
  <2>1. CASE ForgetAndReturn("finish")
    BY <2>1, ReturnType DEF WorkerSteps
  <2>2. CASE ~ForgetAndReturn("finish")
    BY <2>2 DEF Apply, engines, EnginesOK, Workers
  <2>. QED  BY <2>1, <2>2
<1>4. ReadingGoesOn
  <2>1. EnginesMove
    BY <1>3, Numbers DEF EnginesMove
  <2>. QED  BY <2>1, ReadingFollows
<1>5. Mine = 0 \/ (u.cnt <= Mine /\ row'.up + (Mine - u.cnt) + Elsewhere <= real)
  <2>1. Mine = sess[w.eng].cnt
    BY <1>1 DEF Mine, Holder
  <2>. QED  BY <1>1, <1>2, <2>1, Numbers DEF SnapshotAccounted
<1>6. row'.up + Elsewhere' <= real' /\ Accounted(Mine)'
  <2>. HIDE DEF u
  <2>. QED  BY <1>0, <1>2, <1>4, <1>5, ReadOn
<1>7. /\ w'.pc \in {"finish", "control"}
      /\ w'.pc = "finish" => real' >= SeedTarget
  <2>1. CASE u.fin /\ ShouldStop(row'.up)
    <3>1. w'.pc = "finish"
      BY <1>0, <2>1, ReturnType DEF Apply, WorkerSteps
    <3>2. row'.up \in Nat /\ real' \in Nat /\ SeedTarget \in Nat /\ row'.up >= SeedTarget /\ Elsewhere \in Nat
      BY <1>0, <1>2, <2>1, Numbers, TargetAssumption DEF ShouldStop
    <3>. QED  BY <1>0, <1>2, <3>1, <3>2
  <2>2. CASE ~(u.fin /\ ShouldStop(row'.up))
    BY <1>0, <2>2 DEF Apply, EnginesOK, Workers
  <2>. QED  BY <2>1, <2>2
<1>. QED  BY <1>2, <1>6, <1>7 DEF CountsOK

LEMMA LastCounts ==
  ASSUME TypeOK, EnginesOK, EnginesOK', CountsOK, Last
  PROVE  CountsOK'
<1>. DEFINE u == sess[w.eng]
<1>0. w.eng \in Engines /\ w.eng # 0 /\ u \in Sessions /\ real' = real /\ row.st # "Gone" /\ w.pc = "last"
  BY DEF Last, EnginesOK, WithEngine, Workers
<1>1. CASE u = NoSession
  BY <1>0, <1>1, ReturnCounts DEF Last
<1>2. CASE u # NoSession
  <2>1. row' = Update(row, u) /\ saved' \in {saved, Counters(row')}
    BY <1>2 DEF Last, Persist
  <2>2. Mine = u.cnt /\ Accounted(u.cnt)
    BY <1>0 DEF CountsOK, Tracked, Mine, Holder
  <2>3. /\ row'.up \in Nat /\ row'.up + Elsewhere <= real /\ saved'.up <= real'
        /\ Consistent(row)' /\ Consistent(saved)'
        /\ row'.st # "Completed"
        /\ row'.up = Cumulative(row.up, row.prev, u.cnt) /\ row'.prev = u.cnt /\ u.cnt \in Nat
    BY <1>0, <2>1, <2>2, UpdateCounts
  <2>4. /\ w'.pc \in {"fail", "leave", "release"} /\ w'.eng = 0 /\ cur' = cur
        /\ \A e \in Engines : sess'[e] = NoSession \/ sess'[e].cnt = 0 \/ sess'[e] = sess[e]
    <3>1. CASE Return("fail") \/ ForgetAndReturn("release")
      BY <3>1, ReturnType DEF WorkerSteps
    <3>2. CASE ~(Return("fail") \/ ForgetAndReturn("release"))
      <4>. DEFINE s == [sess EXCEPT ![w.eng] = Quiet(u)]
                  held == {cur, cmd.eng}
      <4>1. w' = [IdleWorker EXCEPT !.pc = "leave"] /\ sess' = Alive(s, held) /\ cur' = cur
        BY <1>2, <3>2 DEF Last
      <4>2. Quiet(u) \in Sessions /\ Quiet(u).cnt = 0
        BY <1>0, <1>2, SessionTypes
      <4>3. s \in [Engines -> Sessions]
        BY <4>2 DEF EnginesOK
      <4>4. \A e \in Engines : s[e].cnt = 0 \/ s[e] = sess[e]
        BY <1>0, <4>2 DEF EnginesOK
      <4>. HIDE DEF s, held
      <4>5. \A e \in Engines : Alive(s, held)[e] = IF e \in held THEN s[e] ELSE NoSession
        BY <4>3, AliveType
      <4>. QED  BY <4>1, <4>4, <4>5, IdleWorkerType DEF Workers
    <3>. QED  BY <3>1, <3>2
  <2>5. ReadingGoesOn
    <3>1. EnginesMove
      BY <2>4, Numbers DEF EnginesMove
    <3>. QED  BY <3>1, ReadingFollows
  <2>6. row'.up + Elsewhere' <= real' /\ Accounted(Mine)'
    <3>. HIDE DEF u
    <3>1. row'.up + (Mine - u.cnt) + Elsewhere <= real /\ u.cnt <= Mine
      BY <2>2, <2>3, Numbers
    <3>. QED  BY <1>0, <2>3, <2>5, <3>1, ReadOn
  <2>. QED  BY <2>3, <2>4, <2>6 DEF CountsOK
<1>. QED  BY <1>1, <1>2

\* A completion found stale starts the counters over: the worker's session is gone,
\* and another one counts from what it had.
LEMMA StaleCounts ==
  ASSUME TypeOK, EnginesOK, CountsOK, ClearStale
  PROVE  CountsOK'
<1>1. /\ w.pc = "stale" /\ row' = ResetStale(row) /\ saved' = Counters(row') /\ real' = Elsewhere
      /\ UNCHANGED <<cur, sess>> /\ w'.pc \in {"again", "lookup"} /\ w'.eng = w.eng
  BY DEF ClearStale, Persist, engines, EnginesOK, Workers
<1>2. row'.up = 0 /\ row'.prev = None /\ saved'.up = 0 /\ saved'.prev = None /\ row'.st # "Completed"
  <2>1. row \in Rows
    BY DEF TypeOK
  <2>2. row' \in Rows /\ row'.up = 0 /\ row'.prev = None
    BY <1>1, <2>1, ResetTypes
  <2>3. row'.st = "Starting"
    BY <1>1, <2>1 DEF ResetStale, Rows
  <2>. QED  BY <1>1, <2>2, <2>3, CountersType
<1>3. Mine' = 0 /\ Elsewhere' = Elsewhere /\ Elsewhere \in Nat
  <2>1. w.eng # 0
    BY <1>1 DEF EnginesOK, WithEngine
  <2>2. Mine = 0
    BY <1>1, <2>1, Numbers DEF CountsOK, Mine, Holder
  <2>. QED  BY <1>1, <2>2, ReadingStays, Numbers
<1>4. Cumulative(0, None, 0) = 0
  BY CumulativeOfNothing
<1>. QED  BY <1>1, <1>2, <1>3, <1>4 DEF CountsOK, Consistent, Accounted

\* A restart starts them over while no worker is there to bring a session's on.
LEMMA ResetCounts ==
  ASSUME TypeOK, EnginesOK, WorkerKnows, RowKnows, CountsOK, ~took, RestartResets
  PROVE  CountsOK'
<1>1. UNCHANGED <<w, cur, sess>>
  BY DEF RestartResets, engines
<1>2. Mine' = Mine /\ Elsewhere' = Elsewhere
  BY <1>1, ReadingStays
<1>3. CASE UNCHANGED <<row, saved, real>>
  BY <1>1, <1>2, <1>3 DEF CountsOK, Consistent, Accounted, SnapshotAccounted, Tracked
<1>4. CASE ~active /\ row' = NewRow /\ saved' = Counters(row') /\ real' = 0
  <2>1. w.pc = "idle" /\ w.eng = 0
    BY <1>4 DEF RowKnows, EnginesOK, WithEngine
  <2>2. row'.up = 0 /\ row'.prev = None /\ saved'.up = 0 /\ saved'.prev = None /\ row'.st = "Queued" /\ ~row'.known
    BY <1>4, NewRowType, CountersType DEF NewRow
  <2>3. Elsewhere = 0
    BY <2>1 DEF Elsewhere
  <2>. QED  BY <1>1, <1>2, <1>4, <2>1, <2>2, <2>3 DEF CountsOK, Consistent, Tracked
<1>. QED  BY <1>3, <1>4 DEF RestartResets, Persist

LEMMA CrashCounts ==
  ASSUME TypeOK, EnginesOK, CountsOK, Crash
  PROVE  CountsOK'
<1>1. /\ row'.up = saved.up /\ row'.prev = saved.prev /\ saved' = saved /\ real' = real
      /\ w' = IdleWorker /\ cur' = 0
  BY DEF Crash
<1>2. row'.st = "Completed" => row.st = "Completed"
  BY DEF Crash, Reloaded
<1>3. w'.eng = 0 /\ w'.pc = "idle"
  BY <1>1, IdleWorkerType
<1>4. Mine' = 0 /\ Elsewhere' = 0
  BY <1>1, <1>3 DEF Mine, Holder, Elsewhere
<1>5. Cumulative(saved.up, saved.prev, 0) = saved.up /\ saved.up \in Nat
  BY Numbers, CumulativeOfNothing
<1>6. Accounted(Mine)' /\ row'.up + Elsewhere' <= real'
  BY <1>1, <1>4, <1>5 DEF Accounted, CountsOK
<1>. QED  BY <1>1, <1>2, <1>3, <1>6 DEF CountsOK, Consistent

\* A unit uploaded counts where it is read, where the next worker will read, or
\* nowhere (the engine is about to forget the torrent).
LEMMA UploadCounts ==
  ASSUME TypeOK, EnginesOK, CountsOK, NEW e \in Engines, EngineUploads(e)
  PROVE  CountsOK'
<1>. DEFINE n == sess[e].cnt
<1>0. /\ UNCHANGED <<row, saved, w, cur>> /\ real' = real + 1 /\ sess' = [sess EXCEPT ![e].cnt = @ + 1]
      /\ sess[e].ph = "live"
  BY DEF EngineUploads, Unseen
<1>1. /\ row.up \in Nat /\ saved.up \in Nat /\ row.prev \in {None} \cup Nat /\ real \in Nat
      /\ Mine \in Nat /\ Elsewhere \in Nat /\ w.upd.cnt \in Nat
      /\ \A f \in Engines : sess[f].cnt \in Nat /\ f # 0
      /\ cur \in {0} \cup Engines /\ w.eng \in {0} \cup Engines
  BY Numbers
<1>2. sess[e] \in LiveSessions /\ sess[e] # NoSession
  <2>1. NoSession.ph = "none"
    BY DEF NoSession
  <2>. QED  BY <1>0, <2>1, LiveSessionsAre DEF EnginesOK
<1>3. /\ sess'[e].cnt = n + 1
      /\ \A f \in Engines : f # e => sess'[f] = sess[f]
  BY <1>0, <1>2 DEF EnginesOK, LiveSessions
<1>4. \/ Mine' = Mine + 1 /\ Elsewhere' = Elsewhere /\ e = Holder
      \/ Mine' = Mine /\ Elsewhere' \in {Elsewhere, Elsewhere + 1} /\ e # Holder
  <2>. HIDE DEF n
  <2>1. Holder' = Holder /\ Holder \in {0} \cup Engines
    BY <1>0, <1>1 DEF Holder
  <2>2. e = Holder => Mine = n /\ Mine' = n + 1 /\ Elsewhere' = Elsewhere
    BY <1>0, <1>1, <1>3, <2>1 DEF Mine, Elsewhere, Holder, n
  <2>3. e # Holder => Mine' = Mine
    BY <1>1, <1>3, <2>1 DEF Mine
  <2>4. Elsewhere' \in {Elsewhere, Elsewhere + 1}
    BY <1>0, <1>1, <1>3 DEF Elsewhere, n
  <2>. QED  BY <2>2, <2>3, <2>4
<1>5. row'.up + Elsewhere' <= real' /\ saved'.up <= real'
  BY <1>0, <1>1, <1>4 DEF CountsOK
<1>6. row'.st # "Gone" /\ Tracked' => Accounted(Mine)'
  <2>. SUFFICES ASSUME row.st # "Gone", Tracked
                PROVE  Cumulative(row.up, row.prev, Mine') + Elsewhere' <= real + 1
    BY <1>0 DEF Accounted, Tracked
  <2>1. Cumulative(row.up, row.prev, Mine) + Elsewhere <= real
    BY DEF CountsOK, Accounted
  <2>2. /\ Cumulative(row.up, row.prev, Mine) \in Nat /\ Cumulative(row.up, row.prev, Mine + 1) \in Nat
        /\ Cumulative(row.up, row.prev, Mine + 1) <= Cumulative(row.up, row.prev, Mine) + 1
    <3>1. Mine + 1 \in Nat
      BY <1>1
    <3>. QED  BY <1>1, <3>1, CumulativeIs
  <2>. QED  BY <1>1, <1>4, <2>1, <2>2
<1>7. row'.st # "Gone" /\ w'.pc = "apply" => SnapshotAccounted'
  <2>. DEFINE c == Cumulative(row.up, row.prev, w.upd.cnt)
  <2>. SUFFICES ASSUME row.st # "Gone", w.pc = "apply"
                PROVE  /\ c + Elsewhere' <= real + 1
                       /\ \/ sess'[w.eng] = NoSession
                          \/ /\ w.upd.cnt <= sess'[w.eng].cnt
                             /\ c + (sess'[w.eng].cnt - w.upd.cnt) + Elsewhere' <= real + 1
    BY <1>0 DEF SnapshotAccounted, Accounted
  <2>1. w.eng \in Engines /\ Holder = w.eng
    BY <1>1 DEF EnginesOK, Holder, WithEngine
  <2>2. c \in Nat
    BY <1>1, CumulativeIs
  <2>3. /\ c + Elsewhere <= real
        /\ \/ sess[w.eng] = NoSession
           \/ w.upd.cnt <= sess[w.eng].cnt /\ c + (sess[w.eng].cnt - w.upd.cnt) + Elsewhere <= real
    BY DEF CountsOK, SnapshotAccounted, Accounted
  <2>. HIDE DEF c
  <2>4. c + Elsewhere' <= real + 1
    BY <1>1, <1>4, <2>2, <2>3
  <2>5. CASE sess[w.eng] = NoSession
    BY <1>2, <1>3, <2>1, <2>4, <2>5
  <2>6. CASE sess[w.eng] # NoSession /\ e = w.eng
    BY <1>1, <1>3, <1>4, <2>1, <2>2, <2>3, <2>4, <2>6
  <2>7. CASE sess[w.eng] # NoSession /\ e # w.eng
    BY <1>1, <1>3, <1>4, <2>1, <2>2, <2>3, <2>4, <2>7
  <2>. QED  BY <2>5, <2>6, <2>7
<1>8. w'.pc = "stale" => sess'[w'.eng] = NoSession
  <2>1. w.pc = "stale" => w.eng \in Engines /\ sess[w.eng] = NoSession
    BY DEF CountsOK, EnginesOK, WithEngine, Workers
  <2>. QED  BY <1>0, <1>2, <1>3, <2>1
<1>9. row'.st = "Completed" \/ w'.pc = "finish" => real' >= SeedTarget
  BY <1>0, <1>1, TargetAssumption DEF CountsOK
<1>. QED  BY <1>0, <1>5, <1>6, <1>7, <1>8, <1>9 DEF CountsOK, Consistent

\* An engine that a command takes is the slot's, or starts to count.
LEMMA TakenCounts ==
  ASSUME TypeOK, EnginesOK, cmd.pc \notin Asking, NEW forget, NEW next, TakeEngine(forget, next)
  PROVE  /\ cur' = cur \/ sess'[cur'].cnt = 0
         /\ \A f \in Engines : sess'[f].cnt \in {0, sess[f].cnt}
         /\ w.eng # 0 => sess'[w.eng] = sess[w.eng]
<1>0. cmd.eng = 0 /\ w.eng \in {0} \cup Engines
  BY DEF EnginesOK, Workers
<1>1. CASE UNCHANGED <<cur, sess>>
  BY <1>1
<1>2. CASE ~UNCHANGED <<cur, sess>>
  <2>1. PICK blk \in Looked :
           LET e == NextEngine(blk)
           IN /\ cur' = e
              /\ sess' = IF Reused(blk) THEN sess ELSE Alive([sess EXCEPT ![e] = Restored], {e, w.eng})
    BY <1>2, Zenon DEF TakeEngine, engines
  <2>. DEFINE e == NextEngine(blk)
              s == [sess EXCEPT ![e] = Restored]
              held == {e, w.eng}
  <2>2. e \in Engines /\ (Reused(blk) => e = cur) /\ (~Reused(blk) => e \notin {w.eng, cmd.eng})
    BY <1>0, NextEngineType
  <2>3. CASE Reused(blk)
    BY <1>2, <2>1, <2>2, <2>3
  <2>4. CASE ~Reused(blk)
    <3>1. sess' = Alive(s, held) /\ cur' = e /\ e # w.eng
      BY <2>1, <2>2, <2>4
    <3>2. /\ s \in [Engines -> Sessions] /\ s[e].cnt = 0
          /\ \A f \in Engines : s[f].cnt \in {0, sess[f].cnt} /\ (f # e => s[f] = sess[f])
      BY <2>2, RestoredType DEF EnginesOK
    <3>3. e \in held /\ w.eng \in held /\ NoSession.cnt = 0
      BY Numbers
    <3>. HIDE DEF e, s, held
    <3>4. \A f \in Engines : Alive(s, held)[f] = IF f \in held THEN s[f] ELSE NoSession
      BY <3>2, AliveType
    <3>. QED  BY <1>0, <2>2, <3>1, <3>2, <3>3, <3>4
  <2>. QED  BY <2>3, <2>4
<1>. QED  BY <1>1, <1>2

LEMMA TookStays ==
  ASSUME TypeOK, took, [Next]_vars
  PROVE  took'
<1>. USE DEF late
<1>1. CASE LeaveLate
  BY <1>1, Zenon DEF LeaveLate
<1>2. CASE PauseVanished \/ Crash \/ ClearDrops \/ RefreshDrops \/ UNCHANGED vars
  BY <1>2, Zenon DEF PauseVanished, Crash, ClearDrops, RefreshDrops, vars
<1>3. CASE Asks
  BY <1>3, AsksOnly
<1>4. CASE Worker /\ ~LeaveLate /\ ~PauseVanished
  BY <1>4, Zenon
  DEF Worker, GetEngine, BeginStale, BeginRestore, BeginDownload, Lookup, AddDone, AddTimesOut,
      AddInterrupted, Control, SnapshotFails, EngineReportsError, SeesStaleCompletion, SeesPayloadGone,
      RefusesRestore, RestoreStalls, RefreshPeers, SeesProgress, Observe, Apply, ApplyMissesRow, Finish, ClearStale,
      Recheck, Last, Release, Leave, FailKeepsReseed, FailPausesRestore, FailJob
<1>5. CASE Claim \/ HandOff \/ ReseedTick \/ User \/ RestartResets \/ RemoveWaits \/ RemoveDeletes \/ OpenWaits \/ OpenUses
  BY <1>5, Zenon
  DEF Claim, HandOff, ReseedTick, User, Pause, Resume, Retry, Cancel, Edits, Restart, Remove, Open, ClearCache,
      ChangeSettings, RestartResets, RemoveWaits, RemoveDeletes, OpenWaits, OpenUses
<1>6. CASE Engine \/ PayloadLost
  BY <1>6, Zenon DEF Engine, EngineChecks, EngineFetches, EngineUploads, EngineFails, PayloadLost, Unseen
<1>. QED  BY <1>1, <1>2, <1>3, <1>4, <1>5, <1>6 DEF Next, World, Commanded, Asks

LEMMA CountsStep ==
  ASSUME TypeOK, EnginesOK, WorkerKnows, RowKnows, CountsOK, ~took, TypeOK', EnginesOK', [Next]_vars
  PROVE  CountsOK'
<1>0. /\ w \in Workers /\ row \in Rows /\ row' \in Rows /\ NoSession.cnt = 0
      /\ sess \in [Engines -> Sessions]
  BY Numbers DEF TypeOK
<1>1. CASE Claim
  <2>1. row'.up = row.up /\ row'.prev = row.prev /\ row'.known = row.known /\ row'.st = "Starting"
    BY <1>0, <1>1 DEF Claim, Rows
  <2>2. w'.pc = "start" /\ w'.eng = 0
    BY <1>1, IdleWorkerType DEF Claim, Workers
  <2>3. saved' = Counters(row) /\ UNCHANGED <<cur, sess>> /\ real' = real /\ row.st = "Queued"
    BY <1>1 DEF Claim, engines
  <2>4. EnginesMove
    BY <2>2, <2>3 DEF EnginesMove
  <2>. QED  BY <1>0, <2>1, <2>2, <2>3, <2>4, CountsStay DEF Tracked
<1>2. CASE GetEngine
  <2>. DEFINE e == NextEngine(Blocking)
  <2>1. w'.pc = "begin" /\ w'.eng = cur' /\ cur' = e /\ UNCHANGED <<row, saved, real>>
    BY <1>0, <1>2 DEF GetEngine, Workers
  <2>2. w.eng = 0 /\ e \in Engines /\ (Reused(Blocking) => e = cur)
    <3>1. w.eng = 0
      BY <1>2 DEF GetEngine, EnginesOK, WithEngine
    <3>. QED  BY <3>1, NextEngineType
  <2>3. cur' = cur \/ sess'[cur'].cnt = 0
    <3>1. CASE Reused(Blocking)
      BY <2>1, <2>2, <3>1
    <3>2. CASE ~Reused(Blocking)
      <4>. DEFINE s == [sess EXCEPT ![e] = Restored]
                  held == {e, cmd.eng}
      <4>1. sess' = Alive(s, held) /\ cur' = e
        BY <1>2, <2>1, <3>2 DEF GetEngine
      <4>2. s \in [Engines -> Sessions] /\ s[e].cnt = 0 /\ e \in held
        BY <1>0, <2>2, RestoredType
      <4>. HIDE DEF e, s, held
      <4>3. \A f \in Engines : Alive(s, held)[f] = IF f \in held THEN s[f] ELSE NoSession
        BY <4>2, AliveType
      <4>. QED  BY <2>2, <4>1, <4>2, <4>3
    <3>. QED  BY <3>1, <3>2
  <2>4. \A f \in Engines : sess'[f].cnt \in {0, sess[f].cnt}
    <3>1. CASE Reused(Blocking)
      BY <1>2, <3>1 DEF GetEngine
    <3>2. CASE ~Reused(Blocking)
      <4>. DEFINE s == [sess EXCEPT ![e] = Restored]
                  held == {e, cmd.eng}
      <4>1. sess' = Alive(s, held)
        BY <1>2, <3>2 DEF GetEngine
      <4>2. s \in [Engines -> Sessions] /\ \A f \in Engines : s[f].cnt \in {0, sess[f].cnt}
        BY <1>0, <2>2, RestoredType
      <4>. HIDE DEF e, s, held
      <4>3. \A f \in Engines : Alive(s, held)[f] = IF f \in held THEN s[f] ELSE NoSession
        BY <4>2, AliveType
      <4>. QED  BY <1>0, <4>1, <4>2, <4>3
    <3>. QED  BY <3>1, <3>2
  <2>5. EnginesMove
    BY <2>1, <2>2, <2>3, <2>4 DEF EnginesMove
  <2>. HIDE DEF e
  <2>. QED  BY <1>0, <2>1, <2>5, CountsStay DEF Tracked
<1>3. CASE BeginStale
  <2>1. /\ w.known /\ w.pc = "begin" /\ w'.pc = "stale" /\ UNCHANGED <<row, saved, real, cur>>
        /\ w'.eng = w.eng /\ w.eng \in Engines
    BY <1>0, <1>3 DEF BeginStale, StaleVerified, WorkerKnows, EnginesOK, WithEngine, Workers
  <2>2. sess' = Forgotten(sess, w.eng)
    BY <1>3, <2>1 DEF BeginStale
  <2>3. sess'[w.eng] = NoSession /\ \A e \in Engines : sess'[e].cnt \in {0, sess[e].cnt}
    BY <1>0, <2>1, <2>2, ForgottenType
  <2>4. row.known
    BY <2>1 DEF RowKnows
  <2>. QED  BY <1>0, <2>1, <2>3, <2>4, WorkerMoves DEF Tracked
<1>4. CASE BeginRestore
  <2>1. CASE Return("fail")
    BY <1>4, <2>1, ReturnCounts DEF BeginRestore
  <2>2. CASE ~Return("fail")
    <3>1. /\ w'.pc = "lookup" /\ w'.eng = w.eng /\ UNCHANGED <<row, saved, real, cur>>
          /\ sess' = sess \/ sess' = Forgotten(sess, w.eng)
      BY <1>0, <1>4, <2>2 DEF BeginRestore, Workers
    <3>2. \A e \in Engines : sess'[e].cnt \in {0, sess[e].cnt}
      BY <1>0, <3>1, ForgottenType
    <3>. QED  BY <3>1, <3>2, WorkerMoves DEF Tracked
  <2>. QED  BY <2>1, <2>2
<1>5. CASE BeginDownload
  <2>1. w'.pc = "lookup" /\ w'.eng = w.eng /\ UNCHANGED <<row, saved, real, cur, sess>>
    BY <1>0, <1>5 DEF BeginDownload, Workers, engines
  <2>. QED  BY <2>1, WorkerMoves DEF Tracked
<1>6. CASE Lookup
  <2>. DEFINE u == sess[w.eng]
  <2>1. UNCHANGED <<row, saved, real, cur>> /\ w'.eng = w.eng /\ w.eng \in Engines /\ u \in Sessions
    BY <1>6, <1>0 DEF Lookup, EnginesOK, WithEngine, Workers
  <2>2. CASE w.known /\ u # NoSession
    <3>1. w'.pc = "control" /\ row.known
      BY <1>0, <1>6, <2>2 DEF Lookup, Workers, RowKnows
    <3>2. sess' = sess \/ sess' = [sess EXCEPT ![w.eng] = Quiet(u)] \/ sess' = [sess EXCEPT ![w.eng] = Woken(u)]
      BY <1>6, <2>2 DEF Lookup
    <3>3. Quiet(u).cnt = 0 /\ Woken(u).cnt = u.cnt
      BY <2>1, <2>2, SessionTypes
    <3>4. \A e \in Engines : sess'[e].cnt \in {0, sess[e].cnt}
      BY <1>0, <2>1, <3>2, <3>3
    <3>. QED  BY <2>1, <3>1, <3>4, WorkerMoves DEF Tracked
  <2>3. CASE ~(w.known /\ u # NoSession)
    <3>1. w'.pc = "adding" /\ sess' = sess
      BY <1>0, <1>6, <2>3 DEF Lookup, Workers
    <3>. QED  BY <2>1, <3>1, WorkerMoves DEF Tracked
  <2>. QED  BY <2>2, <2>3
<1>7. CASE AddDone
  <2>1. UNCHANGED <<row, saved, real, cur>> /\ w.pc \in {"adding", "again"} /\ w.eng \in Engines /\ w.eng # 0
    BY <1>0, <1>7 DEF AddDone, EnginesOK, WithEngine, Workers
  <2>2. w'.pc = "control" /\ w'.eng = w.eng
    BY <1>0, <1>7 DEF AddDone, Workers
  <2>3. CASE sess[w.eng] # NoSession /\ (w.pc = "again" \/ w.restoring)
    <3>1. sess' = sess
      BY <1>7, <2>3 DEF AddDone
    <3>2. Tracked
      BY <2>1, <2>3 DEF Tracked, WorkerKnows, RowKnows
    <3>. QED  BY <2>1, <2>2, <3>1, <3>2, WorkerMoves
  <2>4. CASE ~(sess[w.eng] # NoSession /\ (w.pc = "again" \/ w.restoring))
    <3>. DEFINE p == w.pc = "adding" /\ w.restoring
                u == [NoSession EXCEPT !.ph = "init", !.stop = p]
    <3>1. sess' = [sess EXCEPT ![w.eng] = u]
      BY <1>7, <2>4 DEF AddDone
    <3>2. p \in BOOLEAN
      OBVIOUS
    <3>3. u.cnt = 0
      BY <3>2, NewSessionType, Zenon
    <3>. HIDE DEF u
    <3>4. sess'[w.eng].cnt = 0 /\ \A e \in Engines : sess'[e].cnt \in {0, sess[e].cnt}
      BY <1>0, <2>1, <3>1, <3>3
    <3>5. Mine' = 0
      BY <2>1, <2>2, <3>4 DEF Mine, Holder
    <3>. QED  BY <2>1, <2>2, <3>4, <3>5, WorkerMoves
  <2>. QED  BY <2>3, <2>4
<1>8. CASE AddTimesOut
  <2>1. CASE ForgetAndReturn("fail") \/ Return("fail")
    BY <1>8, <2>1, ReturnCounts DEF AddTimesOut
  <2>2. CASE ~(ForgetAndReturn("fail") \/ Return("fail"))
    <3>1. /\ w' = [IdleWorker EXCEPT !.pc = "start", !.began = w.began, !.bare = w.bare, !.known = w.known]
          /\ UNCHANGED <<row, saved, real, cur>> /\ sess' = Alive(sess, {cur, cmd.eng})
      BY <1>8, <2>2, Zenon DEF AddTimesOut
    <3>2. w'.pc = "start" /\ w'.eng = 0
      BY <3>1, IdleWorkerType DEF Workers
    <3>3. \A e \in Engines : sess'[e].cnt \in {0, sess[e].cnt}
      BY <1>0, <3>1, AliveType
    <3>. QED  BY <3>1, <3>2, <3>3, WorkerMoves DEF Tracked
  <2>. QED  BY <2>1, <2>2
<1>9. CASE AddInterrupted \/ SnapshotFails \/ RefusesRestore \/ ApplyMissesRow
  BY <1>9, ReturnCounts DEF AddInterrupted, SnapshotFails, RefusesRestore, ApplyMissesRow, Observe
<1>10. CASE Control
  <2>1. CASE ForgetAndReturn("leave")
    BY <1>10, <2>1, ReturnCounts DEF Control
  <2>2. CASE ~ForgetAndReturn("leave")
    <3>1. w'.pc = "last" /\ w'.eng = w.eng /\ w.pc = "control" /\ UNCHANGED <<row, saved, real, cur, sess>>
      BY <1>0, <1>10, <2>2 DEF Control, Workers, engines
    <3>. QED  BY <3>1, WorkerMoves DEF Tracked
  <2>. QED  BY <2>1, <2>2
<1>11. CASE EngineReportsError
  <2>1. /\ w' = [IdleWorker EXCEPT !.pc = "fail", !.began = w.began, !.bare = w.bare, !.access = sess[w.eng].stop]
        /\ UNCHANGED <<row, saved, real, cur>> /\ sess' = Alive(sess, {cur, cmd.eng})
    BY <1>11 DEF EngineReportsError, Observe
  <2>2. PICK v, acc : v = IdleWorker /\ w' = [v EXCEPT !.pc = "fail", !.began = w.began, !.bare = w.bare, !.access = acc]
    BY <2>1, Zenon
  <2>3. w'.pc = "fail" /\ w'.eng = 0
    BY <2>2, IdleWorkerType DEF Workers
  <2>4. \A e \in Engines : sess'[e].cnt \in {0, sess[e].cnt}
    BY <1>0, <2>1, AliveType
  <2>. QED  BY <2>1, <2>3, <2>4, WorkerMoves DEF Tracked
<1>12. CASE SeesStaleCompletion
  <2>1. CASE Return("fail")
    BY <1>12, <2>1, ReturnCounts DEF SeesStaleCompletion, Observe
  <2>2. CASE ~Return("fail")
    <3>1. /\ w'.pc = "stale" /\ w.pc = "control" /\ w'.eng = w.eng /\ UNCHANGED <<row, saved, real, cur>>
          /\ sess' = Forgotten(sess, w.eng)
      BY <1>0, <1>12, <2>2 DEF SeesStaleCompletion, Observe, ForgetAndGo, Workers
    <3>2. w.eng \in Engines
      BY <3>1 DEF EnginesOK, WithEngine, Workers
    <3>3. sess'[w.eng] = NoSession /\ \A e \in Engines : sess'[e].cnt \in {0, sess[e].cnt}
      BY <1>0, <3>1, <3>2, ForgottenType
    <3>. QED  BY <1>0, <3>1, <3>3, WorkerMoves DEF Tracked
  <2>. QED  BY <2>1, <2>2
<1>13. CASE SeesPayloadGone
  BY <1>13, ReturnCounts DEF SeesPayloadGone, Observe
<1>14. CASE RestoreStalls
  <2>1. CASE ForgetAndReturn("fail")
    BY <1>14, <2>1, ReturnCounts DEF RestoreStalls, Observe
  <2>2. CASE ~ForgetAndReturn("fail")
    <3>1. /\ w'.pc = "recheck" /\ w.pc = "control" /\ w'.eng = w.eng /\ UNCHANGED <<row, saved, real, cur>>
          /\ sess' = Forgotten(sess, w.eng)
      BY <1>0, <1>14, <2>2 DEF RestoreStalls, Observe, ForgetAndGo, Workers
    <3>2. \A e \in Engines : sess'[e].cnt \in {0, sess[e].cnt}
      BY <1>0, <3>1, ForgottenType
    <3>. QED  BY <3>1, <3>2, WorkerMoves DEF Tracked
  <2>. QED  BY <2>1, <2>2
<1>15. CASE RefreshPeers
  <2>. DEFINE u == sess[w.eng]
  <2>1. /\ w' = w /\ w.pc = "control" /\ UNCHANGED <<row, saved, real, cur>>
        /\ sess' = [sess EXCEPT ![w.eng] = Woken(Quiet(u))] /\ u.ph = "live"
    BY <1>15 DEF RefreshPeers, Observe
  <2>2. w.eng \in Engines /\ u \in Sessions /\ NoSession.ph = "none"
    BY <1>0, <2>1 DEF EnginesOK, WithEngine, Workers, NoSession
  <2>3. Woken(Quiet(u)).cnt = 0
    BY <2>1, <2>2, SessionTypes
  <2>4. \A e \in Engines : sess'[e].cnt \in {0, sess[e].cnt}
    BY <1>0, <2>1, <2>2, <2>3
  <2>. QED  BY <2>1, <2>4, WorkerMoves DEF Tracked
<1>16. CASE SeesProgress
  BY <1>16, SnapshotTaken
<1>17. CASE Apply
  BY <1>17, ApplyCounts
<1>18. CASE Last
  BY <1>18, LastCounts
<1>19. CASE ClearStale
  BY <1>19, StaleCounts
<1>20. CASE Recheck \/ Release
  <2>1. row'.up = row.up /\ row'.prev = None /\ row'.known = row.known
    BY <1>0, <1>20 DEF Recheck, Release, ResetRestore, MarkReleased, Persist, Rows
  <2>2. row'.st \in {"Starting", "Paused"} /\ row.st # "Gone"
    BY <1>0, <1>20 DEF Recheck, Release, ResetRestore, MarkReleased, Persist, Rows
  <2>3. /\ saved' = Counters(row') /\ real' = real /\ UNCHANGED <<cur, sess>>
        /\ w'.pc = "leave" \/ (w.pc = "recheck" /\ w'.pc = "again")
        /\ w'.eng \in {0, w.eng}
    BY <1>0, <1>20, IdleWorkerType DEF Recheck, Release, Persist, engines, Workers
  <2>4. EnginesMove
    BY <2>3 DEF EnginesMove
  <2>. QED  BY <1>0, <2>1, <2>2, <2>3, <2>4, CountsStay DEF Tracked
<1>21. CASE Finish \/ PauseVanished \/ Leave \/ FailKeepsReseed \/ FailPausesRestore \/ FailJob
  <2>1. /\ w' = IdleWorker /\ real' = real /\ UNCHANGED <<cur, sess>> /\ saved' \in {Counters(row), Counters(row')}
        /\ row.st = "Gone" => row' = row
    BY <1>21 DEF Finish, PauseVanished, Leave, FailKeepsReseed, FailPausesRestore, FailJob, EndWorker, Persist, engines
  <2>2. row' = row \/ (Finish /\ row' = [row EXCEPT !.st = "Completed"])
        \/ \E st \in {"Paused", "Failed"} : row' = [row EXCEPT !.st = st]
    BY <1>21 DEF Finish, PauseVanished, Leave, FailKeepsReseed, FailPausesRestore, FailJob, Persist
  <2>3. row'.up = row.up /\ row'.prev = row.prev /\ row'.known = row.known
    BY <1>0, <2>2 DEF Rows
  <2>4. row'.st = "Completed" => row.st = "Completed" \/ w.pc = "finish"
    BY <1>0, <2>2 DEF Rows, Finish
  <2>5. w'.pc = "idle" /\ w'.eng = 0
    BY <2>1, IdleWorkerType
  <2>6. EnginesMove
    BY <2>1, <2>5 DEF EnginesMove
  <2>. QED  BY <1>0, <2>1, <2>3, <2>4, <2>5, <2>6, CountsStay DEF Tracked
<1>22. CASE RestartResets
  BY <1>22, ResetCounts
<1>23. CASE Crash
  BY <1>23, CrashCounts
<1>24. CASE ClearCache
  <2>1. row' = [row EXCEPT !.prev = None] /\ saved' = Counters(row') /\ UNCHANGED <<w, real, cur, sess>> /\ ~Blocking
    BY <1>24 DEF ClearCache, Persist, engines
  <2>2. row'.up = row.up /\ row'.prev = None /\ row'.known = row.known /\ row'.st = row.st
    BY <1>0, <2>1 DEF Rows
  <2>3. row.st = "Gone" \/ w.pc = "idle"
    BY <2>1 DEF Blocking, RowKnows
  <2>. QED  BY <1>0, <2>1, <2>2, <2>3, Bystander
<1>25. CASE ReseedTick \/ RemoveDeletes \/ Pause \/ Resume \/ Retry \/ Cancel \/ Open
  <2>1. UNCHANGED <<w, real, cur, sess>> /\ saved' \in {saved, Counters(row')}
    BY <1>25 DEF ReseedTick, RemoveDeletes, Pause, Resume, Retry, Cancel, Open, Edits, Persist, engines
  <2>2. row' = row \/ (row' = [row EXCEPT !.st = "Gone"])
        \/ (row.st # "Gone" /\ \E st \in {"Queued", "Paused", "Canceled"} : row' = [row EXCEPT !.st = st])
    BY <1>25 DEF ReseedTick, RemoveDeletes, Pause, Resume, Retry, Cancel, Open, Edits, Persist, Running
  <2>3. row'.up = row.up /\ row'.prev = row.prev /\ row'.known = row.known
        /\ (row'.st = "Completed" => row.st = "Completed") /\ (row'.st # "Gone" => row.st # "Gone")
    BY <1>0, <2>2 DEF Rows
  <2>. QED  BY <1>0, <2>1, <2>3, Bystander
<1>26. CASE /\ UNCHANGED <<row, saved, w, real>>
            /\ cur' \in {cur, 0} \/ sess'[cur'].cnt = 0
            /\ \A e \in Engines : sess'[e].cnt \in {0, sess[e].cnt}
            /\ w.eng # 0 => \/ sess'[w.eng] = NoSession
                            \/ sess[w.eng] # NoSession /\ sess'[w.eng].cnt = sess[w.eng].cnt
  BY <1>0, <1>26, Bystander
<1>27. CASE Asks \/ ClearDrops \/ RefreshDrops
  <2>1. UNCHANGED <<row, saved, w, real>> /\ w.eng \in {0} \cup Engines
    BY <1>0, <1>27, AsksOnly DEF ClearDrops, RefreshDrops, Workers
  <2>2. CASE RestartTakes \/ RemoveTakes
    <3>1. cmd.pc \notin Asking /\ \E forget, next : TakeEngine(forget, next)
      BY <2>2, Zenon DEF RestartTakes, RemoveTakes, Asking
    <3>2. /\ cur' = cur \/ sess'[cur'].cnt = 0
          /\ \A f \in Engines : sess'[f].cnt \in {0, sess[f].cnt}
          /\ w.eng # 0 => sess'[w.eng] = sess[w.eng]
      BY <3>1, TakenCounts
    <3>. QED  BY <1>26, <2>1, <3>2
  <2>3. CASE RestartForgets \/ RemoveForgets \/ ClearForgets
    <3>1. \A e \in Engines : sess'[e] = NoSession \/ sess'[e] = sess[e]
      BY <2>3, SomeoneForgets
    <3>2. cur' = cur
      BY <2>3, Zenon DEF RestartForgets, RemoveForgets, ClearForgets, ForgetTaken
    <3>. QED  BY <1>0, <1>26, <2>1, <3>1, <3>2
  <2>4. CASE ClearTakes
    <3>1. UNCHANGED <<cur, sess>>
      BY <2>4 DEF ClearTakes, engines
    <3>. QED  BY <1>26, <2>1, <3>1
  <2>5. CASE ClearDrops \/ RefreshDrops
    <3>1. (cur' = 0 /\ sess' = Alive(sess, {w.eng})) \/ UNCHANGED <<cur, sess>>
      BY <2>5 DEF ClearDrops, RefreshDrops, DropSlot
    <3>2. \A e \in Engines : sess'[e] = NoSession \/ sess'[e] = sess[e]
      BY <1>0, <3>1, AliveType
    <3>. QED  BY <1>0, <1>26, <2>1, <3>1, <3>2
  <2>. QED  BY <1>27, <2>2, <2>3, <2>4, <2>5 DEF Asks
<1>28. CASE LeaveLate
  <2>1. UNCHANGED <<row, w, real, cur, sess>> /\ saved' = Counters(row)
    BY <1>28 DEF LeaveLate, engines
  <2>. QED  BY <1>0, <2>1, Bystander
<1>29. CASE Restart \/ Remove \/ ChangeSettings \/ HandOff \/ RemoveWaits \/ OpenWaits \/ OpenUses \/ PayloadLost
            \/ UNCHANGED vars
  <2>1. UNCHANGED <<row, saved, w, real, cur, sess>>
    BY <1>29 DEF Restart, Remove, ChangeSettings, HandOff, RemoveWaits, OpenWaits, OpenUses, PayloadLost, Unseen,
                 engines, vars
  <2>. QED  BY <1>26, <2>1
<1>30. CASE Engine
  <2>1. PICK e \in Engines : EngineChecks(e) \/ EngineFetches(e) \/ EngineUploads(e) \/ EngineFails(e)
    BY <1>30 DEF Engine
  <2>2. CASE EngineUploads(e)
    BY <2>2, UploadCounts
  <2>3. CASE EngineChecks(e) \/ EngineFetches(e) \/ EngineFails(e)
    <3>1. UNCHANGED <<row, saved, w, real, cur>> /\ w.eng \in {0} \cup Engines
      BY <1>0, <2>3 DEF Workers, EngineChecks, EngineFetches, EngineFails, Unseen
    <3>2. sess[e] \in LiveSessions /\ sess[e] # NoSession
      <4>1. sess[e].ph # "none" /\ NoSession.ph = "none"
        BY <2>3 DEF EngineChecks, EngineFetches, EngineFails, NoSession
      <4>. QED  BY <1>0, <4>1, LiveSessionsAre
    <3>3. sess'[e].cnt = sess[e].cnt /\ \A f \in Engines : f # e => sess'[f] = sess[f]
      BY <1>0, <2>3, <3>2 DEF EngineChecks, EngineFetches, EngineFails, LiveSessions
    <3>4. sess[e] # NoSession /\ \A f \in Engines : sess'[f].cnt = sess[f].cnt
      BY <3>2, <3>3
    <3>5. w.eng # 0 => \/ sess'[w.eng] = NoSession
                       \/ sess[w.eng] # NoSession /\ sess'[w.eng].cnt = sess[w.eng].cnt
      BY <3>1, <3>3, <3>4
    <3>. QED  BY <1>26, <3>1, <3>4, <3>5
  <2>. QED  BY <2>1, <2>2, <2>3
<1>. QED
  BY <1>1, <1>2, <1>3, <1>4, <1>5, <1>6, <1>7, <1>8, <1>9, <1>10, <1>11, <1>12, <1>13, <1>14, <1>15, <1>16,
     <1>17, <1>18, <1>19, <1>20, <1>21, <1>22, <1>23, <1>24, <1>25, <1>27, <1>28, <1>29, <1>30
  DEF Next, Worker, User, Commanded, Asks, World

(***************************************************************************)
(* The whole invariant.                                                    *)
(***************************************************************************)
FullInv == TypeOK /\ EnginesOK /\ WorkerKnows /\ RowKnows /\ (~took => CountsOK)

LEMMA FullInit == Init => FullInv
<1>. SUFFICES ASSUME Init PROVE FullInv
  OBVIOUS
<1>1. TypeOK /\ EnginesOK
  BY InvInit DEF Inv
<1>2. /\ row = NewRow /\ saved = Counters(NewRow) /\ w = IdleWorker /\ real = 0
      /\ cur = 0
  BY DEF Init
<1>3. /\ w.pc = "idle" /\ w.known = FALSE /\ w.restoring = FALSE /\ w.eng = 0 /\ Elsewhere = 0
      /\ row.up = 0 /\ row.prev = None /\ saved.up = 0 /\ saved.prev = None
      /\ row.st = "Queued" /\ row.began = FALSE /\ row.known = FALSE
  BY <1>2, IdleWorkerType, NewRowType, CountersType DEF NewRow, Elsewhere
<1>. QED  BY <1>1, <1>2, <1>3 DEF FullInv, WorkerKnows, RowKnows, CountsOK, Consistent, Tracked, WithEngine

LEMMA FullStep == FullInv /\ [Next]_vars => FullInv'
<1>. SUFFICES ASSUME FullInv, [Next]_vars PROVE FullInv'
  OBVIOUS
<1>1. TypeOK' /\ EnginesOK'
  BY InvStep DEF FullInv, Inv
<1>2. WorkerKnows' /\ RowKnows'
  BY WorkerKnowsStep, RowKnowsStep DEF FullInv
<1>3. ~took' => ~took
  BY TookStays DEF FullInv
<1>4. ~took' => CountsOK'
  BY <1>1, <1>3, CountsStep DEF FullInv
<1>. QED  BY <1>1, <1>2, <1>4 DEF FullInv

\* What the app says the torrent has uploaded was uploaded, and the seeding policy
\* completes a torrent only once it has shared that much: through retries, restores,
\* restarts, dropped engines and crashes no counter that starts over counts twice
\* (cumulative_torrent_runtime_bytes, should_stop_seeding).
THEOREM SaysWhatItShared == Spec => []SharesWhatItSays
<1>1. Spec => []FullInv
  BY FullInit, FullStep, PTL DEF Spec
<1>2. FullInv => SharesWhatItSays
  BY Numbers DEF FullInv, CountsOK, SharesWhatItSays
<1>. QED  BY <1>1, <1>2, PTL
=============================================================================
