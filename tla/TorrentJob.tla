----------------------------- MODULE TorrentJob -----------------------------
(***************************************************************************)
(* The life of one torrent job: its row (state/torrent.rs, state/jobs.rs), *)
(* its worker (run_torrent_download_attempt in download/torrent.rs), the   *)
(* sessions of the torrent in the engines, and the engine manager that     *)
(* creates, defers and replaces them (download/mod.rs, torrent.rs).        *)
(*                                                                         *)
(* The engine is the librqbit library: what it does on its own - verifying *)
(* the payload, fetching, seeding, failing, keeping its sessions in the    *)
(* directory torrent-session - is modelled from what torrent.rs asks of it *)
(* and reads back.  An engine lives while the manager's slot or a worker   *)
(* holds it; so two can be alive at once, and both use the directory.      *)
(*                                                                         *)
(* The torrent comes from a magnet link.  Sizes are counted in units: a    *)
(* payload is absent, partial or full, and the seeding policy is "stop at  *)
(* SeedTarget uploaded units".                                             *)
(***************************************************************************)
EXTENDS Integers, FiniteSets

CONSTANTS
    SeedTarget,    \* the ratio the policy asks for, in uploaded units
    MaxUp,         \* bound: units uploaded to peers
    MaxLoops,      \* bound: reseed loops asleep at a time
    MaxCommands,   \* bound: commands of the user but for removals, which end it all
    MaxMishaps     \* bound: engine failures, lookups that time out, failed saves of the
                   \* reseed loop, payloads moved or deleted outside the app, crashes

ASSUME TargetAssumption == SeedTarget \in Nat \ {0} /\ MaxUp \in Nat
ASSUME LimitsAssumption == {MaxLoops, MaxCommands, MaxMishaps} \subseteq Nat

VARIABLES
    row,       \* the job's row
    saved,     \* the counters of the row as last persisted
    active,    \* the job holds a worker slot (active_workers)
    reseed,    \* the job is in external_reseed_jobs
    loops,     \* tasks of schedule_external_reseed asleep
    handing,   \* a worker is about to start such a task
    lapsed,    \* history: such a task ended on a failed save, and none was started since
    w,         \* the worker: its step, its engine and its locals
    leaving,   \* a worker that let its slot go has yet to return
    took,      \* history: such a worker took the slot of the next one as it did
    unforgot,  \* history: a command failed to make the slot's engine forget the torrent
    cur,       \* the engine in the manager's slot; 0: none
    fresh,     \* the slot's engine has the settings of now
    sess,      \* each engine's session of the torrent
    kept,      \* the session as the directory torrent-session has it
    payload,   \* the torrent's files: at target_path, or beside it
    cmd,       \* the command in progress
    real,      \* history: units uploaded since the counters began, and those that a session
               \* the worker does not hold had uploaded when they did
    spent      \* the commands given and the mishaps that happened

engines == <<cur, fresh, sess, kept>>
reseeding == <<reseed, loops, handing, lapsed>>
late == <<leaving, took, unforgot>>
vars == <<row, saved, active, reseeding, w, late, engines, payload, cmd, real, spent>>

Engines == {1, 2}
None    == -1
States  == {"Queued", "Starting", "Downloading", "Seeding", "Paused", "Completed",
            "Failed", "Canceled", "Gone"}
Running == {"Starting", "Downloading", "Seeding"}

NoSession == [ph |-> "none", stop |-> FALSE, fin |-> FALSE, cnt |-> 0, got |-> FALSE]
LiveSessions == [ph : {"init", "paused", "live", "error"}, stop : BOOLEAN, fin : BOOLEAN,
                 cnt : 0..MaxUp, got : BOOLEAN]
Sessions  == LiveSessions \cup {NoSession}
IdleWorker == [pc |-> "idle", eng |-> 0, began |-> FALSE, bare |-> FALSE, restoring |-> FALSE, known |-> FALSE,
               src |-> FALSE, tried |-> FALSE, first |-> TRUE, rechecked |-> FALSE,
               upd |-> NoSession, access |-> FALSE]
WorkerSteps == {"idle", "start", "begin", "lookup", "adding", "again", "control", "stale", "recheck",
                "vanished", "apply", "finish", "last", "release", "leave", "fail"}
NoCommand == [pc |-> "none", blk |-> FALSE, known |-> FALSE, eng |-> 0]
Commands  == {"none", "restart", "restart_forget", "restart_reset", "remove_wait", "remove",
              "remove_forget", "remove_delete", "open_wait", "open_use", "clear", "clear_forget",
              "clear_drop", "refresh"}

-----------------------------------------------------------------------------
(* The row *)

Blocking == row.st # "Gone"
            /\ (active \/ row.st \in {"Queued", "Starting", "Downloading", "Seeding"})

Empty == payload \in {"none", "beside"}       \* target_payload_appears_empty

Cumulative(total, prev, runtime) ==
    IF prev # None
    THEN IF runtime >= prev THEN total + (runtime - prev) ELSE total + runtime
    ELSE IF total = 0 THEN runtime ELSE total

ShouldStop(up) == up >= SeedTarget

Counters(r) == [up |-> r.up, prev |-> r.prev, got |-> r.got]

\* update_torrent_progress_result
Update(r, u) ==
    [r EXCEPT !.st    = IF @ = "Paused" THEN @ ELSE IF u.fin THEN "Seeding" ELSE "Downloading",
              !.known = TRUE,
              !.up    = Cumulative(r.up, r.prev, u.cnt),
              !.prev  = u.cnt,
              !.got   = @ \/ u.got,
              !.began = @ \/ u.fin]

ResetStale(r) ==
    [r EXCEPT !.st = "Starting", !.began = FALSE, !.up = 0, !.prev = None, !.got = FALSE]

ResetRestore(r) == [r EXCEPT !.st = "Starting", !.prev = None]

MarkReleased(r) == [r EXCEPT !.st = "Paused", !.prev = None]

NewRow == [st |-> "Queued", began |-> FALSE, known |-> FALSE, up |-> 0, prev |-> None,
           got |-> FALSE]

Persist(r) == row' = r /\ saved' = Counters(r)

\* the job leaves external_reseed_jobs
Unmark == reseed' = FALSE /\ lapsed' = FALSE

-----------------------------------------------------------------------------
(* The engines *)

\* engines nobody holds any more stop, and their sessions with them
Alive(s, held) == [e \in Engines |-> IF e \in held THEN s[e] ELSE NoSession]

\* what a new engine makes of the directory: fastresume trusts what it finds there
Restored == IF kept = "none" THEN NoSession
            ELSE [NoSession EXCEPT !.ph = "init", !.stop = (kept = "paused")]

\* get_or_create with its answer to "is there blocking work" given: the engine
\* is reused, kept although the settings changed, created or replaced
Reused(blk) == cur # 0 /\ (fresh \/ blk)
NextEngine(blk) == IF Reused(blk) THEN cur ELSE CHOOSE e \in Engines : e \notin {w.eng, cmd.eng}

\* forget, forget_existing: the session goes, from the directory too
Forgotten(s, e) == [s EXCEPT ![e] = NoSession]
KeptWithout(e) == IF sess[e] = NoSession THEN kept ELSE "none"

\* what a session has uploaded in the slot's engine while the worker holds another
Elsewhere == IF w.eng = 0 \/ cur \in {0, w.eng} THEN 0 ELSE sess[cur].cnt

Quiet(u) == [u EXCEPT !.ph = IF @ = "live" THEN "paused" ELSE @, !.stop = TRUE,
                      !.cnt = 0, !.got = FALSE]
Woken(u) == [u EXCEPT !.ph = IF @ = "paused" THEN "live" ELSE @, !.stop = FALSE]

-----------------------------------------------------------------------------
Init ==
    /\ row = NewRow
    /\ saved = Counters(NewRow)
    /\ active = FALSE
    /\ reseed = FALSE /\ loops = 0 /\ handing = FALSE /\ lapsed = FALSE
    /\ w = IdleWorker /\ leaving = FALSE /\ took = FALSE /\ unforgot = FALSE
    /\ cur = 0 /\ fresh = TRUE /\ sess = [e \in Engines |-> NoSession] /\ kept = "none"
    /\ payload = "none"
    /\ cmd = NoCommand
    /\ real = 0
    /\ spent = [commands |-> 0, mishaps |-> 0]

-----------------------------------------------------------------------------
(* The worker *)

Mishap == /\ spent.mishaps < MaxMishaps
          /\ spent' = [spent EXCEPT !.mishaps = @ + 1]

\* the worker's engine handle is dropped when the attempt returns
Return(step) ==
    /\ w' = [IdleWorker EXCEPT !.pc = step, !.began = w.began, !.bare = w.bare]
    /\ sess' = Alive(sess, {cur, cmd.eng})
    /\ UNCHANGED <<cur, fresh, kept>>

ForgetAndReturn(step) ==
    /\ w' = [IdleWorker EXCEPT !.pc = step, !.began = w.began, !.bare = w.bare]
    /\ sess' = Alive(Forgotten(sess, w.eng), {cur, cmd.eng})
    /\ kept' = KeptWithout(w.eng)
    /\ UNCHANGED <<cur, fresh>>

ForgetAndGo(step) ==
    /\ w' = [w EXCEPT !.pc = step]
    /\ sess' = Forgotten(sess, w.eng)
    /\ kept' = KeptWithout(w.eng)
    /\ UNCHANGED <<cur, fresh>>

\* claim_schedulable_jobs_for_scheduler, start_download_worker
Claim ==
    /\ row.st = "Queued" /\ ~active /\ w.pc = "idle"
    /\ row' = [row EXCEPT !.st = "Starting"]
    /\ saved' = Counters(row)
    /\ active' = TRUE
    /\ w' = [IdleWorker EXCEPT !.pc = "start", !.began = row.began,
                                !.bare = (row.up = 0 /\ ~row.got), !.known = row.known]
    /\ UNCHANGED <<late, reseeding, engines, payload, cmd, real, spent>>

GetEngine ==
    /\ w.pc = "start"
    /\ LET e == NextEngine(Blocking) IN
       /\ cur' = e
       /\ fresh' = (fresh \/ ~Reused(Blocking))
       /\ sess' = IF Reused(Blocking) THEN sess ELSE Alive([sess EXCEPT ![e] = Restored], {e, cmd.eng})
       /\ w' = [w EXCEPT !.pc = "begin", !.eng = e]
    /\ unforgot' = FALSE
    /\ UNCHANGED <<leaving, took, row, saved, active, reseeding, kept, payload, cmd, real, spent>>

\* is_stale_verified_torrent_task
StaleVerified == w.began /\ w.bare /\ Empty

BeginStale ==
    /\ w.pc = "begin" /\ StaleVerified
    /\ IF w.known
       THEN sess' = Forgotten(sess, w.eng) /\ kept' = KeptWithout(w.eng)
       ELSE UNCHANGED <<sess, kept>>
    /\ w' = [w EXCEPT !.pc = "stale", !.tried = TRUE]
    /\ UNCHANGED <<late, row, saved, active, reseeding, cur, fresh, payload, cmd, real, spent>>

\* protected_restore_payload_target
RestoreTarget == IF payload \in {"part", "full"} THEN "Current"
                 ELSE IF payload = "beside" THEN "Repaired" ELSE "Missing"

\* a torrent that has seeded is restored only onto files that are there
BeginRestore ==
    /\ w.pc = "begin" /\ w.began /\ ~StaleVerified
    /\ \/ /\ RestoreTarget = "Current"
          /\ w' = [w EXCEPT !.pc = "lookup", !.restoring = TRUE]
          /\ UNCHANGED <<sess, kept, cur, fresh, payload>>
       \/ /\ RestoreTarget = "Repaired"
          /\ sess' = IF w.known THEN Forgotten(sess, w.eng) ELSE sess
          /\ kept' = IF w.known THEN KeptWithout(w.eng) ELSE kept
          /\ payload' = "full"
          /\ w' = [w EXCEPT !.pc = "lookup", !.restoring = TRUE]
          /\ UNCHANGED <<cur, fresh>>
       \/ /\ RestoreTarget = "Missing"
          /\ Return("fail")
          /\ UNCHANGED payload
    /\ UNCHANGED <<late, row, saved, active, reseeding, cmd, real, spent>>

BeginDownload ==
    /\ w.pc = "begin" /\ ~w.began
    /\ w' = [w EXCEPT !.pc = "lookup"]
    /\ UNCHANGED <<late, row, saved, active, reseeding, engines, payload, cmd, real, spent>>

\* resume_existing, prepare_existing_for_resume
Lookup ==
    /\ w.pc = "lookup"
    /\ LET u == sess[w.eng] IN
       IF w.known /\ u # NoSession
       THEN /\ IF w.restoring
               THEN /\ sess' = IF u.ph = "live" THEN [sess EXCEPT ![w.eng] = Quiet(u)] ELSE sess
                    /\ kept' = IF u.ph = "live" THEN "paused" ELSE kept
               ELSE /\ sess' = [sess EXCEPT ![w.eng] = Woken(u)]
                    /\ kept' = "live"
            /\ w' = [w EXCEPT !.pc = "control"]
       ELSE /\ w' = [w EXCEPT !.pc = "adding", !.src = TRUE]
            /\ UNCHANGED <<sess, kept>>
    /\ UNCHANGED <<late, row, saved, active, reseeding, cur, fresh, payload, cmd, real, spent>>

\* add_source: a session of the torrent that is there already is taken over; a
\* download, as opposed to a restore, forgets it and adds the torrent again
AddDone ==
    /\ w.pc \in {"adding", "again"}
    /\ LET there  == sess[w.eng] # NoSession
           paused == w.pc = "adding" /\ w.restoring
           takes  == there /\ (w.pc = "again" \/ w.restoring)
       IN /\ sess' = IF takes THEN sess
                    ELSE [sess EXCEPT ![w.eng] = [NoSession EXCEPT !.ph = "init", !.stop = paused]]
          /\ kept' = IF takes THEN kept ELSE IF paused THEN "paused" ELSE "live"
          /\ w' = [w EXCEPT !.pc = "control", !.first = TRUE, !.tried = @ \/ (there /\ ~takes)]
    /\ UNCHANGED <<late, row, saved, active, reseeding, cur, fresh, payload, cmd, real, spent>>

\* the lookups of the metadata time out: the staged ones clean up and fail for
\* good, one that adds a torrent again fails as worth a retry (run_download), as
\* long as there are retries left
AddTimesOut ==
    /\ Mishap
    /\ \/ w.pc = "adding" /\ ForgetAndReturn("fail")
       \/ /\ w.pc = "again"
          /\ w' = [IdleWorker EXCEPT !.pc = "start", !.began = w.began, !.bare = w.bare, !.known = w.known]
          /\ sess' = Alive(sess, {cur, cmd.eng}) /\ UNCHANGED <<cur, fresh, kept>>
       \/ w.pc = "again" /\ Return("fail")
    /\ UNCHANGED <<late, row, saved, active, reseeding, payload, cmd, real>>

\* add_torrent_with_controls
AddInterrupted ==
    /\ \/ w.pc \in {"adding", "again"} /\ row.st = "Paused" /\ Return("leave")
       \/ /\ row.st \in {"Canceled", "Gone", "Completed", "Failed"}
          /\ \/ w.pc = "adding" /\ ForgetAndReturn("leave")
             \/ w.pc = "again" /\ Return("leave")
    /\ UNCHANGED <<late, row, saved, active, reseeding, payload, cmd, real, spent>>

\* one turn of the worker's loop, up to its next write of the row
Control ==
    /\ w.pc = "control"
    /\ \/ row.st = "Paused" /\ w' = [w EXCEPT !.pc = "last"] /\ UNCHANGED engines
       \/ row.st \in {"Canceled", "Gone", "Completed", "Failed"} /\ ForgetAndReturn("leave")
    /\ UNCHANGED <<late, row, saved, active, reseeding, payload, cmd, real, spent>>

StaleCompletion(u) == w.src /\ w.first /\ u.fin /\ ~u.got /\ Empty
Disappeared(u)     == u.fin /\ u.ph = "live" /\ Empty
RestoreRefused(u)  == w.restoring /\ ~u.fin /\ (u.got \/ u.ph = "paused")

Observe(next) ==      \* the turn goes on with the snapshot u of the session
    /\ w.pc = "control"
    /\ row.st \in {"Queued"} \cup Running
    /\ next
    /\ UNCHANGED <<late, row, saved, active, reseeding, payload, cmd, real, spent>>

SnapshotFails ==
    Observe(LET u == sess[w.eng] IN
            u = NoSession /\ Return("fail"))

EngineReportsError ==
    Observe(LET u == sess[w.eng] IN
            /\ u.ph = "error"
            /\ w' = [IdleWorker EXCEPT !.pc = "fail", !.began = w.began, !.bare = w.bare,
                                       !.access = u.stop]
            /\ sess' = Alive(sess, {cur, cmd.eng})
            /\ UNCHANGED <<cur, fresh, kept>>)

SeesStaleCompletion ==
    Observe(LET u == sess[w.eng] IN
            /\ u.ph \in {"init", "paused", "live"} /\ StaleCompletion(u)
            /\ IF w.tried THEN Return("fail") ELSE ForgetAndGo("stale"))

SeesPayloadGone ==
    Observe(LET u == sess[w.eng] IN
            u.ph # "error" /\ ~StaleCompletion(u) /\ Disappeared(u) /\ ForgetAndReturn("vanished"))

RefusesRestore ==
    Observe(LET u == sess[w.eng] IN
            u.ph \in {"init", "paused", "live"} /\ RestoreRefused(u) /\ Return("fail"))

\* TorrentRestoreWatchdog: a validation that shows nothing is started over
\* once, and given up the second time
RestoreStalls ==
    Observe(LET u == sess[w.eng] IN
            /\ w.restoring /\ u.ph = "init" /\ ~RestoreRefused(u)
            /\ IF w.rechecked THEN ForgetAndReturn("fail") ELSE ForgetAndGo("recheck"))

\* TorrentPeerConnectionWatchdog: the session is paused and resumed
RefreshPeers ==
    Observe(LET u == sess[w.eng] IN
            /\ ~w.restoring /\ u.ph = "live" /\ ~u.fin
            /\ sess' = [sess EXCEPT ![w.eng] = Woken(Quiet(u))]
            /\ UNCHANGED <<w, cur, fresh, kept>>)

SeesProgress ==
    Observe(LET u == sess[w.eng]
                wakes == w.restoring /\ u.fin /\ u.ph = "paused"
            IN
            /\ u.ph \in {"init", "paused", "live"}
            /\ ~StaleCompletion(u) /\ ~Disappeared(u) /\ ~RestoreRefused(u)
            /\ sess' = IF wakes THEN [sess EXCEPT ![w.eng] = Woken(u)] ELSE sess
            /\ kept' = IF wakes THEN "live" ELSE kept
            /\ w' = [w EXCEPT !.pc = "apply", !.upd = u]
            /\ UNCHANGED <<cur, fresh>>)

\* update_torrent_progress_delta, then the seeding policy
Apply ==
    /\ w.pc = "apply" /\ row.st # "Gone"
    /\ LET r == Update(row, w.upd) IN
       /\ row' = r
       /\ \/ saved' = Counters(r)
          \/ ~w.first /\ (w.began \/ row.began \/ ~w.upd.fin) /\ saved' = saved
       /\ IF w.upd.fin /\ ShouldStop(r.up)
          THEN ForgetAndReturn("finish")
          ELSE /\ w' = [w EXCEPT !.pc = "control", !.first = FALSE, !.upd = NoSession]
               /\ UNCHANGED engines
    /\ UNCHANGED <<late, active, reseeding, payload, cmd, real, spent>>

ApplyMissesRow ==      \* the row was removed: "Job not found."
    /\ w.pc \in {"apply", "last", "stale", "recheck", "vanished", "finish", "release"}
    /\ row.st = "Gone"
    /\ Return("fail")
    /\ UNCHANGED <<late, row, saved, active, reseeding, payload, cmd, real, spent>>

Finish ==              \* complete_torrent_job
    /\ w.pc = "finish" /\ row.st # "Gone"
    /\ Persist([row EXCEPT !.st = "Completed"])
    /\ active' = FALSE
    /\ w' = IdleWorker
    /\ UNCHANGED <<late, reseeding, engines, payload, cmd, real, spent>>

\* reset_stale_torrent_completion_for_recheck
ClearStale ==
    /\ w.pc = "stale" /\ row.st # "Gone"
    /\ Persist(ResetStale(row))
    /\ real' = Elsewhere
    /\ w' = IF w.src THEN [w EXCEPT !.pc = "again", !.tried = TRUE] ELSE [w EXCEPT !.pc = "lookup", !.known = FALSE]
    /\ UNCHANGED <<late, active, reseeding, engines, payload, cmd, spent>>

\* reset_torrent_restore_runtime_for_recheck
Recheck ==
    /\ w.pc = "recheck" /\ row.st # "Gone"
    /\ Persist(ResetRestore(row))
    /\ w' = [w EXCEPT !.pc = "again", !.src = TRUE, !.rechecked = TRUE]
    /\ UNCHANGED <<late, active, reseeding, engines, payload, cmd, real, spent>>

\* pause_torrent_payload_disappeared
PauseVanished ==
    /\ w.pc = "vanished" /\ row.st # "Gone"
    /\ Persist([row EXCEPT !.st = "Paused"])
    /\ active' = FALSE /\ Unmark
    /\ w' = IdleWorker /\ leaving' = TRUE
    /\ UNCHANGED <<took, unforgot, loops, handing, engines, payload, cmd, real, spent>>

\* persist_final_torrent_snapshot_before_pause, then pause or forget
Last ==
    /\ w.pc = "last" /\ row.st # "Gone"
    /\ LET u == sess[w.eng] IN
       IF u = NoSession
       THEN Return("fail") /\ UNCHANGED <<row, saved>>
       ELSE /\ Persist(Update(row, u))
            /\ IF u.fin THEN ForgetAndReturn("release")
               ELSE IF u.ph = "error" THEN Return("fail")
               ELSE /\ w' = [IdleWorker EXCEPT !.pc = "leave"]
                    /\ sess' = Alive([sess EXCEPT ![w.eng] = Quiet(u)], {cur, cmd.eng})
                    /\ kept' = "paused"
                    /\ UNCHANGED <<cur, fresh>>
    /\ UNCHANGED <<late, active, reseeding, payload, cmd, real, spent>>

Release ==             \* mark_torrent_engine_session_released
    /\ w.pc = "release" /\ row.st # "Gone"
    /\ Persist(MarkReleased(row))
    /\ w' = [IdleWorker EXCEPT !.pc = "leave"]
    /\ UNCHANGED <<late, active, reseeding, engines, payload, cmd, real, spent>>

Leave ==               \* finish_interrupted_job
    /\ w.pc = "leave"
    /\ saved' = Counters(row)
    /\ active' = FALSE
    /\ w' = IdleWorker
    /\ UNCHANGED <<late, row, reseeding, engines, payload, cmd, real, spent>>

\* the same for a worker that had let its slot go: the job may be another's now
LeaveLate ==
    /\ leaving
    /\ saved' = Counters(row)
    /\ active' = FALSE
    /\ leaving' = FALSE
    /\ took' = (took \/ w.pc # "idle")
    /\ UNCHANGED <<unforgot, row, w, reseeding, engines, payload, cmd, real, spent>>

-----------------------------------------------------------------------------
(* The end of a failed worker: start_download_worker's error arm *)

EndWorker == active' = FALSE /\ w' = IdleWorker

\* Mutant: the slot of the failed worker is kept for the next attempt.
KeepReseedAndSlot ==
    /\ w.pc = "fail" /\ w.access /\ reseed /\ row.st # "Gone"
    /\ Persist([row EXCEPT !.st = "Paused"])
    /\ w' = IdleWorker
    /\ UNCHANGED <<late, active, reseeding, engines, payload, cmd, real, spent>>

\* handle_external_reseed_failure: the loop will try again
FailKeepsReseed ==
    /\ w.pc = "fail" /\ w.access /\ reseed /\ row.st # "Gone"
    /\ Persist([row EXCEPT !.st = "Paused"])
    /\ EndWorker
    /\ UNCHANGED <<late, reseeding, engines, payload, cmd, real, spent>>

RestoreTask == w.began /\ ~StaleVerified

\* handle_torrent_seeding_restore_failure
FailPausesRestore ==
    /\ w.pc = "fail" /\ ~(w.access /\ reseed) /\ row.st # "Gone"
    /\ RestoreTask /\ row.began
    /\ Persist([row EXCEPT !.st = "Paused"])
    /\ reseed' = w.access /\ lapsed' = FALSE
    /\ handing' = (handing \/ w.access)
    /\ EndWorker
    /\ UNCHANGED <<late, loops, engines, payload, cmd, real, spent>>

FailJob ==
    /\ w.pc = "fail" /\ ~(w.access /\ reseed /\ row.st # "Gone")
    /\ row.st = "Gone" \/ ~RestoreTask \/ ~row.began
    /\ Persist(IF row.st = "Gone" THEN row ELSE [row EXCEPT !.st = "Failed"])
    /\ Unmark
    /\ EndWorker
    /\ UNCHANGED <<late, loops, handing, engines, payload, cmd, real, spent>>

Worker == \/ GetEngine \/ BeginStale \/ BeginRestore \/ BeginDownload \/ Lookup
          \/ AddDone \/ AddTimesOut \/ AddInterrupted \/ Control
          \/ SnapshotFails \/ EngineReportsError \/ SeesStaleCompletion \/ SeesPayloadGone
          \/ RefusesRestore \/ RestoreStalls \/ RefreshPeers \/ SeesProgress
          \/ Apply \/ ApplyMissesRow \/ Finish \/ ClearStale \/ Recheck \/ PauseVanished
          \/ Last \/ Release \/ Leave \/ LeaveLate \/ FailKeepsReseed \/ FailPausesRestore \/ FailJob

-----------------------------------------------------------------------------
(* External use and the automatic reseed *)

\* schedule_external_reseed, called by the failed worker
HandOff ==
    /\ handing /\ loops < MaxLoops
    /\ reseed' = (reseed \/ row.st = "Paused")
    /\ loops' = loops + 1
    /\ handing' = FALSE /\ lapsed' = FALSE
    /\ UNCHANGED <<late, row, saved, active, w, engines, payload, cmd, real, spent>>

\* queue_external_reseed_attempt; the task ends when it is told to stop, and when
\* the save fails: the job is queued by then, and stays marked
ReseedTick ==
    /\ loops > 0
    /\ \/ /\ ~reseed \/ row.st \in {"Gone", "Seeding", "Completed", "Failed", "Canceled"}
          /\ Unmark /\ loops' = loops - 1
          /\ UNCHANGED <<row, saved, spent>>
       \/ /\ reseed /\ row.st = "Paused" /\ ~active
          /\ \/ /\ Persist([row EXCEPT !.st = "Queued"])
                /\ UNCHANGED <<reseeding, spent>>
             \/ /\ Mishap
                /\ row' = [row EXCEPT !.st = "Queued"] /\ saved' = saved
                /\ loops' = loops - 1 /\ lapsed' = TRUE /\ reseed' = reseed
    /\ UNCHANGED <<late, handing, active, w, engines, payload, cmd, real>>

-----------------------------------------------------------------------------
(* The user's commands *)

Given == /\ spent.commands < MaxCommands
         /\ spent' = [spent EXCEPT !.commands = @ + 1]

Edits(r) ==
    /\ Given /\ Persist(r)
    /\ UNCHANGED <<late, loops, handing, active, w, engines, payload, cmd, real>>

Pause ==
    /\ row.st \in {"Queued"} \cup Running
    /\ Unmark
    /\ Edits([row EXCEPT !.st = "Paused"])

Resume ==
    /\ row.st \in {"Paused", "Failed", "Canceled"}
    /\ Unmark
    /\ Edits([row EXCEPT !.st = "Queued"])

Retry ==
    /\ row.st \in {"Completed", "Failed", "Canceled"}
    /\ Unmark
    /\ Edits([row EXCEPT !.st = "Queued"])

Cancel ==
    /\ row.st \notin {"Gone", "Canceled"}
    /\ Unmark
    /\ Edits([row EXCEPT !.st = "Canceled"])

\* a command keeps the identity of the session it read before it waits, and
\* what it saw of the other work
Command(pc, known, blk) == cmd' = [pc |-> pc, known |-> known, blk |-> blk, eng |-> 0]
CommandEnds == cmd' = NoCommand

\* the manager looks for blocking work, then locks its slot: it acts on what it
\* saw at some moment since the command's last step
Looked == {cmd.blk, Blocking}

\* forget_torrent_session_for_restart, with the identity the command read before:
\* first it takes the manager's engine, or a new one ...
TakeEngine(forget, next) ==
    /\ IF ~cmd.known
       THEN cmd' = [NoCommand EXCEPT !.pc = next] /\ UNCHANGED <<engines, unforgot, spent>>
       ELSE \E blk \in Looked :
               \/ LET e == NextEngine(blk) IN
                  /\ cur' = e
                  /\ fresh' = (fresh \/ ~Reused(blk))
                  /\ sess' = IF Reused(blk) THEN sess
                             ELSE Alive([sess EXCEPT ![e] = Restored], {e, w.eng})
                  /\ unforgot' = (unforgot /\ Reused(blk))
                  /\ cmd' = [NoCommand EXCEPT !.pc = forget, !.eng = e]
                  /\ UNCHANGED <<kept, spent>>
               \/ ~Reused(blk) /\ Mishap /\ CommandEnds /\ UNCHANGED <<engines, unforgot>>
    /\ UNCHANGED <<leaving, took, row, saved, active, reseeding, w, payload, real>>

\* Mutant: only the engine at work is asked to forget.
ForgetWhereItWorks(then, failed) ==
    /\ cmd' = then
    /\ sess' = Alive(IF cmd.eng = w.eng THEN Forgotten(sess, cmd.eng) ELSE sess, {cur, w.eng})
    /\ kept' = KeptWithout(cmd.eng)
    /\ unforgot' = (unforgot /\ cur # cmd.eng)
    /\ UNCHANGED <<leaving, took, spent, row, saved, active, reseeding, w, cur, fresh, payload, real>>

\* ... then it has that engine forget the torrent, which can fail
ForgetTaken(then, failed) ==
    /\ \/ /\ cmd' = then
          /\ sess' = Alive(Forgotten(sess, cmd.eng), {cur, w.eng})
          /\ kept' = KeptWithout(cmd.eng)
          /\ unforgot' = (unforgot /\ cur # cmd.eng)
          /\ spent' = spent
       \/ /\ sess[cmd.eng] # NoSession /\ Mishap
          /\ cmd' = failed
          /\ sess' = Alive(sess, {cur, w.eng})
          /\ kept' = kept
          /\ unforgot' = (unforgot \/ cur = cmd.eng)
    /\ UNCHANGED <<leaving, took, row, saved, active, reseeding, w, cur, fresh, payload, real>>

\* restart_job: torrent_restart_cleanup_info, the forgetting, the reset
Restart ==
    /\ Given /\ cmd.pc = "none" /\ row.st # "Gone" /\ ~Blocking
    /\ Command("restart", row.known, FALSE)
    /\ UNCHANGED <<late, row, saved, active, reseeding, w, engines, payload, real>>

RestartTakes == cmd.pc = "restart" /\ TakeEngine("restart_forget", "restart_reset")

RestartForgets ==
    cmd.pc = "restart_forget" /\ ForgetTaken([NoCommand EXCEPT !.pc = "restart_reset"], NoCommand)

\* Mutant: the worker that started meanwhile is not looked for.
ResetRegardless ==
    /\ cmd.pc = "restart_reset"
    /\ CommandEnds
    /\ Persist(NewRow)
    /\ Unmark
    /\ real' = 0
    /\ UNCHANGED <<late, loops, handing, active, w, engines, payload, spent>>

RestartResets ==
    /\ cmd.pc = "restart_reset"
    /\ CommandEnds
    /\ IF ~active /\ row.st \notin Running /\ row.st # "Gone"
       THEN /\ Persist(NewRow)
            /\ Unmark
            /\ real' = 0
       ELSE UNCHANGED <<row, saved, reseed, lapsed, real>>
    /\ UNCHANGED <<late, loops, handing, active, w, engines, payload, spent>>

\* delete_job: prepare_torrent_removal, then remove_job
Remove ==
    /\ cmd.pc = "none" /\ row.st \notin {"Gone", "Queued"} \cup Running
    /\ ~active \/ row.st = "Paused"
    /\ Command(IF active THEN "remove_wait" ELSE "remove", row.known, FALSE)
    /\ UNCHANGED <<late, row, saved, active, reseeding, w, engines, payload, real, spent>>

RemoveWaits ==
    /\ cmd.pc = "remove_wait"
    /\ \/ /\ row.st # "Gone" /\ ~active /\ row.st # "Seeding"
          /\ cmd' = [cmd EXCEPT !.pc = "remove", !.blk = Blocking]
       \/ CommandEnds                                   \* the deadline passed
    /\ UNCHANGED <<late, row, saved, active, reseeding, w, engines, payload, real, spent>>

RemoveTakes == cmd.pc = "remove" /\ TakeEngine("remove_forget", "remove_delete")

RemoveForgets ==
    cmd.pc = "remove_forget" /\ ForgetTaken([NoCommand EXCEPT !.pc = "remove_delete"], NoCommand)

RemoveDeletes ==
    /\ cmd.pc = "remove_delete"
    /\ CommandEnds
    /\ IF ~active /\ row.st \notin {"Gone", "Queued"} \cup Running
       THEN /\ Persist([row EXCEPT !.st = "Gone"])
            /\ Unmark
       ELSE UNCHANGED <<row, saved, reseed, lapsed>>
    /\ UNCHANGED <<late, loops, handing, active, w, engines, payload, real, spent>>

\* open_job_file, reveal_job_in_folder: a seeding torrent lets its files go
Open ==
    /\ Given /\ cmd.pc = "none" /\ row.st = "Seeding"
    /\ Persist([row EXCEPT !.st = "Paused"])
    /\ Command("open_wait", FALSE, FALSE)
    /\ UNCHANGED <<late, active, reseeding, w, engines, payload, real>>

OpenWaits ==
    /\ cmd.pc = "open_wait"
    /\ \/ ~active /\ row.st \notin {"Seeding", "Gone"} /\ cmd' = [cmd EXCEPT !.pc = "open_use"]
       \/ CommandEnds
    /\ UNCHANGED <<late, row, saved, active, reseeding, w, engines, payload, real, spent>>

\* Mutant: the mark is set, the task forgotten.
OpenForgetsLoop ==
    /\ cmd.pc = "open_use"
    /\ CommandEnds
    /\ reseed' = (reseed \/ (~Empty /\ row.st = "Paused"))
    /\ UNCHANGED <<late, row, saved, loops, handing, lapsed, active, w, engines, payload, real, spent>>

\* resolve_openable_path fails on missing files; otherwise the job is put back
OpenUses ==
    /\ cmd.pc = "open_use"
    /\ CommandEnds
    /\ \/ Empty /\ UNCHANGED <<reseed, loops, lapsed>>
       \/ /\ ~Empty /\ loops < MaxLoops
          /\ reseed' = (reseed \/ row.st = "Paused")
          /\ loops' = loops + 1 /\ lapsed' = FALSE
    /\ UNCHANGED <<late, row, saved, handing, active, w, engines, payload, real, spent>>

\* clear_torrent_session_cache
ClearCache ==
    /\ Given /\ cmd.pc = "none" /\ ~Blocking
    /\ Persist([row EXCEPT !.prev = None])
    /\ Unmark
    /\ Command("clear", row.st # "Gone" /\ row.known, FALSE)
    /\ UNCHANGED <<late, loops, handing, active, w, engines, payload, real>>

\* what the idleness check of the manager will go by
ClearGoesOn == [NoCommand EXCEPT !.pc = "clear_drop", !.blk = Blocking]

ClearTakes ==          \* forget_known_torrent_sessions: no engine is created
    /\ cmd.pc = "clear"
    /\ cmd' = IF cmd.known /\ cur # 0 THEN [NoCommand EXCEPT !.pc = "clear_forget", !.eng = cur]
              ELSE ClearGoesOn
    /\ UNCHANGED <<late, row, saved, active, reseeding, w, engines, payload, real, spent>>

ClearForgets ==        \* a failure is logged, and the clearing goes on
    cmd.pc = "clear_forget" /\ ForgetTaken(ClearGoesOn, ClearGoesOn)

DropSlot ==
    /\ cur' = 0
    /\ sess' = Alive(sess, {w.eng})
    /\ unforgot' = FALSE

ClearDrops ==          \* clear_if_idle; the directory goes even if the engine stays
    /\ cmd.pc = "clear_drop"
    /\ \/ FALSE \in Looked /\ DropSlot
       \/ TRUE \in Looked /\ UNCHANGED <<cur, sess, unforgot>>
    /\ kept' = "none"
    /\ CommandEnds
    /\ UNCHANGED <<leaving, took, row, saved, active, reseeding, w, fresh, payload, real, spent>>

\* save_settings, and refresh_runtime_settings' look at the jobs
ChangeSettings ==
    /\ Given /\ cmd.pc = "none"
    /\ fresh' = FALSE
    /\ Command("refresh", FALSE, Blocking)
    /\ UNCHANGED <<late, row, saved, active, reseeding, w, cur, sess, kept, payload, real>>

RefreshDrops ==
    /\ cmd.pc = "refresh"
    /\ \/ FALSE \in Looked /\ ~fresh /\ DropSlot
       \/ (TRUE \in Looked \/ fresh) /\ UNCHANGED <<cur, sess, unforgot>>
    /\ CommandEnds
    /\ UNCHANGED <<leaving, took, row, saved, active, reseeding, w, fresh, kept, payload, real, spent>>

Commanded == \/ RestartTakes \/ RestartForgets \/ RestartResets
             \/ RemoveWaits \/ RemoveTakes \/ RemoveForgets \/ RemoveDeletes
             \/ OpenWaits \/ OpenUses
             \/ ClearTakes \/ ClearForgets \/ ClearDrops \/ RefreshDrops
User == \/ Pause \/ Resume \/ Retry \/ Cancel \/ Restart \/ Remove \/ Open \/ ClearCache
        \/ ChangeSettings

-----------------------------------------------------------------------------
(* What the engine and the world do on their own *)

Unseen == <<row, saved, active, reseeding, w, late, cur, fresh, cmd>>

\* the payload is checked; mistakenly, an absent one can be found complete
EngineChecks(e) ==
    /\ sess[e].ph = "init"
    /\ \E fin \in BOOLEAN :
          /\ IF fin = (payload = "full") THEN spent' = spent ELSE fin /\ Empty /\ Mishap
          /\ sess' = [sess EXCEPT ![e].ph = IF sess[e].stop THEN "paused" ELSE "live",
                                  ![e].fin = fin]
    /\ UNCHANGED <<Unseen, kept, payload, real>>

EngineFetches(e) ==
    /\ sess[e].ph = "live" /\ ~sess[e].fin
    /\ payload' = IF payload = "part" THEN "full" ELSE IF payload = "full" THEN "full" ELSE "part"
    /\ sess' = [sess EXCEPT ![e].got = TRUE, ![e].fin = (payload' = "full")]
    /\ UNCHANGED <<Unseen, kept, real, spent>>

EngineUploads(e) ==
    /\ sess[e].ph = "live" /\ sess[e].fin /\ payload = "full"
    /\ sess[e].cnt < MaxUp /\ real < MaxUp
    /\ sess' = [sess EXCEPT ![e].cnt = @ + 1]
    /\ real' = real + 1
    /\ UNCHANGED <<Unseen, kept, payload, spent>>

\* an error; "stop" tells one of file access (is_external_reseed_file_access_error)
EngineFails(e) ==
    /\ sess[e].ph \in {"init", "live"} /\ spent.mishaps < MaxMishaps
    /\ spent' = [spent EXCEPT !.mishaps = @ + 1]
    /\ \E access \in BOOLEAN : sess' = [sess EXCEPT ![e].ph = "error", ![e].stop = access]
    /\ UNCHANGED <<Unseen, kept, payload, real>>

PayloadLost ==
    /\ payload # "none" /\ spent.mishaps < MaxMishaps
    /\ spent' = [spent EXCEPT !.mishaps = @ + 1]
    /\ payload' \in {"none", "beside"} \ {payload}
    /\ payload = "full" \/ payload' = "none"
    /\ UNCHANGED <<Unseen, sess, kept, real>>

\* the state a restart loads: the last one, but for a job that a failed save queued
Reloaded == {IF row.st \in Running THEN "Queued" ELSE row.st}
            \cup {st \in {"Paused"} : lapsed /\ row.st = "Queued"}

\* the app dies and starts again: normalize_job
Crash ==
    /\ spent.mishaps < MaxMishaps
    /\ spent' = [spent EXCEPT !.mishaps = @ + 1]
    /\ \E st \in Reloaded :
          row' = [st |-> st, began |-> row.began, known |-> row.known,
                  up |-> saved.up, prev |-> saved.prev, got |-> saved.got]
    /\ active' = FALSE /\ Unmark /\ loops' = 0 /\ handing' = FALSE
    /\ w' = IdleWorker /\ leaving' = FALSE /\ unforgot' = FALSE /\ cmd' = NoCommand
    /\ cur' = 0 /\ fresh' = TRUE /\ sess' = [e \in Engines |-> NoSession]
    /\ UNCHANGED <<took, saved, kept, payload, real>>

Engine == \E e \in Engines :
             EngineChecks(e) \/ EngineFetches(e) \/ EngineUploads(e) \/ EngineFails(e)
World  == PayloadLost \/ Crash

Next == Claim \/ Worker \/ HandOff \/ ReseedTick \/ User \/ Commanded \/ Engine \/ World

Spec == /\ Init /\ [][Next]_vars
        /\ WF_vars(Claim) /\ WF_vars(Worker) /\ WF_vars(HandOff) /\ WF_vars(ReseedTick)
        /\ WF_vars(Commanded)

-----------------------------------------------------------------------------
Rows == [st : States, began : BOOLEAN, known : BOOLEAN, up : Nat,
         prev : {None} \cup 0..MaxUp, got : BOOLEAN]
SavedCounters == [up : Nat, prev : {None} \cup 0..MaxUp, got : BOOLEAN]
Workers == [pc : WorkerSteps, eng : {0} \cup Engines, began : BOOLEAN, bare : BOOLEAN,
            restoring : BOOLEAN, known : BOOLEAN, src : BOOLEAN, tried : BOOLEAN,
            first : BOOLEAN, rechecked : BOOLEAN, upd : Sessions, access : BOOLEAN]

\* The type invariant.
TypeOK ==
    /\ row \in Rows /\ saved \in SavedCounters
    /\ active \in BOOLEAN /\ leaving \in BOOLEAN /\ took \in BOOLEAN /\ unforgot \in BOOLEAN
    /\ reseed \in BOOLEAN /\ handing \in BOOLEAN /\ lapsed \in BOOLEAN /\ loops \in 0..MaxLoops
    /\ w \in Workers
    /\ cur \in {0} \cup Engines /\ fresh \in BOOLEAN
    /\ sess \in [Engines -> Sessions]
    /\ kept \in {"none", "paused", "live"}
    /\ payload \in {"none", "part", "full", "beside"}
    /\ cmd \in [pc : Commands, blk : BOOLEAN, known : BOOLEAN, eng : {0} \cup Engines]
    /\ real \in 0..MaxUp
    /\ spent \in [commands : 0..MaxCommands, mishaps : 0..MaxMishaps]

\* What the app says the torrent has uploaded was uploaded, and a torrent is
\* completed by its seeding policy only after it has shared that much: no
\* retry, restore, restart or crash makes a counter that starts over count
\* twice (cumulative_torrent_runtime_bytes, should_stop_seeding).  (Not once a
\* worker has lost its slot to a late one: a restart then resets the counters
\* under it.)
SharesWhatItSays ==
    ~took =>
       /\ row.up <= real
       /\ row.st = "Completed" => real >= SeedTarget

\* A job marked for reseeding has a task that will try it: no command or worker
\* leaves a mark behind whose task is gone (begin_external_reseed,
\* schedule_external_reseed).  Only a task that could not save the job leaves one.
ReseedHasALoop == reseed => loops > 0 \/ handing \/ lapsed

\* However engines are replaced, deferred and dropped, the torrent is not
\* served twice: two engines would write the same files (TorrentEngineManager,
\* forget_torrent_session_for_restart).  A command that makes a new engine has
\* the torrent in two until it has it forgotten, or, failing that, until the
\* next worker takes that engine.
NeverServedTwice ==
    \A e, f \in Engines :
       sess[e].ph = "live" /\ sess[f].ph = "live" /\ e # f =>
          cmd.eng \in {e, f} \/ (unforgot /\ cur \in {e, f})

\* Cancelling or removing a torrent forgets its session, as docs/protocol.md
\* says; cancel_jobs does so only through a running worker.
DroppedIsForgotten ==
    row.st \in {"Canceled", "Gone"} /\ w.pc = "idle" /\ cmd.pc = "none" =>
       kept = "none" /\ \A e \in Engines : sess[e] = NoSession

\* A reseed promised after an open or reveal is tried, or given up by what
\* comes in between (queue_external_reseed_attempt, prepare_job_for_external_use),
\* unless a save of the task that would try it failed.
ReseedIsTried ==
    (reseed /\ row.st = "Paused") ~>
       (~reseed \/ row.st # "Paused" \/ (lapsed /\ loops = 0 /\ ~handing))
=============================================================================
