# Verification of the Simple Download Manager backend

TLA+ models of the desktop backend of Simple Download Manager (a Tauri
application in Rust, `apps/desktop/src-tauri/src`), TLC runs on small
instances, and TLAPS proofs of the main safety properties for every instance.
`PROJECT.json` lists the runs, maps every definition to the lines it models,
and lists the findings and the hazards with the properties that cover them.

File names below are relative to `apps/desktop/src-tauri/src`.

## 1. The system

| Component | Source | State | Operations | What is hard | What makes it correct |
|---|---|---|---|---|---|
| Scheduler wake-up | `state/scheduler.rs`, `download/mod.rs` | `SchedulerWakeState` (`running`, `pending`) behind a mutex | `schedule_downloads`, `run_scheduler_loop`, `complete_scheduler_run` | requests arriving during a pass; two callers at once | one loop; no request forgotten; no spinning |
| Download queue | `state.rs`, `state/{scheduler,runtime,progress}.rs`, `download/{mod,http,stream,policy}.rs` | `RuntimeState` behind an async RwLock: jobs, `active_workers`, admission defers | claim, start, mark, progress, defer, retry, complete, fail, auto-restart, pause after retries, finish interrupted | every worker is a task whose critical sections interleave with commands; slots are released by job id; saves happen after the lock | slots match workers; one worker per job; limits; user intent survives; freed slots are used |
| Commands | `state/jobs.rs`, `commands/mod.rs` | as above | pause, resume, cancel, retry, restart, remove, delete, clear, batches | two-section commands; failing saves; batches | commands and workers do not undo each other |
| Disk clean-up | `state/jobs.rs` | `removal_state`, clean-up tasks | mark, wait for release, delete, finish, record failure | time-out against a slow worker; a claim in between | never deletes under a worker; always ends |
| State storage | `storage/mod.rs`, `state/lifecycle.rs` | `state.json`, `.tmp`, `.bak`, last-good, snapshots | `persist_state`, `load_persisted_state_with_recovery` | overlapping saves, crash between renames, I/O errors, damaged files | atomic and durable saves; recovery |
| Restart normalisation | `state/runtime.rs` | jobs as loaded | `normalize_job` | state of jobs at the crash | every job resumable, and in agreement with files and sessions |
| Bulk archives | `download/bulk_finalize.rs`, `state/progress.rs`, `download/http.rs` | `BulkArchiveInfo` on each member; files at their targets, in a staging folder, in the output | ready, plan, extract, move, roll back, publish, report, Fix archive | last members finishing together; deletion during the work; failing moves; crash between two renames | one finalizer; no member lost; a completed archive is whole; no archive stuck |
| Hoster fairness | `state.rs`, `state/scheduler.rs`, `hosters.rs` | a health record per worker, an adaptive controller per origin | claim pass, report, reconcile, archive windows, rescue | admission by records that commands drop and averages that lag | the limit of the mode holds; every part is started |
| Segmented download | `download/segmented.rs`, `download/types.rs`, `download/http.rs` | segment ranges, worker tasks, partial file, sidecar `.meta` with backup | gate, plan, split, claim, stream, save, reconnect, finish, resume | many workers over one file; abort between two renames; crash; a remote file that changes | the journal never claims what is not on disk; ranges tile the file; what completes is whole |
| Segment budget | `download/http.rs`, `download/segmented.rs` | leases per origin; the throughput controller of an attempt | reserve, grow, shrink, expire; try, accept, guard, roll back | leases outliving workers; decisions on old samples | budget kept; workers covered by leases; a rejected count rests |
| Enqueue and prompts | `state/enqueue.rs`, `prompts.rs`, `state/paths.rs`, `commands/mod.rs` | queue, prompt registry, prompt window | enqueue, duplicates, policies, batches with roll-back, decide, dismiss, time out | decisions on an old view of the queue; one window for many requests | no two jobs on one file; no prompt abandoned on the screen |
| Torrents | `torrent.rs`, `download/torrent*.rs`, `state/torrent.rs`, `download/mod.rs` | row with counters, engine slot, sessions, reseed set | add, restore, recheck, seed, restart, remove, open with reseed, settings, clear cache | external engine whose counters restart; waits of commands; two engines | counters tell the truth; one engine serves; a promised reseed is tried |
| Browser hand-off | `ipc/mod.rs`, native host, extension | pipe, waiting hosts, handlers | validate, limit, trust, forward, prompt, adopt, answer | deadlines at both ends that race the answer | what the browser is told is true |
| Settings, diagnostics, UI, updates | the rest | — | — | sequential | — |

How they interact.  A command (or the start of the application, or a worker
that ends, or a delayed wake) changes `RuntimeState` in a critical section,
takes a copy of what is to be saved, leaves the lock, calls `persist_state`,
and calls `schedule_downloads`.  The scheduler loop claims queued jobs into
`active_workers` and spawns one task per job.  The tasks go back to
`RuntimeState` at every step and learn of commands only by polling
`worker_control`.  Deletion from disk marks the job and spawns a clean-up
task that polls until the worker has let go.

## 2. Modules

| Module | Models | Role |
|---|---|---|
| `WakeContract` | the promise of `schedule_downloads` | abstract specification |
| `SchedulerWake` | the wake-up protocol | refines `WakeContract` |
| `DownloadQueue` | queue, scheduler, workers, commands, clean-up | component |
| `DownloadQueue_proofs` | | proofs |
| `AtomicStore` | what a save promises | abstract specification |
| `StateStore` | `persist_state`, start-up load, crash | refines `AtomicStore` |
| `StateStore_proofs` | | proofs |
| `BulkArchive` | archives of members that become one folder | component |
| `BulkArchive_proofs` | | proofs |
| `SegmentedDownload` | one segmented HTTP download: file, journal, workers, resume | component |
| `SegmentedDownload_proofs` | | proofs |
| `SegmentAdmission` | connection leases and the adaptive number of workers | component |
| `SegmentAdmission_proofs` | | proofs |
| `BrowserHandoff` | native host, pipe, prompts, enqueue | component |
| `BrowserHandoff_proofs` | | proofs |
| `TorrentJob` | one torrent: row, worker, engines, commands | component |
| `TorrentJob_proofs` | | proofs |
| `HosterFairness` | admission of archive parts to a protected hoster | component |
| `Scheduler_proofs` | | proofs about `SchedulerWake` and `HosterFairness` |
| `MC*` | | instances for TLC |

### 2.1 SchedulerWake

`running` and `pending` are the two flags; `caller[c]` is where a thread is in
`schedule_downloads` (it has won the run and has not spawned the loop yet);
`runner` is the loop (`claim` before the claim of a pass, `complete` between
the claim and `complete_scheduler_run`).  One action per mutex section or
spawn.  `owed`, a history variable, holds the callers whose request no claim
has followed; it is what `WakeContract` shows.  The module's specification is
`WakeSpec`, since `Scheduler_proofs` extends it together with `HosterFairness`.

### 2.2 DownloadQueue

One action per critical section of `RuntimeState` or per effect outside of it
(opening, moving or deleting the partial file), so every await of the code is
an interleaving point.  `jobState`, `removal`, `active`, `deferred` are fields
of `RuntimeState`; `sched`, `pending`, `tasks` the scheduler (the two flags of
`SchedulerWake` appear here in one step each, which that module justifies);
`wpc`, `wjob`, `wpurge` the worker tasks, with the program counters listed in
the module; `cleanup` the clean-up task of a job; `halfDone` a command between
its two critical sections (`cancel_jobs`, `retry_bulk_members`).

A failed save is a `Fault`: the state stays changed and the operation returns
an error, as in the code.  What follows is different each time: a claim loses
its tasks, a completion turns into a failure, a command skips its wake.

`Crash` ends the application at any step and starts it again: rows and partial
files stay, slots, defers, timers, tasks and half-done commands are gone, the
rows go through `Normalized` (`normalize_job`), and the start schedules once.
It is left out after a `Fault`, when the rows on disk are older than those in
memory; a crash between a critical section and its save is a crash before the
section.  So `CleanupEnds` says that an interrupted deletion comes back as a
failed one, and `SchedulableIsServed` that an interrupted download is queued
and started again.

Two history variables make the exceptions explicit. `dropped` is the set of
jobs whose claim was lost to a failed save. `early` is the set of jobs whose
slot some operation gave up before the worker that held it was done. The
properties hold for all other jobs, and the actions that add to `early` are
the complete list of ways to break them:

- `PauseRecoverably`: pause after the last retry releases, and
  `FinishInterrupted` releases again;
- `CompleteJob`, `Defer`, `AutoRestart` when their save fails after the
  release, and `AutoRestart` for a job that was removed;
- `Remove` of a canceled job that still has a worker;
- `RetryBulkCommit`, which releases before it looks at the state;
- `CleanupFails` after a time-out, and `CleanupDone`.

Abstractions: HTTP jobs on a single stream; no seeding; bulk members without a
hoster admission policy; any queue order; constant limits; batches on one job
at a time; the end of a command's critical section, its save and its wake are
one step, and so are a worker's critical section and its save; the partial
file of a removed job goes in the same step; the removal block of a bulk
archive that is being finalised is left out; bulk archives stay pending.

### 2.3 StateStore

Each step is one file operation of `persist_state` or `write_recovery_copies`
by one of several calls under way; `ver[c]` is what call `c` captured. A file
holds a version, is `Torn`, or is `Absent`; `File::create` and `fs::copy`
truncate first, so a file is torn between its two steps. `Error` ends a call
at any file operation, `Crash` ends the process at any point, `Damage` makes
a file unreadable. `Start` is the load at start-up, with its quarantine and
the initial save.

Abstractions: a version is the number of the critical section that captured
it; progress saves are just fewer captures; serialisation does not fail; an
error while snapshots are pruned leaves them all; pruning by age removes any
older suffix of those that can be read (`Valid`); rename is atomic. `Damage` does not strike while a call is between publishing and
the end of its copies: the copies are taken from `state.json` and not checked,
so damage at that moment would be copied into the last-good file and into the
snapshot.  A consequence of the recovery order that the model shows: `.bak`,
which is one save older, is preferred to the last-good file even when the
latter is newer.

### 2.4 BulkArchive

`row[m]` is the job of a member as far as an archive can tell (not queued,
listed and not Completed, Completed, removed); `after[m]` is its worker between
the critical section that completes the job and the one that looks at the
archive; `status` is `BulkArchiveStatus` with the two messages by which a
Failed archive says that it was interrupted or canceled; `at[m]` is the set of
places where the member's data is, `output` the archive whose folder is at the
output path; `cleanup[m]` and `takesOutput` are the clean-up task of a deleted
member and the output path that it captured; `pc[f]`, `arc[f]`, `left`, `moved`
and `copied` are a `create_bulk_archive_from_ready` task and its entries;
`permit` is the I/O governor.

The finalizer moves one entry per step, since each is a rename or a copy that
may fail and the process may die between two of them.  Its progress task
(`Progress`) writes the status at any time while it runs, and `Report` stops it
before it writes the end, as the code does.  The user's commands see the rows
only: `Delete` marks an archive as canceled and tells nobody, `Reopen` looks at
the job and not at the archive.

Four history variables name the exceptions that the properties have:
`deleted` (members the user asked to delete), `lost` (data that went without a
look inside: a roll-back that could not move an entry back, a staging folder
that a crash left behind, a foreign output that a clean-up took for its own),
`canceled` (archives deleted from while they were finalized) and `thinned`
(archives that lost a row while pending, which nobody looks at again).

Abstractions: all archives have the same output path, where they can meet;
archives with different paths meet at the permit only.  An extraction reads
the sources and leaves them, so it is a copy.  The statuses of a running
finalization are one.  A failed save costs the operation its answer, and the
state reaches the disk with the next save.  The clean-up works per member,
and a member whose clean-up is running is not deleted again.  Members with one
target path, names of entries and the change of the output category are left
out.

### 2.5 SegmentedDownload

`part` is the partial file, block by block, each block the version of the
remote entity it came from or `Hole`; `meta` and `bak` are the sidecar and its
backup; `segs`, `active`, `wk`, `stop` and `target` are the memory of an
attempt (`SegmentedDownloadState` behind its mutex, the worker tasks, their stop flag
and the number of workers wanted); `side` is the sidecar write in progress, one
step per file operation of `persist_segment_state`, with whoever holds the
journal lock.  `phase` follows the attempt from the gate in `http.rs` (resume,
start anew, or refuse) over plan, workers, joins and the grace period to the
report; `Crash` is possible at every step and keeps the files only.

A worker's two kinds of knowledge are apart: what it has written (`part`), what
it has recorded (`segs[i].got`), and its own copy of its segment (`wk[w].hi`),
which a split may change under it.  `misled` names the one exception of three
properties: the loader takes a surviving sidecar also for a partial file that
is not the one it was written for (`refresh_segment_completion_from_disk` does
not compare claims with the length of the file), so that claims of an old file
are believed.  The sidecar is a backup beside a new and empty file, or the
primary one where `cleanup_partial_artifacts` could not remove it (the failure
is ignored, `download/segmented.rs:3514`) and a single-stream attempt filled
the file meanwhile.

Abstractions: all versions have one length and strong validators; a crash of
the process, not of the machine; a file operation of an aborted task that is
under way finishes; a single-stream resume stores no validators; no throttle
and no reporter.  A block is the unit of buffering, and leases are counted in
blocks.

The queue of segments is the one production runs: a lease is as large as
`Lease` says for what remains of the file (`dynamic_segment_tail_lease_size`,
whose tiers the models leave open), `ProbeCap` cuts it while a trial of more
workers runs, and a claim takes any of the two, since the trial itself is
SegmentAdmission's.  The proofs need nothing of `Lease` but that it is positive.
The branch that halves segments
(`split_largest_pending_segment_by_halving`) is left out: the one profile in
`download/policy.rs` always leases, so only a call without a profile, as in the
tests, would reach it.  The workers that a ramp adds are SegmentAdmission's
too; here their number is that of the plan.

A row that asks for a restart can be resumed by the user all the same, and goes
through the gate again.  A single stream that finds a file of full length asks
for a range past its end and is refused, whatever the file holds
(`ConnectPastEnd`).

### 2.6 SegmentAdmission

`leases` is the broker's map, `stale` the leases past their thirty minutes, and
`ctl` the counters of `AdaptiveSegmentAdmission`: the ramp at the start, the
trial of more workers against a baseline, the guard that watches an accepted
trial, the probe, and for each worker count how long it rests after a failure.
A sample of throughput (1..`MaxSpeed`) is chosen anew each time; what the code
decides from it is one action per branch.  Deciding to grow and growing
(`phase = "admit"`) are two steps, since the code leaves the controller between
them, and a reduction may come in between.  `shed` is a history variable: the
attempt rolled back and has workers that end with their segments.

`BudgetRespected` is about leases.  `OriginConnectionsLimited`, which is about
connections, is refuted by TLC (section 5).  `RejectedCountRests` names two
ways around a rest that the code has: the broker grants fewer connections than
were asked, and the rest is looked up for the count that was asked; and a
startup probe that was put off until a trial had failed.  With the general
profile (4 initial, 4 soft, 8 at most, steps of 2) the guard after an accepted
trial is reached only when the broker grants an odd count; the instance ramps
in steps of one and so reaches it freely.  The reduction after two windows of
regression is not reached in the instance either.  After a reconnect
during a trial the trial is never resolved.

### 2.7 BrowserHandoff

A request goes through `host` (the native host: it starts the app, writes to
the pipe and waits ten seconds), `h` (the handler in the app), and, for a
prompt, the registry: `active` is the prompt on the screen, `order` the line
behind it, `prompts` both, `mail` the channels by which decisions arrive.
`window` is the prompt window, `s` what an enqueue works on (rows, files,
partial files), `found` and `choice` what the handler remembers from the time
when the prompt was prepared and from the decision.  `EnqueueOutcomes` is the
whole of `enqueue_download_in_memory`: validation, duplicate by URL or path, the
three policies, overwriting, allocation of a path, and every way to fail in
between: a destination that cannot be used, a target that is deleted while its
partial file cannot be (`HalfOverwrite`), and the partial file of a replaced row
that stays behind because nobody looks whether it could be removed
(`RemoveDuplicate`, `state/enqueue.rs:496`).  Captures of the popup and of the
context menu (`enqueue_by_user`) are enqueued without a prompt, duplicate or not;
those of the automatic mode ask when they are duplicates (`PromptOrEnqueue`).
`AddBatch` runs through its entries (`BatchRun`) with the roll-back
of all.  The code tries ten thousand spellings of a name before it gives up;
the model has at least as many (`MaxIndex`) as rows.

`contested` names the rows to which `PathsAreDisjoint` and `RunningKeepsItsPart` do not
apply: an overwrite matched by URL takes the base path of its name even where
another row lives; an adopted file lies where a row downloads to; two names
that differ only in case are one file on Windows and two for
`allocate_target_paths`.  `unsaved` names the rows whose save failed after they
were pushed: the browser is told of an error and the row is downloaded.

Abstractions: no credentials, torrents, checksums or archives of a batch; no
restart of the app under a waiting host; `start_paused` only gives another
state; closing the prompt window and the race of its close event with the next
prompt are one action; the save is one step after the lock (its order is
`StateStore`'s subject); the roll-back of a batch does not bring back files an
overwrite deleted, as in the code.  A prompt keeps one of the four pipe
instances until it is answered (`PipeBusy`).

### 2.8 TorrentJob

`row` is the job with its counters, `saved` its copy on disk, `w` the worker
with its step, its engine and its locals, `cur` and `fresh` the slot of
`TorrentEngineManager`, `sess[e]` what engine `e` knows of the torrent, `kept`
the session in the directory `torrent-session`, `cmd` a command between its two
critical sections, `reseed`/`loops`/`handing` the automatic reseed after an
open or reveal.  librqbit is external: `EngineChecks`, `EngineFetches`,
`EngineUploads` and `EngineFails` do on their own what `torrent.rs` asks for
and reads back, and the counter of a session starts at zero when the engine is
new.  `real` is the history the counters are compared with.

A command that wants the torrent forgotten takes two steps
(`forget_torrent_session_for_restart`, `download/mod.rs:498`): `TakeEngine` gets the
manager's engine or makes one, which restores the session from the directory, and
`ForgetTaken` has it forgotten.  Engines, worker and world act in between, so
the restored session may serve while a worker serves it too.
`NeverServedTwice` is therefore about engines other than the one a command has in
hand, and `unforgot` is its second exception: the forgetting failed and
the engine stays in the slot, until the next worker takes it or it is dropped.

A reseed loop ends when it cannot save the job it has just queued
(`download/mod.rs:545`, `state/torrent.rs:258`), and the mark in
`external_reseed_jobs` stays with no loop behind it.  `lapsed` says that this
happened, and is the exception of `ReseedHasALoop` and `ReseedIsTried`; a restart after
it may find the row Paused, as it was saved, or Queued (`Reloaded`).

The history `took` names the exception of `SharesWhatItSays`: a worker whose payload
disappeared lets its slot go in `pause_torrent_payload_disappeared` and again in
`finish_interrupted_job`, the second time perhaps that of its successor.  What
the two then wrote into the row outlives a crash, so `took` does.

Abstractions: magnet links; one worker at a time, and one command; a worker's
own engine can always be made; no save fails but that of the reseed loop; sizes in units; the numbers
the watchdogs weigh are free choices; an engine may take an absent payload for
complete, which counts as a mishap; removals end the model and do not count as
commands; only time-outs of adding are retried, as often as there are mishaps or
until the retries are used up.

Other things the model shows, which no property rules out: clearing the cache,
new settings or a restart can empty or replace the slot under a worker that
was just claimed; a paused row whose session is live in the engine goes on
downloading; removing a row that never learned its identity leaves the session;
a second open after one that timed out neither waits nor reseeds; an open that
fails, or a crash, loses the automatic reseed; `begin_external_reseed` overrides a
pause given during the wait of an open; `update_torrent_progress_result` keeps
no interrupted state but Paused.

### 2.9 HosterFairness

`state` and `slot` are the jobs and `active_workers`, `health` the records
(`BulkHosterWorkerHealth`: ages, healthy samples, low speed), `ctl` the
controller, `deferred` the admission defers, `wake` whether a pass is due.
`Pass` is one call of `claim_schedulable_jobs_for_scheduler` as one origin sees
it: metrics of the workers, `Reconcile`, windows of the archives with the
throughput rescue, protection of a part that is about to finish, and `Consider`,
folded over the queue in its order.  `Tick` ages the records; ages that no
comparison tells apart are capped.  `PauseAll` and `ResumeAll` are the
commands for all jobs (`state/runtime.rs:70`), which drop the records of all workers,
the controller and all defers; `OtherWake` is any request for a pass from outside
of the origin.  `revived`, `unseen` and `quiet` are histories for the named
exceptions.

Exceptions of `OriginWithinCeiling`: pausing drops the record, so a worker that
runs on after a pause and a resume is not counted (`revived`); and resuming all
jobs drops the records of workers that were never paused (`unseen`), and these run
on to their end without being counted.  In both ways the safe mode can have two
workers.  Exceptions of `EveryPartStarts`: an earlier part that is paused, failed or
without a worker keeps its place in the window of its archive and blocks all
later ones; and the command that cancels a selection (`commands/mod.rs`
`cancel_jobs`, used by the batch window) asks for no pass, unlike the one for a
single job, so that later parts stay queued until something else asks.

Also seen: a deferred part holds back its whole origin for the pass; the finish
protection goes by the index of the job and not by the number of the part; the
baseline of aggregate speed remembers workers that are gone.

Abstractions: one origin, settings that do not change, the averages of speed
free (`PressureSeen`, `near`); a grace shorter than a tick lasts to its end; the
throttle for newer workers (`hoster_priority_throttle_decision`) is left out, as is
`datanodes_priority_defer_until`, which only tests fill.

## 3. Runs

| Run | Instance | Shows | Distinct states |
|---|---|---|---|
| `wake` | 5 callers | one scheduler, no forgotten wake, the loop comes to rest, refinement of `WakeContract` | 177 |
| `queue_one_job` | 1 bulk member, 2 workers, 2 commands, 1 failed save, 1 restart | slots, workers, revival | 1.6 M |
| `queue_two_jobs` | 2 jobs, limit 1, 2 workers, 1 command | limits bound workers, no lost wake | 1.1 M |
| `queue_liveness` | 1 bulk member, 2 workers, 1 command, 1 restart, fairness | service, interruption, clean-up, also across the restart | 100 k |
| `store` | 2 overlapping calls, 3 versions, 2 crashes, 2 errors, 2 damaged files | atomicity, durability, recovery | 3.0 M |
| `bulk` | 2 archives of 2 members under one output path, 2 finalizers, 2 events (commands, errors, crashes) | no member lost, one finalizer, no archive stuck or half, the completion is noticed, the permit | 600 k |
| `fix_archive` | one archive of two members, one crash | a message of the application that the code does not keep | stops at the violation |
| `segmented` | 3 blocks, 2 workers, 2 versions of the remote file, 2 events (crash, pause or cancel, error) | the journal can be trusted, work is partitioned, what completes is whole, no hole is forgotten | 860 k |
| `admission` | 1 attempt and 1 rival on one origin, 7 connections in all and 6 per origin, 2 to 6 workers, 3 speeds | budget, leases cover workers, rejected counts rest | 1.2 M |
| `handoff` | 1 browser request of 4 kinds, 1 test prompt, a batch of 2, 2 spellings of one name, 3 rows | paths disjoint, partial files kept, true answers, no abandoned prompt | 1.2 M |
| `torrent` | 2 engines, 2 commands, 1 mishap (engine error, lost payload, time-out, failed save of a reseed loop, a session that cannot be forgotten, crash), 2 reseed loops, a policy of 2 units | counters, reseed, one server, the reseed is tried (fairness) | 655 k |
| `fairness` | 3 parts of 2 archives, 2 slots, 6 starting situations over the three modes with 0 to 2 commands, for one job or for all | the ceiling of the mode, every part is started (fairness) | 290 k |

Why the bounds are enough.  `wake`: the protocol has two flags and one
runner, so the fifth caller can only repeat a role.  `queue_one_job`: every
violation of the slot discipline needs one job, its present worker and at most
one successor (the limit is two, so that a second worker would find a slot);
two commands are what it takes to interrupt and revive it; one restart brings
back every state a second one could, since it keeps rows and partial files only.  A worker that finds
no free name waits, which only delays.  `queue_two_jobs`: two jobs and one slot are the smallest competition; the limit is reached at once.
A failed save is left to the first run and the proofs.  `store`: two calls
suffice for any overtaking since the mutex admits one at a time; three
versions give an old, a backed-up and a new one; the snapshots are pruned at
one, so pruning happens after the second save.  `bulk`: two members are the
fewest that make an archive; two archives are the old and the new one of a
name; two finalizers are a canceled one and its successor; two events are what
an interrupted or failed archive and its repair take.  Where TLC's instance
could be too small, the safety properties below are proved without bounds.

`segmented`: three blocks and two workers are the fewest with a split, a
segment waiting and a claim of both; two versions are an old and a new remote
file; any two of crashes, signals and errors combine to every interrupted
write, a resume after it, and that resume interrupted again; a lease of two blocks while three remain and of
one after that has both sizes, and the capped one, cut.  `admission`: one rival is the fewest that take
budget away; three speeds give better, worse and no change against a baseline;
the rest of a rejected count reaches its cap; `MaxWorkers` is one above the
profile's maximum, so workers of a roll-back and of a new ramp overlap.
`handoff`: a request and the test prompt give a prompt on the screen and one
in the line, one with a timer and one without; three rows are a duplicate, its rival on the
same path and a new one.  `torrent`: two commands are what it takes to interrupt
and revive or to reset under a wait; a policy of two units lets a counter start
over before it is met; two reseed loops are the fewest of which one can end while
the other goes on for the same job; two engines are enough, since a new
one takes the place of the slot's, and of the worker and the command only one
holds another while it is made.  `fairness`: three parts are an archive with an earlier and
a later part, in the wrong order in the queue, and a competitor; two slots are
the fewest in which a target can rise and fall; windows of one tick are the
shortest that a worker can be inside of and past.

Deadlock is checked for `wake`, whose callers can always ask, for `segmented`,
where a finished download stutters, and for `admission` and `fairness`, which
never stop.  The others stop where their bounds stop them (no commands left,
nothing queued; no versions and no crashes left; all archives settled; every
request answered; the torrent removed), so they say `CHECK_DEADLOCK FALSE`.


Fairness.  `SchedulerWake`: the runtime polls spawned tasks, so `Spawn`,
`Claim` and `Complete` are weakly fair; nobody is obliged to ask.
`DownloadQueue`: every step a task takes without network or user is weakly
fair, timers fire, and the poller polls (`FairSpec`).  A transfer is not
obliged to progress, finish or fail; requests have time-outs, so an attempt
does not stay in preparation forever.  `GiveUp`/`Exhausted` are strongly fair
because `max_retry_attempts` bounds the retries of a download, which the model
does not count.  The liveness properties are stated for executions without
failed saves, since a command whose save fails returns before its wake.
`TorrentJob`: the claim, the worker's own steps, the hand-over to the reseed task,
its timer and a command that has begun are weakly fair; the engine, the user and
the world owe nothing.  `HosterFairness`: a pass that is due runs (only a pass
takes the request back, which is how its fairness is written), a defer expires,
and a worker ends at last, because transfers that bring nothing are cut off by
the stall and low-speed limits and fail after their retries.  Reports are not
fair: that no further part is held back forever does not depend on them.

## 4. Proofs

Every safety property of every run is also a theorem, for all values of the
constants, and so is the type invariant of every component.  The modules with
proofs take nothing on trust but the library's facts about finite sets and
well-founded relations, and the named assumptions on constants, which TLC
evaluates in the runs:

- finite sets of jobs, workers, archives and parts; limits and sizes positive;
  bounds natural numbers; markers (`None`, `Absent`, `Torn`, `"nobody"`)
  different from what they mark;
- `SegmentAdmission`: a policy starts at no more connections than it allows
  (`InitialSegs <= SoftMax <= MaxSegs`, `HosterInitial <= HosterMax`, true of
  every policy in `hosters.rs`), a cooldown is no longer than its maximum;
- `BrowserHandoff`: no more rows are made than a name has spellings
  (`MaxIndex >= MaxJobs`);
- `SegmentedDownload`: no more workers than blocks, as the plan guarantees;
- `HosterFairness`: no two parts of an archive have one rank (their ties are
  broken by the index in the code), and a hoster needs no fewer healthy
  samples when it is an accelerated one.

### What is proved, and from what

**`Scheduler_proofs`.**  `OneSchedulerAtATime`: the invariant relates the flags,
the runner and the one spawning caller, and is inductive with the types.
`WakeNeverForgotten` follows from it.  `SafeContract`: each step maps to `Ask`,
`Sweep` or a stutter of `WakeContract`.  `TypesHold` and `HosterIsSpared`
(`OriginWithinCeiling`): the property counts workers by their slots and a pass
by the health records, so it is not inductive. `FairInv` adds that every worker
with a slot runs its job and has a record, unless its job was paused or
canceled under it (`revived`) or all jobs were resumed while it ran (`unseen`); then whoever is counted is seen by the pass
(`Watched`), and `PickedFits` shows, by induction over the rounds of the pass,
that what it picks beside those it sees stays within the largest window any
archive may have (`WindowsFit`, the rescue included).  That the order the pass
walks exists at all is `OrderExists`: counting who comes before whom sorts the
jobs.

**`DownloadQueue_proofs`.**  `TypeCorrect`; `SlotsAreOwned`, `SlotsAreKept` and
`OneWorkerPerJob` from one inductive invariant.  None of the three is
inductive alone: that a job has one worker needs that a holder sits in its
slot (the claim looks only at `active`) and that a claimed job has no holder
yet; that a slot has an owner needs that a worker reaches `exit` only past a
release.  `LimitsBoundWorkers` adds that the occupied slots of a class never
exceed its limit, and maps the workers of a class one to one into its slots.
`RevivalsAreKnown` is an action property: every step but a user's and the two
named ones of a worker (`RevivedByWorker`) leaves a paused or canceled job as it
is, a restart included.  `WakesAreNotLost` needs `WakeInv`: while no save
failed, no claim was dropped, every deferred job has its timer, and a claimed
job that is no longer to run, so that its task gives the slot back without a
word, has a scheduler run pending.

**`StateStore_proofs`.**  `SavingIsAtomic` and `AckedIsDurable` rest on `DiskInv`:
the mutex is exclusive, and at each stage of a call it is known what the files
hold, so that what a start would load (`OnDisk`) is unchanged by every step
but the publishing rename.  The stages are needed because after `BackUp` the
version on disk is found in `.bak`, and before `Publish` the temporary file
must hold what the call captured.  `HistoryIsKept` and `DamageCostsLittle` speak
of damage, where `DiskInv` says nothing, and rest on `CopyInv`, which says per
stage of a call what the last-good copy and the snapshots hold.  `Survival`
counts three kinds of copies, `state.json` with its backup, the last-good copy
and the snapshots, and says how many of them are left after how much damage;
the last-good copy counts only where no crash or failed save may have torn it.
`Freshness` says how new they are, unless a call overtook an older one: the
last-good copy and the newest readable snapshot cover every acknowledged
version, the backup every one but the last, so that one damage costs at most
one save.  The bound on snapshots in `TypeCorrect` needs what pruning returns
(`PrunedSnapshots`).

**`BulkArchive_proofs`.**  `Invariance` of one inductive invariant, and from it
the six safety properties of the run.  `MembersSurvive` is not inductive: a
`DropFolder` or a `Sweep` removes a copy, which is harmless only because of
`InHand` (what was copied still has its source; nothing is in the folder but
what the finalizer has in hand), and `Sweep` only because what was copied is
in the output.  `InHand` of one finalizer survives the steps of another one
because the permit keeps them apart (`PermitDiscipline`).  `CompletedIsWhole`
needs `Covers`: the entries a finalizer read are all rows of its archive,
though rows are removed and reopened meanwhile. `OneFinalizer` needs that an
archive being worked on is shown so (`Exclusive`), `CompletionIsNoticed`
that whoever left the list while the archive was pending is in `thinned`
(`GoneIsThinned`).

**`SegmentedDownload_proofs`.**  `TypeCorrect`, `JournalStaysBehind`,
`WorkStaysPartitioned`, `CompletedStaysWhole`, `HolesAreKnown` from one
invariant over all phases of an attempt.  `JournalsOK` says that both sidecars,
the one being written and the memory of the attempt tile the file; `HeldOK` that
every block one of them claims is in the file, in the version of the remote
entity it was made for.  `SideOK` follows the write of a sidecar from file
operation to file operation, since a crash or an aborted task may stop it at any
of them; `HoldersOK` ties the copy a worker has of its segment to the segment,
which a split may have shortened, and keeps two workers off one segment;
`ControlOK` says what an attempt has in memory in each phase, `FilesOK` what
the partial file then is.  `CompletedStaysWhole` needs `SealedOK`: what is being
renamed has only complete segments, which with `HeldOK` and the tiling fill the
file.  `HolesAreKnown` needs `KeptOK`: a segmented file at work keeps a
sidecar, or its backup while the two change places.

**`SegmentAdmission_proofs`.**  `TypeCorrect`; `BudgetsHold`, where the sum of
the leases is the cardinality of a set of connections, so that facts about
finite sets apply to it (`Within`); `WorkersAreLeased`, where `CoverInv` says
that the lease is for exactly the admitted workers, those that do not run yet
included, and that they are within the cap; `RestsAreKept`, an action property,
where `AdmitInv` says that a ramp that was decided on may still begin its trial
when it is carried out, several steps later: its count does not rest.

**`BrowserHandoff_proofs`.**  `TypeCorrect`; `PathsStayDisjoint` and `PartsAreKept`
from `StoreInv`, which every outcome of an enqueue keeps, with `Room`: each row
takes one spelling of a name at most, so a free one is left and
`AllocateTarget` finds it (a counting argument over `Taken`). A batch is an
induction over `BatchRun`.  `AnswersStayTrue` needs `MadeInv`, which relates what
a request was told, where its handler is, and the rows made and not saved:
a handler that saves has made its row, only a made row is told as queued, and
a refusal ends the handler with no saved row.  `PromptsAreResolved`, the safety
part of the promise about prompts, needs `LineOK` (the registry is its line,
with each prompt once, and the active prompt apart, and each has a handler) and
`MailInv` (a decision on its way goes to a handler that still waits, and its
prompt has left the registry).

**`TorrentJob_proofs`.**  `TypeCorrect`; `ServedOnce` from `EnginesOK`: a worker
holds an engine from its first step with it to its last, and a session is in
the worker's engine or, when none is held, in the manager's slot; or in the engine
that a command has taken and has not had forgotten yet, or in the slot's after
that failed.  `MarkedHasATask`, with `lapsed` for the failed save.
`SaysWhatItShared` needs what the worker and the row know of the torrent
(`WorkerKnows`, `RowKnows`) and `CountsOK`: reading the worker's session, whose
counter started over with its engine, would not make the row say more than was
uploaded, even leaving out what the slot's engine uploads beside it meanwhile
(`Elsewhere`); `CumulativeAtMost` is the arithmetic of it.

### How data is reasoned about

The library's induction theorems take an operator as a parameter, which no
installed prover can instantiate.  Where an argument over data needs
induction, the modules prove that a set of natural numbers has a least element
(`LeastOf`, from `WFMin` and the well-foundedness of `<`), and from it that a set
with 0 that is closed under successor has all (`Induct`).  That is first order,
so it serves for recursive functions: `BatchRunExists`, `FoldExists` and
`SumsExist` (the library's sum over a set) show that a recursion has a solution,
and further inductions what it computes.  No module with a proof reaches a
RECURSIVE operator.

### What proving has found

- `NoLostWake` as first stated was false for two bulk jobs: `RetryBulkCommit`
  gives the slot of a claimed job away whose task is not spawned yet, and the
  run's instance was too small to show it.  `WakeAhead` names that task.
- `took` has to survive a crash, and `misled` has a second way (a left-over
  primary sidecar, found with a second crash, when the run had one).
- `HosterInitial <= HosterMax` and `MaxIndex >= MaxJobs` are needed: without them
  an attempt would start above its policy, or two rows take one path.

### Only model-checked

Liveness and the fairness argument, which TLAPS does not reach:
`SchedulerRests`, the fair half of `ImplementsContract`, `SchedulableIsServed`,
`InterruptedWorkersStop`, `CleanupEnds`, `ReseedIsTried`, `EveryPartStarts`.
The statements of section 5 are false, so there is nothing to prove.

## 5. Where code and statements disagree

The run `fix_archive` keeps one such case; its finding in `PROJECT.json` quotes the
message.  An archive interrupted between two moves asks for Fix archive, which
then misses the files that were moved (`InterruptedIsFixable`).

The modules state nine more properties that someone promises and the code does
not keep.  Each is refuted by TLC when it is added as an INVARIANT (PROPERTY for
`PausePreserved`) to the cfg of the module with the smallest numbers that let
the case happen:

1. `DownloadQueue!ActiveJobLimit` (the settings page: "Active job limit."): a
   pause after the last retry gives the slot back in
   `pause_job_after_retry_exhaustion` and again in `finish_interrupted_job`
   (`state/progress.rs:885`); after a quick resume the second one is the slot of
   the successor, and two transfers run under a limit of one.
2. `DownloadQueue!PausePreserved` (the test
   `mark_job_downloading_preserves_pause_requested_during_startup`): an admission
   defer queues a job the user has paused (`state/progress.rs:241`).
3. `DownloadQueue!DeleteWaitsForWorker` (`state/tests/destructive_cleanup.rs:1509`):
   a queued job that is deleted stays claimable; its files are deleted under the
   new worker (`state/jobs.rs:786`).
4. `DownloadQueue!RunningHasWorker`: the poller ends with its first signal, so a
   pause and a resume within one poll leave a job Downloading with no worker
   (`download/stream.rs:58`).  `SegmentedDownload` has a second way, its outcome
   `adrift`: a worker stopped by another worker's error is joined first.
5. `StateStore!ReviewMeansLoss` (the message of `storage/mod.rs:1412`): the first
   start of the application reports a history that could not be read.
6. `SegmentedDownload!PausedKeepsJournal` ("the existing atomic write",
   `download/segmented.rs:3416`): a pause makes the attempt abort its other
   workers, also one between the two renames of the sidecar; the resume finds
   no sidecar and asks for a restart from zero.
7. `SegmentAdmission!OriginConnectionsLimited` (the test
   `normal_download_segment_budget_limits_same_origin_connections`): a lease that
   neither grows nor shrinks is dropped after thirty minutes while its download
   still uses the connections, and they are granted again
   (`download/http.rs:196`).
8. `BrowserHandoff!TimedOutPromptIsResolved`
   (`docs/browser-extension-download-capture.md:44`, "Timeout resolves the prompt
   as cancel and advances any queued prompt."): `resolve` refuses every prompt but
   the active one, so a request that times out in the line leaves its prompt in
   the registry (`ipc/mod.rs:1632`).
9. `TorrentJob!DroppedIsForgotten` (`docs/protocol.md:137`, "Cancel/remove stops
   app tracking and forgets the torrent session"): only a running worker forgets
   the session; a paused torrent that is cancelled keeps it in the engine and in
   `torrent-session` (`state/jobs.rs:213`).

The models contain more of this kind, as named exceptions of the properties:
the auto-restart of a bulk member clears a pending removal (`AutoRestart`);
a finalizer is not told that its archive was canceled and overwrites that with
Completed (`Progress`, `Report`); a pending archive whose last unfinished
member is removed from the list, or whose last completion could not be saved,
is never finalized (`CompletionIsNoticed`); the three losses of
`MembersSurvive`; and `misled`, `contested`, `unsaved`, `took`, `unforgot`,
`lapsed`, `revived`, `unseen` and `quiet` of sections 2.5 to 2.9.

## 6. Plan

1. Done: wake-up protocol, queue with workers, commands and clean-up, storage.
2. Done: bulk archives, from the reservation of the output to Fix archive.
3. Done: segmented downloads and their connections, from the gate of an attempt
   to a resume after a crash.
4. Done: browser hand-off, prompts, enqueue; torrents; hoster fairness.
5. Done: every safety property of the runs and every type invariant proved.
6. Next: the refinements that are argued in words now: that `DownloadQueue`'s
   scheduler is `SchedulerWake` with one step per pass, and that its saves are
   `AtomicStore`'s; a second origin in `HosterFairness`, so that the bulk slots
   are shared.

### Not modelled

- A restart of the queue after a failed save, which needs the composition of
  `DownloadQueue` with `AtomicStore`.
- `rename_job`; batches of commands and clean-ups that stop midway; the
  hand-off credentials; a second process beside a running one.
- The throttle between workers of one hoster, and `hosters.rs`, which turns share
  pages into links: network and parsing without shared state.
- The HTTP client, file system helpers and the retry policy: their outcomes are
  nondeterministic choices of the worker's steps.
- Settings, diagnostics and the local recovery import: sequential.
- Windows, updates, notifications, packaging, the extension's user interface
  (no shared state with interesting interleavings), and the torrent engine
  itself (a library).
