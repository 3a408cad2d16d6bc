----------------------------- MODULE StateStore -----------------------------
(***************************************************************************)
(* How the queue is kept on disk: persist_state, which rotates state.json  *)
(* through a temporary file and a backup and then refreshes the recovery   *)
(* copies, and the start of the application, which loads what it finds.    *)
(*                                                                         *)
(* An operation captures what it will save inside RuntimeState's lock and  *)
(* saves it after it has left the lock, so several calls are under way at  *)
(* a time and take the writer's mutex in any order.  A saved queue is a    *)
(* version: the number of the critical section that captured it.  Every    *)
(* step below is one file operation; between two of them the process may   *)
(* die, an operation may fail, and a file may be damaged.                  *)
(***************************************************************************)
EXTENDS Naturals, Sequences, FiniteSets

CONSTANTS
  Calls,         \* calls of persist_state that may be under way at once
  Absent,        \* the file does not exist
  Torn,          \* the file exists and cannot be parsed
  MaxSnapshots,  \* MAX_STATE_BACKUPS
  MaxVersion,    \* bound on the versions captured
  MaxCrashes, MaxFaults, MaxDamage   \* bounds on crashes, I/O errors, damaged files

Versions == 0 .. MaxVersion     \* 0 is PersistedState::default()

ASSUME StoreAssumption ==
  /\ MaxSnapshots \in Nat \ {0}
  /\ MaxVersion \in Nat
  /\ MaxCrashes \in Nat /\ MaxFaults \in Nat /\ MaxDamage \in Nat
  /\ Absent \notin Nat /\ Torn \notin Nat /\ Absent # Torn

VARIABLES
  app,           \* down, starting (saving what was loaded) or running
  state, tmp, bak, lastGood,   \* state.json, .json.tmp, .json.bak, state.last-good.json
  snaps,         \* the files in state.backups, newest first
  pc, ver,       \* the calls of persist_state
  clock,         \* the versions captured so far
  review,        \* startup_recovery is NeedsLocalRecovery
  acked,         \* history: the versions reported as saved
  stale,         \* history: an older version was saved over a newer one
  crashes, faults, damage

files  == <<state, tmp, bak, lastGood, snaps>>
bounds == <<crashes, faults, damage>>
vars   == <<app, files, pc, ver, clock, review, acked, stale, bounds>>

(***************************************************************************)
(* Stages of persist_state.                                                *)
(*   waiting    captured, waits for the mutex                              *)
(*   temp       .json.tmp created, empty                                   *)
(*   clear      written, synced and validated                              *)
(*   backup     the old .json.bak removed, state.json exists               *)
(*   publish    state.json moved to .json.bak, or there was none           *)
(*   lastgood   .json.tmp moved to state.json                              *)
(*   copying    state.last-good.json opened                                *)
(*   snapshot   copied                                                     *)
(*   snapping   a new snapshot opened                                      *)
(*   prune      copied                                                     *)
(***************************************************************************)
Uncommitted == {"waiting", "temp", "clear", "backup", "publish"}
Committed   == {"lastgood", "copying", "snapshot", "snapping", "prune"}
InMutex     == (Uncommitted \cup Committed) \ {"waiting"}
Stages      == Uncommitted \cup Committed \cup {"idle"}

Readable(f) == f \in Versions
Contents    == Versions \cup {Torn}
Files       == Contents \cup {Absent}

(***************************************************************************)
(* One type invariant: no more snapshots are kept than the limit says,     *)
(* but for the one being written and those that a failed prune left.       *)
(***************************************************************************)
TypeOK ==
  /\ app \in {"down", "starting", "running"}
  /\ state \in Files /\ tmp \in Files /\ bak \in Files /\ lastGood \in Files
  /\ snaps \in Seq(Contents)
  /\ Len(snaps) <= MaxSnapshots + 1 + faults + crashes
  /\ pc \in [Calls -> Stages]
  /\ ver \in [Calls -> Versions]
  /\ clock \in Versions
  /\ review \in BOOLEAN
  /\ acked \subseteq Versions
  /\ stale \in BOOLEAN
  /\ crashes \in 0 .. MaxCrashes
  /\ faults \in 0 .. MaxFaults
  /\ damage \in 0 .. MaxDamage

Init ==
  /\ app = "down"
  /\ state = Absent /\ tmp = Absent /\ bak = Absent /\ lastGood = Absent
  /\ snaps = <<>>
  /\ pc = [c \in Calls |-> "idle"]
  /\ ver = [c \in Calls |-> 0]
  /\ clock = 0
  /\ review = FALSE
  /\ acked = {}
  /\ stale = FALSE
  /\ crashes = 0 /\ faults = 0 /\ damage = 0

-----------------------------------------------------------------------------
(* Loading: load_persisted_state_with_recovery.                            *)

NewestSnapshot ==
  LET good == {i \in DOMAIN snaps : Readable(snaps[i])}
  IN  IF good = {} THEN Absent ELSE snaps[CHOOSE i \in good : \A k \in good : i <= k]

Recoverable == Readable(bak) \/ Readable(lastGood) \/ Readable(NewestSnapshot)

\* recovery_candidate_paths, in order; 0 if none can be read.
RecoveryCandidate ==
  CASE Readable(bak)                                  -> bak
    [] ~Readable(bak) /\ Readable(lastGood)           -> lastGood
    [] ~Readable(bak) /\ ~Readable(lastGood)          ->
         IF Readable(NewestSnapshot) THEN NewestSnapshot ELSE 0

\* The version that a start of the application would load now.
OnDisk == IF Readable(state) THEN state ELSE RecoveryCandidate

Fault ==
  /\ faults < MaxFaults
  /\ faults' = faults + 1

\* SharedState::new.  An unreadable state.json is quarantined, which may fail.
\* What was loaded is saved at once, unless nothing could be read or the
\* unreadable file is still there.
Start(c) ==
  /\ app = "down"
  /\ \/ UNCHANGED <<state, faults>> /\ state # Torn
     \/ state = Torn /\ state' = Absent /\ UNCHANGED faults
     \/ state = Torn /\ Fault /\ UNCHANGED state
  /\ LET found   == Readable(state) \/ Recoverable
         persist == found /\ state' # Torn
     IN  /\ review' = ~found
         /\ app' = IF persist THEN "starting" ELSE "running"
         /\ pc' = IF persist THEN [pc EXCEPT ![c] = "waiting"] ELSE pc
         /\ ver' = IF persist THEN [ver EXCEPT ![c] = OnDisk] ELSE ver
  /\ UNCHANGED <<tmp, bak, lastGood, snaps, clock, acked, stale, crashes, damage>>

-----------------------------------------------------------------------------
(* Saving: persist_state.                                                  *)

\* An operation changes RuntimeState and captures what it will save.
Capture(c) ==
  /\ app = "running"
  /\ pc[c] = "idle"
  /\ clock < MaxVersion
  /\ clock' = clock + 1
  /\ pc' = [pc EXCEPT ![c] = "waiting"]
  /\ ver' = [ver EXCEPT ![c] = clock + 1]
  /\ UNCHANGED <<app, files, review, acked, stale, bounds>>

\* Call c does one file operation.
Goes(c, from, to) ==
  /\ pc[c] = from
  /\ pc' = [pc EXCEPT ![c] = to]
  /\ UNCHANGED <<app, ver, clock, review, acked, bounds>>

\* Mutated form: nothing keeps two calls apart.
AcquireAnyway(c) ==
  /\ Goes(c, "waiting", "temp")
  /\ tmp' = Torn
  /\ UNCHANGED <<state, bak, lastGood, snaps, stale>>

\* The mutex is taken and the temporary file created.
Acquire(c) ==
  /\ \A d \in Calls : pc[d] \notin InMutex
  /\ Goes(c, "waiting", "temp")
  /\ tmp' = Torn
  /\ UNCHANGED <<state, bak, lastGood, snaps, stale>>

WriteTemp(c) ==
  /\ Goes(c, "temp", "clear")
  /\ tmp' = ver[c]
  /\ UNCHANGED <<state, bak, lastGood, snaps, stale>>

\* Mutated form: a backup that is there already is good enough.
ClearBackupUnlessThere(c) ==
  /\ Goes(c, "clear", IF state = Absent \/ bak # Absent THEN "publish" ELSE "backup")
  /\ UNCHANGED <<state, tmp, bak, lastGood, snaps, stale>>

\* The old backup goes only if there is a file to take its place.
ClearBackup(c) ==
  /\ Goes(c, "clear", IF state = Absent THEN "publish" ELSE "backup")
  /\ bak' = IF state = Absent THEN bak ELSE Absent
  /\ UNCHANGED <<state, tmp, lastGood, snaps, stale>>

\* Mutated form: the old file is removed and not kept as the backup.
BackUpByDeleting(c) ==
  /\ Goes(c, "backup", "publish")
  /\ state' = Absent
  /\ UNCHANGED <<bak, tmp, lastGood, snaps, stale>>

BackUp(c) ==
  /\ Goes(c, "backup", "publish")
  /\ bak' = state
  /\ state' = Absent
  /\ UNCHANGED <<tmp, lastGood, snaps, stale>>

Publish(c) ==
  /\ Goes(c, "publish", "lastgood")
  /\ state' = tmp
  /\ tmp' = Absent
  /\ stale' = (stale \/ ver[c] < OnDisk)
  /\ UNCHANGED <<bak, lastGood, snaps>>

\* write_recovery_copies: the last good copy, a new snapshot, the old ones.
OpenLastGood(c) ==
  /\ Goes(c, "lastgood", "copying")
  /\ lastGood' = Torn
  /\ UNCHANGED <<state, tmp, bak, snaps, stale>>

CopyLastGood(c) ==
  /\ Goes(c, "copying", "snapshot")
  /\ lastGood' = state
  /\ UNCHANGED <<state, tmp, bak, snaps, stale>>

OpenSnapshot(c) ==
  /\ Goes(c, "snapshot", "snapping")
  /\ snaps' = <<Torn>> \o snaps
  /\ UNCHANGED <<state, tmp, bak, lastGood, stale>>

CopySnapshot(c) ==
  /\ Goes(c, "snapping", "prune")
  /\ snaps' = [snaps EXCEPT ![1] = state]
  /\ UNCHANGED <<state, tmp, bak, lastGood, stale>>

\* The call returns Ok, the mutex is free, and the application has started.
Return(c) ==
  /\ pc' = [pc EXCEPT ![c] = "idle"]
  /\ app' = "running"
  /\ acked' = acked \cup {ver[c]}
  /\ UNCHANGED <<state, tmp, bak, lastGood, ver, clock, review, stale, bounds>>

\* The readable ones among the first n snapshots.
AddReadable(seq, f) == IF Readable(f) THEN Append(seq, f) ELSE seq

Valid ==
  LET valid[n \in 0 .. Len(snaps)] ==
        IF n = 0 THEN <<>> ELSE AddReadable(valid[n-1], snaps[n])
  IN  valid

\* prune_state_snapshot_backups: unreadable ones go, then those beyond the
\* limit and those that are too old; the newest is never that old.
Prune(c) ==
  /\ pc[c] = "prune"
  /\ LET good == Valid[Len(snaps)]
     IN  \E n \in 0 .. MaxSnapshots :
           /\ n <= Len(good)
           /\ n = 0 => good = <<>>
           /\ snaps' = SubSeq(good, 1, n)
  /\ Return(c)

\* An I/O error ends the call.  If the new file could not be moved into place
\* the backup is moved back, and an error of that is ignored.  The error of
\* the first save ends the application.
Error(c) ==
  /\ pc[c] \in InMutex
  /\ Fault
  /\ pc' = [pc EXCEPT ![c] = "idle"]
  /\ app' = IF app = "starting" THEN "down" ELSE app
  /\ \/ UNCHANGED <<state, bak>>
     \/ /\ pc[c] = "publish" /\ state = Absent /\ bak # Absent
        /\ state' = bak
        /\ bak' = Absent
  /\ UNCHANGED <<tmp, lastGood, snaps, ver, clock, review, acked, stale, crashes, damage>>

-----------------------------------------------------------------------------
(* The environment.                                                        *)

\* The process ends: a crash, a kill, or the user quits.
Crash ==
  /\ app # "down"
  /\ crashes < MaxCrashes
  /\ crashes' = crashes + 1
  /\ app' = "down"
  /\ pc' = [c \in Calls |-> "idle"]
  /\ UNCHANGED <<files, ver, clock, review, acked, stale, faults, damage>>

\* A file is damaged, as the zero-filled files that the code looks for are.
\* Not in the moments when state.json is copied: the copies are taken from the
\* file and not checked, so damage there would be copied twice.
Damage ==
  /\ damage < MaxDamage
  /\ \A c \in Calls : pc[c] \notin Committed
  /\ damage' = damage + 1
  /\ \/ Readable(state) /\ state' = Torn /\ UNCHANGED <<bak, lastGood, snaps>>
     \/ Readable(bak) /\ bak' = Torn /\ UNCHANGED <<state, lastGood, snaps>>
     \/ Readable(lastGood) /\ lastGood' = Torn /\ UNCHANGED <<state, bak, snaps>>
     \/ \E i \in DOMAIN snaps :
          /\ Readable(snaps[i])
          /\ snaps' = [snaps EXCEPT ![i] = Torn]
          /\ UNCHANGED <<state, bak, lastGood>>
  /\ UNCHANGED <<app, tmp, pc, ver, clock, review, acked, stale, crashes, faults>>

Next ==
  \/ \E c \in Calls :
       \/ Start(c) \/ Capture(c) \/ Acquire(c) \/ WriteTemp(c) \/ ClearBackup(c)
       \/ BackUp(c) \/ Publish(c) \/ OpenLastGood(c) \/ CopyLastGood(c)
       \/ OpenSnapshot(c) \/ CopySnapshot(c) \/ Prune(c) \/ Error(c)
  \/ Crash \/ Damage

Spec == Init /\ [][Next]_vars

-----------------------------------------------------------------------------
(* Properties.                                                             *)

(***************************************************************************)
(* persist_state is atomic: while no file is damaged, each step, of any    *)
(* call, of an I/O error, of a crash in the middle of the rotation or of   *)
(* the start after it, is a step of AtomicStore or changes nothing that    *)
(* AtomicStore shows.  The instant a save takes effect is the rename of    *)
(* the temporary file.                                                     *)
(***************************************************************************)
Phase(c) ==
  CASE pc[c] \in Uncommitted -> "called"
    [] pc[c] \in Committed   -> "committed"
    [] OTHER                 -> "idle"

Atomic == INSTANCE AtomicStore WITH
  durable <- OnDisk, phase <- [c \in Calls |-> Phase(c)], version <- ver

SavesAreAtomic ==
  /\ Atomic!Init
  /\ [][damage' = 0 => [Atomic!Next]_(Atomic!vars)]_vars

(***************************************************************************)
(* What was reported as saved is what the next start loads, or something   *)
(* newer - unless a call that captured the queue earlier got the mutex     *)
(* later and wrote its older version over it.                              *)
(***************************************************************************)
AckedIsLoaded == damage = 0 /\ ~stale => \A v \in acked : v <= OnDisk

(***************************************************************************)
(* Once a save has succeeded the history is never lost to one damaged      *)
(* file, whatever crashes and I/O errors come before and after, even in    *)
(* the middle of another save; nor to two of them if every save went well. *)
(***************************************************************************)
HistorySurvives ==
  acked # {} /\ (damage <= 1 \/ damage + faults + crashes <= 2) =>
    Readable(state) \/ Recoverable

(***************************************************************************)
(* One damaged file costs one save at most: what a start recovers lacks    *)
(* the last acknowledged version at worst, never two of them.              *)
(***************************************************************************)
OneDamageCostsOneSave ==
  damage <= 1 /\ ~stale => Cardinality({v \in acked : v > OnDisk}) <= 1

(***************************************************************************)
(* "Download history could not be read and no valid backup was available"  *)
(* is shown only if there was a history: not before anything was saved.    *)
(***************************************************************************)
ReviewMeansLoss == review => clock > 0
=============================================================================
