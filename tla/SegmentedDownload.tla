------------------------- MODULE SegmentedDownload -------------------------
(***************************************************************************)
(* One HTTP download of one job: the partial file, its journal (the        *)
(* sidecar ".meta" with its ".meta.bak"), the segments handed to worker    *)
(* tasks, and the ways an attempt starts, is interrupted and ends          *)
(* (download/segmented.rs, download/http.rs).                              *)
(*                                                                         *)
(* A file is Total blocks.  A block on disk holds the version of the       *)
(* remote entity it came from, or Hole.  The server identifies versions by *)
(* strong validators (ETag) and all versions have the same length.  A      *)
(* crash ends the process, not the machine: what was written to a file is  *)
(* there afterwards, what was still in a writer's buffer is not.           *)
(***************************************************************************)
EXTENDS Integers, FiniteSets, Sequences

CONSTANTS
    Total,        \* blocks in the file
    Workers,      \* worker tasks of one attempt, one per range of a new plan
    QueueDepth,   \* pending segments the queue is filled up to
    Lease,        \* blocks of one lease, by the blocks that remain
    ProbeCap,     \* blocks of a lease at most while a trial of more workers runs
    MaxVersion,   \* bound: versions of the remote entity
    MaxEvents     \* bound: crashes of the process, pauses and cancellations of a running
                  \* attempt, and failures of requests, streams and sidecar writes

ASSUME SizesAssumption ==
    /\ Total \in Nat \ {0}
    /\ QueueDepth \in Nat \ {0}
    /\ Lease \in [0..Total -> Nat \ {0}]
    /\ ProbeCap \in Nat \ {0}
ASSUME WorkersAssumption ==
    /\ IsFiniteSet(Workers) /\ Cardinality(Workers) \in 1..Total
    /\ {"nobody", "loader"} \cap Workers = {}
ASSUME BoundsAssumption ==
    /\ MaxVersion \in Nat \ {0}
    /\ MaxEvents \in Nat

Hole == 0
Blocks == 1..Total
Versions == 1..MaxVersion
Planned == Cardinality(Workers)

VARIABLES
    entity,    \* version the server holds now
    part,      \* the partial file, or NoFile
    meta,      \* the journal's primary sidecar, or NoJournal
    bak,       \* its backup sidecar, or NoJournal
    final,     \* the finished file, or NoFile
    outcome,   \* what the job's row says of the last attempt
    phase,     \* where the attempt is
    after,     \* what follows the removal of the partial artifacts
    ver,       \* version whose validators the attempt sends
    segs,      \* the segments in memory, by index
    active,    \* indexes claimed by a worker
    wk,        \* worker tasks
    side,      \* the sidecar write in progress (holder of the journal lock)
    target,    \* workers the adaptive admission wants
    stop,      \* the workers' shared stop flag
    signal,    \* what the control poller saw of the job
    misled,    \* history: a leftover journal was loaded for a file of one stream
    crashes, signals, errors

disk  == <<part, meta, bak, final>>
row   == <<outcome, crashes, signals, misled>>
mem   == <<segs, active, wk, side, target, stop>>
vars  == <<entity, disk, row, phase, after, ver, mem, signal, errors>>

NoFile    == [kind |-> "none", len |-> 0, blk |-> [b \in Blocks |-> Hole]]
NoJournal == [ver |-> 0, segs |-> <<>>]
NoWrite   == [by |-> "nobody", step |-> "free", snap |-> NoJournal]
Off       == [pc |-> "off", seg |-> 0, hi |-> 0, got |-> 0, rec |-> 0, then |-> "none"]

-----------------------------------------------------------------------------
(* Segments: records [lo, hi, got] in a sequence; got counts the leading   *)
(* blocks that are recorded as downloaded.                                 *)

SegLen(s)    == s.hi - s.lo + 1
Remaining(s) == SegLen(s) - s.got
Have(s)      == s.lo .. s.lo + s.got - 1

\* Equal ranges, the last one takes the rest.
Plan ==
    LET size == Total \div Planned
    IN  [i \in 1..Planned |->
            [lo |-> (i - 1) * size + 1,
             hi |-> IF i = Planned THEN Total ELSE i * size,
             got |-> 0]]

\* Mutant of Pending: segments at work are not left out.
PendingOrActive(s, act) == {i \in DOMAIN s : Remaining(s[i]) > 0}


Pending(s, act) == {i \in DOMAIN s \ act : Remaining(s[i]) > 0}

\* Most remaining blocks first, then the lowest start.
Largest(s, cand) ==
    CHOOSE i \in cand : \A j \in cand :
        \/ Remaining(s[i]) > Remaining(s[j])
        \/ Remaining(s[i]) = Remaining(s[j]) /\ s[i].lo <= s[j].lo

\* What is left to download: it sets the size of a lease, which a trial of
\* more workers caps (cap = 0: no trial).
Missing(s) == UNION {s[i].lo + s[i].got .. s[i].hi : i \in DOMAIN s}

LeaseSize(s, cap) ==
    LET size == Lease[Cardinality(Missing(s))]
    IN  IF cap > 0 /\ cap < size THEN cap ELSE size

\* Pending segments that are one lease at most.
Leases(s, act, size) == {i \in Pending(s, act) : Remaining(s[i]) <= size}

\* Cut one lease off the largest pending segment that is more than one; the
\* tail becomes a new segment.
Split(s, act, size) ==
    LET cand == Pending(s, act) \ Leases(s, act, size)
    IN  IF cand = {} THEN s
        ELSE LET i    == Largest(s, cand)
                 last == s[i].lo + s[i].got + size - 1
             IN  Append([s EXCEPT ![i].hi = last],
                        [lo |-> last + 1, hi |-> s[i].hi, got |-> 0])

\* Split until QueueDepth leases wait or none is left to cut.  A split makes
\* one more lease and changes nothing of what is missing.
Fill(s, act, cap) ==
    LET size == LeaseSize(s, cap)
        fill[n \in 0..QueueDepth] ==
            IF n = 0 THEN s
            ELSE LET t == fill[n - 1]
                 IN  IF Cardinality(Leases(t, act, size)) >= QueueDepth
                     THEN t ELSE Split(t, act, size)
    IN  fill[QueueDepth]

Complete(s) == \A i \in DOMAIN s : Remaining(s[i]) = 0

Tiles(s) ==
    \A b \in Blocks : Cardinality({i \in DOMAIN s : b \in s[i].lo .. s[i].hi}) = 1

\* A file that is gone voids every claim of the journal.
Refresh(s) ==
    IF part # NoFile THEN s ELSE [i \in DOMAIN s |-> [s[i] EXCEPT !.got = 0]]

-----------------------------------------------------------------------------
Init ==
    /\ entity = 1
    /\ part = NoFile /\ meta = NoJournal /\ bak = NoJournal /\ final = NoFile
    /\ outcome = "queued" /\ phase = "idle" /\ after = "none" /\ ver = 1
    /\ segs = <<>> /\ active = {} /\ wk = [w \in Workers |-> Off]
    /\ side = NoWrite /\ target = Cardinality(Workers)
    /\ stop = FALSE /\ signal = "none"
    /\ misled = FALSE /\ crashes = 0 /\ signals = 0 /\ errors = 0

\* The attempt is over: its tasks and its memory are gone.
Ended(result) ==
    /\ phase' = "idle" /\ outcome' = result /\ after' = "none"
    /\ segs' = <<>> /\ active' = {} /\ wk' = [w \in Workers |-> Off]
    /\ side' = NoWrite /\ target' = Cardinality(Workers)
    /\ stop' = FALSE /\ signal' = "none"

\* The bound on what interferes from outside.
Eventful == crashes + signals + errors < MaxEvents

Fault == Eventful /\ errors' = errors + 1

-----------------------------------------------------------------------------
(* The gate of an attempt: which way of downloading the files allow.  A    *)
(* job left adrift (downloading, without a worker) gets here when the user *)
(* pauses and resumes it, and so does one that asks for a restart when the *)
(* user resumes it instead.  An attempt that starts has its row back in    *)
(* the queue.                                                              *)

CanStart ==
    phase = "idle" /\ outcome \in {"queued", "paused", "failed", "restart", "adrift"}

\* A partial file of full length without its sidecar is not resumed.
RefuseWithoutJournal ==
    /\ CanStart
    /\ part.len = Total /\ meta = NoJournal
    /\ outcome' = "restart"
    /\ UNCHANGED <<entity, disk, phase, after, ver, mem, signal, crashes, signals, misled, errors>>

\* Ranges are supported and the file is empty, absent or has its sidecar.
StartSegmented ==
    /\ CanStart
    /\ part.len = 0 \/ meta # NoJournal
    /\ phase' = "load" /\ ver' = entity /\ outcome' = "queued"
    /\ UNCHANGED <<entity, disk, after, mem, signal, crashes, signals, misled, errors>>

\* The probe failed although a journal exists: try its ranges all the same,
\* with the validators stored in it.
StartRecovery ==
    /\ CanStart /\ Fault
    /\ part.len > 0 /\ meta # NoJournal
    /\ phase' = "load" /\ ver' = meta.ver /\ outcome' = "queued"
    /\ UNCHANGED <<entity, disk, after, mem, signal, crashes, signals, misled>>

\* No ranges, or none to be had now: a partial file with a journal is kept for
\* a restart by the user; anything else is one stream, after removing what an
\* earlier segmented attempt left.
StartSingle ==
    /\ CanStart
    /\ \/ /\ meta = NoJournal
          /\ phase' = "connect" /\ outcome' = "queued" /\ UNCHANGED after
       \/ /\ meta # NoJournal /\ part.len = 0
          /\ phase' = "clean" /\ after' = "single" /\ outcome' = "queued"
       \/ /\ meta # NoJournal /\ part.len > 0
          /\ outcome' = "restart" /\ UNCHANGED <<phase, after>>
    /\ UNCHANGED <<entity, disk, ver, mem, signal, crashes, signals, misled, errors>>

\* The user restarts the job from zero.
Restart ==
    /\ phase = "idle" /\ outcome # "completed"
    /\ phase' = "clean" /\ after' = "queued"
    /\ UNCHANGED <<entity, disk, row, ver, mem, signal, errors>>

\* cleanup_partial_artifacts removes the files one by one.
RemovePart ==
    /\ phase = "clean"
    /\ part' = NoFile /\ phase' = "clean_meta"
    /\ UNCHANGED <<entity, meta, bak, final, row, after, ver, mem, signal, errors>>

RemoveMeta ==
    /\ phase = "clean_meta"
    /\ meta' = NoJournal /\ phase' = "clean_bak"
    /\ UNCHANGED <<entity, part, bak, final, row, after, ver, mem, signal, errors>>

Removed ==
    /\ after' = "none"
    /\ CASE after = "single" -> phase' = "connect" /\ UNCHANGED <<outcome, segs>>
         [] after = "fresh"  -> phase' = "fill" /\ segs' = Plan /\ UNCHANGED outcome
         [] OTHER            -> phase' = "idle" /\ outcome' = after /\ UNCHANGED segs
    /\ UNCHANGED <<active, wk, side, target, stop, signal>>

RemoveBak ==
    /\ phase = "clean_bak"
    /\ bak' = NoJournal /\ Removed
    /\ UNCHANGED <<entity, part, meta, final, crashes, signals, misled, ver, errors>>

\* A file that cannot be removed ends the user's restart with an error; a
\* download that cleans up after itself ignores it.
RemovalFails ==
    /\ phase \in {"clean", "clean_meta", "clean_bak"} /\ Fault
    /\ IF after = "queued" THEN Ended(outcome)
       ELSE \/ /\ phase # "clean_bak"
               /\ phase' = IF phase = "clean" THEN "clean_meta" ELSE "clean_bak"
               /\ UNCHANGED <<outcome, after, mem, signal>>
            \/ phase = "clean_bak" /\ Removed
    /\ UNCHANGED <<entity, disk, crashes, signals, misled, ver>>

-----------------------------------------------------------------------------
(* The journal.                                                            *)

\* Mutant of Usable: validators are not compared.
UsableAnyVersion(j) == j # NoJournal

\* A journal can be used when its ranges tile this entity and its
\* validators do not conflict with the server's.
Usable(j) == j # NoJournal /\ j.ver = ver /\ Tiles(j.segs)

Loading == phase = "load"

LoadPrimary ==
    /\ Loading /\ Usable(meta)
    /\ segs' = meta.segs /\ phase' = "fill"
    /\ misled' = (misled \/ part.kind = "single")
    /\ UNCHANGED <<entity, disk, outcome, crashes, signals, after, ver, active, wk,
                   side, target, stop, signal, errors>>

\* The backup takes the place of a sidecar that is missing or does not fit.
LoadBackup ==
    /\ Loading /\ ~Usable(meta) /\ Usable(bak)
    /\ segs' = bak.segs /\ phase' = "restore"
    /\ side' = [by |-> "loader", step |-> "swap", snap |-> [ver |-> ver, segs |-> bak.segs]]
    /\ bak' = NoJournal
    /\ misled' = (misled \/ part.kind = "single")
    /\ UNCHANGED <<entity, part, meta, final, outcome, crashes, signals, after, ver,
                   active, wk, target, stop, signal, errors>>

\* Without a partial file a new plan replaces whatever journal is left.
LoadNothing ==
    /\ Loading /\ ~Usable(meta) /\ ~Usable(bak) /\ part = NoFile
    /\ phase' = "clean" /\ after' = "fresh"
    /\ UNCHANGED <<entity, disk, row, ver, mem, signal, errors>>

\* With one the file is kept for a restart by the user, unless there is
\* nothing to lose: then one stream is the fallback.
LoadRefuses ==
    /\ Loading /\ ~Usable(meta) /\ ~Usable(bak) /\ part # NoFile
    /\ IF meta = NoJournal /\ part.len = 0
       THEN phase' = "clean" /\ after' = "single" /\ UNCHANGED <<outcome, mem, signal>>
       ELSE Ended("restart")
    /\ UNCHANGED <<entity, disk, crashes, signals, misled, ver, errors>>

\* Take the journal's completed blocks for what the file proves, fill the
\* queue of pending segments, and start writing the sidecar.
FillQueue ==
    /\ phase = "fill"
    /\ segs' = Fill(Refresh(segs), {}, 0)
    /\ side' = [by |-> "loader", step |-> "swap",
                snap |-> [ver |-> ver, segs |-> segs']]
    /\ bak' = NoJournal
    /\ phase' = "persist"
    /\ UNCHANGED <<entity, part, meta, final, row, after, ver, active, wk, target,
                   stop, signal, errors>>

\* Mutant of SideSwap: the old sidecar is removed instead of kept.
SideSwapDropsOld ==
    /\ side.step = "swap"
    /\ meta' = NoJournal
    /\ side' = [side EXCEPT !.step = "put"]
    /\ UNCHANGED <<entity, part, bak, final, row, phase, after, ver, segs, active, wk,
                   target, stop, signal, errors>>

\* write_segment_state_sidecar: the new state is in a temporary file and the
\* old backup is gone; then the old sidecar becomes the backup, ...
SideSwap ==
    /\ side.step = "swap"
    /\ bak' = meta /\ meta' = NoJournal
    /\ side' = [side EXCEPT !.step = "put"]
    /\ UNCHANGED <<entity, part, final, row, phase, after, ver, segs, active, wk,
                   target, stop, signal, errors>>

\* ... the new one takes its place, ...
SidePut ==
    /\ side.step = "put"
    /\ meta' = side.snap
    /\ side' = [side EXCEPT !.step = "tidy"]
    /\ UNCHANGED <<entity, part, bak, final, row, phase, after, ver, segs, active,
                   wk, target, stop, signal, errors>>

\* ... the backup is removed and the lock released.
SideTidy ==
    /\ side.step = "tidy"
    /\ bak' = NoJournal
    /\ side' = NoWrite
    /\ IF side.by = "loader"
       THEN /\ phase' = IF phase = "restore" THEN "fill" ELSE "prepare"
            /\ UNCHANGED <<wk, active>>
       ELSE LET w == side.by IN
            /\ IF wk[w].then = "stream"
               THEN /\ wk' = [wk EXCEPT ![w].pc = "stream", ![w].then = "none"]
                    /\ active' = active
               ELSE /\ wk' = [wk EXCEPT ![w] = [Off EXCEPT !.pc = wk[w].then]]
                    /\ active' = active \ {wk[w].seg}
            /\ phase' = phase
    /\ UNCHANGED <<entity, part, meta, final, row, after, ver, segs, target, stop,
                   signal, errors>>

\* The new sidecar cannot take its place: the backup is put back and the
\* caller gets a disk error.
SideFails ==
    /\ side.step = "put" /\ Fault
    /\ meta' = bak /\ bak' = NoJournal
    /\ IF side.by = "loader"
       THEN Ended("failed")
       ELSE /\ side' = NoWrite
            /\ wk' = [wk EXCEPT ![side.by] = [Off EXCEPT !.pc = "failed"]]
            /\ active' = active \ {wk[side.by].seg}
            /\ UNCHANGED <<outcome, phase, after, segs, target, stop, signal>>
    /\ UNCHANGED <<entity, part, final, crashes, signals, misled, ver>>

\* The partial file gets its full length before any worker starts.
Prepare ==
    /\ phase = "prepare"
    /\ part' = [part EXCEPT !.kind = "segmented", !.len = Total]
    /\ phase' = "run"
    /\ wk' = [w \in Workers |-> [Off EXCEPT !.pc = "idle"]]
    /\ UNCHANGED <<entity, meta, bak, final, row, after, ver, segs, active, side,
                   target, stop, signal, errors>>

-----------------------------------------------------------------------------
(* The worker tasks (download_dynamic_segment_worker).                     *)

\* Blocks of the range a worker took, by its own copy of the segment.
Width(w) == wk[w].hi - segs[wk[w].seg].lo + 1

Live == {w \in Workers : wk[w].pc \notin {"off", "done"}}

\* Fill the queue and take the largest waiting lease, or else the largest
\* pending segment; a worker that finds none is done.  Whether a trial caps the
\* leases is for SegmentAdmission to say.
Claim(w) ==
    /\ phase = "run" /\ wk[w].pc = "idle" /\ ~stop
    /\ \E cap \in {0, ProbeCap} :
       LET s     == Fill(segs, active, cap)
           ready == Pending(s, active)
           small == Leases(s, active, LeaseSize(s, cap))
           i     == Largest(s, IF small # {} THEN small ELSE ready)
       IN  IF ready = {}
           THEN /\ wk' = [wk EXCEPT ![w].pc = "done"]
                /\ UNCHANGED <<segs, active>>
           ELSE /\ segs' = s /\ active' = active \cup {i}
                /\ wk' = [wk EXCEPT ![w] =
                        [pc |-> "request", seg |-> i, hi |-> s[i].hi, got |-> s[i].got,
                         rec |-> s[i].got, then |-> "none"]]
    /\ UNCHANGED <<entity, disk, row, phase, after, ver, side, target, stop, signal, errors>>

\* Ask for the rest of the range; If-Range makes a changed entity answer in
\* full, which is refused.
Request(w) ==
    /\ wk[w].pc = "request" /\ ~stop /\ entity = ver
    /\ wk' = [wk EXCEPT ![w].pc = "stream"]
    /\ UNCHANGED <<entity, disk, row, phase, after, ver, segs, active, side, target,
                   stop, signal, errors>>

Receive(w) ==
    /\ wk[w].pc = "stream" /\ ~stop
    /\ wk[w].got < Width(w)
    /\ wk' = [wk EXCEPT ![w].got = @ + 1]
    /\ UNCHANGED <<entity, disk, row, phase, after, ver, segs, active, side, target,
                   stop, signal, errors>>

\* Mutant of FlushAndRecord: the progress is recorded, the buffer stays full.
RecordBeforeFlush(w) ==
    /\ part' = part
    /\ segs' = [segs EXCEPT ![wk[w].seg].got = wk[w].got]

\* Flush the buffered blocks to the file and record them in memory.
FlushAndRecord(w) ==
    LET s == segs[wk[w].seg] IN
    /\ part' = [part EXCEPT !.blk =
            [b \in Blocks |-> IF b \in s.lo + wk[w].rec .. s.lo + wk[w].got - 1
                              THEN ver ELSE @[b]]]
    /\ segs' = [segs EXCEPT ![wk[w].seg].got = wk[w].got]

\* ... then wait for the turn to write the sidecar, and go on as told.
Save(w, then) ==
    /\ FlushAndRecord(w)
    /\ wk' = [wk EXCEPT ![w].pc = "lock", ![w].rec = wk[w].got, ![w].then = then]
    /\ UNCHANGED <<entity, meta, bak, final, row, phase, after, ver, active, side,
                   target, stop, signal>>

\* The periodic save, and the one of a finished range.
SaveProgress(w) ==
    /\ wk[w].pc = "stream"
    /\ IF wk[w].got = Width(w) THEN Save(w, "finished")
       ELSE wk[w].got > wk[w].rec /\ Save(w, "stream")
    /\ UNCHANGED errors

\* The response ends or crawls before the range does: ask again.
AskAgain(w) ==
    /\ wk[w].pc = "stream" /\ wk[w].got < Width(w) /\ Fault
    /\ FlushAndRecord(w)
    /\ wk' = [wk EXCEPT ![w].pc = "request", ![w].rec = wk[w].got]
    /\ UNCHANGED <<entity, meta, bak, final, row, phase, after, ver, active, side,
                   target, stop, signal>>

\* A failed request or stream is retried by reconnecting, or is fatal.
Disconnect(w) ==
    /\ wk[w].pc \in {"request", "stream"} /\ Fault
    /\ \E then \in {"retry", "fatal"} : Save(w, then)

Refused(w) ==
    /\ wk[w].pc = "request" /\ entity # ver
    /\ Save(w, "refused") /\ UNCHANGED errors

\* The stop flag, or the job's own state, interrupts the worker.
Interrupt(w) ==
    /\ wk[w].pc \in {"request", "stream"}
    /\ \/ stop /\ Save(w, "pause")
       \/ ~stop /\ signal # "none" /\ Save(w, signal)
    /\ UNCHANGED errors

\* record_segment_progress: with the journal lock, snapshot what all workers
\* have recorded by now.
TakeJournal(w) ==
    /\ wk[w].pc = "lock" /\ side = NoWrite
    /\ side' = [by |-> w, step |-> "swap", snap |-> [ver |-> ver, segs |-> segs]]
    /\ bak' = NoJournal
    /\ wk' = [wk EXCEPT ![w].pc = "saving"]
    /\ UNCHANGED <<entity, part, meta, final, row, phase, after, ver, segs, active,
                   target, stop, signal, errors>>

\* A worker with a finished segment leaves when more are live than wanted.
Continue(w) ==
    /\ wk[w].pc = "finished"
    /\ wk' = [wk EXCEPT ![w].pc = IF Cardinality(Live) > target THEN "leaving" ELSE "idle"]
    /\ UNCHANGED <<entity, disk, row, phase, after, ver, segs, active, side, target,
                   stop, signal, errors>>

Leave(w) ==
    /\ wk[w].pc = "leaving"
    /\ wk' = [wk EXCEPT ![w].pc = "done"]
    /\ UNCHANGED <<entity, disk, row, phase, after, ver, segs, active, side, target,
                   stop, signal, errors>>

\* Reconnecting after the delay; pressure of the server may lower the target.
Reconnect(w) ==
    /\ wk[w].pc = "retry"
    /\ target' \in {target, IF target > 1 THEN target - 1 ELSE 1}
    /\ wk' = [wk EXCEPT ![w] = [Off EXCEPT !.pc = "idle"]]
    /\ UNCHANGED <<entity, disk, row, phase, after, ver, segs, active, side, stop,
                   signal, errors>>

\* An interrupted or failing worker stops the others.
RaiseStop(w) ==
    /\ ~stop
    /\ wk[w].pc \in {"pause", "cancel", "failed", "fatal", "refused"}
    /\ stop' = TRUE
    /\ UNCHANGED <<entity, disk, row, phase, after, ver, segs, active, wk, side,
                   target, signal, errors>>

\* The stop flag is seen at the top of the loop.
Halt(w) ==
    /\ wk[w].pc = "idle" /\ stop
    /\ wk' = [wk EXCEPT ![w].pc = "pause"]
    /\ UNCHANGED <<entity, disk, row, phase, after, ver, segs, active, side, target,
                   stop, signal, errors>>

-----------------------------------------------------------------------------
(* The attempt's task: joins the workers, then seals and renames the file. *)

\* Every task still running is aborted where it stands, also one in the
\* middle of writing the sidecar.
Aborted(what) ==
    IF what = "cancel"
    THEN /\ phase' = "clean" /\ after' = "canceled" /\ outcome' = outcome
         /\ segs' = <<>> /\ active' = {} /\ wk' = [w \in Workers |-> Off]
         /\ side' = NoWrite /\ target' = Cardinality(Workers)
         /\ stop' = FALSE /\ signal' = "none"
    ELSE \* a worker stopped by another's error may be joined before it
         Ended(IF signal = "none" THEN "adrift" ELSE "paused")

Join(w) ==
    /\ phase = "run"
    /\ \/ /\ wk[w].pc = "done"
          /\ wk' = [wk EXCEPT ![w] = Off]
          /\ UNCHANGED <<outcome, phase, after, segs, active, side, target, stop, signal>>
       \/ wk[w].pc \in {"pause", "cancel"} /\ stop /\ Aborted(wk[w].pc)
       \/ /\ wk[w].pc \in {"failed", "fatal", "refused"} /\ stop
          /\ phase' = "drain"
          /\ after' = IF wk[w].pc = "refused" THEN "restart" ELSE "failed"
          /\ wk' = [wk EXCEPT ![w] = Off]
          /\ UNCHANGED <<outcome, segs, active, side, target, stop, signal>>
    /\ UNCHANGED <<entity, disk, crashes, signals, misled, ver, errors>>

\* After an error the others get a grace period, then they are aborted.
DrainEnds ==
    /\ phase = "drain"
    /\ Ended(after)
    /\ UNCHANGED <<entity, disk, crashes, signals, misled, ver, errors>>

\* No worker is left.
AllJoined ==
    /\ phase = "run" /\ \A w \in Workers : wk[w].pc = "off"
    /\ IF Complete(segs)
       THEN /\ phase' = "seal_meta"
            /\ UNCHANGED <<outcome, after, mem, signal>>
       ELSE Ended("failed")
    /\ UNCHANGED <<entity, disk, crashes, signals, misled, ver, errors>>

\* The journal goes before the file gets its name.
SealMeta ==
    /\ phase = "seal_meta"
    /\ meta' = NoJournal /\ phase' = "seal_bak"
    /\ UNCHANGED <<entity, part, bak, final, row, after, ver, mem, signal, errors>>

SealBak ==
    /\ phase = "seal_bak"
    /\ bak' = NoJournal /\ phase' = "rename"
    /\ UNCHANGED <<entity, part, meta, final, row, after, ver, mem, signal, errors>>

Rename ==
    /\ phase = "rename"
    /\ final' = part /\ part' = NoFile /\ phase' = "report"
    /\ UNCHANGED <<entity, meta, bak, row, after, ver, mem, signal, errors>>

RenameFails ==
    /\ phase = "rename" /\ Fault /\ Ended("failed")
    /\ UNCHANGED <<entity, disk, crashes, signals, misled, ver>>

Report ==
    /\ phase = "report" /\ Ended("completed")
    /\ UNCHANGED <<entity, disk, crashes, signals, misled, ver, errors>>

-----------------------------------------------------------------------------
(* One stream (the rest of run_http_download_attempt_for_url).             *)

\* An empty file is created anew; a partial one is continued if the server
\* honours the range.
Connect ==
    /\ phase = "connect" /\ part.len < Total
    /\ ver' = entity /\ phase' = "single"
    /\ part' = IF part.len = 0 THEN [NoFile EXCEPT !.kind = "single"] ELSE part
    /\ UNCHANGED <<entity, meta, bak, final, row, after, mem, signal, errors>>

\* Nothing is left to ask for: the range is refused, or answered in full, which
\* is refused here.
ConnectPastEnd ==
    /\ phase = "connect" /\ part.len = Total
    /\ Ended("restart")
    /\ UNCHANGED <<entity, disk, crashes, signals, misled, ver, errors>>

ConnectFails ==
    /\ phase = "connect" /\ Fault
    /\ \/ Ended("failed")
       \/ part.len > 0 /\ Ended("restart")
    /\ UNCHANGED <<entity, disk, crashes, signals, misled, ver>>

SingleReceive ==
    /\ phase = "single" /\ part.len < Total
    /\ part' = [part EXCEPT !.len = @ + 1, !.blk[part.len + 1] = ver]
    /\ UNCHANGED <<entity, meta, bak, final, row, phase, after, ver, mem, signal, errors>>

SingleInterrupted ==
    /\ phase = "single" /\ signal # "none" /\ Aborted(signal)
    /\ UNCHANGED <<entity, disk, crashes, signals, misled, ver, errors>>

SingleFails ==
    /\ phase = "single" /\ Fault /\ Ended("failed")
    /\ UNCHANGED <<entity, disk, crashes, signals, misled, ver>>

SingleDone ==
    /\ phase = "single" /\ part.len = Total
    /\ final' = part /\ part' = NoFile /\ phase' = "report"
    /\ UNCHANGED <<entity, meta, bak, row, after, ver, mem, signal, errors>>

-----------------------------------------------------------------------------
(* The environment.                                                        *)

\* The user pauses or cancels the job while its attempt runs.
Interfere ==
    /\ phase \in {"run", "single"} /\ signal = "none" /\ Eventful
    /\ signal' \in {"pause", "cancel"} /\ signals' = signals + 1
    /\ UNCHANGED <<entity, disk, outcome, crashes, misled, phase, after, ver, mem, errors>>

EntityChanges ==
    /\ entity < MaxVersion /\ entity' = entity + 1
    /\ UNCHANGED <<disk, row, phase, after, ver, mem, signal, errors>>

\* The process dies; the next start queues a job that was at work again.
Crash ==
    /\ phase # "idle" /\ Eventful /\ crashes' = crashes + 1
    /\ Ended(CASE after = "canceled" -> "canceled"
               [] after = "queued"   -> outcome
               [] OTHER              -> "queued")
    /\ UNCHANGED <<entity, disk, signals, misled, ver, errors>>

\* Nothing follows a completed download.
Finished == outcome = "completed" /\ UNCHANGED vars

Step(w) ==
    \/ Claim(w) \/ Request(w) \/ Receive(w) \/ SaveProgress(w) \/ AskAgain(w)
    \/ Disconnect(w) \/ Refused(w) \/ Interrupt(w) \/ TakeJournal(w)
    \/ Continue(w) \/ Leave(w) \/ Reconnect(w) \/ RaiseStop(w) \/ Halt(w)

Next ==
    \/ RefuseWithoutJournal \/ StartSegmented \/ StartRecovery \/ StartSingle
    \/ Restart \/ RemovePart \/ RemoveMeta \/ RemoveBak \/ RemovalFails
    \/ LoadPrimary \/ LoadBackup \/ LoadNothing \/ LoadRefuses
    \/ FillQueue \/ SideSwap \/ SidePut \/ SideTidy \/ SideFails \/ Prepare
    \/ \E w \in Workers : Step(w) \/ Join(w)
    \/ DrainEnds \/ AllJoined \/ SealMeta \/ SealBak \/ Rename \/ RenameFails \/ Report
    \/ Connect \/ ConnectPastEnd \/ ConnectFails \/ SingleReceive \/ SingleInterrupted \/ SingleFails
    \/ SingleDone \/ Interfere \/ EntityChanges \/ Crash \/ Finished

Spec == Init /\ [][Next]_vars

-----------------------------------------------------------------------------
Phases == {"idle", "load", "restore", "fill", "persist", "prepare", "run", "drain",
           "seal_meta", "seal_bak", "rename", "report", "connect", "single",
           "clean", "clean_meta", "clean_bak"}
Results == {"queued", "paused", "failed", "adrift", "restart", "completed", "canceled"}
Sequels == {"none", "single", "fresh", "queued", "canceled", "restart", "failed"}

\* What a worker does once its progress is saved, and all that it may be at.
Thens == {"finished", "stream", "retry", "fatal", "refused", "pause", "cancel"}
Pcs   == Thens \cup {"off", "idle", "request", "lock", "saving", "leaving", "failed", "done"}

Segments == [lo : Blocks, hi : Blocks, got : 0..Total]
Journals == [ver : 0..MaxVersion, segs : Seq(Segments)]
Files    == [kind : {"none", "segmented", "single"}, len : 0..Total,
             blk : [Blocks -> 0..MaxVersion]]
Tasks    == [pc : Pcs, seg : Nat, hi : 0..Total, got : 0..Total, rec : 0..Total,
             then : Thens \cup {"none"}]
Writes   == [by : Workers \cup {"nobody", "loader"}, step : {"free", "swap", "put", "tidy"},
             snap : Journals]

\* The values the variables take.
TypeOK ==
    /\ entity \in Versions /\ ver \in Versions
    /\ part \in Files /\ final \in Files
    /\ meta \in Journals /\ bak \in Journals
    /\ outcome \in Results /\ phase \in Phases /\ after \in Sequels
    /\ segs \in Seq(Segments) /\ active \subseteq DOMAIN segs
    /\ wk \in [Workers -> Tasks]
    /\ \A w \in Workers : wk[w].seg \in {0} \cup DOMAIN segs
    /\ side \in Writes
    /\ target \in 1..Cardinality(Workers) /\ stop \in BOOLEAN
    /\ signal \in {"none", "pause", "cancel"} /\ misled \in BOOLEAN
    /\ {crashes, signals, errors} \subseteq 0..MaxEvents

Claims(j) == UNION {Have(j.segs[i]) : i \in DOMAIN j.segs}

\* The journal never claims a block the file does not hold, in the version
\* the journal names: whatever is interrupted where, the claims of the sidecar
\* a later attempt loads can be trusted (flush_and_record_segment_progress,
\* record_segment_progress, persist_segment_state).
JournalBehindDisk ==
    part.kind = "segmented" /\ ~misled =>
        \A j \in {meta, [ver |-> ver, segs |-> segs]} :
            \A b \in Claims(j) : part.blk[b] = j.ver

Holders == {w \in Workers : wk[w].pc \in {"request", "stream", "lock", "saving"}}

\* Work handed to the workers never overlaps and leaves nothing out: the
\* ranges in memory and in the journal tile the file, no two workers hold one
\* segment, and a worker's own copy of its segment is still the current one
\* (split_largest_pending_segment_for_lease, fill_dynamic_segment_queue,
\* claim_largest_dynamic_segment_with_probe_cap).
WorkIsPartitioned ==
    /\ segs # <<>> => Tiles(segs)
    /\ meta # NoJournal => Tiles(meta.segs)
    /\ \A w \in Holders :
         /\ wk[w].seg \in active
         /\ wk[w].hi = segs[wk[w].seg].hi
         /\ \A v \in Holders \ {w} : wk[v].seg # wk[w].seg

\* A finished file has no hole, and one put together from segments is of one
\* version of the remote entity (refresh_segment_completion_from_disk,
\* segment_state_compatible_with_plan).
CompletedIsWhole ==
    final # NoFile /\ ~misled =>
        /\ \A b \in Blocks : final.blk[b] # Hole
        /\ final.kind = "segmented" => \A b, c \in Blocks : final.blk[b] = final.blk[c]

\* As long as a file of full length has a hole, a journal that knows of it is
\* on disk too: no crash, abort or failed sidecar write leaves a preallocated
\* file that looks finished with nothing to tell (persist_segment_state).
NoOrphanHole ==
    part.len = Total /\ (\E b \in Blocks : part.blk[b] = Hole) /\ ~misled =>
        meta # NoJournal \/ bak # NoJournal \/ "canceled" \in {outcome, after}

\* A paused segmented download still has the sidecar its resume asks for
\* (run_segmented_download_attempt, which aborts the workers that save).
PausedKeepsJournal ==
    outcome = "paused" /\ phase = "idle" /\ part.kind = "segmented" => meta # NoJournal
=============================================================================
