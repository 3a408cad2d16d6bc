----------------------------- MODULE BulkArchive -----------------------------
(***************************************************************************)
(* Bulk archives: when the last member of an archive has been downloaded,  *)
(* its worker becomes the finalizer of the archive and moves the files of  *)
(* the members into one output folder.  "Fix archive" starts a finalizer   *)
(* for an archive that has failed.  Meanwhile the user deletes members,    *)
(* removes rows and queues other archives, and the process may die.        *)
(*                                                                         *)
(* Abstractions.  All Archives have the same output path: archives with    *)
(* different ones meet at the I/O permit only.  A member's data is at its  *)
(* target path ("source"), in the folder that a finalizer fills beside the *)
(* output ("folder"), or in the output; extraction and copying leave the   *)
(* source where it is, so they are one.  A row is "open" when its job is   *)
(* not Completed: DownloadQueue has the rest of its life.  The four        *)
(* statuses of a running finalization are one.  A save that fails costs    *)
(* the operation its answer; what it should have saved is saved by the     *)
(* next one.                                                               *)
(***************************************************************************)
EXTENDS Naturals, FiniteSets

CONSTANTS
  Archives,      \* the archives that are queued under one name
  Parts,         \* the members of each of them
  Finalizers,    \* a pool of names for create_bulk_archive_from_ready tasks
  None,          \* no archive, no finalizer
  MaxEvents      \* bound on commands, errors and crashes, taken together

ASSUME BulkAssumption ==
  /\ Parts # {} /\ IsFiniteSet(Parts)
  /\ IsFiniteSet(Archives)
  /\ None \notin Archives \cup Finalizers
  /\ MaxEvents \in Nat

Members     == Archives \X Parts
MembersOf(a) == {a} \X Parts
Places      == {"source", "folder", "output"}

VARIABLES
  row,           \* the job of each member
  after,         \* its worker, between complete_job and the archive
  status,        \* BulkArchiveStatus, with the two messages a Failed one may have
  at,            \* where the data of each member is on disk
  output,        \* the archive whose folder is at the output path
  cleanup,       \* the clean-up task of each member
  takesOutput,   \* the clean-ups that captured the output path
  pc, arc,       \* the finalizers
  left, moved, copied,    \* their entries: to do, renamed, copied
  permit,        \* BULK_FINALIZATION_IO_GOVERNOR
  commands, faults, crashes,
  deleted, lost, canceled, thinned    \* history, see TypeOK

rowVars     == <<row, after, cleanup, takesOutput>>
diskVars    == <<at, output>>
workVars    == <<pc, arc, left, moved, copied, permit>>
bounds      == <<commands, faults, crashes>>
historyVars == <<deleted, lost, canceled, thinned>>
vars == <<rowVars, status, diskVars, workVars, bounds, historyVars>>

(***************************************************************************)
(* Stages of a finalizer.                                                  *)
(*   plan     claimed the archive                                          *)
(*   queue    planned, waits for the I/O permit                            *)
(*   prepare  extracts                                                     *)
(*   begin    prepared                                                     *)
(*   move     moves or copies one entry after the other                    *)
(*   undo     an entry failed: moves the entries back                      *)
(*   sweep    the folder is the output; removes what was copied            *)
(*   settle   succeeded                                                    *)
(*   abort    failed                                                       *)
(***************************************************************************)
Reporting == {"prepare", "begin", "move", "undo", "sweep", "settle", "abort"}
Stages    == Reporting \cup {"idle", "plan", "queue"}

FailedStatus == {"Failed", "Interrupted", "Canceled"}

(***************************************************************************)
(* One type invariant.  History: the members the user asked to delete, or  *)
(* whose output a clean-up of their own archive deleted; those in a folder *)
(* or an output that went without a look inside; the archives with a       *)
(* finalization that was canceled, and with rows removed while pending.    *)
(***************************************************************************)
TypeOK ==
  /\ row \in [Members -> {"absent", "open", "completed", "gone"}]
  /\ after \in [Members -> {"none", "check", "fail"}]
  /\ status \in [Archives -> {"Pending", "Finalizing", "Completed"} \cup FailedStatus]
  /\ at \in [Members -> SUBSET Places]
  /\ output \in Archives \cup {None}
  /\ cleanup \in [Members -> {"none", "wait", "delete", "deleted", "failed", "stuck"}]
  /\ takesOutput \subseteq Members
  /\ pc \in [Finalizers -> Stages]
  /\ arc \in [Finalizers -> Archives \cup {None}]
  /\ left \in [Finalizers -> SUBSET Members]
  /\ moved \in [Finalizers -> SUBSET Members]
  /\ copied \in [Finalizers -> SUBSET Members]
  /\ \A f \in Finalizers : left[f] \cap (moved[f] \cup copied[f]) = {}
  /\ permit \in Finalizers \cup {None}
  /\ commands \in Nat /\ faults \in Nat /\ crashes \in Nat
  /\ commands + faults + crashes <= MaxEvents + 1
  /\ deleted \subseteq Members /\ lost \subseteq Members
  /\ canceled \subseteq Archives /\ thinned \subseteq Archives

Init ==
  /\ row = [m \in Members |-> "absent"]
  /\ after = [m \in Members |-> "none"]
  /\ status = [a \in Archives |-> "Pending"]
  /\ at = [m \in Members |-> {}]
  /\ output = None
  /\ cleanup = [m \in Members |-> "none"]
  /\ takesOutput = {}
  /\ pc = [f \in Finalizers |-> "idle"]
  /\ arc = [f \in Finalizers |-> None]
  /\ left = [f \in Finalizers |-> {}]
  /\ moved = [f \in Finalizers |-> {}]
  /\ copied = [f \in Finalizers |-> {}]
  /\ permit = None
  /\ commands = 0 /\ faults = 0 /\ crashes = 0
  /\ deleted = {} /\ lost = {} /\ canceled = {} /\ thinned = {}

Listed(m) == row[m] \in {"open", "completed"}
Rows(a)   == {m \in MembersOf(a) : Listed(m)}

Bounded == commands + faults + crashes < MaxEvents

\* An I/O error.
Fault ==
  /\ Bounded
  /\ faults' = faults + 1

NoFault == UNCHANGED faults

Mark(a, s) == status' = [status EXCEPT ![a] = s]

-----------------------------------------------------------------------------
(* Members.                                                                *)

\* enqueue_download_entries: refused while the output exists or is reserved
\* by a listed archive that is pending or being finalized.
Reserved(a) == Rows(a) # {} /\ status[a] \in {"Pending", "Finalizing"}

Enqueue(a) ==
  /\ \A m \in MembersOf(a) : row[m] = "absent"
  /\ output = None
  /\ \A b \in Archives : ~Reserved(b)
  /\ row' = [m \in Members |-> IF m \in MembersOf(a) THEN "open" ELSE row[m]]
  /\ UNCHANGED <<after, cleanup, takesOutput, status, diskVars, workVars, bounds, historyVars>>

\* Mutated form: the worker looks at the archive before it completes its job,
\* so it does not count itself.
WorkerCompletesAfterCheck(m) ==
  /\ row[m] = "open" /\ after[m] = "none" /\ cleanup[m] = "none"
  /\ row' = [row EXCEPT ![m] = "completed"]
  /\ at' = [at EXCEPT ![m] = @ \cup {"source"}]
  /\ UNCHANGED <<after, cleanup, takesOutput, status, output, workVars, bounds, historyVars>>

\* complete_job_with_integrity does not ask whether the member is being removed,
\* and gives up the slot that a clean-up may wait for.  If its save fails, the
\* error makes the worker fail the job that it completed.
WorkerCompletes(m) ==
  /\ row[m] = "open" /\ after[m] = "none" /\ cleanup[m] \in {"none", "wait", "failed", "stuck"}
  /\ row' = [row EXCEPT ![m] = "completed"]
  /\ at' = [at EXCEPT ![m] = @ \cup {"source"}]
  /\ cleanup' = [cleanup EXCEPT ![m] = IF @ = "wait" THEN "delete" ELSE @]
  /\ \/ NoFault /\ after' = [after EXCEPT ![m] = "check"]
     \/ Fault /\ after' = [after EXCEPT ![m] = "fail"]
  /\ UNCHANGED <<takesOutput, status, output, workVars, commands, crashes, historyVars>>

FailMember(m) ==
  /\ after[m] = "fail"
  /\ after' = [after EXCEPT ![m] = "none"]
  /\ row' = [row EXCEPT ![m] = IF Listed(m) THEN "open" ELSE @]
  /\ UNCHANGED <<cleanup, takesOutput, status, diskVars, workVars, bounds, historyVars>>

\* What both claims ask for: two rows at least, all Completed, no file missing.
Complete(a) ==
  /\ Cardinality(Rows(a)) >= 2
  /\ \A m \in Rows(a) : row[m] = "completed" /\ "source" \in at[m]

\* The archive is marked, then saved, then f starts: not if the save fails.
Claim(a, f) ==
  /\ pc[f] = "idle"
  /\ Mark(a, "Finalizing")
  /\ \/ /\ NoFault
        /\ pc' = [pc EXCEPT ![f] = "plan"]
        /\ arc' = [arc EXCEPT ![f] = a]
        /\ left' = [left EXCEPT ![f] = Rows(a)]
        /\ UNCHANGED <<moved, copied, permit>>
     \/ Fault /\ UNCHANGED workVars

\* Mutated form: the claim does not look at the status.
ReadyForJobAgain(a) == Complete(a)

ReadyForJob(a) == status[a] = "Pending" /\ Complete(a)

\* bulk_archive_ready_for_job: a failed save makes the worker fail its job.
Check(m) ==
  LET a == m[1]
  IN  /\ after[m] = "check"
      /\ \/ /\ ~(Listed(m) /\ ReadyForJob(a))
            /\ after' = [after EXCEPT ![m] = "none"]
            /\ UNCHANGED <<status, workVars, faults>>
         \/ /\ Listed(m) /\ ReadyForJob(a)
            /\ \E f \in Finalizers : Claim(a, f)
            /\ after' = [after EXCEPT ![m] = IF faults' = faults THEN "none" ELSE "fail"]
      /\ UNCHANGED <<row, cleanup, takesOutput, diskVars, commands, crashes, historyVars>>

-----------------------------------------------------------------------------
(* Commands.                                                               *)

Command ==
  /\ Bounded
  /\ commands' = commands + 1
  /\ UNCHANGED crashes

\* bulk_archive_ready_for_retry: a canceled or interrupted archive is Failed.
FixArchive(a) ==
  /\ Command
  /\ status[a] \in FailedStatus /\ Complete(a)
  /\ \E f \in Finalizers : Claim(a, f)
  /\ UNCHANGED <<rowVars, diskVars, historyVars>>

\* cancel_jobs, retry_job and restart_job take a Completed job as any other,
\* whatever its archive is doing.  The latter two refuse a removing one.
Reopen(m) ==
  /\ Command
  /\ row[m] = "completed"
  /\ row' = [row EXCEPT ![m] = "open"]
  /\ UNCHANGED <<after, cleanup, takesOutput, status, diskVars, workVars, faults, historyVars>>

RemoveRows(S) ==
  /\ row' = [m \in Members |-> IF m \in S THEN "gone" ELSE row[m]]
  /\ thinned' = thinned \cup {m[1] : m \in {k \in S : status[k[1]] = "Pending"}}

\* remove_job and clear_completed_jobs leave the files, and the rows of an
\* archive that is being finalized.
Removable(m) == Listed(m) /\ cleanup[m] = "none" /\ status[m[1]] # "Finalizing"

Remove(m) ==
  /\ Command
  /\ Removable(m)
  /\ RemoveRows({m})
  /\ UNCHANGED <<after, cleanup, takesOutput, status, diskVars, workVars, faults,
                 deleted, lost, canceled>>

\* Canceled jobs too.
ClearCompleted ==
  /\ Command
  /\ \E others \in SUBSET {m \in Members : Removable(m) /\ row[m] = "open"} :
       RemoveRows(others \cup {m \in Members : Removable(m) /\ row[m] = "completed"})
  /\ UNCHANGED <<after, cleanup, takesOutput, status, diskVars, workVars, faults,
                 deleted, lost, canceled>>

\* cancel_jobs_for_delete and delete_jobs_for_disk_cleanup: a finalization is
\* marked as canceled, nobody tells the finalizer.  The clean-up takes the
\* output too if the archive is Completed, and waits for an active worker.  The
\* second command refuses an active transfer, after the mark.  After a failed
\* save the row is removing and nobody removes it.
Delete(m) ==
  LET a == m[1]
  IN  /\ Command
      /\ Listed(m) /\ cleanup[m] \in {"none", "failed", "stuck"}
      /\ IF status[a] = "Finalizing"
           THEN Mark(a, "Canceled") /\ canceled' = canceled \cup {a}
           ELSE UNCHANGED <<status, canceled>>
      /\ \/ /\ NoFault
            /\ takesOutput' = IF status[a] = "Completed" THEN takesOutput \cup {m} ELSE takesOutput
            /\ \E stage \in {"delete"} \cup (IF row[m] = "open" THEN {"wait"} ELSE {}) :
                 cleanup' = [cleanup EXCEPT ![m] = stage]
            /\ deleted' = deleted \cup {m}
         \/ /\ Fault
            /\ cleanup' = [cleanup EXCEPT ![m] = "stuck"]
            /\ UNCHANGED <<takesOutput, deleted>>
         \/ row[m] = "open" /\ NoFault /\ UNCHANGED <<cleanup, takesOutput, deleted>>
      /\ UNCHANGED <<row, after, diskVars, workVars, lost, thinned>>

-----------------------------------------------------------------------------
(* Clean-up tasks.                                                         *)

CleanupStep(m, from, to) ==
  /\ cleanup[m] = from
  /\ cleanup' = [cleanup EXCEPT ![m] = to]
  /\ UNCHANGED <<after, status, workVars, commands, crashes, canceled>>

\* The worker stopped without completing.
CleanupReleased(m) ==
  /\ CleanupStep(m, "wait", "delete")
  /\ UNCHANGED <<row, takesOutput, diskVars, faults, deleted, lost, thinned>>

\* The member's file goes, and what is at the output path by now.
CleanupDelete(m) ==
  /\ CleanupStep(m, "delete", "deleted")
  /\ LET inside == IF m \in takesOutput THEN {k \in Members : "output" \in at[k]} ELSE {}
     IN  /\ at' = [k \in Members |-> (at[k] \ (IF k = m THEN {"source"} ELSE {}))
                                            \ (IF k \in inside THEN {"output"} ELSE {})]
         /\ output' = IF m \in takesOutput THEN None ELSE output
         /\ deleted' = deleted \cup {k \in inside : k[1] = m[1]}
         /\ lost' = lost \cup {k \in inside : k[1] # m[1]}
  /\ takesOutput' = takesOutput \ {m}
  /\ UNCHANGED <<row, faults, thinned>>

\* finish_destructive_cleanup_success removes the row.
CleanupDone(m) ==
  /\ CleanupStep(m, "deleted", "none")
  /\ RemoveRows({m})
  /\ UNCHANGED <<takesOutput, diskVars, faults, deleted, lost>>

\* record_destructive_cleanup_failure cancels the job.
CleanupFails(m) ==
  /\ CleanupStep(m, "delete", "failed")
  /\ Fault
  /\ row' = [row EXCEPT ![m] = IF Listed(m) THEN "open" ELSE @]
  /\ takesOutput' = takesOutput \ {m}
  /\ UNCHANGED <<diskVars, deleted, lost, thinned>>

\* run_destructive_cleanup stops when it cannot save the outcome for a row, and
\* the other rows of its batch stay removing.
CleanupStops(m) ==
  /\ \E from \in {"wait", "delete", "deleted"} : CleanupStep(m, from, "stuck")
  /\ Fault
  /\ takesOutput' = takesOutput \ {m}
  /\ UNCHANGED <<row, diskVars, deleted, lost, thinned>>

-----------------------------------------------------------------------------
(* The finalizer: create_bulk_archive_from_ready.                          *)

Goes(f, from, to) ==
  /\ pc[f] = from
  /\ pc' = [pc EXCEPT ![f] = to]
  /\ UNCHANGED <<rowVars, arc, commands, crashes, deleted, canceled, thinned>>

\* It ends with status s for its archive.
Ends(f, from, s) ==
  /\ pc[f] = from
  /\ Mark(arc[f], s)
  /\ pc' = [pc EXCEPT ![f] = "idle"]
  /\ arc' = [arc EXCEPT ![f] = None]
  /\ left' = [left EXCEPT ![f] = {}]
  /\ moved' = [moved EXCEPT ![f] = {}]
  /\ copied' = [copied EXCEPT ![f] = {}]
  /\ UNCHANGED <<rowVars, commands, crashes, deleted, canceled, thinned>>

\* A file that is still to be moved is gone, or cannot be read.
CannotRead(f) ==
  \/ NoFault /\ \E m \in left[f] : "source" \notin at[m]
  \/ Fault

\* Parts missing, no space, no 7-Zip: Failed.  Otherwise the status is marked
\* once more, whatever it has become.  If that cannot be saved, the finalizer
\* returns without another word.
Plan(f) ==
  /\ \/ /\ Ends(f, "plan", "Failed")
        /\ CannotRead(f)
     \/ /\ \A m \in left[f] : "source" \in at[m]
        /\ \/ /\ NoFault
              /\ Goes(f, "plan", "queue")
              /\ Mark(arc[f], "Finalizing")
              /\ UNCHANGED <<left, moved, copied>>
           \/ Fault /\ Ends(f, "plan", "Finalizing")
  /\ UNCHANGED <<diskVars, permit, lost>>

TakePermit(f) ==
  /\ permit = None
  /\ permit' = f
  /\ Goes(f, "queue", "prepare")
  /\ UNCHANGED <<status, diskVars, left, moved, copied, faults, lost>>

\* After an extraction the status is marked again, with the same risk.
Prepare(f) ==
  /\ \/ /\ Goes(f, "prepare", "begin") /\ NoFault
        /\ UNCHANGED status \/ Mark(arc[f], "Finalizing")
        /\ UNCHANGED <<left, moved, copied, permit>>
     \/ /\ Goes(f, "prepare", "abort") /\ CannotRead(f)
        /\ UNCHANGED <<status, left, moved, copied, permit>>
     \/ Ends(f, "prepare", "Finalizing") /\ Fault /\ permit' = None
  /\ UNCHANGED <<diskVars, lost>>

\* The progress task writes its own idea of the status until it is stopped.
Progress(f) ==
  /\ pc[f] \in Reporting
  /\ Mark(arc[f], "Finalizing")
  /\ UNCHANGED <<rowVars, diskVars, workVars, bounds, historyVars>>

\* Some finalizer is filling the folder that member m is in.
InWork(m) == \E f \in Finalizers : pc[f] \in {"move", "undo"} /\ m \in moved[f] \cup copied[f]

\* finish_prepared_bulk_archive_sync_with_options: the folders that others have
\* left beside the output are stale.
Begin(f) ==
  /\ \/ /\ Goes(f, "begin", "abort")
        /\ IF output = None THEN Fault ELSE NoFault
        /\ UNCHANGED <<at, lost>>
     \/ /\ output = None
        /\ Goes(f, "begin", "move")
        /\ at' = [m \in Members |-> at[m] \ {"folder"}]
        /\ lost' = lost \cup {m \in Members : at[m] = {"folder"} /\ ~InWork(m)}
        /\ NoFault
  /\ UNCHANGED <<status, output, left, moved, copied, permit>>

\* Renamed, or copied where that is not possible.
MoveEntry(f, m) ==
  /\ m \in left[f] /\ "source" \in at[m]
  /\ Goes(f, "move", "move")
  /\ left' = [left EXCEPT ![f] = @ \ {m}]
  /\ \/ /\ at' = [at EXCEPT ![m] = (@ \ {"source"}) \cup {"folder"}]
        /\ moved' = [moved EXCEPT ![f] = @ \cup {m}]
        /\ UNCHANGED copied
     \/ /\ at' = [at EXCEPT ![m] = @ \cup {"folder"}]
        /\ copied' = [copied EXCEPT ![f] = @ \cup {m}]
        /\ UNCHANGED moved
  /\ UNCHANGED <<status, output, permit, faults, lost>>

MoveFails(f) ==
  /\ Goes(f, "move", "undo")
  /\ CannotRead(f)
  /\ UNCHANGED <<status, diskVars, left, moved, copied, permit, lost>>

\* Mutated form: the folder becomes the output while entries are missing.
PublishFolderEarly(f) ==
  /\ Goes(f, "move", "sweep")
  /\ output' = arc[f]
  /\ at' = [m \in Members |-> IF "folder" \in at[m] THEN (at[m] \ {"folder"}) \cup {"output"}
                                                    ELSE at[m]]
  /\ UNCHANGED <<status, left, moved, copied, permit, faults, lost>>

\* finish_prepared_folder_output: the rename of the folder.
PublishFolder(f) ==
  /\ left[f] = {}
  /\ Goes(f, "move", "sweep")
  /\ output' = arc[f]
  /\ at' = [m \in Members |-> IF "folder" \in at[m] THEN (at[m] \ {"folder"}) \cup {"output"}
                                                    ELSE at[m]]
  /\ UNCHANGED <<status, left, moved, copied, permit, faults, lost>>

\* Mutated form: an error leaves the entries that were moved where they are.
UndoNothing(f) ==
  /\ Goes(f, "undo", "undo")
  /\ moved[f] # {}
  /\ moved' = [moved EXCEPT ![f] = {}]
  /\ UNCHANGED <<status, diskVars, left, copied, permit, faults, lost>>

\* rollback_moved_raw_entries: not over a file that is there, and an error is
\* ignored.
Undo(f) ==
  /\ Goes(f, "undo", "undo")
  /\ \E m \in moved[f] :
       /\ moved' = [moved EXCEPT ![f] = @ \ {m}]
       /\ \/ "source" \in at[m] /\ NoFault /\ UNCHANGED <<at, lost>>
          \/ "source" \notin at[m] /\ Fault /\ UNCHANGED at /\ lost' = lost \cup {m}
          \/ /\ "source" \notin at[m] /\ NoFault
             /\ at' = [at EXCEPT ![m] = (@ \ {"folder"}) \cup {"source"}]
             /\ UNCHANGED lost
  /\ UNCHANGED <<status, output, left, copied, permit>>

\* remove_incomplete_output.
DropFolder(f) ==
  /\ moved[f] = {}
  /\ Goes(f, "undo", "abort")
  /\ at' = [m \in Members |-> IF m[1] = arc[f] THEN at[m] \ {"folder"} ELSE at[m]]
  /\ UNCHANGED <<status, output, left, moved, copied, permit, faults, lost>>

\* The output was still there when verify_finished_output looked.  Then
\* cleanup_original_archive_parts; what cannot be removed is a warning.
Sweep(f) ==
  /\ Goes(f, "sweep", "settle")
  /\ \E kept \in SUBSET copied[f] :
       at' = [m \in Members |-> IF m \in copied[f] \ kept THEN at[m] \ {"source"} ELSE at[m]]
  /\ UNCHANGED <<status, output, left, moved, copied, permit, faults, lost>>

\* verify_finished_output: a clean-up has deleted it.
VerifyFails(f) ==
  /\ output # arc[f]
  /\ Goes(f, "sweep", "abort")
  /\ UNCHANGED <<status, diskVars, left, moved, copied, permit, faults, lost>>

\* Mutated form: the permit is not given back after an error.
ReportKeepsPermit(f) ==
  /\ \/ Ends(f, "settle", "Completed") /\ permit' = None
     \/ Ends(f, "abort", "Failed") /\ UNCHANGED permit
  /\ UNCHANGED <<diskVars, faults, lost>>

\* Mutated form: an update still in the channel is written after the end.
ReportBeforeStop(f) ==
  /\ \/ \E s \in {"Completed", "Finalizing"} : Ends(f, "settle", s)
     \/ \E s \in {"Failed", "Finalizing"} : Ends(f, "abort", s)
  /\ permit' = None
  /\ UNCHANGED <<diskVars, faults, lost>>

\* The progress task is stopped, the end is marked, the permit is dropped.
Report(f) ==
  /\ Ends(f, "settle", "Completed") \/ Ends(f, "abort", "Failed")
  /\ permit' = None
  /\ UNCHANGED <<diskVars, faults, lost>>

-----------------------------------------------------------------------------
\* The process dies and starts again: mark_stale_bulk_archive_finalization_
\* failed, and a clean-up that was under way has failed and its job is Canceled.
Crash ==
  /\ Bounded
  /\ crashes' = crashes + 1
  /\ after' = [m \in Members |-> "none"]
  /\ status' = [a \in Archives |-> IF status[a] = "Finalizing" THEN "Interrupted" ELSE status[a]]
  /\ cleanup' = [m \in Members |-> IF cleanup[m] = "none" THEN "none" ELSE "failed"]
  /\ takesOutput' = {}
  /\ pc' = [f \in Finalizers |-> "idle"]
  /\ arc' = [f \in Finalizers |-> None]
  /\ left' = [f \in Finalizers |-> {}]
  /\ moved' = [f \in Finalizers |-> {}]
  /\ copied' = [f \in Finalizers |-> {}]
  /\ permit' = None
  /\ row' = [m \in Members |-> IF Listed(m) /\ cleanup[m] \notin {"none", "failed"} THEN "open"
                                                                              ELSE row[m]]
  /\ UNCHANGED <<diskVars, commands, faults, historyVars>>

FinalizerNext(f) ==
  \/ Plan(f) \/ TakePermit(f) \/ Prepare(f) \/ Begin(f)
  \/ (\E m \in Members : MoveEntry(f, m)) \/ MoveFails(f)
  \/ PublishFolder(f) \/ Undo(f) \/ DropFolder(f) \/ Sweep(f) \/ VerifyFails(f)
  \/ Report(f)

MemberNext(m) ==
  \/ WorkerCompletes(m) \/ FailMember(m) \/ Check(m)
  \/ Reopen(m) \/ Remove(m) \/ Delete(m)
  \/ CleanupReleased(m) \/ CleanupDelete(m) \/ CleanupDone(m) \/ CleanupFails(m)
  \/ CleanupStops(m)

Next ==
  \/ \E a \in Archives : Enqueue(a) \/ FixArchive(a)
  \/ \E m \in Members : MemberNext(m)
  \/ \E f \in Finalizers : FinalizerNext(f) \/ Progress(f)
  \/ ClearCompleted
  \/ Crash

Spec == Init /\ [][Next]_vars
-----------------------------------------------------------------------------
(* Properties.                                                             *)

(***************************************************************************)
(* Moving never loses a member: through moves, roll-backs, cancellations   *)
(* and crashes the data of a member that was downloaded is somewhere,      *)
(* unless the user has deleted it.  The exceptions, `lost', are three: a   *)
(* roll-back that could not move an entry back, whose folder is removed    *)
(* all the same; a folder that a crash left behind, which the next         *)
(* archive of that name removes as stale; and an output that a clean-up of *)
(* an earlier archive of that name deletes as its own.                     *)
(***************************************************************************)
MembersSurvive ==
  \A m \in Members : row[m] = "completed" => at[m] # {} \/ m \in deleted \cup lost

(***************************************************************************)
(* An archive is claimed once: two finalizers work on one archive only if  *)
(* the user canceled the first of them, which is not told, and asked for   *)
(* another.                                                                *)
(***************************************************************************)
At(a) == {f \in Finalizers : pc[f] # "idle" /\ arc[f] = a}

OneFinalizer == \A a \in Archives \ canceled : \A f, g \in At(a) : f = g

(***************************************************************************)
(* An archive that is shown as being finalized has a finalizer: neither a  *)
(* late progress update nor a cancellation leaves it in that state for     *)
(* ever.  A save that fails does.                                          *)
(***************************************************************************)
FinalizingHasFinalizer ==
  faults = 0 => \A a \in Archives :
    Rows(a) # {} /\ status[a] = "Finalizing" => At(a) # {}

(***************************************************************************)
(* A completed archive is whole: every member that is still listed and was *)
(* not deleted is in the output.                                           *)
(***************************************************************************)
CompletedIsWhole ==
  \A a \in Archives : status[a] = "Completed" =>
    \A m \in Rows(a) : "output" \in at[m] \/ m \in deleted \cup lost

(***************************************************************************)
(* Completion is noticed: a pending archive that could be finalized has a  *)
(* worker that is about to look at it, whatever the order in which its     *)
(* members complete.  Not so after a crash between the completion and the  *)
(* look, after a save that failed, and when the member that was missing    *)
(* was removed from the list: then nobody looks again.                     *)
(***************************************************************************)
CompletionIsNoticed ==
  crashes = 0 /\ faults = 0 => \A a \in Archives \ thinned :
    ReadyForJob(a) => \E m \in MembersOf(a) : after[m] = "check"

(***************************************************************************)
(* The permit is what keeps finalizers of one output path apart: whoever   *)
(* is past the queue holds it, and it is free when they all have ended,    *)
(* whichever way.                                                          *)
(***************************************************************************)
PermitDiscipline == \A f \in Finalizers : pc[f] \in Reporting <=> permit = f

-----------------------------------------------------------------------------
(* What messages and tests say, and the code does not keep.                *)

(***************************************************************************)
(* "Bulk archive finalization was interrupted by app shutdown. Use Fix     *)
(* archive to finish it.": an interrupted archive whose members are all    *)
(* Completed has their files where Fix archive looks for them.             *)
(***************************************************************************)
InterruptedIsFixable ==
  \A a \in Archives : status[a] = "Interrupted" =>
    \A m \in Rows(a) \ deleted : row[m] = "completed" => "source" \in at[m]
=============================================================================
