------------------------ MODULE BulkArchive_proofs ------------------------
(***************************************************************************)
(* For any archives, members, finalizers and bounds: the invariants of     *)
(* BulkArchive, from one inductive invariant.  The members that a          *)
(* finalizer has in hand are accounted for one stage after the other, and  *)
(* the permit keeps every other finalizer away from its folder meanwhile.  *)
(***************************************************************************)
EXTENDS BulkArchive, FiniteSetTheorems, TLAPS

\* A finalizer has nothing in hand before it moves, and only members of its archive.
Assigned == \A f \in Finalizers :
  /\ pc[f] = "idle" => left[f] = {}
  /\ pc[f] # "idle" => arc[f] \in Archives
  /\ pc[f] \in {"idle", "plan", "queue", "prepare", "begin"} => moved[f] = {} /\ copied[f] = {}
  /\ left[f] \cup moved[f] \cup copied[f] \subseteq MembersOf(arc[f])

\* OneFinalizer, and an archive that is being worked on is shown so.
Exclusive == \A a \in Archives \ canceled :
  /\ \A f, g \in At(a) : f = g
  /\ At(a) # {} => status[a] = "Finalizing"

\* FinalizingHasFinalizer, for archives without rows too.
Attended == faults = 0 => \A a \in Archives : status[a] = "Finalizing" => At(a) # {}

\* What a finalizer has in hand is in its folder, and nothing else is in a folder.
InHandOf(f) == \A m \in Members :
  /\ pc[f] = "move" /\ m \in moved[f] \cup copied[f] => "folder" \in at[m]
  /\ pc[f] \in {"move", "undo"} /\ m \in copied[f] => "source" \in at[m] \/ m \in deleted
  /\ pc[f] \in {"move", "undo"} /\ "folder" \in at[m] =>
       m \in moved[f] \cup copied[f] \cup lost \cup deleted \/ "source" \in at[m]
  /\ pc[f] = "sweep" /\ m \in copied[f] => "output" \in at[m] \/ m \in deleted \cup lost

InHand == \A f \in Finalizers : InHandOf(f)

\* A clean-up works for a deletion.
CleanupMeansDeleted ==
  \A m \in Members : cleanup[m] \in {"wait", "delete", "deleted"} => m \in deleted

\* The archive was queued.
Known(a) == \E m \in MembersOf(a) : row[m] # "absent"

KnownArchives ==
  /\ \A a \in Archives : status[a] # "Pending" => Known(a)
  /\ \A f \in Finalizers : pc[f] # "idle" => status[arc[f]] # "Pending"

\* What a finalizer has read, and then published, is the whole archive.
Covers == \A f \in Finalizers :
  /\ pc[f] \in {"plan", "queue", "prepare", "begin", "move"} =>
       Rows(arc[f]) \subseteq left[f] \cup moved[f] \cup copied[f]
  /\ pc[f] \in {"sweep", "settle"} =>
       \A m \in Rows(arc[f]) : "output" \in at[m] \/ m \in deleted \cup lost

\* Whoever is removed while the archive is pending leaves it thinned; a worker
\* that has completed has, or had, a row.
GoneIsThinned ==
  \A m \in Members :
    /\ row[m] = "gone" /\ status[m[1]] = "Pending" => m[1] \in thinned
    /\ after[m] # "none" => row[m] # "absent"

LEMMA MemberFacts ==
  /\ \A m \in Members : m[1] \in Archives /\ m \in MembersOf(m[1])
  /\ \A a \in Archives : MembersOf(a) \subseteq Members /\ Rows(a) \subseteq MembersOf(a)
  /\ \A a : \A m \in MembersOf(a) : m[1] = a
BY DEF Members, MembersOf, Rows

LEMMA InitTypeOK == Init => TypeOK /\ Assigned
BY BulkAssumption DEF Init, TypeOK, Assigned, Stages, Reporting, FailedStatus

LEMMA CommandBound ==
  ASSUME TypeOK, Command, Fault \/ NoFault
  PROVE  /\ commands' \in Nat /\ faults' \in Nat /\ crashes' \in Nat
         /\ commands' + faults' + crashes' <= MaxEvents + 1
BY BulkAssumption DEF TypeOK, Command, Fault, NoFault, Bounded

LEMMA FaultBound ==
  ASSUME TypeOK, Fault \/ NoFault, UNCHANGED <<commands, crashes>>
  PROVE  /\ commands' \in Nat /\ faults' \in Nat /\ crashes' \in Nat
         /\ commands' + faults' + crashes' <= MaxEvents + 1
BY BulkAssumption DEF TypeOK, Fault, NoFault, Bounded

LEMMA ClaimType ==
  ASSUME TypeOK, Assigned, NEW a \in Archives, NEW f \in Finalizers, Claim(a, f)
  PROVE  /\ Fault \/ NoFault
         /\ status' \in [Archives -> {"Pending", "Finalizing", "Completed"} \cup FailedStatus]
         /\ pc' \in [Finalizers -> Stages]
         /\ arc' \in [Finalizers -> Archives \cup {None}]
         /\ left' \in [Finalizers -> SUBSET Members]
         /\ UNCHANGED <<moved, copied, permit>>
         /\ \A g \in Finalizers : left'[g] \cap (moved'[g] \cup copied'[g]) = {}
         /\ Assigned'
<1>. USE DEF TypeOK, Claim, Mark, Stages, Reporting
<1>1. CASE /\ NoFault
           /\ pc' = [pc EXCEPT ![f] = "plan"]
           /\ arc' = [arc EXCEPT ![f] = a]
           /\ left' = [left EXCEPT ![f] = Rows(a)]
           /\ UNCHANGED <<moved, copied, permit>>
  BY <1>1, MemberFacts DEF Assigned
<1>2. CASE Fault /\ UNCHANGED workVars
  BY <1>2 DEF Assigned, workVars
<1>. QED  BY <1>1, <1>2

\* A finalizer that ends, and one that goes on.
LEMMA EndsType ==
  ASSUME TypeOK, Assigned, NEW f \in Finalizers, NEW from,
         NEW s \in {"Pending", "Finalizing", "Completed"} \cup FailedStatus, Ends(f, from, s)
  PROVE  /\ status' \in [Archives -> {"Pending", "Finalizing", "Completed"} \cup FailedStatus]
         /\ pc' \in [Finalizers -> Stages]
         /\ arc' \in [Finalizers -> Archives \cup {None}]
         /\ left' \in [Finalizers -> SUBSET Members]
         /\ moved' \in [Finalizers -> SUBSET Members]
         /\ copied' \in [Finalizers -> SUBSET Members]
         /\ \A g \in Finalizers : left'[g] \cap (moved'[g] \cup copied'[g]) = {}
         /\ UNCHANGED <<rowVars, commands, crashes, deleted, canceled, thinned>>
         /\ Assigned'
BY DEF TypeOK, Assigned, Ends, Mark, Stages

LEMMA GoesType ==
  ASSUME TypeOK, NEW f \in Finalizers, NEW from, NEW to \in Stages, Goes(f, from, to)
  PROVE  /\ pc' \in [Finalizers -> Stages]
         /\ UNCHANGED <<rowVars, arc, commands, crashes, deleted, canceled, thinned>>
BY DEF TypeOK, Goes

LEMMA TypeStep ==
  ASSUME TypeOK, Assigned, [Next]_vars
  PROVE  TypeOK' /\ Assigned'
<1>. USE BulkAssumption, MemberFacts DEF rowVars, diskVars, workVars, bounds, historyVars
<1>1. ASSUME NEW a \in Archives, Enqueue(a)
      PROVE  TypeOK' /\ Assigned'
  BY <1>1, FaultBound DEF TypeOK, Assigned, Stages, Reporting, FailedStatus, Mark, Enqueue
<1>2. ASSUME NEW a \in Archives, FixArchive(a)
      PROVE  TypeOK' /\ Assigned'
  BY <1>2, CommandBound, ClaimType, FaultBound DEF TypeOK, Assigned, Stages, Reporting, FailedStatus, Mark, FixArchive, Command, NoFault
<1>3. ASSUME NEW m \in Members, WorkerCompletes(m)
      PROVE  TypeOK' /\ Assigned'
  <2>1. /\ row' \in [Members -> {"absent", "open", "completed", "gone"}]
        /\ at' \in [Members -> SUBSET Places]
        /\ after' \in [Members -> {"none", "check", "fail"}]
    BY <1>3 DEF TypeOK, WorkerCompletes, Places
  <2>2. cleanup' \in [Members -> {"none", "wait", "delete", "deleted", "failed", "stuck"}]
    BY <1>3 DEF TypeOK, WorkerCompletes
  <2>3. Fault \/ NoFault
    BY <1>3 DEF WorkerCompletes
  <2>. QED  BY <1>3, <2>1, <2>2, <2>3, FaultBound DEF TypeOK, Assigned, WorkerCompletes
<1>4. ASSUME NEW m \in Members, FailMember(m)
      PROVE  TypeOK' /\ Assigned'
  BY <1>4, FaultBound DEF TypeOK, Assigned, Stages, Reporting, FailedStatus, Mark, FailMember
<1>5. ASSUME NEW m \in Members, Check(m)
      PROVE  TypeOK' /\ Assigned'
  BY <1>5, ClaimType, FaultBound DEF TypeOK, Assigned, Stages, Reporting, FailedStatus, Mark, Check
<1>6. ASSUME NEW m \in Members, Reopen(m)
      PROVE  TypeOK' /\ Assigned'
  BY <1>6, CommandBound, FaultBound DEF TypeOK, Assigned, Stages, Reporting, FailedStatus, Mark, Reopen, Command, NoFault
<1>7. ASSUME NEW m \in Members, Remove(m)
      PROVE  TypeOK' /\ Assigned'
  BY <1>7, CommandBound, FaultBound DEF TypeOK, Assigned, Stages, Reporting, FailedStatus, Mark, Remove, Command, RemoveRows, NoFault
<1>8. ASSUME NEW m \in Members, Delete(m)
      PROVE  TypeOK' /\ Assigned'
  BY <1>8, CommandBound, FaultBound DEF TypeOK, Assigned, Stages, Reporting, FailedStatus, Mark, Delete, Command, NoFault
<1>9. ASSUME NEW m \in Members, CleanupReleased(m)
      PROVE  TypeOK' /\ Assigned'
  BY <1>9, FaultBound DEF TypeOK, Assigned, Stages, Reporting, FailedStatus, Mark, CleanupReleased, CleanupStep
<1>10. ASSUME NEW m \in Members, CleanupDelete(m)
      PROVE  TypeOK' /\ Assigned'
  BY <1>10, FaultBound DEF TypeOK, Assigned, Stages, Reporting, FailedStatus, Mark, CleanupDelete, CleanupStep
<1>11. ASSUME NEW m \in Members, CleanupDone(m)
      PROVE  TypeOK' /\ Assigned'
  BY <1>11, FaultBound DEF TypeOK, Assigned, Stages, Reporting, FailedStatus, Mark, CleanupDone, RemoveRows, CleanupStep
<1>12. ASSUME NEW m \in Members, CleanupFails(m)
      PROVE  TypeOK' /\ Assigned'
  BY <1>12, FaultBound DEF TypeOK, Assigned, Stages, Reporting, FailedStatus, Mark, CleanupFails, CleanupStep
<1>13. ASSUME NEW m \in Members, CleanupStops(m)
      PROVE  TypeOK' /\ Assigned'
  BY <1>13, FaultBound DEF TypeOK, Assigned, Stages, Reporting, FailedStatus, Mark, CleanupStops, CleanupStep
<1>14. ASSUME NEW f \in Finalizers, Plan(f)
      PROVE  TypeOK' /\ Assigned'
  <2>1. CASE Ends(f, "plan", "Failed") /\ CannotRead(f) /\ UNCHANGED <<diskVars, permit, lost>>
    BY <2>1, EndsType, FaultBound DEF TypeOK, CannotRead, FailedStatus
  <2>2. CASE /\ NoFault
             /\ Goes(f, "plan", "queue")
             /\ Mark(arc[f], "Finalizing")
             /\ UNCHANGED <<left, moved, copied>>
             /\ UNCHANGED <<diskVars, permit, lost>>
    BY <2>2, FaultBound DEF TypeOK, Assigned, Stages, Reporting, FailedStatus, Mark, Goes
  <2>3. CASE Fault /\ Ends(f, "plan", "Finalizing") /\ UNCHANGED <<diskVars, permit, lost>>
    BY <2>3, EndsType, FaultBound DEF TypeOK
  <2>. QED  BY <1>14, <2>1, <2>2, <2>3 DEF Plan
<1>15. ASSUME NEW f \in Finalizers, TakePermit(f)
      PROVE  TypeOK' /\ Assigned'
  BY <1>15, FaultBound DEF TypeOK, Assigned, Stages, Reporting, FailedStatus, Mark, Goes, Ends, CannotRead, TakePermit
<1>16. ASSUME NEW f \in Finalizers, Prepare(f)
      PROVE  TypeOK' /\ Assigned'
  <2>1. CASE /\ Goes(f, "prepare", "begin") \/ Goes(f, "prepare", "abort")
             /\ Fault \/ NoFault
             /\ UNCHANGED status \/ Mark(arc[f], "Finalizing")
             /\ UNCHANGED <<left, moved, copied, permit>>
             /\ UNCHANGED <<diskVars, lost>>
    BY <2>1, FaultBound, SMTT(20) DEF TypeOK, Assigned, Stages, Reporting, FailedStatus, Mark, Goes
  <2>2. CASE Ends(f, "prepare", "Finalizing") /\ Fault /\ permit' = None /\ UNCHANGED <<diskVars, lost>>
    BY <2>2, EndsType, FaultBound DEF TypeOK
  <2>. QED  BY <1>16, <2>1, <2>2 DEF Prepare, CannotRead
<1>17. ASSUME NEW f \in Finalizers, Begin(f)
      PROVE  TypeOK' /\ Assigned'
  BY <1>17, FaultBound, SMTT(20) DEF TypeOK, Assigned, Stages, Reporting, FailedStatus, Mark, Goes, Ends, CannotRead, Begin
<1>18. ASSUME NEW f \in Finalizers, MoveFails(f)
      PROVE  TypeOK' /\ Assigned'
  BY <1>18, FaultBound DEF TypeOK, Assigned, Stages, Reporting, FailedStatus, Mark, Goes, Ends, CannotRead, MoveFails
<1>19. ASSUME NEW f \in Finalizers, PublishFolder(f)
      PROVE  TypeOK' /\ Assigned'
  <2>1. at' \in [Members -> SUBSET Places] /\ output' \in Archives \cup {None}
    BY <1>19 DEF TypeOK, PublishFolder, Places
  <2>. QED  BY <1>19, <2>1, GoesType, FaultBound DEF TypeOK, Assigned, Stages, Reporting, PublishFolder, Goes, NoFault
<1>20. ASSUME NEW f \in Finalizers, Undo(f)
      PROVE  TypeOK' /\ Assigned'
  <2>0. PICK m \in moved[f] :
          /\ moved' = [moved EXCEPT ![f] = @ \ {m}]
          /\ \/ "source" \in at[m] /\ NoFault /\ UNCHANGED <<at, lost>>
             \/ "source" \notin at[m] /\ Fault /\ UNCHANGED at /\ lost' = lost \cup {m}
             \/ /\ "source" \notin at[m] /\ NoFault
                /\ at' = [at EXCEPT ![m] = (@ \ {"folder"}) \cup {"source"}]
                /\ UNCHANGED lost
    BY <1>20 DEF Undo
  <2>1. m \in Members
    BY DEF TypeOK
  <2>a. at' \in [Members -> SUBSET Places] /\ lost' \subseteq Members
    BY <2>0, <2>1 DEF TypeOK, Places
  <2>2. Fault \/ NoFault
    BY <2>0
  <2>3. /\ moved' \in [Finalizers -> SUBSET Members]
        /\ \A g \in Finalizers : moved'[g] \subseteq moved[g]
    BY <2>0 DEF TypeOK
  <2>4. Assigned'
    BY <1>20, <2>3 DEF TypeOK, Assigned, Undo, Goes
  <2>. QED  BY <1>20, <2>a, <2>2, <2>3, <2>4, GoesType, FaultBound DEF TypeOK, Stages, Reporting, Undo
<1>21. ASSUME NEW f \in Finalizers, DropFolder(f)
      PROVE  TypeOK' /\ Assigned'
  BY <1>21, FaultBound DEF TypeOK, Assigned, Stages, Reporting, FailedStatus, Mark, Goes, Ends, CannotRead, DropFolder
<1>22. ASSUME NEW f \in Finalizers, Sweep(f)
      PROVE  TypeOK' /\ Assigned'
  BY <1>22, FaultBound DEF TypeOK, Assigned, Stages, Reporting, FailedStatus, Mark, Goes, Ends, CannotRead, Sweep
<1>23. ASSUME NEW f \in Finalizers, VerifyFails(f)
      PROVE  TypeOK' /\ Assigned'
  BY <1>23, FaultBound DEF TypeOK, Assigned, Stages, Reporting, FailedStatus, Mark, Goes, Ends, CannotRead, VerifyFails
<1>24. ASSUME NEW f \in Finalizers, Report(f)
      PROVE  TypeOK' /\ Assigned'
  <2>1. PICK s \in {"Completed", "Failed"}, from \in Stages : Ends(f, from, s)
    BY <1>24 DEF Report, Stages, Reporting
  <2>. QED  BY <1>24, <2>1, EndsType, FaultBound DEF TypeOK, Report, NoFault, FailedStatus
<1>25. ASSUME NEW f \in Finalizers, Progress(f)
      PROVE  TypeOK' /\ Assigned'
  BY <1>25, FaultBound DEF TypeOK, Assigned, Stages, Reporting, FailedStatus, Mark, Goes, Ends, CannotRead, Progress
<1>26. ASSUME NEW f \in Finalizers, NEW m \in Members, MoveEntry(f, m)
      PROVE  TypeOK' /\ Assigned'
  <2>a. /\ (at[m] \ {"source"}) \cup {"folder"} \in SUBSET Places
        /\ at[m] \cup {"folder"} \in SUBSET Places
    BY DEF TypeOK, Places
  <2>b. PICK place \in SUBSET Places : at' = [at EXCEPT ![m] = place]
    BY <1>26, <2>a DEF MoveEntry
  <2>0. at' \in [Members -> SUBSET Places]
    BY <2>b DEF TypeOK
  <2>1. /\ left' \in [Finalizers -> SUBSET Members]
        /\ moved' \in [Finalizers -> SUBSET Members]
        /\ copied' \in [Finalizers -> SUBSET Members]
    BY <1>26, SMTT(30) DEF TypeOK, MoveEntry
  <2>2. \A g \in Finalizers : left'[g] \cap (moved'[g] \cup copied'[g]) = {}
    BY <1>26 DEF TypeOK, MoveEntry
  <2>3. Assigned'
    BY <1>26 DEF TypeOK, Assigned, MoveEntry, Goes
  <2>. QED  BY <1>26, <2>0, <2>1, <2>2, <2>3, GoesType, FaultBound DEF TypeOK, Stages, Reporting, MoveEntry, NoFault
<1>27. CASE ClearCompleted
  <2>1. PICK S \in SUBSET Members : RemoveRows(S)
    BY <1>27 DEF ClearCompleted
  <2>2. row' \in [Members -> {"absent", "open", "completed", "gone"}] /\ thinned' \subseteq Archives
    BY <2>1 DEF TypeOK, RemoveRows
  <2>. QED  BY <1>27, <2>2, CommandBound DEF TypeOK, Assigned, ClearCompleted, Command, NoFault
<1>28. CASE Crash
  <2>1. /\ row' \in [Members -> {"absent", "open", "completed", "gone"}]
        /\ after' \in [Members -> {"none", "check", "fail"}]
        /\ cleanup' \in [Members -> {"none", "wait", "delete", "deleted", "failed", "stuck"}]
        /\ takesOutput' \subseteq Members
    BY <1>28 DEF TypeOK, Crash
  <2>2. status' \in [Archives -> {"Pending", "Finalizing", "Completed"} \cup FailedStatus]
    BY <1>28 DEF TypeOK, Crash, FailedStatus
  <2>3. /\ commands' \in Nat /\ faults' \in Nat /\ crashes' \in Nat
        /\ commands' + faults' + crashes' <= MaxEvents + 1
    BY <1>28 DEF TypeOK, Crash, Bounded
  <2>. QED  BY <1>28, <2>1, <2>2, <2>3 DEF TypeOK, Assigned, Crash, Stages
<1>29. CASE UNCHANGED vars
  BY <1>29, CommandBound, FaultBound DEF TypeOK, Assigned, Stages, Reporting, FailedStatus, Command, RemoveRows, NoFault, vars
<1>. QED  BY <1>1, <1>2, <1>3, <1>4, <1>5, <1>6, <1>7, <1>8, <1>9, <1>10, <1>11, <1>12, <1>13, <1>14, <1>15, <1>16, <1>17, <1>18, <1>19, <1>20, <1>21, <1>22, <1>23, <1>24, <1>25, <1>26, <1>27, <1>28, <1>29 DEF Next, MemberNext, FinalizerNext

(***************************************************************************)
(* What most actions leave alone.                                          *)
(***************************************************************************)
LEMMA FaultsGrow ==
  ASSUME TypeOK, [Next]_vars, faults' = 0
  PROVE  faults = 0
<1>1. Fault \/ NoFault \/ UNCHANGED faults
  BY DEF Next, vars, bounds, workVars, MemberNext, FinalizerNext, Claim, Enqueue, FixArchive, ClearCompleted,
         Crash, Progress, WorkerCompletes, FailMember, Check, Reopen, Remove, Delete, CleanupReleased,
         CleanupDelete, CleanupDone, CleanupFails, CleanupStops, Plan, TakePermit, Prepare, Begin,
         MoveEntry, MoveFails, PublishFolder, Undo, DropFolder, Sweep, VerifyFails, Report,
         CannotRead, NoFault
<1>. QED  BY <1>1 DEF Fault, NoFault, TypeOK

LEMMA MemberFrame ==
  ASSUME NEW m \in Members, MemberNext(m), ~Check(m)
  PROVE  UNCHANGED workVars /\ (Delete(m) \/ UNCHANGED <<status, canceled>>)
BY DEF MemberNext, WorkerCompletes, FailMember, Reopen, Remove, Delete, CleanupReleased, CleanupDelete,
       CleanupDone, CleanupFails, CleanupStops, CleanupStep, RemoveRows, historyVars

LEMMA DeleteFrame ==
  ASSUME NEW m \in Members, Delete(m)
  PROVE  \/ UNCHANGED <<status, canceled>>
         \/ /\ status[m[1]] = "Finalizing"
            /\ status' = [status EXCEPT ![m[1]] = "Canceled"]
            /\ canceled' = canceled \cup {m[1]}
BY DEF Delete, Mark

LEMMA ClaimFrame ==
  ASSUME NEW a, NEW f, Claim(a, f)
  PROVE  \/ /\ UNCHANGED workVars
            /\ Fault
            /\ status' = [status EXCEPT ![a] = "Finalizing"]
         \/ /\ pc[f] = "idle" /\ pc' = [pc EXCEPT ![f] = "plan"]
            /\ arc' = [arc EXCEPT ![f] = a]
            /\ left' = [left EXCEPT ![f] = Rows(a)]
            /\ UNCHANGED <<moved, copied, permit>>
            /\ NoFault
            /\ status' = [status EXCEPT ![a] = "Finalizing"]
BY DEF Claim, Mark

LEMMA CheckFrame ==
  ASSUME NEW m \in Members, Check(m)
  PROVE  /\ UNCHANGED <<row, cleanup, takesOutput, diskVars, commands, crashes, historyVars>>
         /\ \/ UNCHANGED <<status, workVars, faults>> /\ ~(Listed(m) /\ ReadyForJob(m[1]))
            \/ ReadyForJob(m[1]) /\ \E f \in Finalizers : Claim(m[1], f)
BY DEF Check

(***************************************************************************)
(* The permit.                                                             *)
(***************************************************************************)
LEMMA PermitStep ==
  ASSUME TypeOK, PermitDiscipline, [Next]_vars
  PROVE  PermitDiscipline'
<1>. USE BulkAssumption DEF TypeOK, PermitDiscipline, Reporting
<1>1. ASSUME UNCHANGED <<pc, permit>>
      PROVE  PermitDiscipline'
  BY <1>1
<1>2. ASSUME NEW a, NEW f \in Finalizers, Claim(a, f)
      PROVE  PermitDiscipline'
  BY <1>2, ClaimFrame DEF workVars
<1>3. ASSUME NEW m \in Members, MemberNext(m)
      PROVE  PermitDiscipline'
  BY <1>1, <1>2, <1>3, MemberFrame, CheckFrame DEF workVars
<1>4. ASSUME NEW a \in Archives, Enqueue(a) \/ FixArchive(a)
      PROVE  PermitDiscipline'
  BY <1>1, <1>2, <1>4 DEF Enqueue, FixArchive, workVars
<1>5. ASSUME NEW f \in Finalizers, FinalizerNext(f)
      PROVE  PermitDiscipline'
  BY <1>5 DEF FinalizerNext, Plan, TakePermit, Prepare, Begin, MoveEntry, MoveFails, PublishFolder,
              Undo, DropFolder, Sweep, VerifyFails, Report, Goes, Ends
<1>6. CASE Crash
  BY <1>6 DEF Crash
<1>7. CASE ClearCompleted \/ (\E f \in Finalizers : Progress(f)) \/ UNCHANGED vars
  BY <1>1, <1>7 DEF ClearCompleted, Progress, workVars, vars
<1>. QED  BY <1>3, <1>4, <1>5, <1>6, <1>7 DEF Next

(***************************************************************************)
(* One finalizer.                                                          *)
(***************************************************************************)
LEMMA ExclusiveStep ==
  ASSUME TypeOK, Assigned, Exclusive, [Next]_vars
  PROVE  Exclusive'
<1>. USE MemberFacts DEF TypeOK, Exclusive, At
<1>1. ASSUME UNCHANGED <<pc, arc, status, canceled>>
      PROVE  Exclusive'
  BY <1>1
<1>2. ASSUME NEW a \in Archives, NEW f \in Finalizers, Claim(a, f), status[a] # "Finalizing",
             UNCHANGED canceled
      PROVE  Exclusive'
  <2>1. status' = [status EXCEPT ![a] = "Finalizing"]
    BY <1>2, ClaimFrame
  <2>2. CASE UNCHANGED <<pc, arc>>
    BY <1>2, <2>1, <2>2
  <2>3. CASE /\ pc[f] = "idle" /\ pc' = [pc EXCEPT ![f] = "plan"]
             /\ arc' = [arc EXCEPT ![f] = a]
    <3>1. \A b \in Archives \ canceled : b # a => At(b)' = At(b) /\ status'[b] = status[b]
      BY <2>1, <2>3
    <3>2. a \notin canceled => At(a) = {}
      BY <1>2
    <3>3. a \notin canceled => At(a)' = {f} /\ status'[a] = "Finalizing"
      BY <2>1, <2>3, <3>2
    <3>. QED  BY <1>2, <3>1, <3>3
  <2>. QED  BY <1>2, <2>2, <2>3, ClaimFrame DEF workVars
<1>3. ASSUME NEW m \in Members, Delete(m)
      PROVE  Exclusive'
  <2>1. UNCHANGED <<pc, arc>>
    BY <1>3 DEF Delete, workVars
  <2>. QED  BY <1>1, <1>3, <2>1, DeleteFrame
<1>4. ASSUME NEW m \in Members, MemberNext(m), ~Delete(m)
      PROVE  Exclusive'
  BY <1>1, <1>2, <1>4, MemberFrame, CheckFrame DEF workVars, historyVars, ReadyForJob
<1>5. ASSUME NEW a \in Archives, Enqueue(a) \/ FixArchive(a)
      PROVE  Exclusive'
  BY <1>1, <1>2, <1>5 DEF Enqueue, FixArchive, workVars, historyVars, FailedStatus
<1>6. ASSUME NEW f \in Finalizers, NEW from, NEW s, Ends(f, from, s), from # "idle"
      PROVE  Exclusive'
  BY <1>6 DEF Ends, Mark
<1>7. ASSUME NEW f \in Finalizers, NEW from, NEW to, Goes(f, from, to), from # "idle",
             UNCHANGED status \/ Mark(arc[f], "Finalizing")
      PROVE  Exclusive'
  BY <1>7 DEF Goes, Mark, Assigned
<1>8. ASSUME NEW f \in Finalizers, FinalizerNext(f)
      PROVE  Exclusive'
  BY <1>6, <1>7, <1>8 DEF FinalizerNext, Plan, TakePermit, Prepare, Begin, MoveEntry, MoveFails, PublishFolder,
              Undo, DropFolder, Sweep, VerifyFails, Report
<1>9. ASSUME NEW f \in Finalizers, Progress(f)
      PROVE  Exclusive'
  BY <1>9 DEF Progress, Mark, workVars, historyVars, Reporting
<1>10. CASE Crash
  BY <1>10 DEF Crash, historyVars
<1>11. CASE ClearCompleted \/ UNCHANGED vars
  BY <1>1, <1>11 DEF ClearCompleted, workVars, vars, historyVars
<1>. QED  BY <1>3, <1>4, <1>5, <1>8, <1>9, <1>10, <1>11 DEF Next

(***************************************************************************)
(* Whatever is shown as being finalized is.                                *)
(***************************************************************************)
LEMMA AttendedStep ==
  ASSUME TypeOK, Assigned, Attended, [Next]_vars
  PROVE  Attended'
<1>. SUFFICES ASSUME faults = 0, faults' = 0
              PROVE  Attended'
  BY FaultsGrow DEF Attended
<1>. USE MemberFacts DEF TypeOK, Attended, At
<1>0. ~Fault
  BY DEF Fault
<1>1. ASSUME UNCHANGED <<pc, arc, status>>
      PROVE  Attended'
  BY <1>1
<1>2. ASSUME NEW a \in Archives, NEW f \in Finalizers, Claim(a, f)
      PROVE  Attended'
  BY <1>0, <1>2, ClaimFrame
<1>3. ASSUME NEW m \in Members, Delete(m)
      PROVE  Attended'
  <2>1. UNCHANGED <<pc, arc>>
    BY <1>3 DEF Delete, workVars
  <2>. QED  BY <1>1, <1>3, <2>1, DeleteFrame
<1>4. ASSUME NEW m \in Members, MemberNext(m), ~Delete(m)
      PROVE  Attended'
  BY <1>1, <1>2, <1>4, MemberFrame, CheckFrame DEF workVars
<1>5. ASSUME NEW a \in Archives, Enqueue(a) \/ FixArchive(a)
      PROVE  Attended'
  BY <1>1, <1>2, <1>5 DEF Enqueue, FixArchive, workVars
<1>6. ASSUME NEW f \in Finalizers, NEW from, NEW s, Ends(f, from, s), s # "Finalizing"
      PROVE  Attended'
  BY <1>6 DEF Ends, Mark, Assigned
<1>7. ASSUME NEW f \in Finalizers, NEW from, NEW to, Goes(f, from, to), from # "idle", to # "idle",
             UNCHANGED status \/ Mark(arc[f], "Finalizing")
      PROVE  Attended'
  BY <1>7 DEF Goes, Mark, Assigned
<1>8. ASSUME NEW f \in Finalizers, FinalizerNext(f)
      PROVE  Attended'
  BY <1>0, <1>6, <1>7, <1>8 DEF FinalizerNext, Plan, TakePermit, Prepare, Begin, MoveEntry, MoveFails, PublishFolder,
              Undo, DropFolder, Sweep, VerifyFails, Report
<1>9. ASSUME NEW f \in Finalizers, Progress(f)
      PROVE  Attended'
  BY <1>9 DEF Progress, Mark, workVars, Reporting
<1>10. CASE Crash
  BY <1>10 DEF Crash
<1>11. CASE ClearCompleted \/ UNCHANGED vars
  BY <1>1, <1>11 DEF ClearCompleted, workVars, vars
<1>. QED  BY <1>3, <1>4, <1>5, <1>8, <1>9, <1>10, <1>11 DEF Next

(***************************************************************************)
(* Nothing is lost.  Whoever is past the queue is alone there.             *)
(***************************************************************************)
LEMMA Alone ==
  ASSUME PermitDiscipline, NEW f \in Finalizers, pc[f] \in Reporting
  PROVE  \A g \in Finalizers : g # f => pc[g] \notin Reporting
BY DEF PermitDiscipline

LEMMA HistoryGrows ==
  ASSUME [Next]_vars
  PROVE  deleted \subseteq deleted' /\ lost \subseteq lost' /\ thinned \subseteq thinned'
BY DEF Next, vars, historyVars, MemberNext, FinalizerNext, Enqueue, FixArchive, ClearCompleted, RemoveRows,
       Crash, Progress, WorkerCompletes, FailMember, Check, Reopen, Remove, Delete, CleanupStep,
       CleanupReleased, CleanupDelete, CleanupDone, CleanupFails, CleanupStops, Plan, TakePermit, Prepare,
       Begin, MoveEntry, MoveFails, PublishFolder, Undo, DropFolder, Sweep, VerifyFails, Report, Goes, Ends

LEMMA CleanupMeansDeletedStep ==
  ASSUME TypeOK, CleanupMeansDeleted, [Next]_vars
  PROVE  CleanupMeansDeleted'
<1>. USE HistoryGrows DEF TypeOK, CleanupMeansDeleted
<1>1. CASE UNCHANGED cleanup
  BY <1>1
<1>2. ASSUME NEW m \in Members, MemberNext(m)
      PROVE  CleanupMeansDeleted'
  BY <1>1, <1>2 DEF MemberNext, WorkerCompletes, FailMember, Check, Reopen, Remove, Delete, CleanupStep,
       CleanupReleased, CleanupDelete, CleanupDone, CleanupFails, CleanupStops
<1>3. ASSUME NEW f \in Finalizers, FinalizerNext(f) \/ Progress(f)
      PROVE  CleanupMeansDeleted'
  BY <1>1, <1>3 DEF FinalizerNext, Progress, Plan, TakePermit, Prepare,
       Begin, MoveEntry, MoveFails, PublishFolder, Undo, DropFolder, Sweep, VerifyFails, Report, Goes, Ends, rowVars
<1>4. ASSUME NEW a \in Archives, Enqueue(a) \/ FixArchive(a)
      PROVE  CleanupMeansDeleted'
  BY <1>1, <1>4 DEF Enqueue, FixArchive, rowVars
<1>5. CASE Crash
  BY <1>5 DEF Crash
<1>6. CASE ClearCompleted \/ UNCHANGED vars
  BY <1>1, <1>6 DEF ClearCompleted, vars, rowVars
<1>. QED  BY <1>2, <1>3, <1>4, <1>5, <1>6 DEF Next

LEMMA InHandStep ==
  ASSUME TypeOK, Assigned, PermitDiscipline, CleanupMeansDeleted, InHand, [Next]_vars
  PROVE  InHand'
<1>. USE HistoryGrows DEF TypeOK, InHand, InHandOf
<1>1. ASSUME UNCHANGED <<pc, moved, copied, at>>
      PROVE  InHand'
  BY <1>1
<1>2. ASSUME NEW a, NEW f \in Finalizers, Claim(a, f), UNCHANGED at
      PROVE  InHand'
  BY <1>2, ClaimFrame DEF workVars
<1>3. ASSUME NEW m \in Members, WorkerCompletes(m)
      PROVE  InHand'
  BY <1>3 DEF WorkerCompletes, workVars
<1>4. ASSUME NEW m \in Members, CleanupDelete(m)
      PROVE  InHand'
  <2>1. UNCHANGED workVars
    BY <1>4 DEF CleanupDelete, CleanupStep
  <2>2. m \in deleted
    BY <1>4 DEF CleanupMeansDeleted, CleanupDelete, CleanupStep
  <2>3. \A k \in Members : /\ at'[k] \subseteq at[k]
                           /\ "folder" \in at[k] => "folder" \in at'[k]
                           /\ k # m /\ "source" \in at[k] => "source" \in at'[k]
                           /\ "output" \in at[k] => "output" \in at'[k] \/ k \in deleted' \cup lost'
    BY <1>4 DEF CleanupDelete
  <2>. QED  BY <2>1, <2>2, <2>3 DEF workVars
<1>5. ASSUME NEW m \in Members, MemberNext(m), ~WorkerCompletes(m), ~CleanupDelete(m)
      PROVE  InHand'
  <2>1. UNCHANGED at
    BY <1>5 DEF MemberNext, FailMember, Check, Reopen, Remove, Delete, CleanupReleased, CleanupDone,
                CleanupFails, CleanupStops, diskVars
  <2>. QED  BY <1>1, <1>2, <1>5, <2>1, MemberFrame, CheckFrame DEF workVars
<1>6. ASSUME NEW a \in Archives, Enqueue(a) \/ FixArchive(a)
      PROVE  InHand'
  BY <1>1, <1>2, <1>6 DEF Enqueue, FixArchive, workVars, diskVars
<1>7. ASSUME NEW f \in Finalizers, Plan(f) \/ TakePermit(f) \/ Prepare(f)
      PROVE  InHand'
  <2>1. UNCHANGED at /\ pc'[f] \notin {"move", "undo", "sweep"}
        /\ \A g \in Finalizers : g # f => pc'[g] = pc[g] /\ moved'[g] = moved[g] /\ copied'[g] = copied[g]
    BY <1>7 DEF Plan, TakePermit, Prepare, Goes, Ends, diskVars
  <2>. QED  BY <2>1
<1>8. ASSUME NEW f \in Finalizers, FinalizerNext(f), ~(Plan(f) \/ TakePermit(f) \/ Prepare(f))
      PROVE  InHand'
  <2>1. /\ pc[f] \in Reporting
        /\ \A g \in Finalizers : g # f => pc'[g] = pc[g]
    BY <1>8 DEF FinalizerNext, Begin, MoveEntry, MoveFails, PublishFolder, Undo, DropFolder, Sweep,
                VerifyFails, Report, Goes, Ends, Reporting
  <2>2. \A g \in Finalizers : g # f => InHandOf(g)'
    BY <2>1, Alone DEF Reporting
  <2>3. ASSUME Begin(f)
        PROVE  InHandOf(f)'
    BY <2>3 DEF Begin, Goes, Assigned
  <2>4. ASSUME NEW m \in Members, MoveEntry(f, m)
        PROVE  InHandOf(f)'
    <3>1. /\ pc[f] = "move" /\ pc'[f] = "move" /\ UNCHANGED <<lost, deleted>>
          /\ m \in left[f] /\ "source" \in at[m]
      BY <2>4 DEF MoveEntry, Goes
    <3>2. m \notin copied[f]
      BY <3>1
    <3>3. CASE /\ at' = [at EXCEPT ![m] = (@ \ {"source"}) \cup {"folder"}]
               /\ moved' = [moved EXCEPT ![f] = @ \cup {m}]
               /\ UNCHANGED copied
      BY <3>1, <3>2, <3>3
    <3>4. CASE /\ at' = [at EXCEPT ![m] = @ \cup {"folder"}]
               /\ copied' = [copied EXCEPT ![f] = @ \cup {m}]
               /\ UNCHANGED moved
      BY <3>1, <3>4
    <3>. QED  BY <2>4, <3>3, <3>4 DEF MoveEntry
  <2>5. ASSUME MoveFails(f) \/ VerifyFails(f) \/ Report(f)
        PROVE  InHandOf(f)'
    BY <2>5 DEF MoveFails, VerifyFails, Report, Goes, Ends, diskVars
  <2>6. ASSUME PublishFolder(f)
        PROVE  InHandOf(f)'
    <3>1. \A k \in Members : "folder" \in at[k] => "output" \in at'[k]
      BY <2>6 DEF PublishFolder
    <3>. QED  BY <2>6, <3>1 DEF PublishFolder, Goes
  <2>7. ASSUME Undo(f)
        PROVE  InHandOf(f)'
    <3>1. pc[f] = "undo" /\ pc'[f] = "undo" /\ UNCHANGED <<copied, deleted>>
      BY <2>7 DEF Undo, Goes
    <3>2. PICK m \in moved[f] :
            /\ moved' = [moved EXCEPT ![f] = @ \ {m}]
            /\ \/ "source" \in at[m] /\ NoFault /\ UNCHANGED <<at, lost>>
               \/ "source" \notin at[m] /\ Fault /\ UNCHANGED at /\ lost' = lost \cup {m}
               \/ /\ "source" \notin at[m] /\ NoFault
                  /\ at' = [at EXCEPT ![m] = (@ \ {"folder"}) \cup {"source"}]
                  /\ UNCHANGED lost
      BY <2>7 DEF Undo
    <3>3. m \in Members
      OBVIOUS
    <3>4. \A k \in Members : k # m => at'[k] = at[k] /\ (k \in moved'[f] <=> k \in moved[f])
      BY <3>2, <3>3
    <3>5. "source" \in at'[m] \/ (m \in lost' /\ at'[m] = at[m])
      <4>1. CASE at' = [at EXCEPT ![m] = (@ \ {"folder"}) \cup {"source"}]
        BY <3>3, <4>1
      <4>2. CASE UNCHANGED at
        BY <3>2, <3>3, <4>2
      <4>. QED  BY <3>2, <4>1, <4>2
    <3>. QED  BY <3>1, <3>3, <3>4, <3>5
  <2>8. ASSUME DropFolder(f) \/ Sweep(f)
        PROVE  InHandOf(f)'
    BY <2>8 DEF DropFolder, Sweep, Goes
  <2>. QED  BY <1>8, <2>2, <2>3, <2>4, <2>5, <2>6, <2>7, <2>8 DEF FinalizerNext
<1>9. CASE Crash
  BY <1>9 DEF Crash
<1>10. CASE ClearCompleted \/ (\E f \in Finalizers : Progress(f)) \/ UNCHANGED vars
  BY <1>1, <1>10 DEF ClearCompleted, Progress, workVars, diskVars, vars
<1>. QED  BY <1>3, <1>4, <1>5, <1>6, <1>7, <1>8, <1>9, <1>10 DEF Next

LEMMA RowSteps ==
  ASSUME TypeOK, [Next]_vars, NEW m \in Members
  PROVE  /\ row'[m] = "completed" => row[m] = "completed" \/ WorkerCompletes(m)
         /\ row[m] # "absent" => row'[m] # "absent"
         /\ Listed(m)' => Listed(m) \/ \E a \in Archives : Enqueue(a) /\ m \in MembersOf(a)
<1>. USE DEF TypeOK, Listed
<1>1. CASE UNCHANGED row
  BY <1>1
<1>2. ASSUME NEW k \in Members, MemberNext(k)
      PROVE  /\ row'[m] = "completed" => row[m] = "completed" \/ WorkerCompletes(m)
             /\ row[m] # "absent" => row'[m] # "absent"
             /\ Listed(m)' => Listed(m)
  <2>1. ASSUME NEW S, RemoveRows(S)
        PROVE  row'[m] = row[m] \/ row'[m] = "gone"
    BY <2>1 DEF RemoveRows
  <2>2. CASE Remove(k) \/ CleanupDone(k)
    BY <2>1, <2>2 DEF Remove, CleanupDone
  <2>3. CASE WorkerCompletes(k)
    BY <2>3 DEF WorkerCompletes
  <2>4. CASE FailMember(k) \/ Reopen(k)
    BY <2>4 DEF FailMember, Reopen
  <2>5. CASE CleanupFails(k)
    BY <2>5 DEF CleanupFails
  <2>6. CASE Check(k) \/ Delete(k) \/ CleanupReleased(k) \/ CleanupDelete(k) \/ CleanupStops(k)
    BY <1>1, <2>6 DEF Check, Delete, CleanupReleased, CleanupDelete, CleanupStops
  <2>. QED  BY <1>2, <2>2, <2>3, <2>4, <2>5, <2>6 DEF MemberNext
<1>3. ASSUME NEW f \in Finalizers, FinalizerNext(f) \/ Progress(f)
      PROVE  UNCHANGED row
  BY <1>3 DEF FinalizerNext, Progress, Plan, TakePermit, Prepare,
       Begin, MoveEntry, MoveFails, PublishFolder, Undo, DropFolder, Sweep, VerifyFails, Report, Goes, Ends, rowVars
<1>4. ASSUME NEW a \in Archives, Enqueue(a)
      PROVE  /\ row'[m] = "completed" => row[m] = "completed"
             /\ row[m] # "absent" => row'[m] # "absent"
             /\ Listed(m)' => Listed(m) \/ m \in MembersOf(a)
  BY <1>4 DEF Enqueue
<1>5. CASE Crash
  BY <1>5 DEF Crash
<1>6. CASE ClearCompleted
  BY <1>6 DEF ClearCompleted, RemoveRows
<1>7. CASE (\E a \in Archives : FixArchive(a)) \/ UNCHANGED vars
  BY <1>1, <1>7 DEF FixArchive, vars, rowVars
<1>. QED  BY <1>1, <1>2, <1>3, <1>4, <1>5, <1>6, <1>7 DEF Next

(***************************************************************************)
(* No step takes the last copy of a member, or its copy in the output,     *)
(* without a trace in the history.                                         *)
(***************************************************************************)
LEMMA DataKept ==
  ASSUME TypeOK, PermitDiscipline, CleanupMeansDeleted, InHand, [Next]_vars, NEW m \in Members
  PROVE  /\ at[m] # {} => at'[m] # {} \/ m \in deleted' \cup lost'
         /\ "output" \in at[m] => "output" \in at'[m] \/ m \in deleted' \cup lost'
<1>. DEFINE Kept == /\ at[m] # {} => at'[m] # {} \/ m \in deleted' \cup lost'
                    /\ "output" \in at[m] => "output" \in at'[m] \/ m \in deleted' \cup lost'
<1>. USE HistoryGrows DEF TypeOK
<1>1. CASE UNCHANGED at
  BY <1>1
<1>2. ASSUME NEW k \in Members, WorkerCompletes(k)
      PROVE  Kept
  BY <1>2 DEF WorkerCompletes
<1>3. ASSUME NEW k \in Members, CleanupDelete(k)
      PROVE  Kept
  <2>1. k \in deleted
    BY <1>3 DEF CleanupMeansDeleted, CleanupDelete, CleanupStep
  <2>2. "output" \in at[m] => "output" \in at'[m] \/ m \in deleted' \cup lost'
    BY <1>3 DEF CleanupDelete
  <2>3. \A p \in at[m] : p # "output" /\ m # k => p \in at'[m]
    BY <1>3 DEF CleanupDelete
  <2>. QED  BY <2>1, <2>2, <2>3
<1>4. ASSUME NEW k \in Members, MemberNext(k), ~WorkerCompletes(k), ~CleanupDelete(k)
      PROVE  Kept
  <2>1. UNCHANGED at
    BY <1>4 DEF MemberNext, FailMember, Check, Reopen, Remove, Delete, CleanupReleased, CleanupDone,
                CleanupFails, CleanupStops, diskVars
  <2>. QED  BY <1>1, <2>1
<1>5. ASSUME NEW f \in Finalizers, Begin(f)
      PROVE  Kept
  <2>1. ~InWork(m)
    BY <1>5, Alone DEF InWork, Begin, Goes, Reporting
  <2>. QED  BY <1>5, <2>1 DEF Begin
<1>6. ASSUME NEW f \in Finalizers, NEW k \in Members, MoveEntry(f, k)
      PROVE  Kept
  <2>1. PICK gone \in {{}, {"source"}} : at' = [at EXCEPT ![k] = (@ \ gone) \cup {"folder"}]
    <3>1. at[k] \ {} = at[k]
      OBVIOUS
    <3>. QED  BY <1>6, <3>1 DEF MoveEntry
  <2>. QED  BY <2>1
<1>7. ASSUME NEW f \in Finalizers, PublishFolder(f)
      PROVE  Kept
  BY <1>7 DEF PublishFolder
<1>8. ASSUME NEW f \in Finalizers, Undo(f)
      PROVE  Kept
  <2>1. PICK k \in moved[f] : UNCHANGED at \/ at' = [at EXCEPT ![k] = (@ \ {"folder"}) \cup {"source"}]
    BY <1>8 DEF Undo
  <2>2. k \in Members
    OBVIOUS
  <2>3. CASE at' = [at EXCEPT ![k] = (@ \ {"folder"}) \cup {"source"}]
    BY <2>2, <2>3
  <2>. QED  BY <1>1, <2>1, <2>3
<1>9. ASSUME NEW f \in Finalizers, DropFolder(f)
      PROVE  Kept
  <2>1. pc[f] = "undo" /\ moved[f] = {}
    BY <1>9 DEF DropFolder, Goes
  <2>2. "folder" \in at[m] => "source" \in at[m] \/ m \in deleted \cup lost
    BY <2>1 DEF InHand, InHandOf
  <2>3. \A p \in at[m] : p # "folder" => p \in at'[m]
    BY <1>9 DEF DropFolder
  <2>. QED  BY <2>2, <2>3
<1>10. ASSUME NEW f \in Finalizers, Sweep(f)
       PROVE  Kept
  <2>1. m \in copied[f] => "output" \in at[m] \/ m \in deleted \cup lost
    BY <1>10 DEF InHand, InHandOf, Sweep, Goes
  <2>2. /\ m \notin copied[f] => at'[m] = at[m]
        /\ "output" \in at[m] => "output" \in at'[m]
    BY <1>10 DEF Sweep
  <2>. QED  BY <2>1, <2>2
<1>11. ASSUME NEW f \in Finalizers,
              Plan(f) \/ TakePermit(f) \/ Prepare(f) \/ MoveFails(f) \/ VerifyFails(f) \/ Report(f) \/ Progress(f)
       PROVE  Kept
  BY <1>1, <1>11 DEF Plan, TakePermit, Prepare, MoveFails, VerifyFails, Report, Progress, diskVars
<1>12. CASE (\E a \in Archives : Enqueue(a) \/ FixArchive(a)) \/ Crash \/ ClearCompleted \/ UNCHANGED vars
  BY <1>1, <1>12 DEF Enqueue, FixArchive, Crash, ClearCompleted, diskVars, vars
<1>. QED  BY <1>2, <1>3, <1>4, <1>5, <1>6, <1>7, <1>8, <1>9, <1>10, <1>11, <1>12 DEF Next, FinalizerNext

LEMMA SurviveStep ==
  ASSUME TypeOK, PermitDiscipline, CleanupMeansDeleted, InHand, MembersSurvive, [Next]_vars
  PROVE  MembersSurvive'
<1>1. SUFFICES ASSUME NEW m \in Members, row'[m] = "completed"
               PROVE  at'[m] # {} \/ m \in deleted' \cup lost'
  BY DEF MembersSurvive
<1>2. CASE row[m] = "completed"
  BY <1>2, DataKept, HistoryGrows DEF MembersSurvive
<1>3. CASE WorkerCompletes(m)
  BY <1>3 DEF WorkerCompletes, TypeOK
<1>. QED  BY <1>1, <1>2, <1>3, RowSteps

(***************************************************************************)
(* A status leaves Pending by a claim only, and never comes back to it;    *)
(* it becomes Completed at the end of a finalization only.                 *)
(***************************************************************************)
LEMMA StatusSteps ==
  ASSUME TypeOK, Assigned, [Next]_vars, NEW a \in Archives, status'[a] # status[a]
  PROVE  /\ status'[a] # "Pending"
         /\ \/ status[a] = "Finalizing"
            \/ Complete(a) /\ \E f \in Finalizers : Claim(a, f)
            \/ \E f \in Finalizers : pc[f] # "idle" /\ arc[f] = a
         /\ status'[a] = "Completed" =>
              \E f \in Finalizers : pc[f] = "settle" /\ arc[f] = a
<1>. USE MemberFacts DEF TypeOK
<1>1. ASSUME NEW b \in Archives, NEW f \in Finalizers, Complete(b), Claim(b, f)
      PROVE  /\ status'[a] = "Finalizing"
             /\ Complete(a) /\ Claim(a, f)
  BY <1>1, ClaimFrame
<1>2. ASSUME NEW m \in Members, MemberNext(m)
      PROVE  \/ status'[a] = "Canceled" /\ status[a] = "Finalizing"
             \/ /\ status'[a] = "Finalizing"
                /\ Complete(a) /\ \E f \in Finalizers : Claim(a, f)
  <2>1. CASE Check(m)
    BY <1>1, <2>1, CheckFrame DEF ReadyForJob
  <2>2. CASE ~Check(m)
    BY <1>2, <2>2, MemberFrame, DeleteFrame
  <2>. QED  BY <2>1, <2>2
<1>3. ASSUME NEW b \in Archives, FixArchive(b)
      PROVE  /\ status'[a] = "Finalizing"
             /\ Complete(a) /\ \E f \in Finalizers : Claim(a, f)
  BY <1>1, <1>3 DEF FixArchive
<1>4. ASSUME NEW f \in Finalizers, NEW s, Mark(arc[f], s), pc[f] # "idle", s # "Pending",
             s = "Completed" => pc[f] = "settle"
      PROVE  /\ status'[a] # "Pending" /\ pc[f] # "idle" /\ arc[f] = a
             /\ status'[a] = "Completed" => pc[f] = "settle"
  BY <1>4 DEF Mark
<1>5. ASSUME NEW f \in Finalizers, FinalizerNext(f) \/ Progress(f)
      PROVE  /\ status'[a] # "Pending" /\ pc[f] # "idle" /\ arc[f] = a
             /\ status'[a] = "Completed" => pc[f] = "settle"
  BY <1>4, <1>5 DEF FinalizerNext, Progress, Plan, TakePermit, Prepare, Begin, MoveEntry, MoveFails,
       PublishFolder, Undo, DropFolder, Sweep, VerifyFails, Report, Goes, Ends, Reporting
<1>6. CASE Crash
  BY <1>6 DEF Crash
<1>7. CASE (\E b \in Archives : Enqueue(b)) \/ ClearCompleted \/ UNCHANGED vars
  BY <1>7 DEF Enqueue, ClearCompleted, vars
<1>. QED  BY <1>2, <1>3, <1>5, <1>6, <1>7 DEF Next

LEMMA CompleteIsKnown == ASSUME NEW a \in Archives, Complete(a) PROVE Known(a)
<1>1. CASE Rows(a) = {}
  BY <1>1, FS_EmptySet DEF Complete
<1>2. CASE Rows(a) # {}
  BY <1>2 DEF Rows, Listed, Known
<1>. QED  BY <1>1, <1>2

\* A finalizer starts with a claim and keeps its archive.
\* A finalizer goes on, or starts with a claim.
LEMMA FinalizerSteps ==
  ASSUME TypeOK, Assigned, [Next]_vars, NEW f \in Finalizers, pc'[f] # "idle"
  PROVE  \/ /\ pc[f] # "idle" /\ arc'[f] = arc[f]
            /\ \/ FinalizerNext(f)
               \/ pc'[f] = pc[f] /\ left'[f] = left[f] /\ moved'[f] = moved[f] /\ copied'[f] = copied[f]
         \/ \E a \in Archives : /\ Complete(a) /\ UNCHANGED row
                               /\ pc'[f] = "plan" /\ arc'[f] = a /\ left'[f] = Rows(a)
                               /\ status'[a] = "Finalizing"
<1>. DEFINE Same == /\ pc[f] # "idle" /\ arc'[f] = arc[f]
                    /\ pc'[f] = pc[f] /\ left'[f] = left[f] /\ moved'[f] = moved[f] /\ copied'[f] = copied[f]
            Starts(a) == /\ Complete(a) /\ UNCHANGED row
                         /\ pc'[f] = "plan" /\ arc'[f] = a /\ left'[f] = Rows(a)
                         /\ status'[a] = "Finalizing"
<1>. USE MemberFacts DEF TypeOK
<1>0. ASSUME UNCHANGED workVars
      PROVE  Same
  BY <1>0 DEF workVars
<1>1. ASSUME NEW a \in Archives, NEW g \in Finalizers, Claim(a, g), Complete(a), UNCHANGED row
      PROVE  Same \/ Starts(a)
  <2>1. CASE g = f
    BY <1>0, <1>1, <2>1, ClaimFrame
  <2>2. CASE g # f
    BY <1>0, <1>1, <2>2, ClaimFrame
  <2>. QED  BY <2>1, <2>2
<1>2. ASSUME NEW m \in Members, MemberNext(m)
      PROVE  Same \/ \E a \in Archives : Starts(a)
  <2>1. CASE Check(m)
    BY <1>0, <1>1, <2>1, CheckFrame DEF ReadyForJob
  <2>2. CASE ~Check(m)
    BY <1>0, <1>2, <2>2, MemberFrame
  <2>. QED  BY <2>1, <2>2
<1>3. ASSUME NEW g \in Finalizers, FinalizerNext(g), g # f
      PROVE  Same
  <2>1. ASSUME NEW from, NEW s, Ends(g, from, s)
        PROVE  Same
    BY <1>3, <2>1 DEF Ends
  <2>2. ASSUME NEW from, NEW to, Goes(g, from, to), left'[f] = left[f], moved'[f] = moved[f], copied'[f] = copied[f]
        PROVE  Same
    BY <1>3, <2>2 DEF Goes
  <2>3. CASE Plan(g) \/ TakePermit(g) \/ Prepare(g) \/ Begin(g) \/ MoveFails(g) \/ PublishFolder(g)
             \/ DropFolder(g) \/ Sweep(g) \/ VerifyFails(g) \/ Report(g)
    BY <2>1, <2>2, <2>3 DEF Plan, TakePermit, Prepare, Begin, MoveFails, PublishFolder, DropFolder, Sweep,
                            VerifyFails, Report
  <2>4. CASE Undo(g) \/ \E m \in Members : MoveEntry(g, m)
    BY <1>3, <2>2, <2>4 DEF Undo, MoveEntry
  <2>. QED  BY <1>3, <2>3, <2>4 DEF FinalizerNext
<1>4. CASE FinalizerNext(f)
  <2>1. ASSUME NEW from, NEW to, Goes(f, from, to), from # "idle"
        PROVE  pc[f] # "idle" /\ arc'[f] = arc[f]
    BY <2>1 DEF Goes
  <2>2. ASSUME NEW from, NEW s, Ends(f, from, s)
        PROVE  FALSE
    BY <2>2 DEF Ends
  <2>. QED  BY <1>4, <2>1, <2>2 DEF FinalizerNext, Plan, TakePermit, Prepare, Begin, MoveEntry, MoveFails,
                                   PublishFolder, Undo, DropFolder, Sweep, VerifyFails, Report
<1>5. ASSUME NEW a \in Archives, FixArchive(a)
      PROVE  Same \/ \E b \in Archives : Starts(b)
  BY <1>1, <1>5 DEF FixArchive, rowVars
<1>6. CASE Crash
  BY <1>6 DEF Crash
<1>7. CASE (\E b \in Archives : Enqueue(b)) \/ (\E g \in Finalizers : Progress(g)) \/ ClearCompleted \/ UNCHANGED vars
  BY <1>0, <1>7 DEF Enqueue, Progress, ClearCompleted, vars
<1>. QED  BY <1>2, <1>3, <1>4, <1>5, <1>6, <1>7 DEF Next

LEMMA KnownStep ==
  ASSUME TypeOK, Assigned, KnownArchives, [Next]_vars
  PROVE  KnownArchives'
<1>1. ASSUME NEW a \in Archives, Known(a)
      PROVE  Known(a)'
  BY <1>1, RowSteps, MemberFacts DEF Known
<1>2. ASSUME NEW a \in Archives, status'[a] # "Pending"
      PROVE  Known(a)'
  BY <1>1, <1>2, StatusSteps, CompleteIsKnown DEF KnownArchives
<1>3. ASSUME NEW f \in Finalizers, pc'[f] # "idle"
      PROVE  status'[arc'[f]] # "Pending"
  BY <1>3, FinalizerSteps, StatusSteps DEF KnownArchives, Assigned
<1>. QED  BY <1>2, <1>3 DEF KnownArchives

\* An archive that is not pending gets no more rows.
LEMMA RowsShrink ==
  ASSUME TypeOK, KnownArchives, [Next]_vars, NEW a \in Archives, status[a] # "Pending"
  PROVE  Rows(a)' \subseteq Rows(a)
<1>1. SUFFICES ASSUME NEW m \in MembersOf(a), Listed(m)'
               PROVE  Listed(m)
  BY DEF Rows, MembersOf
<1>2. ASSUME NEW b \in Archives, Enqueue(b), m \in MembersOf(b)
      PROVE  FALSE
  BY <1>2, MemberFacts DEF KnownArchives, Known, Enqueue
<1>. QED  BY <1>1, <1>2, RowSteps, MemberFacts

(***************************************************************************)
(* What a finalizer has read, moved and published is the whole archive.    *)
(***************************************************************************)
LEMMA CoversStep ==
  ASSUME TypeOK, Assigned, PermitDiscipline, CleanupMeansDeleted, InHand, KnownArchives, Covers, [Next]_vars
  PROVE  Covers'
<1>. DEFINE InOutput(m) == "output" \in at[m] \/ m \in deleted \cup lost
            Doing(f) == pc[f] \in {"plan", "queue", "prepare", "begin", "move"} =>
                          Rows(arc[f]) \subseteq left[f] \cup moved[f] \cup copied[f]
            Done(f) == pc[f] \in {"sweep", "settle"} => \A m \in Rows(arc[f]) : InOutput(m)
<1>1. SUFFICES ASSUME NEW f \in Finalizers
               PROVE  Doing(f)' /\ Done(f)'
  BY DEF Covers
<1>2. CASE pc'[f] = "idle"
  BY <1>2
<1>3. ASSUME NEW a \in Archives, pc'[f] = "plan", arc'[f] = a, left'[f] = Rows(a), UNCHANGED row
      PROVE  Doing(f)' /\ Done(f)'
  <2>1. Rows(a)' = Rows(a)
    BY <1>3 DEF Rows, Listed
  <2>. QED  BY <1>3, <2>1
<1>4. CASE /\ pc'[f] # "idle" /\ pc[f] # "idle" /\ arc'[f] = arc[f]
           /\ \/ FinalizerNext(f)
              \/ pc'[f] = pc[f] /\ left'[f] = left[f] /\ moved'[f] = moved[f] /\ copied'[f] = copied[f]
  <2>0. PICK a \in Archives : arc[f] = a /\ arc'[f] = a /\ status[a] # "Pending"
    BY <1>4 DEF Assigned, KnownArchives
  <2>1. Rows(arc[f])' \subseteq Rows(arc[f]) /\ Rows(arc[f]) \subseteq Members
    <3>1. Rows(a)' \subseteq Rows(a) /\ Rows(a) \subseteq Members
      BY <2>0, RowsShrink, MemberFacts
    <3>2. Rows(arc[f])' = Rows(a)'
      BY <2>0 DEF Rows
    <3>. QED  BY <2>0, <3>1, <3>2
  <2>2. \A m \in Members : InOutput(m) => InOutput(m)'
    BY DataKept, HistoryGrows
  <2>3. CASE pc'[f] = pc[f] /\ left'[f] = left[f] /\ moved'[f] = moved[f] /\ copied'[f] = copied[f]
    BY <1>4, <2>1, <2>2, <2>3 DEF Covers
  <2>4. CASE Plan(f) \/ TakePermit(f) \/ Prepare(f) \/ Begin(f)
    BY <1>4, <2>1, <2>4 DEF Covers, Plan, TakePermit, Prepare, Begin, Goes, Ends, TypeOK
  <2>5. ASSUME NEW m \in Members, MoveEntry(f, m)
        PROVE  Doing(f)' /\ Done(f)'
    <3>1. pc[f] = "move" /\ pc'[f] = "move"
      BY <2>5 DEF MoveEntry, Goes, TypeOK
    <3>2. left[f] \cup moved[f] \cup copied[f] \subseteq left'[f] \cup moved'[f] \cup copied'[f]
      BY <2>5 DEF MoveEntry, TypeOK
    <3>. QED  BY <2>1, <3>1, <3>2 DEF Covers
  <2>6. CASE MoveFails(f) \/ Undo(f) \/ DropFolder(f) \/ VerifyFails(f) \/ Report(f)
    BY <2>6 DEF MoveFails, Undo, DropFolder, VerifyFails, Report, Goes, Ends, TypeOK
  <2>7. CASE PublishFolder(f)
    <3>1. pc[f] = "move" /\ pc'[f] = "sweep" /\ left[f] = {}
      BY <2>7 DEF PublishFolder, Goes, TypeOK
    <3>2. \A m \in Members : "folder" \in at[m] => "output" \in at'[m]
      BY <2>7 DEF PublishFolder
    <3>. QED  BY <2>1, <3>1, <3>2 DEF Covers, InHand, InHandOf
  <2>8. CASE Sweep(f)
    <3>1. pc[f] = "sweep" /\ pc'[f] = "settle"
      BY <2>8 DEF Sweep, Goes, TypeOK
    <3>. QED  BY <2>1, <2>2, <3>1 DEF Covers
  <2>. QED  BY <1>4, <2>3, <2>4, <2>5, <2>6, <2>7, <2>8 DEF FinalizerNext
<1>. QED  BY <1>2, <1>3, <1>4, FinalizerSteps

LEMMA WholeStep ==
  ASSUME TypeOK, Assigned, PermitDiscipline, CleanupMeansDeleted, InHand, KnownArchives, Covers,
         CompletedIsWhole, [Next]_vars
  PROVE  CompletedIsWhole'
<1>1. SUFFICES ASSUME NEW a \in Archives, status'[a] = "Completed", NEW m \in Rows(a)'
               PROVE  "output" \in at'[m] \/ m \in deleted' \cup lost'
  BY DEF CompletedIsWhole
<1>2. status[a] # "Pending"
  BY <1>1, StatusSteps DEF KnownArchives
<1>3. m \in Rows(a) /\ m \in Members
  BY <1>1, <1>2, RowsShrink, MemberFacts
<1>4. "output" \in at[m] \/ m \in deleted \cup lost
  BY <1>1, <1>3, StatusSteps DEF CompletedIsWhole, Covers
<1>. QED  BY <1>3, <1>4, DataKept, HistoryGrows

(***************************************************************************)
(* Completion is noticed.                                                  *)
(***************************************************************************)
LEMMA RemoveThins ==
  ASSUME TypeOK, NEW S, RemoveRows(S), NEW m \in Members
  PROVE  \/ row'[m] = row[m]
         \/ row'[m] = "gone" /\ (status[m[1]] = "Pending" => m[1] \in thinned')
BY DEF TypeOK, RemoveRows

LEMMA GoneSteps ==
  ASSUME TypeOK, [Next]_vars, NEW m \in Members
  PROVE  /\ row'[m] = "gone" => row[m] = "gone" \/ (status[m[1]] = "Pending" => m[1] \in thinned')
         /\ after'[m] # "none" => after[m] # "none" \/ row'[m] # "absent"
<1>. USE DEF TypeOK
<1>1. CASE UNCHANGED <<row, after>>
  BY <1>1
<1>2. ASSUME NEW k \in Members, Remove(k) \/ CleanupDone(k) \/ ClearCompleted
      PROVE  /\ row'[m] = "gone" => row[m] = "gone" \/ (status[m[1]] = "Pending" => m[1] \in thinned')
             /\ after'[m] # "none" => after[m] # "none" \/ row'[m] # "absent"
  BY <1>2, RemoveThins DEF Remove, CleanupDone, ClearCompleted, CleanupStep
<1>3. ASSUME NEW k \in Members, MemberNext(k), ~Remove(k), ~CleanupDone(k)
      PROVE  /\ row'[m] = "gone" => row[m] = "gone"
             /\ after'[m] # "none" => after[m] # "none" \/ row'[m] # "absent"
  <2>1. CASE WorkerCompletes(k)
    BY <2>1 DEF WorkerCompletes
  <2>2. CASE FailMember(k) \/ Reopen(k)
    BY <2>2 DEF FailMember, Reopen
  <2>3. CASE Check(k)
    BY <2>3 DEF Check
  <2>4. CASE CleanupFails(k)
    BY <2>4 DEF CleanupFails, CleanupStep
  <2>5. CASE Delete(k) \/ CleanupReleased(k) \/ CleanupDelete(k) \/ CleanupStops(k)
    BY <2>5 DEF Delete, CleanupReleased, CleanupDelete, CleanupStops, CleanupStep
  <2>. QED  BY <1>3, <2>1, <2>2, <2>3, <2>4, <2>5 DEF MemberNext
<1>4. ASSUME NEW f \in Finalizers, FinalizerNext(f) \/ Progress(f)
      PROVE  UNCHANGED <<row, after>>
  BY <1>4 DEF FinalizerNext, Progress, Plan, TakePermit, Prepare,
       Begin, MoveEntry, MoveFails, PublishFolder, Undo, DropFolder, Sweep, VerifyFails, Report, Goes, Ends, rowVars
<1>5. ASSUME NEW a \in Archives, Enqueue(a)
      PROVE  /\ row'[m] = "gone" => row[m] = "gone"
             /\ after'[m] # "none" => after[m] # "none"
  BY <1>5 DEF Enqueue
<1>6. CASE Crash
  BY <1>6 DEF Crash
<1>7. CASE (\E a \in Archives : FixArchive(a)) \/ UNCHANGED vars
  BY <1>1, <1>7 DEF FixArchive, vars, rowVars
<1>. QED  BY <1>1, <1>2, <1>3, <1>4, <1>5, <1>6, <1>7 DEF Next

LEMMA GoneStep ==
  ASSUME TypeOK, Assigned, GoneIsThinned, [Next]_vars
  PROVE  GoneIsThinned'
<1>1. SUFFICES ASSUME NEW m \in Members
               PROVE  /\ row'[m] = "gone" /\ status'[m[1]] = "Pending" => m[1] \in thinned'
                      /\ after'[m] # "none" => row'[m] # "absent"
  BY DEF GoneIsThinned
<1>2. status'[m[1]] = "Pending" => status[m[1]] = "Pending"
  BY StatusSteps, MemberFacts
<1>. QED  BY <1>2, GoneSteps, RowSteps, HistoryGrows DEF GoneIsThinned

\* No crash and no error before, if none after.
LEMMA CrashesGrow ==
  ASSUME TypeOK, [Next]_vars, crashes' = 0
  PROVE  crashes = 0
<1>1. CASE UNCHANGED crashes
  BY <1>1
<1>2. CASE Crash
  BY <1>2 DEF Crash, TypeOK
<1>3. CASE ~Crash
  BY <1>1, <1>3, ZenonT(60) DEF Next, vars, bounds, workVars, MemberNext, FinalizerNext, Command, Enqueue, FixArchive, ClearCompleted,
         Progress, WorkerCompletes, FailMember, Check, Reopen, Remove, Delete, CleanupStep, CleanupReleased,
         CleanupDelete, CleanupDone, CleanupFails, CleanupStops, Plan, TakePermit, Prepare, Begin,
         MoveEntry, MoveFails, PublishFolder, Undo, DropFolder, Sweep, VerifyFails, Report, Goes, Ends
<1>. QED  BY <1>2, <1>3

\* What a step must not touch to make no archive ready.
LEMMA ReadyBefore ==
  ASSUME NEW a, status[a] = "Pending", ReadyForJob(a)',
         \A k \in MembersOf(a) : row'[k] = row[k] /\ ("source" \in at'[k] => "source" \in at[k])
  PROVE  ReadyForJob(a)
<1>1. Rows(a)' = Rows(a)
  BY DEF Rows, Listed, MembersOf
<1>2. \A m \in Rows(a) : m \in MembersOf(a)
  BY DEF Rows
<1>. QED  BY <1>1, <1>2 DEF ReadyForJob, Complete

\* An archive with an open row is not ready.
LEMMA OpenIsNotReady ==
  ASSUME NEW a, NEW m \in MembersOf(a), row'[m] = "open"
  PROVE  ~ReadyForJob(a)'
<1>1. m \in Rows(a)'
  BY DEF Rows, Listed, MembersOf
<1>. QED  BY <1>1 DEF ReadyForJob, Complete

LEMMA NoticedStep ==
  ASSUME TypeOK, Assigned, KnownArchives, GoneIsThinned, CompletionIsNoticed, [Next]_vars
  PROVE  CompletionIsNoticed'
<1>1. SUFFICES ASSUME crashes' = 0, faults' = 0, NEW a \in Archives, a \notin thinned', ReadyForJob(a)'
               PROVE  \E m \in MembersOf(a) : after'[m] = "check"
  BY DEF CompletionIsNoticed
<1>. DEFINE Noticed == \E m \in MembersOf(a) : after'[m] = "check"
<1>2. /\ crashes = 0 /\ faults = 0 /\ a \notin thinned
      /\ status'[a] = "Pending" /\ status[a] = "Pending"
  BY <1>1, FaultsGrow, CrashesGrow, HistoryGrows, StatusSteps DEF ReadyForJob
<1>3. ASSUME \A k \in MembersOf(a) : /\ row'[k] = row[k]
                                     /\ "source" \in at'[k] => "source" \in at[k]
                                     /\ after[k] = "check" => after'[k] = "check"
      PROVE  Noticed
  BY <1>1, <1>2, <1>3, ReadyBefore DEF CompletionIsNoticed
<1>4. ~Fault
  BY <1>1, <1>2 DEF Fault
<1>. USE MemberFacts DEF TypeOK
<1>5. ASSUME NEW m \in Members, WorkerCompletes(m)
      PROVE  Noticed
  <2>1. CASE m \in MembersOf(a)
    BY <1>4, <1>5, <2>1 DEF WorkerCompletes
  <2>2. CASE m \notin MembersOf(a)
    BY <1>3, <1>5, <2>2 DEF WorkerCompletes
  <2>. QED  BY <2>1, <2>2
<1>6. ASSUME NEW m \in Members, FailMember(m) \/ Reopen(m) \/ CleanupFails(m)
      PROVE  Noticed
  <2>1. CASE m \in MembersOf(a) /\ row'[m] = "open"
    BY <1>1, <2>1, OpenIsNotReady
  <2>2. CASE m \notin MembersOf(a) \/ row'[m] = row[m]
    BY <1>3, <1>6, <2>2 DEF FailMember, Reopen, CleanupFails, CleanupStep, diskVars
  <2>3. row'[m] \in {row[m], "open"}
    BY <1>6 DEF FailMember, Reopen, CleanupFails
  <2>. QED  BY <2>1, <2>2, <2>3
<1>7. ASSUME NEW m \in Members, Check(m)
      PROVE  Noticed
  <2>1. CASE m \notin MembersOf(a)
    BY <1>3, <1>7, <2>1 DEF Check, diskVars
  <2>2. CASE m \in MembersOf(a)
    <3>1. m[1] = a
      BY <2>2
    <3>2. ~ReadyForJob(a)
      <4>1. CASE ~Listed(m)
        <5>1. row[m] = "gone"
          BY <1>7, <4>1 DEF Check, GoneIsThinned, Listed
        <5>. QED  BY <1>2, <3>1, <5>1 DEF GoneIsThinned
      <4>2. CASE Listed(m) /\ ReadyForJob(a)
        BY <1>2, <1>7, <3>1, <4>2, ClaimFrame DEF Check
      <4>. QED  BY <1>7, <3>1, <4>1, <4>2, CheckFrame
    <3>. QED  BY <1>1, <1>2, <1>7, <3>2, ReadyBefore DEF Check, diskVars
  <2>. QED  BY <2>1, <2>2
<1>8. ASSUME NEW m \in Members, Remove(m) \/ CleanupDone(m)
      PROVE  Noticed
  <2>1. PICK S : RemoveRows(S) /\ UNCHANGED <<at, after>>
    BY <1>8 DEF Remove, CleanupDone, CleanupStep, diskVars
  <2>2. \A k \in MembersOf(a) : row'[k] = row[k]
    BY <1>1, <1>2, <2>1 DEF RemoveRows
  <2>. QED  BY <1>3, <2>1, <2>2
<1>9. ASSUME NEW m \in Members, Delete(m) \/ CleanupReleased(m) \/ CleanupDelete(m) \/ CleanupStops(m)
      PROVE  Noticed
  <2>1. \A k \in Members : "source" \in at'[k] => "source" \in at[k]
    BY <1>9 DEF Delete, CleanupReleased, CleanupDelete, CleanupStops, diskVars
  <2>. QED  BY <1>3, <1>9, <2>1 DEF Delete, CleanupReleased, CleanupDelete, CleanupStops, CleanupStep
<1>10. ASSUME NEW b \in Archives, Enqueue(b)
       PROVE  Noticed
  <2>1. CASE b = a
    <3>0. PICK p : p \in Parts
      BY BulkAssumption
    <3>1. PICK m : m \in MembersOf(a)
      <4>1. <<a, p>> \in {a} \X Parts
        BY <3>0
      <4>. QED  BY <4>1 DEF MembersOf
    <3>2. row'[m] = "open"
      BY <1>10, <2>1, <3>1 DEF Enqueue
    <3>. QED  BY <1>1, <3>1, <3>2, OpenIsNotReady
  <2>2. CASE b # a
    BY <1>3, <1>10, <2>2 DEF Enqueue, diskVars
  <2>. QED  BY <2>1, <2>2
<1>11. ASSUME NEW f \in Finalizers, FinalizerNext(f) \/ Progress(f)
       PROVE  Noticed
  <2>1. UNCHANGED <<row, after>>
    BY <1>11 DEF FinalizerNext, Progress, Plan, TakePermit, Prepare, Begin, MoveEntry, MoveFails,
       PublishFolder, Undo, DropFolder, Sweep, VerifyFails, Report, Goes, Ends, rowVars
  <2>2. CASE Undo(f)
    <3>1. moved[f] \cap MembersOf(a) = {}
      BY <1>2, <2>2 DEF Undo, Goes, Assigned, KnownArchives
    <3>2. PICK k \in moved[f] : UNCHANGED at \/ at' = [at EXCEPT ![k] = (@ \ {"folder"}) \cup {"source"}]
      BY <2>2 DEF Undo
    <3>. QED  BY <1>3, <2>1, <3>1, <3>2
  <2>3. CASE Begin(f) \/ PublishFolder(f) \/ DropFolder(f) \/ Sweep(f)
    <3>1. \A k \in Members : "source" \in at'[k] => "source" \in at[k]
      BY <2>3 DEF Begin, PublishFolder, DropFolder, Sweep
    <3>. QED  BY <1>3, <2>1, <3>1
  <2>4. ASSUME NEW m \in Members, MoveEntry(f, m)
        PROVE  Noticed
    <3>1. "source" \in at[m] /\ \A k \in Members : k # m => at'[k] = at[k]
      BY <2>4 DEF MoveEntry
    <3>. QED  BY <1>3, <2>1, <3>1
  <2>5. CASE Plan(f) \/ TakePermit(f) \/ Prepare(f) \/ MoveFails(f) \/ VerifyFails(f) \/ Report(f) \/ Progress(f)
    BY <1>3, <2>1, <2>5 DEF Plan, TakePermit, Prepare, MoveFails, VerifyFails, Report, Progress, diskVars
  <2>. QED  BY <1>11, <2>2, <2>3, <2>4, <2>5 DEF FinalizerNext
<1>12. CASE Crash
  BY <1>1, <1>12 DEF Crash
<1>13. CASE (\E b \in Archives : FixArchive(b)) \/ UNCHANGED vars
  BY <1>3, <1>13 DEF FixArchive, rowVars, diskVars, vars
<1>14. ASSUME NEW m \in Members, MemberNext(m)
       PROVE  Noticed
  BY <1>5, <1>6, <1>7, <1>8, <1>9, <1>14 DEF MemberNext
<1>15. CASE ClearCompleted
  <2>1. PICK S : RemoveRows(S) /\ UNCHANGED <<at, after>>
    BY <1>15 DEF ClearCompleted, diskVars
  <2>2. \A k \in MembersOf(a) : row'[k] = row[k]
    BY <1>1, <1>2, <2>1 DEF RemoveRows
  <2>. QED  BY <1>3, <2>1, <2>2
<1>. QED  BY <1>10, <1>11, <1>12, <1>13, <1>14, <1>15 DEF Next

(***************************************************************************)
(* The inductive invariant.                                                *)
(***************************************************************************)
Inv ==
  /\ TypeOK /\ Assigned /\ PermitDiscipline /\ Exclusive /\ Attended
  /\ CleanupMeansDeleted /\ InHand /\ MembersSurvive
  /\ KnownArchives /\ Covers /\ CompletedIsWhole
  /\ GoneIsThinned /\ CompletionIsNoticed

LEMMA InitInv == Init => Inv
<1>. SUFFICES ASSUME Init
              PROVE  Inv
  OBVIOUS
<1>1. TypeOK /\ Assigned
  BY InitTypeOK
<1>2. PermitDiscipline /\ Exclusive /\ Attended
  BY BulkAssumption DEF Init, PermitDiscipline, Reporting, Exclusive, At, Attended
<1>3. CleanupMeansDeleted /\ InHand /\ MembersSurvive
  BY DEF Init, CleanupMeansDeleted, InHand, InHandOf, MembersSurvive
<1>4. KnownArchives /\ Covers /\ CompletedIsWhole
  BY DEF Init, KnownArchives, Covers, CompletedIsWhole
<1>5. GoneIsThinned /\ CompletionIsNoticed
  <2>1. \A a \in Archives : ~ReadyForJob(a)
    <3>1. SUFFICES ASSUME NEW a \in Archives
                   PROVE  Rows(a) = {}
      BY FS_EmptySet DEF ReadyForJob, Complete
    <3>. QED  BY MemberFacts DEF Init, Rows, Listed
  <2>. QED  BY <2>1, MemberFacts DEF Init, GoneIsThinned, CompletionIsNoticed
<1>. QED  BY <1>1, <1>2, <1>3, <1>4, <1>5 DEF Inv

LEMMA InvStep == Inv /\ [Next]_vars => Inv'
BY TypeStep, PermitStep, ExclusiveStep, AttendedStep, CleanupMeansDeletedStep, InHandStep, SurviveStep,
   KnownStep, CoversStep, WholeStep, GoneStep, NoticedStep DEF Inv

\* The inductive invariant holds in every state.
THEOREM Invariance == Spec => []Inv
BY InitInv, InvStep, PTL DEF Spec

\* Every variable of the archives, their files and their finalizers has its
\* type, and an entry of a finalizer is to do or done, never both.
THEOREM TypeCorrect == Spec => []TypeOK
BY Invariance, PTL DEF Inv

\* The data of a completed member is on disk, or its loss has one of the
\* recorded causes: moves, roll-backs, cancellations and crashes keep it.
THEOREM MembersAlwaysSurvive == Spec => []MembersSurvive
BY Invariance, PTL DEF Inv

\* bulk_archive_ready_for_job and bulk_archive_ready_for_retry never start a
\* second finalizer for an archive that was not canceled.
THEOREM AlwaysOneFinalizer == Spec => []OneFinalizer
<1>1. Inv => OneFinalizer
  BY DEF Inv, Exclusive, OneFinalizer
<1>. QED  BY <1>1, Invariance, PTL

\* As long as every save succeeds, an archive shown as being finalized has a
\* finalizer: no progress update, cancellation or crash leaves the status
\* behind.
THEOREM FinalizingAlwaysHasFinalizer == Spec => []FinalizingHasFinalizer
<1>1. Inv => FinalizingHasFinalizer
  BY DEF Inv, Attended, FinalizingHasFinalizer
<1>. QED  BY <1>1, Invariance, PTL

\* Every listed member of a completed archive is in its output, or was
\* deleted: no finalizer publishes a folder that lacks a member.
THEOREM CompletedIsAlwaysWhole == Spec => []CompletedIsWhole
BY Invariance, PTL DEF Inv

\* Without crashes and errors, some worker is about to look at every pending
\* archive that is ready, whatever the order of completion.
THEOREM CompletionIsAlwaysNoticed == Spec => []CompletionIsNoticed
BY Invariance, PTL DEF Inv

\* A finalizer past the queue holds the I/O permit, and gives it back however
\* it ends.
THEOREM PermitIsAlwaysHeld == Spec => []PermitDiscipline
BY Invariance, PTL DEF Inv
=============================================================================
