------------------------- MODULE DeploymentOps_proofs ------------------------
(***************************************************************************)
(* Theorems about DeploymentOps: the invariant of the pipeline survives    *)
(* the stop and delete requests, the monitor and the pruner; and, in runs  *)
(* without faults and rollbacks, running containers are accounted for,     *)
(* the monitor spares those that run, live rows are served and stopped     *)
(* ones keep their image.                                                  *)
(***************************************************************************)
EXTENDS DeploymentOps, DeployPipeline_containers

\* What a whole-row write does to the rows, and to the live ones.
LEMMA UpdateRowType ==
  ASSUME TypeOK, NEW row \in Rows, NEW s \in Statuses, NEW i \in Deployments \union {NoDep},
         UpdateRow(row, s, i)
  PROVE  /\ status' \in [Deployments -> Statuses \union {"none", "deleted"}]
         /\ dockerImage' \in [Deployments -> Deployments \union {NoDep}]
         /\ containerId' \in [Deployments -> BOOLEAN]
         /\ s # "live" => \A d \in Deployments : status'[d] = "live" => status[d] = "live"
  BY DEF UpdateRow, TypeOK, Rows, dbVars

\* A row that is there is read with its types.
LEMMA ReadRowType ==
  ASSUME TypeOK, NEW d \in Deployments, Exists(d)
  PROVE  ReadRow(d) \in Rows
  BY DEF TypeOK, ReadRow, Rows, Exists

\* What the other tasks leave alone: locks, queue, handlers, requests, and no row goes live.
PipelineFrame ==
  /\ UNCHANGED <<target, task, retried, pc, old, unread, lock, req, reapPc, reapTodo,
                 lockLost, listLost, superseded, promoted>>
  /\ faults' \in 0..MaxFaults
  /\ status' \in [Deployments -> Statuses \union {"none", "deleted"}]
  /\ dockerImage' \in [Deployments -> Deployments \union {NoDep}]
  /\ containerId' \in [Deployments -> BOOLEAN]
  /\ container' \in [Deployments -> {"none", "created", "running", "exited"}]
  /\ images' \in SUBSET Deployments
  /\ \A d \in Deployments : status'[d] = "live" => status[d] = "live"

LEMMA PipelineFrameKeeps == SafetyInv /\ PipelineFrame => SafetyInv'
<1> SUFFICES ASSUME SafetyInv, PipelineFrame PROVE SafetyInv'
  OBVIOUS
<1>1. TypeOK'
  BY DEF SafetyInv, TypeOK, PipelineFrame
<1>2. LockNamesHolder'
  BY DEF SafetyInv, LockNamesHolder, PipelineFrame
<1>3. SwitchFrame
  BY DEF PipelineFrame, SwitchFrame
<1> QED
  BY <1>1, <1>2, <1>3, SwitchFrameKeeps DEF SafetyInv

\* The stop and delete requests.
LEMMA ApiStep ==
  ASSUME OpsSafetyInv, Api
  PROVE  OpsTypeOK' /\ PipelineFrame /\ UNCHANGED pruner
<1> USE DEF OpsSafetyInv, SafetyInv
<1>1. ASSUME NEW d \in Deployments, BeginStop(d) PROVE OpsTypeOK' /\ PipelineFrame /\ UNCHANGED pruner
  BY <1>1, ReadRowType, OpsAssumption
     DEF BeginStop, OpsTypeOK, OpsAssumption, RowOp, PipelineFrame, TypeOK, vars
<1>2. ASSUME NEW d \in Deployments, BeginDelete(d) PROVE OpsTypeOK' /\ PipelineFrame /\ UNCHANGED pruner
  <2>1. ReadRow(d) \in Rows /\ doomed' \in SUBSET Deployments
    BY <1>2, ReadRowType DEF BeginDelete, OpsTypeOK, Doom, Rows
  <2> QED
    BY <1>2, <2>1, OpsAssumption DEF BeginDelete, OpsTypeOK, OpsAssumption, RowOp, PipelineFrame, TypeOK, vars
<1>3. ASSUME NEW d \in Deployments, RemoveDoomed(d) PROVE OpsTypeOK' /\ PipelineFrame /\ UNCHANGED pruner
  BY <1>3 DEF RemoveDoomed, OpsTypeOK, PipelineFrame, TypeOK, queueVars, dbVars, reapVars, historyVars
<1>4. ASSUME op # IdleTask PROVE op \in RowOp /\ op.row \in Rows /\ op.row.dep \in Deployments
  BY <1>4 DEF OpsTypeOK, RowOp, Rows
<1>5. CASE StopByRow
  <2>1. op # IdleTask
    BY <1>5 DEF StopByRow, IdleTask
  <2>2. op' \in {IdleTask} \union RowOp
    BY <1>5, <1>4, <2>1 DEF StopByRow, RowOp
  <2> QED
    BY <1>5, <2>2 DEF StopByRow, StopContainer, OpsTypeOK, PipelineFrame, TypeOK, queueVars, dbVars, reapVars, historyVars
<1>6. CASE MarkStopped
  <2>1. op # IdleTask
    BY <1>6 DEF MarkStopped, IdleTask
  <2>2. /\ op.row \in Rows /\ op.row.image \in Deployments \union {NoDep}
        /\ UpdateRow(op.row, "stopped", op.row.image)
    BY <1>4, <1>6, <2>1 DEF MarkStopped, Rows
  <2>3. /\ status' \in [Deployments -> Statuses \union {"none", "deleted"}]
        /\ dockerImage' \in [Deployments -> Deployments \union {NoDep}]
        /\ containerId' \in [Deployments -> BOOLEAN]
        /\ \A d \in Deployments : status'[d] = "live" => status[d] = "live"
    BY <2>2, UpdateRowType DEF Statuses
  <2> QED
    BY <1>6, <2>3 DEF MarkStopped, OpsTypeOK, PipelineFrame, TypeOK, queueVars, dockerVars, reapVars, historyVars
<1>7. CASE DeleteStop
  <2>1. op # IdleTask
    BY <1>7 DEF DeleteStop, IdleTask
  <2>2. op' \in {IdleTask} \union RowOp
    BY <1>7, <1>4, <2>1 DEF DeleteStop, RowOp
  <2> QED
    BY <1>7, <2>2 DEF DeleteStop, StopContainer, OpsTypeOK, PipelineFrame, TypeOK, queueVars, dbVars, reapVars, historyVars
<1>8. CASE DeleteRemove
  <2>1. op # IdleTask
    BY <1>8 DEF DeleteRemove, IdleTask
  <2>2. op' \in {IdleTask} \union RowOp
    BY <1>8, <1>4, <2>1 DEF DeleteRemove, RowOp
  <2>3. doomed' \in SUBSET Deployments
    BY <1>8, <1>4, <2>1 DEF DeleteRemove, Doom, OpsTypeOK, Rows
  <2> QED
    BY <1>8, <2>2, <2>3 DEF DeleteRemove, RemoveContainer, OpsTypeOK, PipelineFrame, TypeOK, queueVars, dbVars,
                            reapVars, historyVars
<1>9. CASE DeleteRow
  BY <1>9 DEF DeleteRow, OpsTypeOK, PipelineFrame, TypeOK, queueVars, dockerVars, reapVars, historyVars
<1>10. CASE AbandonOp
  BY <1>10, FaultType
     DEF AbandonOp, OpsTypeOK, PipelineFrame, TypeOK, queueVars, dbVars, dockerVars, reapVars, historyVars
<1> QED
  BY <1>1, <1>2, <1>3, <1>5, <1>6, <1>7, <1>8, <1>9, <1>10 DEF Api, StopRequest, DeleteRequest

\* The health monitor.
LEMMA MonitorStepKeeps ==
  ASSUME OpsSafetyInv, Monitor
  PROVE  OpsTypeOK' /\ PipelineFrame /\ UNCHANGED pruner
<1> USE DEF OpsSafetyInv, SafetyInv
<1>1. CASE MonitorList
  BY <1>1 DEF MonitorList, OpsTypeOK, Reading, PipelineFrame, TypeOK, vars
<1>2. CASE MonitorRead
  <2>1. monitor \in Reading
    BY <1>2 DEF MonitorRead, OpsTypeOK, Marking, IdleTask
  <2>2. PICK d \in monitor.todo :
          monitor' = IF status[d] = "live"
                     THEN [pc |-> "update", row |-> ReadRow(d), todo |-> monitor.todo \ {d}]
                     ELSE MonitorNext(monitor.todo \ {d})
    BY <1>2 DEF MonitorRead
  <2>3. d \in Deployments /\ monitor.todo \ {d} \in SUBSET Deployments
    BY <2>1, <2>2 DEF Reading
  <2>4. status[d] = "live" => ReadRow(d) \in Rows
    BY <2>3, ReadRowType DEF Exists
  <2>5. monitor' \in {IdleTask} \union Reading \union Marking
    BY <2>2, <2>3, <2>4 DEF MonitorNext, Reading, Marking
  <2> QED
    BY <1>2, <2>5 DEF MonitorRead, OpsTypeOK, PipelineFrame, TypeOK, vars
<1>3. CASE MonitorMark
  <2>1. monitor \in Marking
    BY <1>3 DEF MonitorMark, OpsTypeOK, Reading, IdleTask
  <2>2. /\ monitor.row \in Rows /\ monitor.row.image \in Deployments \union {NoDep}
        /\ UpdateRow(monitor.row, "failed", monitor.row.image)
    BY <1>3, <2>1 DEF MonitorMark, Marking, Rows
  <2>3. /\ status' \in [Deployments -> Statuses \union {"none", "deleted"}]
        /\ dockerImage' \in [Deployments -> Deployments \union {NoDep}]
        /\ containerId' \in [Deployments -> BOOLEAN]
        /\ \A d \in Deployments : status'[d] = "live" => status[d] = "live"
    BY <2>2, UpdateRowType DEF Statuses
  <2>4. monitor' \in {IdleTask} \union Reading
    BY <1>3, <2>1 DEF MonitorMark, MonitorNext, Reading, Marking
  <2> QED
    BY <1>3, <2>3, <2>4 DEF MonitorMark, OpsTypeOK, PipelineFrame, TypeOK, queueVars, dockerVars, reapVars, historyVars
<1> QED
  BY <1>1, <1>2, <1>3 DEF Monitor

\* The image pruner: it lists no live row, and so never writes one back as live.
LEMMA PrunerStep ==
  ASSUME OpsSafetyInv, Pruner
  PROVE  OpsTypeOK' /\ PipelineFrame /\ PrunerHoldsNoLive'
<1> USE DEF OpsSafetyInv, SafetyInv
<1>1. ASSUME NEW p \in Projects, PruneList(p) PROVE OpsTypeOK' /\ PipelineFrame /\ PrunerHoldsNoLive'
  <2> DEFINE rows == {ReadRow(d) : d \in {e \in BeyondRetention(p) : dockerImage[e] # NoDep /\ status[e] # "live"}}
  <2>1. ASSUME NEW row \in rows PROVE row \in Rows /\ row.status # "live"
    <3>1. PICK d \in BeyondRetention(p) : status[d] # "live" /\ row = ReadRow(d)
      OBVIOUS
    <3>2. d \in Deployments /\ Exists(d)
      BY DEF BeyondRetention, RowsOf
    <3>3. row \in Rows
      BY <3>1, <3>2, ReadRowType
    <3> QED
      BY <3>1, <3>3 DEF ReadRow
  <2>2. pruner' = [pc |-> "image", todo |-> rows]
    BY <1>1 DEF PruneList
  <2>3. pruner' \in Pruning /\ PrunerHoldsNoLive'
    BY <2>1, <2>2 DEF Pruning, PrunerHoldsNoLive
  <2> QED
    BY <1>1, <2>3 DEF PruneList, OpsTypeOK, PipelineFrame, TypeOK, vars
<1>2. CASE PruneImage
  <2>1. pruner \in Pruning /\ pruner # IdleTask
    BY <1>2 DEF PruneImage, OpsTypeOK, IdleTask
  <2>2. images' \in SUBSET Deployments
    BY <1>2 DEF PruneImage, TypeOK
  <2>3. pruner' \in Pruning /\ pruner'.todo = pruner.todo
    BY <1>2, <2>1 DEF PruneImage, Pruning
  <2> QED
    BY <1>2, <2>1, <2>2, <2>3
       DEF PruneImage, OpsTypeOK, PrunerHoldsNoLive, PipelineFrame, TypeOK, queueVars, dbVars, reapVars, historyVars
<1>3. CASE PruneClear
  <2>1. pruner \in Pruning /\ pruner # IdleTask
    BY <1>3 DEF PruneClear, OpsTypeOK, IdleTask
  <2>2. PICK row \in pruner.todo : UpdateRow(row, row.status, NoDep) /\ pruner' = PruneNext(pruner.todo \ {row})
    BY <1>3 DEF PruneClear
  <2>3. row \in Rows /\ row.status \in Statuses /\ row.status # "live"
    BY <2>1, <2>2 DEF Pruning, Rows, PrunerHoldsNoLive
  <2>4. /\ status' \in [Deployments -> Statuses \union {"none", "deleted"}]
        /\ dockerImage' \in [Deployments -> Deployments \union {NoDep}]
        /\ containerId' \in [Deployments -> BOOLEAN]
        /\ \A d \in Deployments : status'[d] = "live" => status[d] = "live"
    BY <2>2, <2>3, UpdateRowType
  <2>5. pruner' \in {IdleTask} \union Pruning /\ PrunerHoldsNoLive'
    BY <2>1, <2>2 DEF PruneNext, Pruning, PrunerHoldsNoLive
  <2> QED
    BY <1>3, <2>4, <2>5 DEF PruneClear, OpsTypeOK, PipelineFrame, TypeOK, queueVars, dockerVars, reapVars, historyVars
<1> QED
  BY <1>1, <1>2, <1>3 DEF Pruner

\* A refused call of one of them.
LEMMA OpsErrorKeeps ==
  ASSUME OpsSafetyInv, OpsError
  PROVE  OpsTypeOK' /\ PipelineFrame /\ PrunerHoldsNoLive'
<1> USE DEF OpsSafetyInv, SafetyInv
<1>1. PipelineFrame
  BY FaultType DEF OpsError, PipelineFrame, TypeOK, queueVars, dbVars, dockerVars, reapVars, historyVars
<1>2. op' \in {IdleTask} \union RowOp /\ doomed' \in SUBSET Deployments
  <2>1. CASE op.pc \in {"delStop", "delRemove"}
    <3>1. op \in RowOp /\ op.row.image \in Deployments \union {NoDep}
      BY <2>1 DEF OpsTypeOK, IdleTask, RowOp, Rows
    <3>2. [op EXCEPT !.pc = "delRemove"] \in RowOp /\ [op EXCEPT !.pc = "delRow"] \in RowOp
      BY <3>1 DEF RowOp
    <3> QED
      BY <3>1, <3>2 DEF OpsError, Doom, OpsTypeOK
  <2> QED
    BY <2>1 DEF OpsError, OpsTypeOK
<1>3. monitor' \in {IdleTask} \union Reading \union Marking
  <2>1. CASE monitor.pc = "read" \/ monitor.pc = "update"
    <3>1. monitor \in Reading \union Marking
      BY <2>1 DEF OpsTypeOK, IdleTask
    <3>2. \A todo \in SUBSET Deployments : MonitorNext(todo) \in {IdleTask} \union Reading
      BY DEF MonitorNext, Reading
    <3>3. monitor.todo \in SUBSET Deployments
      BY <3>1 DEF Reading, Marking
    <3> QED
      BY <3>2, <3>3 DEF OpsError, OpsTypeOK
  <2> QED
    BY <2>1 DEF OpsError, OpsTypeOK
<1>4. pruner' \in {IdleTask} \union Pruning /\ PrunerHoldsNoLive'
  <2>1. CASE pruner.pc = "image" \/ pruner.pc = "clear"
    <3>1. pruner \in Pruning /\ \A row \in pruner.todo : row.status # "live"
      BY <2>1 DEF OpsTypeOK, IdleTask, PrunerHoldsNoLive
    <3>2. \/ UNCHANGED pruner
          \/ pruner' = [pruner EXCEPT !.pc = "clear"]
          \/ \E row \in pruner.todo : pruner' = PruneNext(pruner.todo \ {row})
      BY DEF OpsError
    <3> QED
      BY <3>1, <3>2 DEF PruneNext, Pruning, PrunerHoldsNoLive
  <2> QED
    BY <2>1 DEF OpsError, OpsTypeOK, PrunerHoldsNoLive
<1> QED
  BY <1>1, <1>2, <1>3, <1>4 DEF OpsError, OpsTypeOK

\* A crash of the worker, also one that cuts off nothing but the monitor or the pruner.
LEMMA WorkerCrashKeeps ==
  ASSUME OpsSafetyInv, WorkerCrash
  PROVE  OpsSafetyInv'
<1> USE DEF OpsSafetyInv
<1>1. OpsTypeOK' /\ PrunerHoldsNoLive'
  BY DEF WorkerCrash, OpsTypeOK, PrunerHoldsNoLive
<1>2. CASE Crash
  BY <1>1, <1>2, SafetyStep DEF Next
<1>3. CASE Fault /\ UNCHANGED <<dbVars, target, queueVars, pc, old, unread, lock, dockerVars, req, reapVars, historyVars>>
  <2>1. PipelineFrame
    BY <1>3, FaultType DEF PipelineFrame, SafetyInv, TypeOK, queueVars, dbVars, dockerVars, reapVars, historyVars
  <2> QED
    BY <1>1, <2>1, PipelineFrameKeeps
<1> QED
  BY <1>2, <1>3 DEF WorkerCrash

\* Every step keeps the invariant.
LEMMA OpsSafetyStep == OpsSafetyInv /\ [OpsNext]_allVars => OpsSafetyInv'
<1> SUFFICES ASSUME OpsSafetyInv, [OpsNext]_allVars PROVE OpsSafetyInv'
  OBVIOUS
<1>1. CASE Step /\ UNCHANGED opsVars
  <2>1. SafetyInv'
    BY <1>1, SafetyStep DEF OpsSafetyInv, Next
  <2> QED
    BY <1>1, <2>1 DEF OpsSafetyInv, OpsTypeOK, PrunerHoldsNoLive, opsVars
<1>2. CASE Api
  BY <1>2, ApiStep, PipelineFrameKeeps DEF OpsSafetyInv, PrunerHoldsNoLive
<1>3. CASE Monitor
  BY <1>3, MonitorStepKeeps, PipelineFrameKeeps DEF OpsSafetyInv, PrunerHoldsNoLive
<1>4. CASE Pruner
  BY <1>4, PrunerStep, PipelineFrameKeeps DEF OpsSafetyInv
<1>5. CASE WorkerCrash
  BY <1>5, WorkerCrashKeeps
<1>6. CASE UNCHANGED allVars
  <2>1. SafetyInv'
    BY <1>6, SafetyStep DEF OpsSafetyInv, allVars
  <2> QED
    BY <1>6, <2>1 DEF OpsSafetyInv, OpsTypeOK, PrunerHoldsNoLive, opsVars, allVars
<1>7. CASE OpsError
  BY <1>7, OpsErrorKeeps, PipelineFrameKeeps DEF OpsSafetyInv
<1> QED
  BY <1>1, <1>2, <1>3, <1>4, <1>5, <1>6, <1>7 DEF OpsNext

\* The types, the lock, the switch and the one live row of a project survive the stop
\* and delete requests, the monitor and the pruner, for every value of the constants.
THEOREM OpsSafetyInvHolds == OpsSpec => []OpsSafetyInv
<1>1. OpsInit => OpsSafetyInv
  BY SafetyInit, OpsAssumption DEF OpsAssumption, OpsInit, OpsSafetyInv, OpsTypeOK, PrunerHoldsNoLive
<1> QED
  BY <1>1, OpsSafetyStep, PTL DEF OpsSpec

\* A project still has at most one live row, until a lock is lost or a handler cannot
\* read or retire the other live rows, whatever requests, monitor and pruner write.
THEOREM OpsOneLiveHolds == OpsSpec => []OneLive
<1>1. OpsSafetyInv => OneLive
  BY DEF OpsSafetyInv, SafetyInv
<1> QED
  BY <1>1, OpsSafetyInvHolds, PTL

-----------------------------------------------------------------------------
(* Runs in which nothing fails and nobody rolls back.                      *)

NoRollbacks ==
  /\ \A d \in Deployments : target[d] = NoDep
  /\ \A r \in Requests : req[r].pc = "supersede" => req[r].target = NoDep

\* Only its own handler, at its end, gives a row its container id and its image; and a
\* row is retired after that, unless a request retired it too early.
RowsInv ==
  /\ \A d \in Deployments : containerId[d] \/ dockerImage[d] # NoDep => Settled(d)
  /\ \A d \in Deployments : dockerImage[d] \in {NoDep, d}
  /\ \A d \in Deployments : status[d] \in {"stopped", "deleted"} => Settled(d) \/ d \in interrupted

\* The handler of d has started its container for the last time: it is serving, failing,
\* or failed, and a retry of a failed deployment ends at once.
Ending(d) ==
  \/ Settled(d)
  \/ pc[d] \in Serving \union {"markFailed"}
  \/ pc[d] \in {"idle", "lock", "check", "returnErr"} /\ status[d] = "failed"

\* The container of d does not run, and will not run again.
Spent(d) == (container[d] # "running" /\ Ending(d)) \/ d \in interrupted

\* What an old copy of a row still says: it carries no image and no container id but its
\* own, and those only if its handler has ended.
TrueCopy(row) ==
  /\ row.image \in {NoDep, row.dep}
  /\ row.container \/ row.image # NoDep => Settled(row.dep)

OpInv ==
  op # IdleTask =>
    /\ TrueCopy(op.row)
    /\ op.pc \in {"stop", "delStop", "delRemove"} => Settled(op.row.dep)
    /\ op.pc \in {"update", "delRow"} =>
         op.row.dep \in interrupted \/ (Settled(op.row.dep) /\ container[op.row.dep] # "running")

MonitorInv ==
  /\ monitor # IdleTask => \A d \in monitor.todo : Spent(d)
  /\ monitor.pc = "update" =>
       TrueCopy(monitor.row) /\ Settled(monitor.row.dep) /\ Spent(monitor.row.dep)

PrunerInv ==
  pruner # IdleTask => \A row \in pruner.todo :
    TrueCopy(row) /\ Settled(row.dep) /\ status[row.dep] # "live" /\ row.status \notin Active

\* The rows, containers and handlers, whoever works on them.
RowsAtRest ==
  /\ NoRollbacks /\ RowsInv /\ QueueInv /\ AtRestInv /\ HeldInv
  /\ NoOrphanBut(interrupted)

OpsCalmInv == faults = 0 => RowsAtRest /\ OpInv /\ MonitorInv /\ PrunerInv

\* What a request, the monitor and the pruner do to the rows and containers: they write
\* no row that is still worked on, except for the interrupted ones, stop or remove no
\* container of a handler at work, and orphan none.
TouchesSettled ==
  /\ UNCHANGED <<target, task, pc, old, unread, req, reapPc, superseded, faults>>
  /\ interrupted \subseteq interrupted'
  /\ \A d \in Deployments : status'[d] # status[d] =>
       /\ status'[d] \notin Active \union {"live", "none"}
       /\ d \in interrupted' \/ (Settled(d) /\ (container[d] # "running" \/ status[d] # "live"))
  /\ \A d \in Deployments : containerId'[d] \/ dockerImage'[d] # NoDep => Settled(d)
  /\ \A d \in Deployments : dockerImage'[d] \in {NoDep, d}
  /\ \A d \in Deployments : container'[d] # container[d] =>
       Settled(d) /\ container[d] # "none" /\ container'[d] \in {"none", "exited"}

LEMMA TouchesSettledKeeps ==
  ASSUME TypeOK, faults = 0, RowsAtRest, TouchesSettled
  PROVE  /\ RowsAtRest'
         /\ \A d \in Deployments : Spent(d) => Spent(d)'
         /\ \A d \in Deployments : Settled(d) <=> Settled(d)'
         /\ \A d \in Deployments : status[d] # "live" => status'[d] # "live"
         /\ \A d \in Deployments : container[d] # "running" => container'[d] # "running"
<1> USE DEF RowsAtRest, TouchesSettled
<1>1. \A d \in Deployments : Settled(d) <=> Settled(d)'
  BY DEF Settled
<1>2. \A d \in Deployments : container[d] # "running" => container'[d] # "running"
  OBVIOUS
<1>3. NoRollbacks' /\ RowsInv'
  BY <1>1 DEF NoRollbacks, RowsInv, Settled
<1>4. QueueInv'
  <2>1. \A r \in Requests : req[r].pc = "enqueue" => req[r].dep \in Deployments
    BY DEF TypeOK, Superseding, Enqueueing, IdleRequest
  <2> QED
    BY <2>1 DEF QueueInv, FinishedIsSettled
<1>5. AtRestInv'
  BY <1>1 DEF AtRestInv, Settled, Stuck, Active, NoRollbacks, IsRollback
<1>6. HeldInv'
  BY <1>1, SettledIsAtRest DEF HeldInv, Settled, Serving, IsNewest
<1>7. NoOrphanBut(interrupted)'
  BY <1>2 DEF NoOrphanBut, Running
<1>8. \A d \in Deployments : Spent(d) => Spent(d)'
  BY <1>1, <1>2 DEF Spent, Ending, Settled
<1> QED
  BY <1>1, <1>2, <1>3, <1>4, <1>5, <1>6, <1>7, <1>8

\* Writing a whole row back: of a deployment whose container does not run, or which is not
\* live, or was interrupted.
LEMMA UpdateRowTouchesSettled ==
  ASSUME TypeOK, RowsInv, NEW row \in Rows, TrueCopy(row), NEW s \in Statuses \ (Active \union {"live"}),
         NEW i \in {NoDep, row.image}, UpdateRow(row, s, i),
         row.dep \in interrupted
           \/ (Settled(row.dep) /\ (container[row.dep] # "running" \/ status[row.dep] # "live"))
  PROVE  /\ \A d \in Deployments : status'[d] # status[d] =>
              /\ status'[d] \notin Active \union {"live", "none"}
              /\ d \in interrupted \/ (Settled(d) /\ (container[d] # "running" \/ status[d] # "live"))
         /\ \A d \in Deployments : containerId'[d] \/ dockerImage'[d] # NoDep => Settled(d)
         /\ \A d \in Deployments : dockerImage'[d] \in {NoDep, d}
<1> USE DEF TypeOK, RowsInv
<1>1. CASE UNCHANGED dbVars
  BY <1>1 DEF dbVars
<1>2. CASE /\ status' = [status EXCEPT ![row.dep] = s]
           /\ dockerImage' = [dockerImage EXCEPT ![row.dep] = i]
           /\ containerId' = [containerId EXCEPT ![row.dep] = row.container]
  BY <1>2 DEF Rows, TrueCopy, Statuses
<1> QED
  BY <1>1, <1>2 DEF UpdateRow

\* The requests.
LEMMA ApiCalm ==
  ASSUME OpsTypeOK, TypeOK, OpsCalmInv, Api, faults' = 0
  PROVE  faults = 0 /\ TouchesSettled /\ OpInv' /\ UNCHANGED <<monitor, pruner>>
<1> USE DEF OpsCalmInv, RowsAtRest, OpInv
<1>1. ~AbandonOp
  BY FaultEndsCalm DEF AbandonOp
<1>2. UNCHANGED <<faults, monitor, pruner>>
  BY <1>1 DEF Api, StopRequest, StopByRow, MarkStopped, BeginStop, DeleteRequest, DeleteStop, DeleteRemove, DeleteRow,
              BeginDelete, RemoveDoomed, vars
<1>3. faults = 0
  BY <1>2
<1>4. ASSUME op # IdleTask PROVE op \in RowOp /\ op.row \in Rows /\ op.row.dep \in Deployments
  BY <1>4 DEF OpsTypeOK, RowOp, Rows
<1>5. \A d \in Deployments : TrueCopy(ReadRow(d)) /\ ReadRow(d).dep = d
  BY <1>3 DEF TrueCopy, ReadRow, RowsInv
<1> USE DEF TouchesSettled, TypeOK, dbVars, queueVars, dockerVars, reapVars, historyVars
<1>6. ASSUME NEW d \in Deployments, BeginStop(d) PROVE TouchesSettled /\ OpInv'
  <2>1. /\ UNCHANGED <<status, dockerImage, containerId, container, target, task, pc, old, unread, req, reapPc, superseded, faults>>
        /\ op' = [pc |-> IF containerId[d] THEN "stop" ELSE "update", row |-> ReadRow(d)]
        /\ interrupted' = IF containerId[d] THEN interrupted ELSE interrupted \union {d}
    BY <1>6 DEF BeginStop, vars
  <2>2. TouchesSettled
    BY <1>3, <2>1 DEF RowsInv
  <2>3. TrueCopy(ReadRow(d))'
    BY <1>5, <2>1 DEF TrueCopy, ReadRow, Settled
  <2>4. containerId[d] => Settled(d)'
    BY <1>3, <2>1 DEF RowsInv, Settled
  <2> QED
    BY <1>5, <2>1, <2>2, <2>3, <2>4 DEF ReadRow, TrueCopy, Settled
<1>7. ASSUME NEW d \in Deployments, BeginDelete(d) PROVE TouchesSettled /\ OpInv'
  <2>1. /\ UNCHANGED <<status, dockerImage, containerId, container, target, task, pc, old, unread, req, reapPc, superseded, faults>>
        /\ op' = [pc |-> IF containerId[d] THEN "delStop" ELSE "delRow", row |-> ReadRow(d)]
        /\ interrupted' = IF containerId[d] THEN interrupted ELSE interrupted \union {d}
    BY <1>7 DEF BeginDelete, vars
  <2>2. TouchesSettled
    BY <1>3, <2>1 DEF RowsInv
  <2>3. TrueCopy(ReadRow(d))'
    BY <1>5, <2>1 DEF TrueCopy, ReadRow, Settled
  <2>4. containerId[d] => Settled(d)'
    BY <1>3, <2>1 DEF RowsInv, Settled
  <2> QED
    BY <1>5, <2>1, <2>2, <2>3, <2>4 DEF ReadRow, TrueCopy, Settled
<1>8. ASSUME NEW d \in Deployments, RemoveDoomed(d) PROVE TouchesSettled /\ OpInv'
  BY <1>3, <1>8 DEF RemoveDoomed, RowsInv, TrueCopy, Settled
<1>9. CASE StopByRow \/ DeleteStop \/ DeleteRemove
  <2>1. op # IdleTask /\ op.pc \in {"stop", "delStop", "delRemove"}
    BY <1>9 DEF StopByRow, DeleteStop, DeleteRemove, IdleTask
  <2>2. TrueCopy(op.row) /\ Settled(op.row.dep) /\ op.row.dep \in Deployments
    BY <1>3, <1>4, <2>1
  <2>3. UNCHANGED <<status, dockerImage, containerId, target, task, pc, old, unread, req, reapPc, superseded, faults, interrupted>>
    BY <1>9 DEF StopByRow, DeleteStop, DeleteRemove
  <2>4. /\ StopContainer(op.row.dep) \/ RemoveContainer(op.row.dep)
        /\ op' = IdleTask \/ \E l \in {"update", "delRemove", "delRow"} : op' = [op EXCEPT !.pc = l]
    BY <1>9 DEF StopByRow, DeleteStop, DeleteRemove
  <2>5. /\ container'[op.row.dep] # "running"
        /\ \A d \in Deployments : container'[d] # container[d] =>
             d = op.row.dep /\ container[d] # "none" /\ container'[d] \in {"none", "exited"}
    BY <2>2, <2>4 DEF StopContainer, RemoveContainer
  <2>6. TouchesSettled
    BY <1>3, <2>2, <2>3, <2>5 DEF RowsInv
  <2>7. TrueCopy(op.row)' \/ op' = IdleTask
    BY <1>4, <2>1, <2>2, <2>3, <2>4 DEF TrueCopy, Settled, RowOp
  <2>8. op'.row = op.row \/ op' = IdleTask
    BY <1>4, <2>1, <2>4 DEF RowOp
  <2> QED
    BY <1>2, <1>3, <2>2, <2>3, <2>5, <2>6, <2>7, <2>8 DEF Settled
<1>10. CASE MarkStopped
  <2>1. op # IdleTask /\ op.pc = "update"
    BY <1>10 DEF MarkStopped, IdleTask
  <2>2. op.row \in Rows /\ TrueCopy(op.row) /\ UpdateRow(op.row, "stopped", op.row.image)
    BY <1>3, <1>4, <1>10, <2>1 DEF MarkStopped
  <2>3. op.row.dep \in interrupted \/ (Settled(op.row.dep) /\ container[op.row.dep] # "running")
    BY <1>3, <2>1
  <2>4. "stopped" \in Statuses \ (Active \union {"live"})
    BY DEF Statuses, Active
  <2>5. /\ \A d \in Deployments : status'[d] # status[d] =>
              /\ status'[d] \notin Active \union {"live", "none"}
              /\ d \in interrupted \/ (Settled(d) /\ (container[d] # "running" \/ status[d] # "live"))
        /\ \A d \in Deployments : containerId'[d] \/ dockerImage'[d] # NoDep => Settled(d)
        /\ \A d \in Deployments : dockerImage'[d] \in {NoDep, d}
    BY <1>3, <2>2, <2>3, <2>4, UpdateRowTouchesSettled
  <2> QED
    BY <1>10, <2>5 DEF MarkStopped
<1>11. CASE DeleteRow
  <2>1. op # IdleTask /\ op.pc = "delRow"
    BY <1>11 DEF DeleteRow, IdleTask
  <2>2. op.row.dep \in interrupted \/ (Settled(op.row.dep) /\ container[op.row.dep] # "running")
    BY <1>3, <2>1
  <2> QED
    BY <1>3, <1>11, <2>2 DEF DeleteRow, RowsInv, Active
<1> QED
  BY <1>1, <1>2, <1>3, <1>6, <1>7, <1>8, <1>9, <1>10, <1>11 DEF Api, StopRequest, DeleteRequest

\* The health monitor: a container it finds exited belongs to a handler that is serving or
\* has ended, and will not run again.
LEMMA MonitorCalm ==
  ASSUME OpsTypeOK, TypeOK, OpsCalmInv, Monitor, faults' = 0
  PROVE  faults = 0 /\ TouchesSettled /\ MonitorInv' /\ UNCHANGED <<op, pruner>>
<1>1. UNCHANGED <<faults, op, pruner, interrupted>>
  BY DEF Monitor, MonitorList, MonitorRead, MonitorMark, vars
<1>2. faults = 0 /\ RowsAtRest /\ MonitorInv
  BY <1>1 DEF OpsCalmInv
<1> USE DEF MonitorInv
<1>3. CASE MonitorList \/ MonitorRead
  <2>1. UNCHANGED vars
    BY <1>3 DEF MonitorList, MonitorRead
  <2>2. TouchesSettled
    BY <1>1, <1>2, <2>1 DEF TouchesSettled, RowsAtRest, RowsInv, vars
  <2>3. \A d \in Deployments : Spent(d)' = Spent(d) /\ Settled(d)' = Settled(d)
    BY <1>1, <2>1 DEF Spent, Ending, Settled, vars
  <2>4. CASE MonitorList
    <3>1. \A d \in Deployments : container[d] = "exited" => Spent(d)
      BY <1>2 DEF RowsAtRest, HeldInv, Spent, Ending
    <3> QED
      BY <1>1, <1>2, <2>2, <2>3, <2>4, <3>1 DEF MonitorList
  <2>5. CASE MonitorRead
    <3>1. monitor # IdleTask /\ monitor.todo \in SUBSET Deployments
      BY <2>5 DEF MonitorRead, OpsTypeOK, IdleTask, Reading, Marking
    <3>2. PICK d \in monitor.todo :
            monitor' = IF status[d] = "live"
                       THEN [pc |-> "update", row |-> ReadRow(d), todo |-> monitor.todo \ {d}]
                       ELSE MonitorNext(monitor.todo \ {d})
      BY <2>5 DEF MonitorRead
    <3>3. \A e \in monitor.todo : Spent(e)'
      BY <1>2, <2>3, <3>1
    <3>4. CASE status[d] = "live"
      <4>1. d \in Deployments /\ Settled(d)
        BY <1>2, <3>1, <3>4 DEF RowsAtRest, AtRestInv
      <4>2. TrueCopy(ReadRow(d)) /\ ReadRow(d).dep = d
        BY <1>2, <4>1 DEF TrueCopy, ReadRow, RowsAtRest, RowsInv
      <4>3. monitor' = [pc |-> "update", row |-> ReadRow(d), todo |-> monitor.todo \ {d}]
        BY <3>2, <3>4
      <4>4. TrueCopy(ReadRow(d))'
        BY <2>1, <4>2 DEF TrueCopy, ReadRow, Settled, vars
      <4>5. ReadRow(d)' = ReadRow(d)
        BY <2>1 DEF ReadRow, vars
      <4>6. TrueCopy(monitor.row)' /\ monitor'.row.dep = d /\ monitor'.todo \subseteq monitor.todo
        BY <4>2, <4>3, <4>4, <4>5 DEF TrueCopy
      <4> QED
        BY <1>1, <1>2, <2>2, <2>3, <3>3, <4>1, <4>6
    <3>5. CASE status[d] # "live"
      <4>1. monitor' = MonitorNext(monitor.todo \ {d})
        BY <3>2, <3>5
      <4>2. monitor'.pc # "update" /\ (monitor' # IdleTask => monitor'.todo \subseteq monitor.todo)
        BY <4>1 DEF MonitorNext, IdleTask
      <4> QED
        BY <1>1, <1>2, <2>2, <3>3, <4>2
    <3> QED
      BY <3>4, <3>5
  <2> QED
    BY <1>3, <2>4, <2>5
<1>4. CASE MonitorMark
  <2>1. monitor \in Marking /\ monitor.pc = "update" /\ monitor # IdleTask
    BY <1>4 DEF MonitorMark, OpsTypeOK, IdleTask, Reading
  <2>2. monitor.row \in Rows /\ monitor.row.dep \in Deployments /\ monitor.todo \in SUBSET Deployments
    BY <2>1 DEF Marking, Rows
  <2>3. TrueCopy(monitor.row) /\ Settled(monitor.row.dep) /\ Spent(monitor.row.dep)
    BY <1>2, <2>1
  <2>4. "failed" \in Statuses \ (Active \union {"live"})
    BY DEF Statuses, Active
  <2>5. /\ \A d \in Deployments : status'[d] # status[d] =>
              /\ status'[d] \notin Active \union {"live", "none"}
              /\ d \in interrupted \/ (Settled(d) /\ (container[d] # "running" \/ status[d] # "live"))
        /\ \A d \in Deployments : containerId'[d] \/ dockerImage'[d] # NoDep => Settled(d)
        /\ \A d \in Deployments : dockerImage'[d] \in {NoDep, d}
    BY <1>2, <1>4, <2>2, <2>3, <2>4, UpdateRowTouchesSettled DEF MonitorMark, Spent, RowsAtRest
  <2>6. TouchesSettled
    BY <1>1, <1>4, <2>5 DEF MonitorMark, TouchesSettled, queueVars, dockerVars, reapVars, historyVars
  <2>7. \A d \in monitor.todo : Spent(d)'
    BY <1>2, <2>1, <2>2, <2>6, TouchesSettledKeeps
  <2>8. monitor'.pc # "update" /\ (monitor' # IdleTask => monitor'.todo = monitor.todo)
    BY <1>4 DEF MonitorMark, MonitorNext, IdleTask
  <2> QED
    BY <1>1, <1>2, <2>6, <2>7, <2>8
<1> QED
  BY <1>3, <1>4 DEF Monitor

\* The pruner: a row with an image has a handler that has ended, so nobody makes it live
\* between the listing and the write.
LEMMA PrunerCalm ==
  ASSUME OpsTypeOK, PrunerHoldsNoLive, TypeOK, OpsCalmInv, Pruner, faults' = 0
  PROVE  faults = 0 /\ TouchesSettled /\ PrunerInv' /\ UNCHANGED <<op, monitor>>
<1>1. UNCHANGED <<faults, op, monitor, interrupted, task, pc>>
  BY DEF Pruner, PruneList, PruneImage, PruneClear, vars, queueVars
<1>2. faults = 0 /\ RowsAtRest /\ PrunerInv
  BY <1>1 DEF OpsCalmInv
<1> USE DEF PrunerInv
<1>3. ASSUME NEW p \in Projects, PruneList(p) PROVE TouchesSettled /\ PrunerInv'
  <2> DEFINE rows == {ReadRow(d) : d \in {e \in BeyondRetention(p) : dockerImage[e] # NoDep /\ status[e] # "live"}}
  <2>1. UNCHANGED vars /\ pruner' = [pc |-> "image", todo |-> rows]
    BY <1>3 DEF PruneList
  <2>2. TouchesSettled
    BY <1>1, <1>2, <2>1 DEF TouchesSettled, RowsAtRest, RowsInv, vars
  <2>3. ASSUME NEW row \in rows
        PROVE  TrueCopy(row)' /\ Settled(row.dep)' /\ status'[row.dep] # "live" /\ row.status \notin Active
    <3>1. PICK d \in BeyondRetention(p) : dockerImage[d] # NoDep /\ status[d] # "live" /\ row = ReadRow(d)
      OBVIOUS
    <3>2. d \in Deployments /\ Settled(d)
      BY <1>2, <3>1 DEF BeyondRetention, RowsOf, RowsAtRest, RowsInv
    <3>3. status[d] \notin Active
      BY <1>2, <3>2 DEF RowsAtRest, QueueInv, FinishedIsSettled, Settled
    <3>4. dockerImage[d] \in {NoDep, d}
      BY <1>2, <3>2 DEF RowsAtRest, RowsInv
    <3>5. row.dep = d /\ row.status = status[d] /\ row.image = dockerImage[d]
      BY <3>1 DEF ReadRow
    <3> QED
      BY <2>1, <3>1, <3>2, <3>3, <3>4, <3>5 DEF TrueCopy, Settled, vars
  <2> QED
    BY <2>1, <2>2, <2>3
<1>4. CASE PruneImage
  <2>1. pruner \in Pruning /\ pruner # IdleTask
    BY <1>4 DEF PruneImage, OpsTypeOK, IdleTask
  <2>2. pruner'.todo = pruner.todo
    BY <1>4, <2>1 DEF PruneImage, Pruning
  <2>3. TouchesSettled
    BY <1>1, <1>2, <1>4
       DEF PruneImage, TouchesSettled, RowsAtRest, RowsInv, dbVars, queueVars, reapVars, historyVars
  <2> QED
    BY <1>1, <1>2, <1>4, <2>1, <2>2, <2>3 DEF PruneImage, TrueCopy, Settled, dbVars
<1>5. CASE PruneClear
  <2>1. pruner \in Pruning /\ pruner # IdleTask
    BY <1>5 DEF PruneClear, OpsTypeOK, IdleTask
  <2>2. PICK row \in pruner.todo : UpdateRow(row, row.status, NoDep) /\ pruner' = PruneNext(pruner.todo \ {row})
    BY <1>5 DEF PruneClear
  <2>3. \A r \in pruner.todo : r \in Rows /\ r.dep \in Deployments
    BY <2>1 DEF Pruning, Rows
  <2>4. /\ row.status \in Statuses \ (Active \union {"live"})
        /\ TrueCopy(row) /\ Settled(row.dep) /\ status[row.dep] # "live"
    BY <1>2, <2>1, <2>2, <2>3 DEF PrunerHoldsNoLive, Rows
  <2>5. /\ \A d \in Deployments : status'[d] # status[d] =>
              /\ status'[d] \notin Active \union {"live", "none"}
              /\ d \in interrupted \/ (Settled(d) /\ (container[d] # "running" \/ status[d] # "live"))
        /\ \A d \in Deployments : containerId'[d] \/ dockerImage'[d] # NoDep => Settled(d)
        /\ \A d \in Deployments : dockerImage'[d] \in {NoDep, d}
    BY <1>2, <2>2, <2>3, <2>4, UpdateRowTouchesSettled DEF RowsAtRest
  <2>6. TouchesSettled
    BY <1>1, <1>5, <2>5 DEF PruneClear, TouchesSettled, queueVars, dockerVars, reapVars, historyVars
  <2>7. \A r \in pruner.todo :
          TrueCopy(r)' /\ Settled(r.dep)' /\ status'[r.dep] # "live" /\ r.status \notin Active
    BY <1>1, <1>2, <2>1, <2>3, <2>6, TouchesSettledKeeps DEF TrueCopy, Settled
  <2>8. pruner' # IdleTask => pruner'.todo \subseteq pruner.todo
    BY <2>2 DEF PruneNext
  <2> QED
    BY <1>1, <1>2, <2>6, <2>7, <2>8
<1> QED
  BY <1>1, <1>2, <1>3, <1>4, <1>5 DEF Pruner

\* Without rollback requests there are no rollbacks.
LEMMA NoRollbacksStep ==
  ASSUME "rollback" \notin Kinds, TypeOK, NoRollbacks, CalmStep
  PROVE  NoRollbacks'
<1> USE DEF NoRollbacks, TypeOK
<1>1. ASSUME NEW r \in Requests, CalmRequest(r) PROVE NoRollbacks'
  <2>1. ASSUME NEW p \in Projects, BeginDeploy(r, p) \/ BeginWebhook(r, p) PROVE NoRollbacks'
    BY <2>1 DEF BeginDeploy, BeginWebhook
  <2>2. CASE Supersede(r)
    <3>1. PICK d \in req[r].todo : req' = [req EXCEPT ![r].todo = @ \ {d}]
      BY <2>2 DEF Supersede
    <3>2. req[r].pc = "supersede" /\ req[r] \in Superseding /\ UNCHANGED target
      BY <2>2 DEF Supersede, Superseding, Enqueueing, IdleRequest
    <3> QED
      BY <3>1, <3>2
  <2>3. ASSUME NEW d \in Deployments, Create(r, d) PROVE NoRollbacks'
    BY <2>3 DEF Create
  <2>4. CASE Enqueue(r)
    BY <2>4 DEF Enqueue, IdleRequest
  <2> QED
    BY <1>1, <2>1, <2>2, <2>3, <2>4 DEF CalmRequest, BeginRollback
<1>2. ASSUME NEW d \in Deployments, Dequeue(d) \/ Handler(d) \/ ContainerExit(d) PROVE UNCHANGED <<target, req>>
  BY <1>2 DEF Dequeue, ContainerExit, Handler, AcquireLock, DeployRefused, FastPath, DeployCapacity, SetCloning, Clone,
              BuildImage, SetRunning, SetRollbackRunning, RollbackCapacity, RollbackRefused, FailRefused, RunContainer,
              Probe, SafetyNet, ListLive, StopOld, RemoveOld, StopOldRow, Promote, MarkFailed, Return
<1>3. ASSUME NEW p \in Projects, Expire(p) PROVE UNCHANGED <<target, req>>
  BY <1>3 DEF Expire
<1> QED
  BY <1>1, <1>2, <1>3 DEF CalmStep, vars

\* Only its own handler, in RunContainer, starts a container.
LEMMA OnlyRunStarts ==
  ASSUME TypeOK, CalmStep, NEW d \in Deployments, container[d] # "running", pc[d] # "run"
  PROVE  container'[d] # "running"
<1> USE DEF TypeOK, dockerVars
<1>1. ASSUME NEW e \in Deployments, RunContainer(e) PROVE container'[d] # "running"
  BY <1>1 DEF RunContainer
<1>2. ASSUME NEW e \in Deployments, Handler(e), ~RunContainer(e) PROVE container'[d] # "running"
  BY <1>2 DEF Handler, AcquireLock, DeployRefused, FastPath, DeployCapacity, SetCloning, Clone, BuildImage, SetRunning,
              SetRollbackRunning, RollbackCapacity, RollbackRefused, FailRefused, Probe, SafetyNet, ListLive, StopOld,
              RemoveOld, StopOldRow, Promote, MarkFailed, Return, StopContainer, RemoveContainer
<1>3. ASSUME NEW e \in Deployments, Dequeue(e) \/ ContainerExit(e) PROVE container'[d] # "running"
  BY <1>3 DEF Dequeue, ContainerExit
<1>4. ASSUME NEW r \in Requests, CalmRequest(r) PROVE UNCHANGED container
  BY <1>4 DEF CalmRequest, BeginDeploy, BeginWebhook, BeginRollback, Supersede, Create, Enqueue
<1>5. ASSUME NEW p \in Projects, Expire(p) PROVE UNCHANGED container
  BY <1>5 DEF Expire
<1> QED
  BY <1>1, <1>2, <1>3, <1>4, <1>5 DEF CalmStep, vars

\* Only its own handler, in Promote, makes a row live and gives it an id and an image.
LEMMA OnlyPromoteFills ==
  ASSUME TypeOK, NoRollbacks, AtRestInv, faults = 0, CalmStep, NEW d \in Deployments
  PROVE  \/ /\ status'[d] = "live" => status[d] = "live"
            /\ containerId'[d] => containerId[d]
            /\ dockerImage'[d] \in {NoDep, dockerImage[d]}
         \/ pc[d] = "promote" /\ pc'[d] = "returnOk" /\ dockerImage'[d] \in {d, dockerImage[d]}
<1> DEFINE Same == /\ status'[d] = "live" => status[d] = "live"
                   /\ containerId'[d] => containerId[d]
                   /\ dockerImage'[d] \in {NoDep, dockerImage[d]}
<1> USE DEF TypeOK, UpdateStatus, dbVars
<1>1. ASSUME NEW e \in Deployments, Promote(e) 
      PROVE  Same \/ (pc[d] = "promote" /\ pc'[d] = "returnOk" /\ dockerImage'[d] \in {d, dockerImage[d]})
  BY <1>1 DEF Promote, AtRestInv, Goto, NoRollbacks, Image, IsRollback
<1>2. ASSUME NEW e \in Deployments, Handler(e), ~Promote(e) PROVE Same
  BY <1>2 DEF Handler, AcquireLock, DeployRefused, FastPath, DeployCapacity, SetCloning, Clone, BuildImage, SetRunning,
              SetRollbackRunning, RollbackCapacity, RollbackRefused, FailRefused, RunContainer, Probe, SafetyNet, ListLive,
              StopOld, RemoveOld, StopOldRow, MarkFailed, Return
<1>3. ASSUME NEW e \in Deployments, Dequeue(e) \/ ContainerExit(e) PROVE Same
  BY <1>3 DEF Dequeue, ContainerExit
<1>4. ASSUME NEW r \in Requests, CalmRequest(r) PROVE Same
  BY <1>4 DEF CalmRequest, BeginDeploy, BeginWebhook, BeginRollback, Supersede, Create, Enqueue, NoRollbacks
<1>5. ASSUME NEW p \in Projects, Expire(p) PROVE Same
  BY <1>5 DEF Expire
<1>6. ASSUME UNCHANGED vars PROVE Same
  BY <1>6 DEF vars
<1> QED
  BY <1>1, <1>2, <1>3, <1>4, <1>5, <1>6 DEF CalmStep

\* A handler that serves, fails or has failed starts no container again: the retry of a
\* failed deployment reads its row and ends.
LEMMA EndingStays ==
  ASSUME TypeOK, NoRollbacks, QueueInv, AtRestInv, faults = 0, CalmStep,
         NEW d \in Deployments, Ending(d), status[d] # "deleted"
  PROVE  Ending(d)'
<1>1. CASE Settled(d)
  BY <1>1, SettledStays DEF Ending
<1>2. CASE ~Settled(d)
  <2> USE <1>2 DEF Ending, Serving, TypeOK, Goto, UpdateStatus, dbVars
  <2>1. ASSUME NEW r \in Requests, CalmRequest(r) PROVE Ending(d)'
    <3>1. UNCHANGED pc
      BY <2>1 DEF CalmRequest, BeginDeploy, BeginWebhook, BeginRollback, Supersede, Create, Enqueue
    <3>2. status[d] = "failed" => status'[d] = "failed"
      BY <2>1 DEF CalmRequest, BeginDeploy, BeginWebhook, BeginRollback, Supersede, Create, Enqueue
    <3> QED
      BY <3>1, <3>2
  <2>2. ASSUME NEW e \in Deployments \ {d}, Handler(e) PROVE Ending(d)'
    <3>1. pc'[d] = pc[d]
      BY <2>2, HandlerKeepsTask, HandlerEndsTask
    <3>2. CASE StopOldRow(e)
      BY <3>1, <3>2 DEF StopOldRow, AtRestInv
    <3>3. CASE ~StopOldRow(e)
      <4>1. status'[d] = status[d]
        BY <2>2, <3>3 DEF Handler, AcquireLock, DeployRefused, FastPath, DeployCapacity, SetCloning, Clone, BuildImage,
              SetRunning, SetRollbackRunning, RollbackCapacity, RollbackRefused, FailRefused, RunContainer, Probe,
              SafetyNet, ListLive, StopOld, RemoveOld, Promote, MarkFailed, Return
      <4> QED
        BY <3>1, <4>1
    <3> QED
      BY <3>2, <3>3
  <2>3. ASSUME Handler(d) PROVE Ending(d)'
    <3>1. CASE AcquireLock(d) \/ DeployRefused(d) \/ FastPath(d)
      BY <3>1 DEF AcquireLock, DeployRefused, FastPath, NoRollbacks, IsRollback, Settled
    <3>2. CASE Probe(d) \/ SafetyNet(d) \/ ListLive(d)
      BY <3>2 DEF Probe, SafetyNet, ListLive, Settled
    <3>3. CASE StopOld(d) \/ RemoveOld(d) \/ StopOldRow(d)
      BY <3>3 DEF StopOld, RemoveOld, StopOldRow, DoneWith
    <3>4. CASE Promote(d)
      BY <3>4 DEF Promote, AtRestInv, Settled
    <3>5. CASE MarkFailed(d) \/ Return(d)
      BY <3>5 DEF MarkFailed, Return, Acknowledge, Settled
    <3>6. ~(DeployCapacity(d) \/ SetCloning(d) \/ Clone(d) \/ BuildImage(d) \/ SetRunning(d) \/ SetRollbackRunning(d)
            \/ RollbackCapacity(d) \/ FailRefused(d) \/ RunContainer(d))
      BY DEF DeployCapacity, SetCloning, Clone, BuildImage, SetRunning, SetRollbackRunning, RollbackCapacity,
             FailRefused, RunContainer
    <3>7. ~RollbackRefused(d)
      BY DEF RollbackRefused, NoRollbacks, IsRollback
    <3> QED
      BY <2>3, <3>1, <3>2, <3>3, <3>4, <3>5, <3>6, <3>7 DEF Handler
  <2>4. ASSUME NEW e \in Deployments, Dequeue(e) PROVE Ending(d)'
    BY <2>4 DEF Dequeue, NoRollbacks, IsRollback, QueueInv
  <2>5. ASSUME NEW e \in Deployments, ContainerExit(e) PROVE Ending(d)'
    BY <2>5 DEF ContainerExit
  <2>6. ASSUME NEW p \in Projects, Expire(p) PROVE Ending(d)'
    BY <2>6 DEF Expire
  <2>7. CASE UNCHANGED vars
    BY <2>7 DEF vars
  <2> QED
    BY <2>1, <2>2, <2>3, <2>4, <2>5, <2>6, <2>7 DEF CalmStep
<1> QED
  BY <1>1, <1>2

\* What a step of the pipeline leaves true of what the other tasks hold.
LEMMA PipelineCalm ==
  ASSUME "rollback" \notin Kinds, OpsTypeOK, TypeOK, OpsCalmInv, [Next]_vars, UNCHANGED opsVars, faults' = 0
  PROVE  faults = 0 /\ OpsCalmInv'
<1>1. AtRestInv
  BY DEF OpsCalmInv, RowsAtRest, AtRestInv
<1>2. faults = 0 /\ CalmStep
  BY <1>1, CalmSteps
<1>3. RowsAtRest /\ OpInv /\ MonitorInv /\ PrunerInv
  BY <1>2 DEF OpsCalmInv
<1> USE <1>2, <1>3 DEF RowsAtRest
<1>4. \A d \in Deployments : Settled(d) => Settled(d)'
  BY SettledStays
<1>5. UNCHANGED <<op, monitor, pruner, interrupted>>
  BY DEF opsVars
<1>6. NoRollbacks' /\ QueueInv' /\ AtRestInv'
  BY NoRollbacksStep, QueueStep, AtRestStep
<1>7. RowsInv'
  <2>1. ASSUME NEW d \in Deployments
        PROVE  /\ containerId'[d] \/ dockerImage'[d] # NoDep => Settled(d)'
               /\ dockerImage'[d] \in {NoDep, d}
               /\ status'[d] \in {"stopped", "deleted"} => Settled(d)' \/ d \in interrupted'
    <3>1. status'[d] \in {"stopped", "deleted"} => Settled(d)' \/ d \in interrupted'
      BY <1>4, <1>5, OnlySwitchRetires DEF RowsInv
    <3>2. pc'[d] = "returnOk" => Settled(d)'
      BY DEF Settled
    <3> QED
      BY <1>4, <3>1, <3>2, OnlyPromoteFills DEF RowsInv
  <2> QED
    BY <2>1 DEF RowsInv
<1>8. HeldInv' /\ NoOrphanBut(interrupted)'
  <2>1. PICK S : S = interrupted
    OBVIOUS
  <2>2. \A d \in Deployments : pc[d] \in Serving /\ status[d] = "deleted" => d \in S
    BY <2>1, SettledIsAtRest DEF RowsInv, Serving
  <2>3. HeldInv' /\ NoOrphanBut(S)'
    BY <2>1, <2>2, HeldStep
  <2> QED
    BY <1>5, <2>1, <2>3 DEF NoOrphanBut
<1>9. \A d \in Deployments : Settled(d) /\ container[d] # "running" => container'[d] # "running"
  BY OnlyRunStarts, SettledIsAtRest
<1>10. ASSUME NEW d \in Deployments, Spent(d) PROVE Spent(d)'
  <2>1. CASE d \in interrupted
    BY <1>5, <2>1 DEF Spent
  <2>2. CASE d \notin interrupted
    <3>1. container[d] # "running" /\ Ending(d)
      BY <1>10, <2>2 DEF Spent
    <3>2. status[d] = "deleted" => Settled(d)
      BY <2>2 DEF RowsInv
    <3>3. Ending(d)'
      BY <1>4, <3>1, <3>2, EndingStays DEF Ending
    <3>4. pc[d] # "run"
      BY <3>1, SettledIsAtRest DEF Ending, Serving
    <3>5. container'[d] # "running"
      BY <3>1, <3>4, OnlyRunStarts
    <3> QED
      BY <3>3, <3>5 DEF Spent
  <2> QED
    BY <2>1, <2>2
<1>11. \A d \in Deployments : Settled(d) /\ status[d] # "live" => status'[d] # "live"
  BY OnlyPromoteFills, SettledIsAtRest
<1>12. ASSUME NEW row \in Rows, TrueCopy(row) PROVE TrueCopy(row)'
  BY <1>4, <1>12 DEF TrueCopy, Rows
<1>13. OpInv'
  <2> SUFFICES ASSUME op # IdleTask PROVE OpInv'
    BY <1>5 DEF OpInv
  <2>1. op.row \in Rows /\ op.row.dep \in Deployments
    BY DEF OpsTypeOK, RowOp, Rows
  <2>2. TrueCopy(op.row)'
    BY <1>5, <1>12, <2>1 DEF OpInv, TrueCopy
  <2> QED
    BY <1>4, <1>5, <1>9, <2>1, <2>2 DEF OpInv
<1>14. MonitorInv'
  <2>1. monitor # IdleTask => \A d \in monitor.todo : Spent(d)'
    BY <1>10 DEF MonitorInv, OpsTypeOK, Reading, Marking
  <2>2. monitor.pc = "update" => monitor.row \in Rows /\ monitor.row.dep \in Deployments
    BY DEF OpsTypeOK, IdleTask, Reading, Marking, Rows
  <2>3. monitor.pc = "update" => TrueCopy(monitor.row)' /\ Settled(monitor.row.dep)' /\ Spent(monitor.row.dep)'
    BY <1>4, <1>5, <1>10, <1>12, <2>2 DEF MonitorInv, TrueCopy, Spent
  <2> QED
    BY <1>5, <2>1, <2>3 DEF MonitorInv
<1>15. PrunerInv'
  <2>1. pruner # IdleTask => \A row \in pruner.todo : row \in Rows /\ row.dep \in Deployments
    BY DEF OpsTypeOK, Pruning, Rows
  <2> QED
    BY <1>4, <1>5, <1>11, <1>12, <2>1 DEF PrunerInv
<1> QED
  BY <1>6, <1>7, <1>8, <1>13, <1>14, <1>15 DEF OpsCalmInv

\* Every step keeps OpsCalmInv.
LEMMA OpsCalmStep ==
  ASSUME "rollback" \notin Kinds, OpsSafetyInv, OpsCalmInv, [OpsNext]_allVars
  PROVE  OpsCalmInv'
<1> SUFFICES ASSUME faults' = 0 PROVE OpsCalmInv'
  BY DEF OpsCalmInv
<1>1. TypeOK /\ OpsTypeOK /\ PrunerHoldsNoLive
  BY DEF OpsSafetyInv, SafetyInv
<1>2. ~Fault
  BY <1>1, FaultEndsCalm
<1>3. CASE [Next]_vars /\ UNCHANGED opsVars
  BY <1>1, <1>3, PipelineCalm
<1>4. ASSUME faults = 0, TouchesSettled, RowsAtRest
      PROVE  /\ RowsAtRest'
             /\ OpInv /\ UNCHANGED op => OpInv'
             /\ MonitorInv /\ UNCHANGED monitor => MonitorInv'
             /\ PrunerInv /\ UNCHANGED pruner => PrunerInv'
  <2>1. /\ RowsAtRest'
        /\ \A d \in Deployments : Spent(d) => Spent(d)'
        /\ \A d \in Deployments : Settled(d) <=> Settled(d)'
        /\ \A d \in Deployments : status[d] # "live" => status'[d] # "live"
        /\ \A d \in Deployments : container[d] # "running" => container'[d] # "running"
    BY <1>1, <1>4, TouchesSettledKeeps
  <2>2. ASSUME NEW row \in Rows, TrueCopy(row) PROVE TrueCopy(row)'
    BY <2>1, <2>2 DEF TrueCopy, Rows
  <2>3. ASSUME OpInv, UNCHANGED op PROVE OpInv'
    <3> SUFFICES ASSUME op # IdleTask PROVE OpInv'
      BY <2>3 DEF OpInv
    <3>1. op.row \in Rows /\ op.row.dep \in Deployments
      BY <1>1 DEF OpsTypeOK, RowOp, Rows
    <3>2. TrueCopy(op.row)'
      BY <2>2, <2>3, <3>1 DEF OpInv, TrueCopy
    <3>3. interrupted \subseteq interrupted'
      BY <1>4 DEF TouchesSettled
    <3> QED
      BY <2>1, <2>3, <3>1, <3>2, <3>3 DEF OpInv
  <2>4. ASSUME MonitorInv, UNCHANGED monitor PROVE MonitorInv'
    <3>1. monitor # IdleTask => \A d \in monitor.todo : Spent(d)'
      BY <1>1, <2>1, <2>4 DEF MonitorInv, OpsTypeOK, Reading, Marking
    <3>2. monitor.pc = "update" => monitor.row \in Rows /\ monitor.row.dep \in Deployments
      BY <1>1 DEF OpsTypeOK, IdleTask, Reading, Marking, Rows
    <3>3. monitor.pc = "update" => TrueCopy(monitor.row)' /\ Settled(monitor.row.dep)' /\ Spent(monitor.row.dep)'
      BY <2>1, <2>2, <2>4, <3>2 DEF MonitorInv, TrueCopy, Spent, Settled
    <3> QED
      BY <2>4, <3>1, <3>3 DEF MonitorInv
  <2>5. ASSUME PrunerInv, UNCHANGED pruner PROVE PrunerInv'
    <3>1. pruner # IdleTask => \A row \in pruner.todo : row \in Rows /\ row.dep \in Deployments
      BY <1>1 DEF OpsTypeOK, Pruning, Rows
    <3> QED
      BY <2>1, <2>2, <2>5, <3>1 DEF PrunerInv
  <2> QED
    BY <2>1, <2>3, <2>4, <2>5
<1>5. CASE Api
  BY <1>1, <1>4, <1>5, ApiCalm DEF OpsCalmInv
<1>6. CASE Monitor
  BY <1>1, <1>4, <1>6, MonitorCalm DEF OpsCalmInv
<1>7. CASE Pruner
  BY <1>1, <1>4, <1>7, PrunerCalm DEF OpsCalmInv
<1>8. CASE OpsError \/ WorkerCrash
  BY <1>2, <1>8 DEF OpsError, WorkerCrash, Crash
<1>9. Step => [Next]_vars
  BY DEF Next
<1>10. CASE UNCHANGED allVars
  BY <1>1, <1>10, PipelineCalm DEF allVars
<1> QED
  BY <1>3, <1>5, <1>6, <1>7, <1>8, <1>9, <1>10 DEF OpsNext

\* Without faults and rollbacks: rows, containers and what the requests, the monitor and
\* the pruner have read of them stay in step.
THEOREM OpsCalmInvHolds == ASSUME "rollback" \notin Kinds PROVE OpsSpec => []OpsCalmInv
<1>1. OpsInit => OpsCalmInv
  BY DEF OpsInit, Init, OpsCalmInv, RowsAtRest, NoRollbacks, RowsInv, QueueInv, FinishedIsSettled, AtRestInv, Stuck, HeldInv,
         NoOrphanBut, Running, Serving, OpInv, MonitorInv, PrunerInv, IdleTask, IdleRequest
<1>2. OpsSafetyInv /\ OpsCalmInv /\ [OpsNext]_allVars => OpsCalmInv'
  BY OpsCalmStep
<1> QED
  BY <1>1, <1>2, OpsSafetyInvHolds, PTL DEF OpsSpec

\* For every number of deployments, requests, slots and retries: without faults and
\* rollbacks every container that runs is accounted for, whatever stop and delete
\* requests, monitor and pruner do meanwhile.
THEOREM AccountedForHolds == ASSUME "rollback" \notin Kinds PROVE OpsSpec => []AccountedFor
<1>1. OpsCalmInv => AccountedFor
  BY DEF OpsCalmInv, RowsAtRest, NoOrphanBut, AccountedFor, Serving
<1> QED
  BY <1>1, OpsCalmInvHolds, PTL

-----------------------------------------------------------------------------
(* Housekeeping alone: no stop and delete requests.                        *)

\* Nobody makes a request.
NoRequests == op = IdleTask /\ doomed = {} /\ interrupted = {}

LEMMA NoRequestsStep ==
  ASSUME Ops \subseteq {"monitor", "prune"}, NoRequests, [OpsNext]_allVars
  PROVE  NoRequests'
<1> USE DEF NoRequests, IdleTask
<1>1. CASE Api
  BY <1>1 DEF Api, StopRequest, StopByRow, MarkStopped, BeginStop, DeleteRequest, DeleteStop, DeleteRemove, DeleteRow,
              BeginDelete, RemoveDoomed, AbandonOp
<1>2. CASE Monitor
  BY <1>2 DEF Monitor, MonitorList, MonitorRead, MonitorMark
<1>3. CASE Pruner
  BY <1>3 DEF Pruner, PruneList, PruneImage, PruneClear
<1>4. CASE OpsError \/ WorkerCrash
  BY <1>4 DEF OpsError, WorkerCrash
<1> QED
  BY <1>1, <1>2, <1>3, <1>4 DEF OpsNext, opsVars, allVars

\* Without stop and delete requests nothing is interrupted or doomed.
THEOREM NoRequestsHolds == ASSUME Ops \subseteq {"monitor", "prune"} PROVE OpsSpec => []NoRequests
<1>1. OpsInit => NoRequests
  BY DEF OpsInit, NoRequests
<1>2. NoRequests /\ [OpsNext]_allVars => NoRequests'
  BY NoRequestsStep
<1> QED
  BY <1>1, <1>2, PTL DEF OpsSpec

\* Without faults, rollbacks and requests, a container that the monitor has found exited
\* does not run when it marks the row, however long ago that was.
THEOREM MonitorSparesRunningHolds ==
  ASSUME "rollback" \notin Kinds, Ops \subseteq {"monitor", "prune"}
  PROVE  OpsSpec => MonitorSparesRunning
<1>1. OpsCalmInv /\ NoRequests /\ [OpsNext]_allVars
        => [monitor.pc = "update" /\ monitor' # monitor /\ faults = 0
              => container[monitor.row.dep] # "running"]_allVars
  BY DEF OpsCalmInv, MonitorInv, Spent, NoRequests
<1> QED
  BY <1>1, OpsCalmInvHolds, NoRequestsHolds, PTL DEF OpsSpec, MonitorSparesRunning

-----------------------------------------------------------------------------
(* Images and live rows, as long as nobody deletes deployments.            *)

\* A stop request leaves the container in place, and only the pruner removes images: of
\* deployments that have ended and are not live.
SparesLive ==
  /\ \A d \in Deployments : container[d] \in {"running", "exited"} => container'[d] \in {"running", "exited"}
  /\ \A i \in images \ images' : Settled(i) /\ status[i] # "live"

LEMMA SparesLiveKeeps ==
  ASSUME TypeOK, faults = 0, RowsAtRest, ImageInv, TouchesSettled, SparesLive
  PROVE  ImageInv'
<1> USE DEF ImageInv, TouchesSettled, SparesLive, RowsAtRest, TypeOK
<1>1. \A d \in Deployments : Settled(d)' = Settled(d)
  BY DEF Settled
<1>2. \A d \in Deployments : Image(d) = d /\ Image(d)' = d
  BY DEF NoRollbacks, Image, IsRollback
<1>3. \A d \in Deployments : dockerImage'[d] # NoDep => Settled(dockerImage[d])'
  BY <1>1 DEF Settled
<1>4. \A d \in Deployments : target'[d] = NoDep
  BY DEF NoRollbacks
<1>5. \A r \in Requests : ~(req'[r].pc = "supersede" /\ req'[r].target # NoDep)
  BY DEF NoRollbacks
<1>6. \A d \in Deployments : pc'[d] \in Serving => Image(d)' \in images'
  BY <1>2, SettledIsAtRest DEF Serving
<1>7. LiveIsServed'
  <2> SUFFICES ASSUME NEW e \in Deployments, status'[e] = "live"
               PROVE  \/ container'[e] \in {"running", "exited"} /\ Image(e)' \in images'
                      \/ \E c \in Deployments : pc'[c] = "stopRow" /\ IsNewest(e, old'[c])
    BY DEF LiveIsServed
  <2>1. status[e] = "live"
    OBVIOUS
  <2>2. CASE container[e] \in {"running", "exited"} /\ Image(e) \in images
    BY <1>2, <2>1, <2>2
  <2>3. CASE \E c \in Deployments : pc[c] = "stopRow" /\ IsNewest(e, old[c])
    BY <2>3
  <2> QED
    BY <2>1, <2>2, <2>3 DEF LiveIsServed
<1> QED
  BY <1>3, <1>4, <1>5, <1>6, <1>7

\* Nobody makes a delete request.
NoDeletes == doomed = {} /\ op.pc \notin {"delStop", "delRemove", "delRow"}

LEMMA NoDeletesStep ==
  ASSUME "delete" \notin Ops, OpsTypeOK, NoDeletes, [OpsNext]_allVars
  PROVE  NoDeletes'
<1> USE DEF NoDeletes
<1>1. CASE Api
  <2>1. ASSUME StopByRow PROVE op' = IdleTask \/ op'.pc = "update"
    BY <2>1 DEF StopByRow, OpsTypeOK, IdleTask, RowOp
  <2> QED
    BY <1>1, <2>1 DEF Api, StopRequest, StopByRow, MarkStopped, BeginStop, DeleteRequest, DeleteStop, DeleteRemove,
                      DeleteRow, BeginDelete, RemoveDoomed, AbandonOp, IdleTask
<1>2. CASE Monitor
  BY <1>2 DEF Monitor, MonitorList, MonitorRead, MonitorMark
<1>3. CASE Pruner
  BY <1>3 DEF Pruner, PruneList, PruneImage, PruneClear
<1>4. CASE OpsError \/ WorkerCrash
  BY <1>4 DEF OpsError, WorkerCrash
<1> QED
  BY <1>1, <1>2, <1>3, <1>4 DEF OpsNext, opsVars, allVars

\* Every step keeps ImageInv.
LEMMA OpsImageStep ==
  ASSUME "rollback" \notin Kinds, OpsSafetyInv, OpsCalmInv, NoDeletes, ImageInv, [OpsNext]_allVars
  PROVE  ImageInv'
<1> SUFFICES ASSUME faults' = 0 PROVE ImageInv'
  BY DEF ImageInv
<1>1. TypeOK /\ OpsTypeOK /\ PrunerHoldsNoLive
  BY DEF OpsSafetyInv, SafetyInv
<1>2. ~Fault
  BY <1>1, FaultEndsCalm
<1>3. CASE [Next]_vars
  <2>1. AtRestInv
    BY DEF OpsCalmInv, RowsAtRest, AtRestInv
  <2>2. faults = 0
    BY <1>1, <1>3, <2>1, CalmSteps
  <2> QED
    BY <1>1, <1>3, <2>2, ImageStep DEF OpsCalmInv, RowsAtRest
<1>4. CASE Api
  <2>1. faults = 0 /\ TouchesSettled /\ RowsAtRest
    BY <1>1, <1>4, ApiCalm DEF OpsCalmInv
  <2>2. SparesLive
    <3>1. CASE StopByRow
      <4>1. UNCHANGED images /\ StopContainer(op.row.dep)
        BY <3>1 DEF StopByRow
      <4> QED
        BY <1>1, <4>1 DEF StopContainer, SparesLive, TypeOK
    <3>2. CASE ~StopByRow
      <4>1. UNCHANGED dockerVars
        BY <1>2, <1>4, <3>2 DEF Api, StopRequest, MarkStopped, BeginStop, DeleteRequest, DeleteStop, DeleteRemove, DeleteRow,
                                BeginDelete, RemoveDoomed, AbandonOp, NoDeletes, vars, dockerVars
      <4> QED
        BY <4>1 DEF SparesLive, dockerVars
    <3> QED
      BY <3>1, <3>2
  <2> QED
    BY <1>1, <2>1, <2>2, SparesLiveKeeps
<1>5. CASE Monitor
  <2>1. faults = 0 /\ TouchesSettled /\ RowsAtRest
    BY <1>1, <1>5, MonitorCalm DEF OpsCalmInv
  <2>2. SparesLive
    BY <1>5 DEF Monitor, MonitorList, MonitorRead, MonitorMark, SparesLive, vars, dockerVars
  <2> QED
    BY <1>1, <2>1, <2>2, SparesLiveKeeps
<1>6. CASE Pruner
  <2>1. faults = 0 /\ TouchesSettled /\ RowsAtRest /\ PrunerInv
    BY <1>1, <1>6, PrunerCalm DEF OpsCalmInv
  <2>2. CASE PruneImage
    <3>1. pruner # IdleTask
      BY <2>2 DEF PruneImage, IdleTask
    <3>2. PICK row \in pruner.todo : images' = images \ {row.image}
      BY <2>2 DEF PruneImage
    <3>3. row.image = NoDep \/ (Settled(row.image) /\ status[row.image] # "live")
      BY <2>1, <3>1, <3>2 DEF PrunerInv, TrueCopy
    <3>4. UNCHANGED container
      BY <2>2 DEF PruneImage
    <3>5. NoDep \notin images
      BY <1>1, NoDepIsNone DEF TypeOK
    <3>6. SparesLive
      BY <3>2, <3>3, <3>4, <3>5 DEF SparesLive
    <3> QED
      BY <1>1, <2>1, <3>6, SparesLiveKeeps
  <2>3. CASE ~PruneImage
    <3>1. SparesLive
      BY <1>6, <2>3 DEF Pruner, PruneList, PruneClear, SparesLive, vars, dockerVars
    <3> QED
      BY <1>1, <2>1, <3>1, SparesLiveKeeps
  <2> QED
    BY <2>2, <2>3
<1>7. CASE OpsError \/ WorkerCrash
  BY <1>2, <1>7 DEF OpsError, WorkerCrash, Crash
<1>8. Step \/ UNCHANGED allVars => [Next]_vars
  BY DEF Next, allVars
<1> QED
  BY <1>3, <1>4, <1>5, <1>6, <1>7, <1>8 DEF OpsNext

\* What the containers need of the images also holds beside stop requests, monitor and
\* pruner: a row that is pruned is not the one a handler serves.
THEOREM OpsImageInvHolds ==
  ASSUME "rollback" \notin Kinds, "delete" \notin Ops
  PROVE  OpsSpec => [](NoDeletes /\ ImageInv)
<1>1. OpsInit => NoDeletes /\ ImageInv
  BY DEF OpsInit, Init, NoDeletes, IdleTask, ImageInv, LiveIsServed, Serving, IdleRequest
<1>2. OpsSafetyInv => OpsTypeOK
  BY DEF OpsSafetyInv
<1>3. OpsSafetyInv /\ OpsCalmInv /\ NoDeletes /\ ImageInv /\ [OpsNext]_allVars => (NoDeletes /\ ImageInv)'
  BY <1>2, NoDeletesStep, OpsImageStep
<1> QED
  BY <1>1, <1>3, OpsSafetyInvHolds, OpsCalmInvHolds, PTL DEF OpsSpec

\* Without faults, rollbacks and delete requests, a live row has its container and its
\* image, also while stop requests, monitor and pruner are at work.
THEOREM OpsLiveIsServedHolds ==
  ASSUME "rollback" \notin Kinds, "delete" \notin Ops
  PROVE  OpsSpec => []LiveIsServed
<1>1. ImageInv => LiveIsServed
  BY DEF ImageInv, LiveIsServed
<1> QED
  BY <1>1, OpsImageInvHolds, PTL

-----------------------------------------------------------------------------
(* Images that can be rolled back to, with the two worker slots of         *)
(* cmd/worker/main.go.                                                     *)

\* The pruner is between its two calls for d.
Clearing(d) == pruner.pc = "clear" /\ \E row \in pruner.todo : row.dep = d /\ ToPrune(row)

Listed(d) == \E c \in Deployments : d \in old[c]

\* A row that is stopped, or will be, and names an image: the host has it. The monitor may
\* put back the name of an image that is gone, but never on a row a switch is to retire.
KeptInv ==
  faults = 0 =>
    /\ BusySlots <= Concurrency
    /\ \A c \in Deployments : old[c] # {} => pc[c] \in {"stop", "remove", "stopRow"}
    /\ \A d \in Deployments : status[d] # "deleted" /\ (status[d] = "live" => dockerImage[d] = d)
    /\ \A d \in Deployments :
         status[d] \in {"live", "stopped"} \/ Listed(d) => dockerImage[d] = NoDep \/ d \in images \/ Clearing(d)
    /\ monitor.pc = "update" /\ Listed(monitor.row.dep) => monitor.row.dep \in images

\* With two slots, no handler is at work while monitor and pruner both are.
LEMMA NoHandlerBesideBoth ==
  ASSUME TypeOK, Concurrency <= 2, BusySlots <= Concurrency, monitor # IdleTask, pruner # IdleTask
  PROVE  \A d \in Deployments : pc[d] = "idle"
<1> DEFINE H == {d \in Deployments : pc[d] # "idle"}
<1>1. Cardinality(H) \in Nat
  BY FewerDeployments
<1>2. Cardinality(H) = 0
  BY <1>1, PipelineAssumption DEF BusySlots, Busy, Slot, PipelineAssumption
<1>3. IsFiniteSet(H)
  <2>1. IsFiniteSet(Deployments)
    BY FS_Interval, PipelineAssumption DEF PipelineAssumption, Deployments
  <2> QED
    BY <2>1, FS_Subset
<1>4. H = {}
  BY <1>2, <1>3, FS_EmptySet
<1> QED
  BY <1>4

\* What the pipeline does to images and rows that are to be kept.
KeepsImages ==
  /\ \A c \in Deployments : old'[c] # {} => pc'[c] \in {"stop", "remove", "stopRow"}
  /\ \A c, d \in Deployments : d \in old'[c] => d \in old[c] \/ status[d] = "live"
  /\ \A d \in Deployments : status'[d] = "stopped" => status[d] = "stopped" \/ Listed(d)
  /\ \A d \in Deployments : status'[d] = "deleted" => status[d] = "deleted"
  /\ \A d \in Deployments : status'[d] = "live" =>
       (status[d] = "live" /\ dockerImage'[d] = dockerImage[d]) \/ (dockerImage'[d] = d /\ d \in images')
  /\ \A d \in Deployments : Settled(d) /\ d \in images => d \in images'
  /\ \A d \in Deployments : dockerImage'[d] \in {NoDep, dockerImage[d]} \/ d \in images'

LEMMA HandlerKeepsImages ==
  ASSUME TypeOK, RowsAtRest, ImageInv, faults = 0, NEW d \in Deployments, Handler(d),
         \A c \in Deployments : old[c] # {} => pc[c] \in {"stop", "remove", "stopRow"}
  PROVE  KeepsImages
<1> USE DEF KeepsImages, TypeOK, RowsAtRest, Listed, Settled, QueueInv, Goto, UpdateStatus, dbVars, dockerVars
<1>1. CASE AcquireLock(d) \/ DeployRefused(d) \/ FastPath(d) \/ DeployCapacity(d)
  BY <1>1 DEF AcquireLock, DeployRefused, FastPath, DeployCapacity
<1>2. CASE SetCloning(d) \/ Clone(d)
  BY <1>2 DEF SetCloning, Clone
<1>3. CASE BuildImage(d) \/ SetRunning(d)
  BY <1>3 DEF BuildImage, RemoveBuiltImage, SetRunning
<1>4. CASE SetRollbackRunning(d) \/ RollbackCapacity(d) \/ RollbackRefused(d) \/ FailRefused(d)
  BY <1>4 DEF SetRollbackRunning, RollbackCapacity, RollbackRefused, FailRefused
<1>5. CASE RunContainer(d)
  BY <1>5 DEF RunContainer, RemoveBuiltImage
<1>6. CASE Probe(d) \/ SafetyNet(d)
  BY <1>6 DEF Probe, SafetyNet, RemoveBuiltImage
<1>7. CASE ListLive(d)
  BY <1>7 DEF ListLive, RowsOf
<1>8. CASE StopOld(d) \/ RemoveOld(d)
  BY <1>8 DEF StopOld, RemoveOld
<1>9. CASE StopOldRow(d)
  BY <1>9 DEF StopOldRow, DoneWith
<1>10. CASE Promote(d)
  <2>1. Image(d) = d
    BY DEF NoRollbacks, Image, IsRollback
  <2>2. d \in images
    BY <1>10, <2>1 DEF Promote, ImageInv, Serving
  <2> QED
    BY <1>10, <2>1, <2>2 DEF Promote
<1>11. CASE MarkFailed(d)
  BY <1>11 DEF MarkFailed
<1>12. CASE Return(d)
  BY <1>12 DEF Return, Acknowledge
<1> QED
  BY <1>1, <1>2, <1>3, <1>4, <1>5, <1>6, <1>7, <1>8, <1>9, <1>10, <1>11, <1>12 DEF Handler

\* The other steps of the pipeline.
LEMMA PipelineKeepsImages ==
  ASSUME TypeOK, RowsAtRest, ImageInv, faults = 0, CalmStep,
         \A c \in Deployments : old[c] # {} => pc[c] \in {"stop", "remove", "stopRow"}
  PROVE  KeepsImages
<1>1. ASSUME NEW d \in Deployments, Handler(d) PROVE KeepsImages
  BY <1>1, HandlerKeepsImages
<1> USE DEF KeepsImages, TypeOK, Goto, UpdateStatus, dbVars, dockerVars
<1>2. ASSUME NEW r \in Requests, CalmRequest(r) PROVE KeepsImages
  <2>1. ASSUME NEW d \in Deployments, Create(r, d) PROVE KeepsImages
    BY <2>1 DEF Create, RowsAtRest, NoRollbacks
  <2>2. CASE \A d \in Deployments : ~Create(r, d)
    BY <1>2, <2>2 DEF CalmRequest, BeginDeploy, BeginWebhook, BeginRollback, Supersede, Enqueue
  <2> QED
    BY <2>1, <2>2
<1>3. ASSUME NEW d \in Deployments, Dequeue(d) PROVE KeepsImages
  BY <1>3 DEF Dequeue, RowsAtRest, QueueInv
<1>4. ASSUME NEW d \in Deployments, ContainerExit(d) PROVE KeepsImages
  BY <1>4 DEF ContainerExit
<1>5. ASSUME NEW p \in Projects, Expire(p) PROVE KeepsImages
  BY <1>5 DEF Expire
<1>6. CASE UNCHANGED vars
  BY <1>6 DEF vars
<1> QED
  BY <1>1, <1>2, <1>3, <1>4, <1>5, <1>6 DEF CalmStep

\* A step of the pipeline keeps KeptInv: what it lists to retire is live, and a live row
\* has its image, as the pruner is at work on none.
LEMMA PipelineKeptStep ==
  ASSUME TypeOK, OpsTypeOK, OpsCalmInv, ImageInv, KeptInv, interrupted = {}, faults = 0,
         CalmStep, UNCHANGED opsVars, BusySlots' <= Concurrency
  PROVE  KeptInv'
<1>1. RowsAtRest /\ MonitorInv /\ PrunerInv
  BY DEF OpsCalmInv
<1>2. /\ \A c \in Deployments : old[c] # {} => pc[c] \in {"stop", "remove", "stopRow"}
      /\ \A d \in Deployments : status[d] # "deleted" /\ (status[d] = "live" => dockerImage[d] = d)
      /\ \A d \in Deployments :
           status[d] \in {"live", "stopped"} \/ Listed(d) => dockerImage[d] = NoDep \/ d \in images \/ Clearing(d)
      /\ monitor.pc = "update" /\ Listed(monitor.row.dep) => monitor.row.dep \in images
  BY DEF KeptInv
<1>3. KeepsImages
  BY <1>1, <1>2, PipelineKeepsImages
<1>4. \A d \in Deployments : Clearing(d)' <=> Clearing(d)
  BY DEF Clearing, ToPrune, opsVars
<1>5. \A d \in Deployments : Clearing(d) => status[d] # "live"
  <2> SUFFICES ASSUME NEW d \in Deployments, Clearing(d) PROVE status[d] # "live"
    OBVIOUS
  <2>1. pruner # IdleTask
    BY DEF Clearing, IdleTask
  <2> QED
    BY <1>1, <2>1 DEF Clearing, PrunerInv
<1>6. \A d \in Deployments : status[d] \in {"live", "stopped"} \/ Listed(d) => Settled(d)
  BY <1>1 DEF RowsAtRest, AtRestInv, RowsInv, Listed
<1>7. \A d \in Deployments : status[d] = "live" => d \in images
  BY <1>2, <1>5, NoDepIsNone
<1>8. \A d \in Deployments : Listed(d)' => Listed(d) \/ status[d] = "live"
  BY <1>3 DEF KeepsImages, Listed
<1>9. ASSUME NEW d \in Deployments, status'[d] \in {"live", "stopped"} \/ Listed(d)'
      PROVE  dockerImage'[d] = NoDep \/ d \in images' \/ Clearing(d)'
  <2>1. CASE status[d] \in {"live", "stopped"} \/ Listed(d)
    BY <1>2, <1>3, <1>4, <1>6, <2>1 DEF KeepsImages
  <2>2. CASE ~(status[d] \in {"live", "stopped"} \/ Listed(d))
    BY <1>3, <1>8, <1>9, <2>2 DEF KeepsImages
  <2> QED
    BY <2>1, <2>2
<1>10. ASSUME monitor'.pc = "update", Listed(monitor.row.dep)' PROVE monitor'.row.dep \in images'
  <2>1. UNCHANGED monitor
    BY DEF opsVars
  <2>2. monitor.row.dep \in Deployments
    BY <1>10, <2>1 DEF OpsTypeOK, IdleTask, Reading, Marking, Rows
  <2>3. Listed(monitor.row.dep) \/ status[monitor.row.dep] = "live"
    BY <1>10, <2>1, <2>2, <1>8 DEF Listed
  <2> QED
    BY <1>2, <1>3, <1>6, <1>7, <1>10, <2>1, <2>2, <2>3 DEF KeepsImages
<1>11. /\ \A c \in Deployments : old'[c] # {} => pc'[c] \in {"stop", "remove", "stopRow"}
       /\ \A d \in Deployments : status'[d] # "deleted"
       /\ \A d \in Deployments : status'[d] = "live" => dockerImage'[d] = d
  BY <1>2, <1>3 DEF KeepsImages
<1> QED
  BY <1>9, <1>10, <1>11 DEF KeptInv

\* The monitor: it reads live rows only, and those have their images.
LEMMA MonitorKeptStep ==
  ASSUME TypeOK, OpsTypeOK, OpsCalmInv, KeptInv, faults = 0, faults' = 0, Monitor, BusySlots' <= Concurrency
  PROVE  KeptInv'
<1>1. RowsAtRest /\ MonitorInv /\ PrunerInv
  BY DEF OpsCalmInv
<1>2. UNCHANGED <<old, pc, images, pruner>>
  BY DEF Monitor, MonitorList, MonitorRead, MonitorMark, vars, dockerVars
<1>3. \A d \in Deployments : (Clearing(d)' <=> Clearing(d)) /\ (Listed(d)' <=> Listed(d))
  BY <1>2 DEF Clearing, ToPrune, Listed
<1>4. \A d \in Deployments : Clearing(d) => status[d] # "live"
  <2> SUFFICES ASSUME NEW d \in Deployments, Clearing(d) PROVE status[d] # "live"
    OBVIOUS
  <2>1. pruner # IdleTask
    BY DEF Clearing, IdleTask
  <2> QED
    BY <1>1, <2>1 DEF Clearing, PrunerInv
<1>5. CASE MonitorList \/ MonitorRead
  <2>1. UNCHANGED <<status, dockerImage>>
    BY <1>5 DEF MonitorList, MonitorRead, vars
  <2>2. ASSUME monitor'.pc = "update" PROVE monitor'.row.dep \in images
    <3>1. MonitorRead
      BY <1>5, <2>2 DEF MonitorList
    <3>2. PICK d \in monitor.todo :
            monitor' = IF status[d] = "live"
                       THEN [pc |-> "update", row |-> ReadRow(d), todo |-> monitor.todo \ {d}]
                       ELSE MonitorNext(monitor.todo \ {d})
      BY <3>1 DEF MonitorRead
    <3>3. status[d] = "live" /\ monitor'.row.dep = d
      BY <2>2, <3>2 DEF MonitorNext, IdleTask, ReadRow
    <3>4. d \in Deployments
      BY <3>1, <3>2 DEF MonitorRead, OpsTypeOK, IdleTask, Reading, Marking
    <3> QED
      BY <1>4, <3>3, <3>4, NoDepIsNone DEF KeptInv
  <2> QED
    BY <1>2, <1>3, <2>1, <2>2 DEF KeptInv
<1>6. CASE MonitorMark
  <2>1. monitor \in Marking /\ monitor.pc = "update"
    BY <1>6 DEF MonitorMark, OpsTypeOK, IdleTask, Reading
  <2>2. monitor.row.dep \in Deployments /\ monitor.row.image \in {NoDep, monitor.row.dep}
    BY <1>1, <2>1 DEF Marking, Rows, MonitorInv, TrueCopy
  <2>3. monitor'.pc # "update"
    BY <1>6 DEF MonitorMark, MonitorNext, IdleTask
  <2>4. /\ status' = [status EXCEPT ![monitor.row.dep] = "failed"]
        /\ dockerImage' = [dockerImage EXCEPT ![monitor.row.dep] = monitor.row.image]
    BY <1>6, <2>2 DEF MonitorMark, UpdateRow, KeptInv
  <2> QED
    BY <1>2, <1>3, <2>1, <2>2, <2>3, <2>4 DEF KeptInv, TypeOK
<1> QED
  BY <1>5, <1>6 DEF Monitor

\* The pruner: while the monitor holds the copy of a row, and the pruner removes the image,
\* both worker slots are taken, and no switch has listed the row.
LEMMA PrunerKeptStep ==
  ASSUME Concurrency <= 2, TypeOK, OpsTypeOK, PrunerHoldsNoLive, OpsCalmInv, KeptInv, faults = 0, faults' = 0,
         Pruner, BusySlots' <= Concurrency
  PROVE  KeptInv'
<1>1. RowsAtRest /\ PrunerInv
  BY DEF OpsCalmInv
<1>2. UNCHANGED <<old, pc, monitor>>
  BY DEF Pruner, PruneList, PruneImage, PruneClear, vars
<1>3. \A d \in Deployments : Listed(d)' <=> Listed(d)
  BY <1>2 DEF Listed
<1>4. ASSUME pruner # IdleTask, monitor.pc = "update" PROVE ~Listed(monitor.row.dep)
  <2>1. monitor # IdleTask
    BY <1>4 DEF IdleTask
  <2>2. \A d \in Deployments : pc[d] = "idle"
    BY <1>4, <2>1, NoHandlerBesideBoth DEF KeptInv
  <2> QED
    BY <2>2 DEF KeptInv, Listed
<1>5. Listed(monitor.row.dep)' <=> Listed(monitor.row.dep)
  BY <1>2 DEF Listed
<1>6. ASSUME NEW p \in Projects, PruneList(p) PROVE KeptInv'
  <2>1. UNCHANGED <<status, dockerImage, images>> /\ pruner = IdleTask
    BY <1>6 DEF PruneList, vars
  <2>2. \A d \in Deployments : ~Clearing(d)
    BY <2>1 DEF Clearing, IdleTask
  <2> QED
    BY <1>2, <1>3, <1>5, <2>1, <2>2 DEF KeptInv
<1>7. CASE PruneImage
  <2>1. pruner.pc = "image" /\ pruner \in Pruning /\ pruner # IdleTask
    BY <1>7 DEF PruneImage, OpsTypeOK, IdleTask
  <2>2. PICK row \in pruner.todo : ToPrune(row) /\ images' = images \ {row.image}
    BY <1>7 DEF PruneImage
  <2>3. pruner'.pc = "clear" /\ pruner'.todo = pruner.todo
    BY <1>7, <2>1 DEF PruneImage, Pruning
  <2>4. row.image \in {NoDep, row.dep}
    BY <1>1, <2>1, <2>2 DEF PrunerInv, TrueCopy
  <2>5. ASSUME NEW d \in Deployments, d \in images, d \notin images' PROVE Clearing(d)'
    <3>1. row.dep = d
      BY <2>2, <2>4, <2>5, NoDepIsNone
    <3> QED
      BY <2>2, <2>3, <3>1 DEF Clearing, ToPrune
  <2>6. \A d \in Deployments : ~Clearing(d)
    BY <2>1 DEF Clearing
  <2>7. UNCHANGED <<status, dockerImage>>
    BY <1>7 DEF PruneImage, dbVars
  <2> QED
    BY <1>2, <1>3, <1>4, <1>5, <2>1, <2>5, <2>6, <2>7 DEF KeptInv
<1>8. CASE PruneClear
  <2>1. pruner \in Pruning /\ pruner # IdleTask /\ UNCHANGED images
    BY <1>8 DEF PruneClear, OpsTypeOK, IdleTask, dockerVars
  <2>2. PICK row \in pruner.todo : ToPrune(row) /\ UpdateRow(row, row.status, NoDep)
    BY <1>8 DEF PruneClear
  <2>3. \A r \in pruner.todo : r \in Rows /\ r.dep \in Deployments
    BY <2>1 DEF Pruning, Rows
  <2>4. row.status \notin {"deleted", "live"}
    BY <2>1, <2>2, <2>3 DEF Rows, Statuses, PrunerHoldsNoLive
  <2>5. status[row.dep] # "live"
    BY <1>1, <2>1, <2>2 DEF PrunerInv
  <2>6. /\ status' = [status EXCEPT ![row.dep] = row.status]
        /\ dockerImage' = [dockerImage EXCEPT ![row.dep] = NoDep]
    BY <2>2, <2>3 DEF UpdateRow, KeptInv
  <2>7. ASSUME NEW d \in Deployments, Clearing(d) PROVE d = row.dep
    <3>1. PICK r \in pruner.todo : r.dep = d /\ ToPrune(r)
      BY <2>7 DEF Clearing
    <3>2. r.dep <= row.dep /\ row.dep <= r.dep
      BY <2>2, <3>1 DEF ToPrune
    <3>3. r.dep \in Int /\ row.dep \in Int
      BY <2>2, <2>3, <3>1, PipelineAssumption DEF PipelineAssumption, Deployments
    <3> QED
      BY <3>1, <3>2, <3>3
  <2> QED
    BY <1>2, <1>3, <1>4, <1>5, <2>1, <2>2, <2>3, <2>4, <2>5, <2>6, <2>7 DEF KeptInv, TypeOK
<1> QED
  BY <1>6, <1>7, <1>8 DEF Pruner

\* Every step keeps KeptInv.
LEMMA KeptStep ==
  ASSUME "rollback" \notin Kinds, Ops \subseteq {"monitor", "prune"}, Concurrency <= 2,
         OpsSafetyInv, OpsCalmInv, ImageInv, NoRequests, KeptInv, [OpsNext]_allVars
  PROVE  KeptInv'
<1> SUFFICES ASSUME faults' = 0 PROVE KeptInv'
  BY DEF KeptInv
<1>1. TypeOK /\ OpsTypeOK /\ PrunerHoldsNoLive /\ interrupted = {}
  BY DEF OpsSafetyInv, SafetyInv, NoRequests
<1>2. ~Fault
  BY <1>1, FaultEndsCalm
<1>3. AtRestInv
  BY DEF OpsCalmInv, RowsAtRest, AtRestInv
<1>4. CASE Step /\ UNCHANGED opsVars /\ BusySlots' <= Concurrency
  <2>1. faults = 0 /\ CalmStep
    BY <1>1, <1>3, <1>4, CalmSteps DEF Next
  <2> QED
    BY <1>1, <1>4, <2>1, PipelineKeptStep
<1>5. CASE UNCHANGED allVars
  <2>1. UNCHANGED <<vars, opsVars>>
    BY <1>5 DEF allVars
  <2>2. faults = 0 /\ CalmStep
    BY <1>1, <1>3, <2>1, CalmSteps
  <2>3. BusySlots' <= Concurrency
    BY <2>1, <2>2 DEF KeptInv, BusySlots, Busy, vars, opsVars
  <2> QED
    BY <1>1, <2>1, <2>2, <2>3, PipelineKeptStep
<1>6. CASE Monitor /\ BusySlots' <= Concurrency
  BY <1>1, <1>6, MonitorCalm, MonitorKeptStep
<1>7. CASE Pruner /\ BusySlots' <= Concurrency
  BY <1>1, <1>7, PrunerCalm, PrunerKeptStep
<1>8. ~Api
  BY DEF Api, StopRequest, StopByRow, MarkStopped, BeginStop, DeleteRequest, DeleteStop, DeleteRemove, DeleteRow,
         BeginDelete, RemoveDoomed, AbandonOp, NoRequests, IdleTask
<1>9. ~OpsError /\ ~WorkerCrash
  BY <1>2 DEF OpsError, WorkerCrash, Crash
<1> QED
  BY <1>4, <1>5, <1>6, <1>7, <1>8, <1>9 DEF OpsNext

\* With the two worker slots of the code, and without faults, rollbacks and requests:
\* whatever monitor and pruner write back, a stopped row names no image that is gone,
\* except while the pruner is between its two calls.
THEOREM RollbackTargetsExistHolds ==
  ASSUME "rollback" \notin Kinds, Ops \subseteq {"monitor", "prune"}, Concurrency <= 2
  PROVE  OpsSpec => []RollbackTargetsExist
<1>1. OpsInit => KeptInv
  <2> SUFFICES ASSUME OpsInit PROVE KeptInv
    OBVIOUS
  <2>1. {d \in Deployments : pc[d] # "idle"} = {} /\ reapPc = "idle" /\ monitor = IdleTask /\ pruner = IdleTask
    BY DEF OpsInit, Init
  <2>2. BusySlots <= Concurrency
    BY <2>1, FS_EmptySet, PipelineAssumption DEF BusySlots, Busy, Slot, PipelineAssumption
  <2> QED
    BY <2>2 DEF OpsInit, Init, KeptInv, Listed, IdleTask
<1>2. OpsSafetyInv /\ OpsCalmInv /\ ImageInv /\ NoRequests /\ KeptInv /\ [OpsNext]_allVars => KeptInv'
  BY KeptStep
<1>3. OpsCalmInv /\ KeptInv => RollbackTargetsExist
  BY DEF OpsCalmInv, RowsAtRest, RowsInv, KeptInv, RollbackTargetsExist, Clearing
<1>4. "delete" \notin Ops
  OBVIOUS
<1> QED
  BY <1>1, <1>2, <1>3, <1>4, OpsSafetyInvHolds, OpsCalmInvHolds, OpsImageInvHolds, NoRequestsHolds, PTL DEF OpsSpec

=============================================================================
