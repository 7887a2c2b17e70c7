---------------------------- MODULE DeploymentOps ----------------------------
(***************************************************************************)
(* What else works on the rows, containers and images of DeployPipeline:   *)
(* the stop and delete requests of the API, the health monitor and the     *)
(* image pruner. Each reads a whole row, calls Docker, and then writes the *)
(* whole row back as it read it, with one column changed.                  *)
(***************************************************************************)
EXTENDS DeployPipeline

CONSTANTS
  Ops,        \* which of "stop", "delete", "monitor", "prune" the instance uses
  MaxOps,     \* bound: stop and delete requests ever made
  Retention   \* rows of a project whose images the pruner keeps (the code: 5)

ASSUME OpsAssumption ==
  /\ Ops \subseteq {"stop", "delete", "monitor", "prune"}
  /\ MaxOps \in Nat
  /\ Retention \in Nat

VARIABLES
  op,          \* the stop or delete request under way (bound: one at a time)
  opsMade,     \* how many have been made
  doomed,      \* tags that goroutines of delete requests have still to remove
  monitor,     \* where the health monitor stands
  pruner,      \* where the image pruner stands
  interrupted  \* history: stop or delete found no container id in the row

opsVars  == <<op, opsMade, doomed, monitor, pruner, interrupted>>
allVars  == <<vars, opsVars>>

IdleTask == [pc |-> "idle"]
Rows == [dep : Deployments, status : Statuses, image : Deployments \union {NoDep}, container : BOOLEAN]
RowOp == [pc : {"stop", "update", "delStop", "delRemove", "delRow"}, row : Rows]
Reading == [pc : {"read"}, todo : SUBSET Deployments]
Marking == [pc : {"update"}, row : Rows, todo : SUBSET Deployments]
Pruning == [pc : {"image", "clear"}, todo : SUBSET Rows]

OpsTypeOK ==
  /\ op          \in {IdleTask} \union RowOp
  /\ opsMade     \in 0..MaxOps
  /\ doomed      \in SUBSET Deployments
  /\ monitor     \in {IdleTask} \union Reading \union Marking
  /\ pruner      \in {IdleTask} \union Pruning
  /\ interrupted \in SUBSET Deployments

OpsInit ==
  /\ Init
  /\ op = IdleTask
  /\ opsMade = 0
  /\ doomed = {}
  /\ monitor = IdleTask
  /\ pruner = IdleTask
  /\ interrupted = {}

\* A SELECT of the row, and the UPDATE of all its columns.
ReadRow(d) == [dep |-> d, status |-> status[d], image |-> dockerImage[d], container |-> containerId[d]]

UpdateRow(row, s, image) ==
  IF status[row.dep] = "deleted"
  THEN UNCHANGED dbVars
  ELSE /\ status' = [status EXCEPT ![row.dep] = s]
       /\ dockerImage' = [dockerImage EXCEPT ![row.dep] = image]
       /\ containerId' = [containerId EXCEPT ![row.dep] = row.container]

-----------------------------------------------------------------------------
(* StopDeployment.                                                         *)

BeginStop(d) ==
  /\ "stop" \in Ops
  /\ op = IdleTask
  /\ opsMade < MaxOps
  /\ Exists(d)
  /\ op' = [pc |-> IF containerId[d] THEN "stop" ELSE "update", row |-> ReadRow(d)]
  /\ opsMade' = opsMade + 1
  /\ interrupted' = IF containerId[d] THEN interrupted ELSE interrupted \union {d}
  /\ UNCHANGED <<vars, doomed, monitor, pruner>>

StopKeepsRunning ==
  /\ op.pc = "stop"
  /\ op' = [op EXCEPT !.pc = "update"]
  /\ UNCHANGED <<vars, opsMade, doomed, monitor, pruner, interrupted>>

\* A container that is gone is an error: the request ends and the row stays as it is.
StopByRow ==
  /\ op.pc = "stop"
  /\ StopContainer(op.row.dep)
  /\ op' = IF container[op.row.dep] = "none" THEN IdleTask ELSE [op EXCEPT !.pc = "update"]
  /\ UNCHANGED <<dbVars, target, queueVars, pc, old, unread, lock, images, req, reapVars, faults,
                 historyVars, opsMade, doomed, monitor, pruner, interrupted>>

MarkStopped ==
  /\ op.pc = "update"
  /\ UpdateRow(op.row, "stopped", op.row.image)
  /\ op' = IdleTask
  /\ UNCHANGED <<target, queueVars, pc, old, unread, lock, dockerVars, req, reapVars, faults,
                 historyVars, opsMade, doomed, monitor, pruner, interrupted>>

-----------------------------------------------------------------------------
(* DeleteDeployment. The image is removed by a goroutine of its own.       *)

Doom(row) == doomed' = IF row.image = NoDep THEN doomed ELSE doomed \union {row.image}

BeginDelete(d) ==
  /\ "delete" \in Ops
  /\ op = IdleTask
  /\ opsMade < MaxOps
  /\ Exists(d)
  /\ op' = [pc |-> IF containerId[d] THEN "delStop" ELSE "delRow", row |-> ReadRow(d)]
  /\ opsMade' = opsMade + 1
  /\ IF containerId[d]
     THEN UNCHANGED <<interrupted, doomed>>
     ELSE interrupted' = interrupted \union {d} /\ Doom(ReadRow(d))
  /\ UNCHANGED <<vars, monitor, pruner>>

DeleteStop ==
  /\ op.pc = "delStop"
  /\ StopContainer(op.row.dep)
  /\ op' = [op EXCEPT !.pc = "delRemove"]
  /\ UNCHANGED <<dbVars, target, queueVars, pc, old, unread, lock, images, req, reapVars, faults,
                 historyVars, opsMade, doomed, monitor, pruner, interrupted>>

DeleteRemove ==
  /\ op.pc = "delRemove"
  /\ RemoveContainer(op.row.dep)
  /\ Doom(op.row)
  /\ op' = [op EXCEPT !.pc = "delRow"]
  /\ UNCHANGED <<dbVars, target, queueVars, pc, old, unread, lock, images, req, reapVars, faults,
                 historyVars, opsMade, monitor, pruner, interrupted>>

DeleteRow ==
  /\ op.pc = "delRow"
  /\ status' = [status EXCEPT ![op.row.dep] = "deleted"]
  /\ op' = IdleTask
  /\ UNCHANGED <<dockerImage, containerId, target, queueVars, pc, old, unread, lock, dockerVars, req,
                 reapVars, faults, historyVars, opsMade, doomed, monitor, pruner, interrupted>>

RemoveDoomed(i) ==
  /\ i \in doomed
  /\ images' = images \ {i}
  /\ doomed' = doomed \ {i}
  /\ UNCHANGED <<dbVars, target, queueVars, pc, old, unread, lock, container, req, reapVars, faults,
                 historyVars, op, opsMade, monitor, pruner, interrupted>>

\* The API restarts, or a call of the request fails: its goroutines may be lost with it.
AbandonOp ==
  /\ op # IdleTask \/ doomed # {}
  /\ Fault
  /\ op' = IdleTask
  /\ doomed' \in {doomed, {}}
  /\ UNCHANGED <<dbVars, target, queueVars, pc, old, unread, lock, dockerVars, req, reapVars,
                 historyVars, opsMade, monitor, pruner, interrupted>>

StopRequest == StopByRow \/ MarkStopped \/ \E d \in Deployments : BeginStop(d)

DeleteRequest == DeleteStop \/ DeleteRemove \/ DeleteRow \/ \E d \in Deployments : BeginDelete(d)

Api ==
  \/ StopRequest \/ DeleteRequest \/ AbandonOp
  \/ \E d \in Deployments : RemoveDoomed(d)

-----------------------------------------------------------------------------
(* The health monitor (worker/monitor.go), every minute.                   *)

MonitorListAll ==
  /\ "monitor" \in Ops
  /\ monitor = IdleTask
  /\ \E d \in Deployments : container[d] # "none"
  /\ monitor' = [pc |-> "read", todo |-> {d \in Deployments : container[d] # "none"}]
  /\ UNCHANGED <<vars, op, opsMade, doomed, pruner, interrupted>>

MonitorList ==
  /\ "monitor" \in Ops
  /\ monitor = IdleTask
  /\ \E d \in Deployments : container[d] = "exited"
  /\ monitor' = [pc |-> "read", todo |-> {d \in Deployments : container[d] = "exited"}]
  /\ UNCHANGED <<vars, op, opsMade, doomed, pruner, interrupted>>

MonitorNext(todo) == IF todo = {} THEN IdleTask ELSE [pc |-> "read", todo |-> todo]

\* The row of the next container on the list: only a live one is marked.
MonitorRead ==
  /\ monitor.pc = "read"
  /\ \E d \in monitor.todo :
       monitor' = IF status[d] = "live"
                  THEN [pc |-> "update", row |-> ReadRow(d), todo |-> monitor.todo \ {d}]
                  ELSE MonitorNext(monitor.todo \ {d})
  /\ UNCHANGED <<vars, op, opsMade, doomed, pruner, interrupted>>

MonitorLogsOnly ==
  /\ monitor.pc = "update"
  /\ UpdateRow(monitor.row, monitor.row.status, monitor.row.image)
  /\ monitor' = MonitorNext(monitor.todo)
  /\ UNCHANGED <<target, queueVars, pc, old, unread, lock, dockerVars, req, reapVars, faults,
                 historyVars, op, opsMade, doomed, pruner, interrupted>>

MonitorMark ==
  /\ monitor.pc = "update"
  /\ UpdateRow(monitor.row, "failed", monitor.row.image)
  /\ monitor' = MonitorNext(monitor.todo)
  /\ UNCHANGED <<target, queueVars, pc, old, unread, lock, dockerVars, req, reapVars, faults,
                 historyVars, op, opsMade, doomed, pruner, interrupted>>

Monitor == MonitorList \/ MonitorRead \/ MonitorMark

-----------------------------------------------------------------------------
(* The image pruner (worker/pruner.go), every hour, project after project. *)

BeyondRetention(p) == {d \in RowsOf(p) : Cardinality({e \in RowsOf(p) : e > d}) >= Retention}

PruneListWithLive(p) ==
  /\ "prune" \in Ops
  /\ pruner = IdleTask
  /\ LET rows == {ReadRow(d) : d \in {e \in BeyondRetention(p) : dockerImage[e] # NoDep}} IN
     /\ rows # {}
     /\ pruner' = [pc |-> "image", todo |-> rows]
  /\ UNCHANGED <<vars, op, opsMade, doomed, monitor, interrupted>>

PruneList(p) ==
  /\ "prune" \in Ops
  /\ pruner = IdleTask
  /\ LET rows == {ReadRow(d) : d \in {e \in BeyondRetention(p) :
                                        dockerImage[e] # NoDep /\ status[e] # "live"}} IN
     /\ rows # {}
     /\ pruner' = [pc |-> "image", todo |-> rows]
  /\ UNCHANGED <<vars, op, opsMade, doomed, monitor, interrupted>>

\* The listed rows are pruned newest first.
ToPrune(row) == row \in pruner.todo /\ \A other \in pruner.todo : other.dep <= row.dep

PruneImage ==
  /\ pruner.pc = "image"
  /\ \E row \in pruner.todo : ToPrune(row) /\ images' = images \ {row.image}
  /\ pruner' = [pruner EXCEPT !.pc = "clear"]
  /\ UNCHANGED <<dbVars, target, queueVars, pc, old, unread, lock, container, req, reapVars, faults,
                 historyVars, op, opsMade, doomed, monitor, interrupted>>

PruneNext(todo) == IF todo = {} THEN IdleTask ELSE [pc |-> "image", todo |-> todo]

PruneClearForgotten ==
  /\ pruner.pc = "clear"
  /\ \E row \in pruner.todo :
     /\ ToPrune(row)
     /\ UpdateRow(row, row.status, row.image)
     /\ pruner' = PruneNext(pruner.todo \ {row})
  /\ UNCHANGED <<target, queueVars, pc, old, unread, lock, dockerVars, req, reapVars, faults,
                 historyVars, op, opsMade, doomed, monitor, interrupted>>

\* The whole row goes back as it was listed, without the image.
PruneClear ==
  /\ pruner.pc = "clear"
  /\ \E row \in pruner.todo :
     /\ ToPrune(row)
     /\ UpdateRow(row, row.status, NoDep)
     /\ pruner' = PruneNext(pruner.todo \ {row})
  /\ UNCHANGED <<target, queueVars, pc, old, unread, lock, dockerVars, req, reapVars, faults,
                 historyVars, op, opsMade, doomed, monitor, interrupted>>

Pruner == (\E p \in Projects : PruneList(p)) \/ PruneImage \/ PruneClear

-----------------------------------------------------------------------------

\* A call of Docker or Postgres is refused, and the task goes on with the next: a
\* delete with the row it still has to delete, monitor and pruner with the next row.
\* (Of StopDeployment, and of the calls that end a request, see AbandonOp.)
OpsError ==
  /\ Fault
  /\ \/ /\ op.pc = "delStop"
        /\ op' = [op EXCEPT !.pc = "delRemove"]
        /\ UNCHANGED <<doomed, monitor, pruner>>
     \/ /\ op.pc = "delRemove"
        /\ op' = [op EXCEPT !.pc = "delRow"]
        /\ Doom(op.row)
        /\ UNCHANGED <<monitor, pruner>>
     \/ /\ monitor.pc = "read"
        /\ \E d \in monitor.todo : monitor' = MonitorNext(monitor.todo \ {d})
        /\ UNCHANGED <<op, doomed, pruner>>
     \/ /\ monitor.pc = "update"
        /\ monitor' = MonitorNext(monitor.todo)
        /\ UNCHANGED <<op, doomed, pruner>>
     \/ /\ pruner.pc = "image"
        /\ pruner' = [pruner EXCEPT !.pc = "clear"]
        /\ UNCHANGED <<op, doomed, monitor>>
     \/ /\ pruner.pc = "clear"
        /\ \E row \in pruner.todo : ToPrune(row) /\ pruner' = PruneNext(pruner.todo \ {row})
        /\ UNCHANGED <<op, doomed, monitor>>
  /\ UNCHANGED <<dbVars, target, queueVars, pc, old, unread, lock, dockerVars, req, reapVars,
                 historyVars, opsMade, interrupted>>

\* Monitor and pruner take worker slots as the handlers and the reaper do.
Slot(t) == IF t = IdleTask THEN 0 ELSE 1
BusySlots == Busy + Slot(monitor) + Slot(pruner)

WorkerCrash ==
  /\ BusySlots > 0
  /\ Crash \/ (Busy = 0 /\ Fault /\ UNCHANGED <<dbVars, target, queueVars, pc, old, unread, lock,
                                                 dockerVars, req, reapVars, historyVars>>)
  /\ monitor' = IdleTask
  /\ pruner' = IdleTask
  /\ UNCHANGED <<op, opsMade, doomed, interrupted>>

OpsQuiescent == Quiescent /\ op = IdleTask /\ monitor = IdleTask /\ pruner = IdleTask

OpsNext ==
  \/ Step /\ UNCHANGED opsVars /\ BusySlots' <= Concurrency
  \/ Api
  \/ OpsError
  \/ (Monitor \/ Pruner) /\ BusySlots' <= Concurrency
  \/ WorkerCrash
  \/ OpsQuiescent /\ UNCHANGED allVars

OpsSpec == OpsInit /\ [][OpsNext]_allVars

\* The scheduler runs the monitor every minute, and a handler that has started goes on.
MonitorStep == Monitor /\ BusySlots' <= Concurrency
HandlerStep(d) == Handler(d) /\ UNCHANGED opsVars

OpsFairSpec ==
  /\ OpsSpec
  /\ WF_allVars(MonitorStep)
  /\ \A d \in Deployments : WF_allVars(HandlerStep(d))

-----------------------------------------------------------------------------
(* Properties.                                                             *)

\* The pruner holds rows it listed earlier and will write back: none of them as live.
PrunerHoldsNoLive ==
  pruner # IdleTask => \A row \in pruner.todo : row.status # "live"

\* The invariant of DeployPipeline survives the whole-row writes of the other tasks:
\* none of them makes a row live again that a switch has retired.
OpsSafetyInv == OpsTypeOK /\ PrunerHoldsNoLive /\ SafetyInv

\* A rollback that no longer is the newest of its project or goes live on a retry. The
\* pruner may have listed its row while it was in progress, since a rollback has an image
\* from its INSERT on, and writes that status back over "live"; or the monitor has listed
\* the exited container of its first attempt and marks the live row failed (monitor.go:46).
OldRollback(d) ==
  /\ IsRollback(d)
  /\ \/ retried[d] > 0
     \/ \E e \in Deployments : e > d /\ ProjectOf[e] = ProjectOf[d] /\ status[e] # "none"

\* Without faults, every running container belongs to a live row or to a handler at
\* work, unless a request cancelled the deployment, a stop or delete request read its
\* row before it had a container id, or it is such a rollback.
AccountedFor ==
  faults = 0 =>
    \A d \in Running :
      \/ status[d] = "live"
      \/ pc[d] \in {"probe", "safety", "list", "stop", "remove", "stopRow", "promote"}
      \/ d \in superseded \union interrupted
      \/ OldRollback(d)

\* Without faults, the monitor marks no deployment as failed whose container runs by
\* the time of its write: what it listed and read long before is still true. For runs
\* without rollbacks, as AccountedFor, and without stop requests.
MonitorSparesRunning ==
  [][monitor.pc = "update" /\ monitor' # monitor /\ faults = 0
       => container[monitor.row.dep] # "running"]_allVars

\* A live deployment whose container has exited does not stay live.
CrashIsNoticed ==
  \A d \in Deployments : (status[d] = "live" /\ container[d] = "exited") ~> status[d] # "live"

\* Without faults and rollbacks, a stopped row that names an image can be rolled back to:
\* the host has the image, except while the pruner is between its two calls. With a third
\* worker slot a handler could be at work beside monitor and pruner, and a row the
\* monitor writes back as failed, with the image the pruner has just removed, be stopped.
RollbackTargetsExist ==
  faults = 0 =>
    \A d \in Deployments :
      status[d] = "stopped" /\ dockerImage[d] # NoDep
        => dockerImage[d] \in images \/ (pruner.pc = "clear" /\ \E row \in pruner.todo : row.dep = d /\ ToPrune(row))

-----------------------------------------------------------------------------
(* What comments of the repository say, and the code does not keep.        *)

\* pruner.go:40: an image is pruned only if its deployment is not live. Refuted: a
\* rollback runs the image of an older deployment, and the tag of that one is pruned.
PrunedIsNotLive ==
  [][\A d \in Deployments :
       pruner.pc = "image" /\ status[d] = "live" /\ dockerImage[d] \in images
         => dockerImage[d] \in images']_allVars
=============================================================================
