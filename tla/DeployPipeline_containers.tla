----------------------- MODULE DeployPipeline_containers ----------------------
(***************************************************************************)
(* Theorems about the containers and images of DeployPipeline, for every   *)
(* number of deployments, projects, requests, worker slots and retries:    *)
(* which containers run, what a live row is served by, how many containers *)
(* there are, and that the newest deployment wins. Unlike those of         *)
(* DeployPipeline_proofs they are about runs in which nothing fails:       *)
(* faults stays 0.                                                         *)
(***************************************************************************)
EXTENDS DeployPipeline_proofs, FiniteSetTheorems

\* The task of d is acknowledged or about to be: no handler of d does anything any more.
Settled(d) == task[d] = "done" \/ pc[d] = "returnOk"

\* From the start of the container to the return.
Serving == {"probe", "safety", "list", "stop", "remove", "stopRow", "promote"}

\* A live row has no handler at work, and neither has a row that a switch is about to
\* retire: nobody starts its container again. No row is stuck.
AtRestInv ==
  faults = 0 =>
    /\ \A d \in Deployments : task[d] = "active" => pc[d] # "idle"
    /\ \A d \in Deployments : status[d] = "live" => Settled(d)
    /\ \A d, e \in Deployments : e \in old[d] => Settled(e)
    /\ reapPc = "idle" /\ unread = {}
    /\ \A d \in Deployments : status[d] = "deleted" => ~IsRollback(d)
    /\ \A d \in Deployments :
         pc[d] \in {"idle", "returnErr"} \/ (pc[d] = "lock" /\ ~IsRollback(d)) => status[d] \notin Stuck
    /\ \A d \in Deployments : pc[d] \in {"rbStatus", "rbCapacity"} => IsRollback(d)

\* Neither has a retired row, and no row is deleted, as long as no one stops or deletes
\* deployments by hand.
SettledInv ==
  /\ AtRestInv
  /\ faults = 0 =>
       /\ \A d \in Deployments : status[d] = "stopped" => Settled(d)
       /\ \A d \in Deployments : status[d] # "deleted"

\* A container is started by the handler of its deployment, which keeps it until it
\* returns; a switch removes a container before it retires the row.
HeldInv ==
  faults = 0 =>
    /\ \A d \in Deployments : container[d] \in {"running", "exited"} => pc[d] \in Serving \/ Settled(d)
    /\ \A d \in Deployments : pc[d] \in Serving => container[d] \in {"running", "exited"}
    /\ \A d, e \in Deployments : pc[d] = "stopRow" /\ IsNewest(e, old[d]) => container[e] = "none"

\* Every container that runs is accounted for, the ones of S apart.
NoOrphanBut(S) ==
  \A d \in Running : status[d] = "live" \/ pc[d] \in Serving \/ d \in superseded \union S

ContainerInv == HeldInv /\ NoOrphan

\* The image of a rollback was built by a deployment whose handler has returned, so no
\* failing handler removes it; and a handler that has started its container has its image.
ImageInv ==
  faults = 0 =>
    /\ \A d \in Deployments : dockerImage[d] # NoDep => Settled(dockerImage[d])
    /\ \A d \in Deployments : target[d] # NoDep => Settled(target[d])
    /\ \A r \in Requests :
         req[r].pc = "supersede" /\ req[r].target # NoDep => Settled(req[r].target)
    /\ \A d \in Deployments : pc[d] \in Serving => Image(d) \in images
    /\ LiveIsServed

-----------------------------------------------------------------------------
(* Settled deployments.                                                    *)

\* After a fault there is no way back to a run without faults.
LEMMA FaultEndsCalm == TypeOK /\ Fault => faults' # 0
  BY PipelineAssumption DEF PipelineAssumption, TypeOK, Fault, CanFail

\* The requests that meet no error.
CalmRequest(r) ==
  \/ \E p \in Projects : BeginDeploy(r, p) \/ BeginWebhook(r, p)
  \/ \E t \in Deployments : BeginRollback(r, t)
  \/ Supersede(r)
  \/ \E d \in Deployments : Create(r, d)
  \/ Enqueue(r)

\* The steps of a run without faults: no task is left behind by a dead worker, so none is
\* recovered, and no row is stuck, so the reaper has nothing to do.
CalmStep ==
  \/ \E r \in Requests : CalmRequest(r)
  \/ \E d \in Deployments : Dequeue(d) \/ Handler(d) \/ ContainerExit(d)
  \/ \E p \in Projects : Expire(p)
  \/ UNCHANGED vars

LEMMA CalmSteps ==
  ASSUME TypeOK, AtRestInv, [Next]_vars, faults' = 0
  PROVE  faults = 0 /\ CalmStep
<1>1. ASSUME Fault PROVE FALSE
  BY <1>1, FaultEndsCalm
<1>2. ASSUME NEW r \in Requests, Request(r) PROVE CalmRequest(r) /\ UNCHANGED faults
  <2>1. ~SupersedeError(r) /\ ~Abandon(r)
    BY <1>1 DEF SupersedeError, Abandon
  <2>2. CalmRequest(r)
    BY <1>2, <2>1 DEF Request, CalmRequest
  <2> QED
    BY <2>2 DEF CalmRequest, BeginDeploy, BeginWebhook, BeginRollback, Supersede, Create, Enqueue
<1>3. ASSUME NEW d \in Deployments, Handler(d) PROVE UNCHANGED faults
  BY <1>3 DEF Handler, AcquireLock, DeployRefused, FastPath, DeployCapacity, SetCloning, Clone, BuildImage,
              SetRunning, SetRollbackRunning, RollbackCapacity, RollbackRefused, FailRefused, RunContainer,
              Probe, SafetyNet, ListLive, StopOld, RemoveOld, StopOldRow, Promote, MarkFailed, Return
<1>4. ASSUME NEW d \in Deployments, WriteError(d) \/ ReadError(d) \/ DockerError(d) \/ IgnoredError(d)
      PROVE  FALSE
  BY <1>1, <1>4 DEF WriteError, ReadError, DockerError, IgnoredError
<1>5. ASSUME NEW d \in Deployments, Dequeue(d) \/ ContainerExit(d) PROVE UNCHANGED faults
  BY <1>5 DEF Dequeue, ContainerExit
<1>6. ASSUME NEW d \in Deployments, Recover(d) PROVE FALSE
  BY <1>6 DEF Recover, AtRestInv
<1>7. ASSUME NEW p \in Projects, Expire(p) PROVE UNCHANGED faults
  BY <1>7 DEF Expire
<1>8. ASSUME Reaper \/ ReapError \/ Crash PROVE FALSE
  <2>1. ~ReapError /\ ~Crash
    BY <1>1 DEF ReapError, Crash
  <2>2. UNCHANGED faults
    BY <1>8, <2>1 DEF Reaper, ReapList, ReapMark, ReapRelease
  <2> QED
    BY <1>8, <2>1, <2>2 DEF Reaper, ReapList, ReapMark, ReapRelease, IsStuck, AtRestInv
<1>9. CASE Terminated \/ UNCHANGED vars
  BY <1>9 DEF Terminated, CalmStep, vars
<1> QED
  BY <1>2, <1>3, <1>4, <1>5, <1>6, <1>7, <1>8, <1>9 DEF Next, Step, CalmStep

\* A handler step that is neither the first nor the last of its task.
LEMMA HandlerKeepsTask ==
  ASSUME TypeOK, NEW d \in Deployments, Handler(d), ~DeployRefused(d), ~FailRefused(d), ~Return(d)
  PROVE  UNCHANGED task /\ pc[d] \notin {"idle", "returnOk", "returnErr"} /\ \A e \in Deployments \ {d} : pc'[e] = pc[e]
<1> USE DEF TypeOK, Goto, queueVars
<1>1. CASE AcquireLock(d) \/ FastPath(d) \/ DeployCapacity(d) \/ SetCloning(d) \/ Clone(d) \/ BuildImage(d)
  BY <1>1 DEF AcquireLock, FastPath, DeployCapacity, SetCloning, Clone, BuildImage
<1>2. CASE SetRunning(d) \/ SetRollbackRunning(d) \/ RollbackCapacity(d) \/ RollbackRefused(d) \/ RunContainer(d)
  BY <1>2 DEF SetRunning, SetRollbackRunning, RollbackCapacity, RollbackRefused, RunContainer
<1>3. CASE Probe(d) \/ SafetyNet(d) \/ ListLive(d) \/ StopOld(d) \/ RemoveOld(d) \/ StopOldRow(d) \/ MarkFailed(d)
  BY <1>3 DEF Probe, SafetyNet, ListLive, StopOld, RemoveOld, StopOldRow, DoneWith, MarkFailed
<1>4. CASE Promote(d)
  BY <1>4 DEF Promote
<1> QED
  BY <1>1, <1>2, <1>3, <1>4 DEF Handler

\* A task that has failed is queued again or archived, and its handler is gone.
LEMMA HandlerEndsTask ==
  ASSUME TypeOK, NEW d \in Deployments, DeployRefused(d) \/ FailRefused(d) \/ Return(d)
  PROVE  /\ \E x \in {"queued", "archived", "done"} :
              task' = [task EXCEPT ![d] = x] /\ (x = "done" <=> pc[d] = "returnOk")
         /\ pc' = [pc EXCEPT ![d] = "idle"]
         /\ pc[d] # "idle"
<1>1. CASE DeployRefused(d)
  BY <1>1, RetryQueues DEF DeployRefused, Goto
<1>2. CASE FailRefused(d)
  BY <1>2, RetryQueues DEF FailRefused, Goto
<1>3. CASE Return(d)
  BY <1>3, RetryQueues DEF Return, Acknowledge, Goto
<1> QED
  BY <1>1, <1>2, <1>3

\* Settled deployments stay so: a task that is done is not run again.
LEMMA SettledStays ==
  ASSUME TypeOK, QueueInv, CalmStep, NEW e \in Deployments, Settled(e)
  PROVE  Settled(e)'
<1> USE DEF Settled, TypeOK
<1>1. ASSUME NEW r \in Requests, CalmRequest(r) PROVE Settled(e)'
  <2>1. UNCHANGED pc
    BY <1>1 DEF CalmRequest, BeginDeploy, BeginWebhook, BeginRollback, Supersede, Create, Enqueue
  <2>2. CASE Enqueue(r)
    <3>1. req[r].pc = "enqueue" /\ task' = [task EXCEPT ![req[r].dep] = "queued"]
      BY <2>2 DEF Enqueue
    <3>2. task[req[r].dep] = "none"
      BY <3>1 DEF QueueInv
    <3> QED
      BY <2>1, <3>1, <3>2
  <2>3. CASE ~Enqueue(r)
    <3>1. UNCHANGED task
      BY <1>1, <2>3 DEF CalmRequest, BeginDeploy, BeginWebhook, BeginRollback, Supersede, Create, queueVars
    <3> QED
      BY <2>1, <3>1
  <2> QED
    BY <2>2, <2>3
<1>2. ASSUME NEW d \in Deployments, Dequeue(d) PROVE Settled(e)'
  BY <1>2 DEF Dequeue, Goto, QueueInv
<1>3. ASSUME NEW d \in Deployments, Handler(d) PROVE Settled(e)'
  <2>1. CASE DeployRefused(d) \/ FailRefused(d) \/ Return(d)
    BY <2>1, HandlerEndsTask DEF QueueInv
  <2>2. CASE ~(DeployRefused(d) \/ FailRefused(d) \/ Return(d))
    BY <1>3, <2>2, HandlerKeepsTask DEF QueueInv
  <2> QED
    BY <2>1, <2>2
<1>4. ASSUME NEW d \in Deployments, ContainerExit(d) PROVE Settled(e)'
  BY <1>4 DEF ContainerExit, queueVars
<1>5. ASSUME NEW p \in Projects, Expire(p) PROVE Settled(e)'
  BY <1>5 DEF Expire, queueVars
<1>6. CASE UNCHANGED vars
  BY <1>6 DEF vars
<1> QED
  BY <1>1, <1>2, <1>3, <1>4, <1>5, <1>6 DEF CalmStep

\* What a step has to do for AtRestInv, once SettledStays is known.
AtRestFrame ==
  /\ \A d \in Deployments : task'[d] = "active" => pc'[d] # "idle"
  /\ \A d \in Deployments : status'[d] = "live" => status[d] = "live" \/ pc'[d] = "returnOk"
  /\ \A d, e \in Deployments : e \in old'[d] => e \in old[d] \/ status[e] = "live"
  /\ reapPc' = "idle" /\ unread' = {}
  /\ \A d \in Deployments : status'[d] = "deleted" => status[d] = "deleted" /\ target'[d] = target[d]
  /\ \A d \in Deployments :
       pc'[d] \in {"idle", "returnErr"} \/ (pc'[d] = "lock" /\ target'[d] = NoDep) => status'[d] \notin Stuck
  /\ \A d \in Deployments : pc'[d] \in {"rbStatus", "rbCapacity"} => target'[d] # NoDep

\* The steps of the handlers. A row is retired only when it is in the list of a switch,
\* and goes live only as its handler returns.
LEMMA HandlerAtRestFrame ==
  ASSUME TypeOK, QueueInv, AtRestInv, faults = 0, NEW d \in Deployments, Handler(d)
  PROVE  AtRestFrame
<1> USE DEF AtRestFrame, AtRestInv, TypeOK, Stuck, IsRollback, Goto, UpdateStatus, dbVars, queueVars, reapVars
<1>1. CASE AcquireLock(d) \/ FastPath(d)
  BY <1>1 DEF AcquireLock, FastPath
<1>2. CASE DeployRefused(d)
  BY <1>2, RetryQueues DEF DeployRefused
<1>3. CASE DeployCapacity(d) \/ SetCloning(d)
  BY <1>3 DEF DeployCapacity, SetCloning
<1>4. CASE Clone(d)
  <2>1. /\ status' = [status EXCEPT ![d] = "building"] \/ status' = status
        /\ pc' = [pc EXCEPT ![d] = "build"] \/ pc' = [pc EXCEPT ![d] = "markFailed"]
        /\ pc[d] = "clone"
    BY <1>4 DEF Clone
  <2>2. UNCHANGED <<task, target, old, reapPc, unread>>
    BY <1>4 DEF Clone
  <2> QED
    BY <2>1, <2>2
<1>5. CASE BuildImage(d) \/ SetRunning(d)
  BY <1>5 DEF BuildImage, SetRunning
<1>6. CASE SetRollbackRunning(d) \/ RollbackCapacity(d) \/ RollbackRefused(d)
  BY <1>6 DEF SetRollbackRunning, RollbackCapacity, RollbackRefused
<1>7. CASE FailRefused(d)
  BY <1>7, RetryQueues DEF FailRefused
<1>8. CASE RunContainer(d) \/ Probe(d)
  BY <1>8 DEF RunContainer, Probe
<1>9. CASE SafetyNet(d)
  BY <1>9 DEF SafetyNet, QueueInv, Exists
<1>10. CASE ListLive(d)
  BY <1>10 DEF ListLive, RowsOf
<1>11. CASE StopOld(d) \/ RemoveOld(d)
  BY <1>11 DEF StopOld, RemoveOld
<1>12. CASE StopOldRow(d)
  BY <1>12 DEF StopOldRow, DoneWith
<1>13. CASE Promote(d)
  BY <1>13 DEF Promote
<1>14. CASE MarkFailed(d)
  BY <1>14 DEF MarkFailed
<1>15. CASE Return(d)
  BY <1>15, RetryQueues DEF Return, Acknowledge, QueueInv, Active
<1> QED
  BY <1>1, <1>2, <1>3, <1>4, <1>5, <1>6, <1>7, <1>8, <1>9, <1>10, <1>11, <1>12, <1>13, <1>14, <1>15 DEF Handler

\* The steps of the API requests: they touch no handler and insert rows that are pending.
LEMMA RequestAtRestFrame ==
  ASSUME TypeOK, QueueInv, AtRestInv, faults = 0, NEW r \in Requests, CalmRequest(r)
  PROVE  AtRestFrame
<1> USE DEF AtRestFrame, AtRestInv, TypeOK, Stuck, IsRollback, dbVars, queueVars, reapVars
<1>1. ASSUME NEW p \in Projects, BeginDeploy(r, p) \/ BeginWebhook(r, p) PROVE AtRestFrame
  BY <1>1 DEF BeginDeploy, BeginWebhook
<1>2. ASSUME NEW t \in Deployments, BeginRollback(r, t) PROVE AtRestFrame
  BY <1>2 DEF BeginRollback
<1>3. CASE Supersede(r)
  BY <1>3 DEF Supersede, UpdateStatus
<1>4. ASSUME NEW d \in Deployments, Create(r, d) PROVE AtRestFrame
  <2>1. status[d] = "none" /\ pc[d] = "idle"
    BY <1>4 DEF Create, QueueInv
  <2> QED
    BY <1>4, <2>1 DEF Create
<1>5. CASE Enqueue(r)
  BY <1>5 DEF Enqueue
<1> QED
  BY <1>1, <1>2, <1>3, <1>4, <1>5 DEF CalmRequest

\* Every step keeps AtRestInv.
LEMMA AtRestStep == TypeOK /\ QueueInv /\ AtRestInv /\ [Next]_vars => AtRestInv'
<1> SUFFICES ASSUME TypeOK, QueueInv, AtRestInv, [Next]_vars, faults' = 0
             PROVE  AtRestInv'
  BY DEF AtRestInv
<1>1. faults = 0 /\ CalmStep
  BY CalmSteps
<1>2. AtRestFrame
  <2> USE <1>1 DEF AtRestFrame, AtRestInv, TypeOK, Stuck, IsRollback, Goto, dbVars, queueVars, reapVars
  <2>1. ASSUME NEW d \in Deployments, Dequeue(d) PROVE AtRestFrame
    BY <2>1 DEF Dequeue, QueueInv
  <2>2. ASSUME NEW d \in Deployments, ContainerExit(d) PROVE AtRestFrame
    BY <2>2 DEF ContainerExit
  <2>3. ASSUME NEW p \in Projects, Expire(p) PROVE AtRestFrame
    BY <2>3 DEF Expire
  <2>4. CASE UNCHANGED vars
    BY <2>4 DEF vars
  <2> QED
    BY <1>1, <2>1, <2>2, <2>3, <2>4, HandlerAtRestFrame, RequestAtRestFrame DEF CalmStep
<1>3. \A e \in Deployments : Settled(e) => Settled(e)'
  BY <1>1, SettledStays
<1> QED
  BY <1>1, <1>2, <1>3 DEF AtRestFrame, AtRestInv, Settled, IsRollback

\* A row is retired by a switch that had listed it as live; none is deleted.
LEMMA OnlySwitchRetires ==
  ASSUME TypeOK, AtRestInv, faults = 0, CalmStep, NEW d \in Deployments
  PROVE  /\ status'[d] = "stopped" => status[d] = "stopped" \/ Settled(d)
         /\ status'[d] = "deleted" => status[d] = "deleted"
<1> USE DEF TypeOK, UpdateStatus, dbVars
<1>1. ASSUME NEW r \in Requests, CalmRequest(r)
      PROVE  status'[d] \in {"stopped", "deleted"} => status'[d] = status[d]
  BY <1>1 DEF CalmRequest, BeginDeploy, BeginWebhook, BeginRollback, Supersede, Create, Enqueue
<1>2. ASSUME NEW e \in Deployments, StopOldRow(e)
      PROVE  /\ status'[d] = "stopped" => status[d] = "stopped" \/ Settled(d)
             /\ status'[d] = "deleted" => status[d] = "deleted"
  BY <1>2 DEF StopOldRow, AtRestInv
<1>3. ASSUME NEW e \in Deployments, Handler(e), ~StopOldRow(e)
      PROVE  status'[d] \in {"stopped", "deleted"} => status'[d] = status[d]
  BY <1>3 DEF Handler, AcquireLock, DeployRefused, FastPath, DeployCapacity, SetCloning, Clone, BuildImage,
              SetRunning, SetRollbackRunning, RollbackCapacity, RollbackRefused, FailRefused, RunContainer,
              Probe, SafetyNet, ListLive, StopOld, RemoveOld, Promote, MarkFailed, Return
<1>4. ASSUME NEW e \in Deployments, Dequeue(e) \/ ContainerExit(e) PROVE UNCHANGED status
  BY <1>4 DEF Dequeue, ContainerExit
<1>5. ASSUME NEW p \in Projects, Expire(p) PROVE UNCHANGED status
  BY <1>5 DEF Expire
<1>6. CASE UNCHANGED vars
  BY <1>6 DEF vars
<1> QED
  BY <1>1, <1>2, <1>3, <1>4, <1>5, <1>6 DEF CalmStep

\* Every step keeps SettledInv.
LEMMA SettledStep == TypeOK /\ QueueInv /\ SettledInv /\ [Next]_vars => SettledInv'
<1> SUFFICES ASSUME TypeOK, QueueInv, SettledInv, [Next]_vars
             PROVE  SettledInv'
  OBVIOUS
<1>1. AtRestInv'
  BY AtRestStep DEF SettledInv
<1>2. ASSUME faults' = 0, NEW d \in Deployments
      PROVE  (status'[d] = "stopped" => Settled(d)') /\ status'[d] # "deleted"
  <2>1. faults = 0 /\ CalmStep
    BY <1>2, CalmSteps DEF SettledInv
  <2> QED
    BY <2>1, OnlySwitchRetires, SettledStays DEF SettledInv
<1> QED
  BY <1>1, <1>2 DEF SettledInv, Settled

\* For every number of deployments, slots and retries: in a run without faults no task
\* is left behind by its handler, no row is stuck, and no handler works on a row that is
\* live, retired, or about to be retired.
THEOREM SettledInvHolds == Spec => []SettledInv
<1>1. Init => SettledInv
  BY DEF Init, SettledInv, AtRestInv, Stuck
<1> QED
  BY <1>1, SettledStep, TypeCorrect, QueueInvHolds, PTL DEF Spec

-----------------------------------------------------------------------------
(* Containers.                                                             *)

\* A settled deployment has no handler that starts or looks after its container.
LEMMA SettledIsAtRest ==
  ASSUME QueueInv, NEW d \in Deployments, Settled(d)
  PROVE  pc[d] \in {"idle", "returnOk"}
  BY DEF QueueInv, Settled

\* A handler without a container goes on: none of the containers is its own.
ApartFrame(d) ==
  /\ UNCHANGED <<container, old, superseded>>
  /\ pc[d] \notin Serving /\ pc'[d] \notin Serving /\ ~Settled(d)
  /\ \A e \in Deployments \ {d} : pc'[e] = pc[e] /\ status'[e] = status[e]

LEMMA ApartFrameKeeps ==
  ASSUME TypeOK, HeldInv, NEW S, NoOrphanBut(S), faults = 0, NEW d \in Deployments, ApartFrame(d),
         \A e \in Deployments : Settled(e) => Settled(e)'
  PROVE  HeldInv' /\ NoOrphanBut(S)'
<1> USE DEF HeldInv, ApartFrame, Serving
<1>1. container[d] \notin {"running", "exited"}
  OBVIOUS
<1>2. \A e \in Deployments : container'[e] \in {"running", "exited"} => pc'[e] \in Serving \/ Settled(e)'
  BY <1>1
<1>3. \A e \in Deployments : pc'[e] \in Serving => container'[e] \in {"running", "exited"}
  OBVIOUS
<1>4. \A c, e \in Deployments : pc'[c] = "stopRow" /\ IsNewest(e, old'[c]) => container'[e] = "none"
  OBVIOUS
<1>5. NoOrphanBut(S)'
  BY <1>1 DEF NoOrphanBut, Running
<1> QED
  BY <1>2, <1>3, <1>4, <1>5 DEF IsNewest

\* The handler steps before the container is started and after it is given up.
LEMMA HandlerApart ==
  ASSUME TypeOK, QueueInv, NEW d \in Deployments, pc[d] \notin Serving, pc[d] # "returnOk",
         Handler(d), ~RunContainer(d)
  PROVE  ApartFrame(d)
<1> USE DEF ApartFrame, TypeOK, Serving, Settled, QueueInv, Goto, UpdateStatus, dbVars, queueVars, dockerVars, historyVars
<1>1. CASE AcquireLock(d) \/ DeployRefused(d) \/ FastPath(d) \/ DeployCapacity(d)
  BY <1>1 DEF AcquireLock, DeployRefused, FastPath, DeployCapacity
<1>2. CASE SetCloning(d) \/ Clone(d)
  BY <1>2 DEF SetCloning, Clone
<1>3. CASE BuildImage(d) \/ SetRunning(d)
  BY <1>3 DEF BuildImage, SetRunning
<1>4. CASE SetRollbackRunning(d) \/ RollbackCapacity(d) \/ RollbackRefused(d) \/ FailRefused(d)
  BY <1>4 DEF SetRollbackRunning, RollbackCapacity, RollbackRefused, FailRefused
<1>5. CASE MarkFailed(d)
  BY <1>5 DEF MarkFailed
<1>6. CASE Return(d)
  BY <1>6 DEF Return, Acknowledge
<1>7. ~(Probe(d) \/ SafetyNet(d) \/ ListLive(d) \/ StopOld(d) \/ RemoveOld(d) \/ StopOldRow(d) \/ Promote(d))
  BY DEF Probe, SafetyNet, ListLive, StopOld, RemoveOld, StopOldRow, Promote
<1> QED
  BY <1>1, <1>2, <1>3, <1>4, <1>5, <1>6, <1>7 DEF Handler

\* The container is started under the name of a deployment that is not settled, so it
\* is none that a switch has removed.
LEMMA RunContainerKeeps ==
  ASSUME TypeOK, QueueInv, AtRestInv, HeldInv, NEW S, NoOrphanBut(S), faults = 0,
         NEW d \in Deployments, RunContainer(d),
         \A e \in Deployments : Settled(e) => Settled(e)'
  PROVE  HeldInv' /\ NoOrphanBut(S)'
<1> USE DEF HeldInv, Serving, TypeOK, Goto
<1>1. /\ pc[d] = "run" /\ ~Settled(d)
      /\ UNCHANGED <<old, status, superseded>>
  BY DEF RunContainer, Settled, QueueInv, dbVars, historyVars
<1>2. /\ \A e \in Deployments \ {d} : container'[e] = container[e] /\ pc'[e] = pc[e]
      /\ \/ container'[d] = "running" /\ pc'[d] = "probe"
         \/ container'[d] = "created" /\ pc'[d] = "markFailed"
         \/ container'[d] = container[d] /\ pc'[d] = "markFailed"
  BY DEF RunContainer
<1>3. container[d] \notin {"running", "exited"}
  BY <1>1
<1>4. \A c, e \in Deployments : pc[c] = "stopRow" /\ IsNewest(e, old[c]) => e # d
  BY <1>1 DEF AtRestInv, IsNewest
<1>5. \A e \in Deployments : container'[e] \in {"running", "exited"} => pc'[e] \in Serving \/ Settled(e)'
  BY <1>2, <1>3
<1>6. \A e \in Deployments : pc'[e] \in Serving => container'[e] \in {"running", "exited"}
  BY <1>2
<1>7. \A c, e \in Deployments : pc'[c] = "stopRow" /\ IsNewest(e, old'[c]) => container'[e] = "none"
  BY <1>1, <1>2, <1>4
<1>8. NoOrphanBut(S)'
  BY <1>1, <1>2, <1>3 DEF NoOrphanBut, Running
<1> QED
  BY <1>5, <1>6, <1>7, <1>8 DEF IsNewest

\* The steps of a handler that has started its container. A switch touches only the
\* containers of deployments that are settled, and each is gone before its row is retired.
LEMMA ServingKeeps ==
  ASSUME TypeOK, QueueInv, AtRestInv, HeldInv, NEW S, NoOrphanBut(S), faults = 0,
         NEW d \in Deployments, pc[d] \in Serving, Handler(d), status[d] = "deleted" => d \in S,
         \A e \in Deployments : Settled(e) => Settled(e)'
  PROVE  HeldInv' /\ NoOrphanBut(S)'
<1> USE DEF HeldInv, NoOrphanBut, Running, IsNewest, Serving, TypeOK, Goto, dbVars, dockerVars, historyVars
<1>1. CASE Probe(d) \/ SafetyNet(d)
  <2>1. /\ pc[d] \in {"probe", "safety"} /\ pc'[d] # "stopRow"
        /\ \A e \in Deployments \ {d} : container'[e] = container[e] /\ pc'[e] = pc[e]
        /\ UNCHANGED <<status, old, superseded>>
    BY <1>1 DEF Probe, SafetyNet, RemoveContainer
  <2>2. \/ container'[d] = "none" /\ pc'[d] \in {"markFailed", "returnOk"}
        \/ container'[d] = container[d] /\ pc'[d] \in {"safety", "list"}
    BY <1>1 DEF Probe, SafetyNet, RemoveContainer
  <2> QED
    BY <2>1, <2>2, ZenonT(60)
<1>2. CASE ListLive(d)
  BY <1>2 DEF ListLive
<1>3. CASE StopOld(d) \/ RemoveOld(d)
  <2>1. PICK e \in old[d] : /\ IsNewest(e, old[d])
                            /\ (pc[d] = "stop" /\ StopContainer(e)) \/ (pc[d] = "remove" /\ RemoveContainer(e))
    BY <1>3 DEF StopOld, RemoveOld
  <2>2. e \in Deployments /\ Settled(e)
    BY <2>1 DEF AtRestInv
  <2>3. pc[e] \notin Serving
    BY <2>2, SettledIsAtRest
  <2>4. /\ \A c \in Deployments \ {e} : container'[c] = container[c]
        /\ container'[e] # "running"
        /\ pc[d] = "remove" \/ container[e] = "none" => container'[e] = "none"
    BY <2>1, <2>2 DEF StopContainer, RemoveContainer
  <2>5. /\ UNCHANGED <<status, old, superseded>>
        /\ \A c \in Deployments \ {d} : pc'[c] = pc[c]
        /\ (pc[d] = "stop" /\ pc'[d] = "remove") \/ (pc[d] = "remove" /\ pc'[d] = "stopRow")
    BY <1>3 DEF StopOld, RemoveOld
  <2>6. \A c \in old[d] : IsNewest(c, old[d]) => c = e
    <3> SUFFICES ASSUME NEW c \in old[d], IsNewest(c, old[d]) PROVE c = e
      OBVIOUS
    <3>1. c \in Int /\ e \in Int
      BY <2>2, PipelineAssumption DEF PipelineAssumption, Deployments
    <3>2. c <= e /\ e <= c
      BY <2>1
    <3> QED
      BY <3>1, <3>2
  <2> QED
    BY <2>1, <2>2, <2>3, <2>4, <2>5, <2>6, ZenonT(60)
<1>4. CASE StopOldRow(d)
  <2>1. PICK e \in old[d] : IsNewest(e, old[d]) /\ UpdateStatus(e, "stopped") /\ DoneWith(d, e)
    BY <1>4 DEF StopOldRow
  <2>2. /\ e \in Deployments /\ container[e] = "none"
        /\ \A c \in Deployments \ {e} : status'[c] = status[c]
    BY <1>4, <2>1 DEF StopOldRow, UpdateStatus
  <2>3. /\ UNCHANGED <<container, superseded>>
        /\ \A c \in Deployments \ {d} : pc'[c] = pc[c] /\ old'[c] = old[c]
        /\ pc[d] = "stopRow" /\ pc'[d] \in {"promote", "stop"}
    BY <1>4, <2>1 DEF StopOldRow, DoneWith
  <2> QED
    BY <2>2, <2>3, SMTT(40)
<1>5. CASE Promote(d)
  <2>1. /\ \/ status' = [status EXCEPT ![d] = "live"]
           \/ status[d] = "deleted" /\ UNCHANGED status
        /\ pc[d] = "promote" /\ pc' = [pc EXCEPT ![d] = "returnOk"]
    BY <1>5 DEF Promote, AtRestInv
  <2>2. UNCHANGED <<container, old, superseded>>
    BY <1>5 DEF Promote
  <2>3. Settled(d)'
    BY <2>1 DEF Settled
  <2> QED
    BY <2>1, <2>2, <2>3
<1>6. Probe(d) \/ SafetyNet(d) \/ ListLive(d) \/ StopOld(d) \/ RemoveOld(d) \/ StopOldRow(d) \/ Promote(d)
  BY DEF Handler, AcquireLock, DeployRefused, FastPath, DeployCapacity, SetCloning, Clone, BuildImage, SetRunning,
         SetRollbackRunning, RollbackCapacity, RollbackRefused, FailRefused, RunContainer, MarkFailed, Return, Acknowledge
<1> QED
  BY <1>1, <1>2, <1>3, <1>4, <1>5, <1>6

\* The steps of the other actors.
LEMMA OthersKeepContainers ==
  ASSUME TypeOK, QueueInv, AtRestInv, HeldInv, NEW S, NoOrphanBut(S), faults = 0, CalmStep,
         \A d \in Deployments : ~Handler(d) /\ ~Dequeue(d),
         \A e \in Deployments : Settled(e) => Settled(e)'
  PROVE  HeldInv' /\ NoOrphanBut(S)'
<1> USE DEF HeldInv, NoOrphanBut, Running, IsNewest, Serving, TypeOK, dbVars, dockerVars, historyVars
<1>1. ASSUME NEW r \in Requests, CalmRequest(r) PROVE HeldInv' /\ NoOrphanBut(S)'
  <2>1. UNCHANGED <<container, pc, old>>
    BY <1>1 DEF CalmRequest, BeginDeploy, BeginWebhook, BeginRollback, Supersede, Create, Enqueue
  <2>2. ASSUME NEW d \in Deployments, container[d] = "running"
        PROVE  /\ status'[d] = status[d] \/ d \in superseded'
               /\ d \in superseded => d \in superseded'
    <3>1. CASE Supersede(r)
      BY <3>1 DEF Supersede, UpdateStatus
    <3>2. ASSUME NEW e \in Deployments, Create(r, e) PROVE status'[d] = status[d] /\ superseded' = superseded
      <4>1. status[e] = "none" /\ status' = [status EXCEPT ![e] = "pending"] /\ superseded' = superseded
        BY <3>2 DEF Create
      <4>2. d # e
        BY <2>2, <4>1 DEF QueueInv, Settled
      <4> QED
        BY <4>1, <4>2
    <3>3. CASE ~Supersede(r) /\ \A e \in Deployments : ~Create(r, e)
      BY <1>1, <3>3 DEF CalmRequest, BeginDeploy, BeginWebhook, BeginRollback, Enqueue
    <3> QED
      BY <3>1, <3>2, <3>3
  <2> QED
    BY <2>1, <2>2
<1>2. ASSUME NEW d \in Deployments, ContainerExit(d) PROVE HeldInv' /\ NoOrphanBut(S)'
  BY <1>2 DEF ContainerExit
<1>3. CASE UNCHANGED <<container, pc, old, status, superseded>>
  BY <1>3
<1>4. ASSUME NEW p \in Projects, Expire(p) PROVE UNCHANGED <<container, pc, old, status, superseded>>
  BY <1>4 DEF Expire
<1> QED
  BY <1>1, <1>2, <1>3, <1>4 DEF CalmStep, vars

\* Every step keeps both. A row may have been deleted before its handler makes it live.
LEMMA HeldStep ==
  ASSUME TypeOK, QueueInv, AtRestInv, HeldInv, NEW S, NoOrphanBut(S), [Next]_vars, faults' = 0,
         \A d \in Deployments : pc[d] \in Serving /\ status[d] = "deleted" => d \in S
  PROVE  HeldInv' /\ NoOrphanBut(S)'
<1>1. faults = 0 /\ CalmStep
  BY CalmSteps
<1>2. \A e \in Deployments : Settled(e) => Settled(e)'
  BY <1>1, SettledStays
<1>3. ASSUME NEW d \in Deployments, Dequeue(d) PROVE HeldInv' /\ NoOrphanBut(S)'
  <2>1. ApartFrame(d)
    BY <1>3 DEF Dequeue, QueueInv, ApartFrame, Serving, Settled, Goto, TypeOK, dbVars, dockerVars, historyVars
  <2> QED
    BY <1>1, <1>2, <2>1, ApartFrameKeeps
<1>4. ASSUME NEW d \in Deployments, Handler(d), pc[d] = "returnOk" PROVE HeldInv' /\ NoOrphanBut(S)'
  <2>1. Return(d)
    BY <1>4 DEF Handler, AcquireLock, DeployRefused, FastPath, DeployCapacity, SetCloning, Clone, BuildImage, SetRunning,
                SetRollbackRunning, RollbackCapacity, RollbackRefused, FailRefused, RunContainer, Probe, SafetyNet, ListLive,
                StopOld, RemoveOld, StopOldRow, Promote, MarkFailed
  <2>2. pc' = [pc EXCEPT ![d] = "idle"] /\ UNCHANGED <<container, old, status, superseded>>
    BY <2>1 DEF Return, Acknowledge, Goto, dbVars, dockerVars, historyVars
  <2> QED
    BY <1>1, <1>2, <1>4, <2>2 DEF HeldInv, NoOrphanBut, Running, IsNewest, Serving, TypeOK
<1>5. ASSUME NEW d \in Deployments, Handler(d) PROVE HeldInv' /\ NoOrphanBut(S)'
  BY <1>1, <1>2, <1>4, <1>5, HandlerApart, ApartFrameKeeps, RunContainerKeeps, ServingKeeps
<1> QED
  BY <1>1, <1>2, <1>3, <1>5, OthersKeepContainers

\* A container runs only for a handler at work or a deployment that is settled, none is
\* left of a row about to be retired, and all that run are accounted for.
THEOREM ContainerInvHolds == Spec => []ContainerInv
<1>1. Init => ContainerInv
  BY DEF Init, ContainerInv, HeldInv, NoOrphan, Running, Serving
<1>2. TypeOK /\ QueueInv /\ SettledInv /\ ContainerInv /\ [Next]_vars => ContainerInv'
  <2> SUFFICES ASSUME TypeOK, QueueInv, SettledInv, ContainerInv, [Next]_vars, faults' = 0
               PROVE  HeldInv' /\ NoOrphanBut({})'
    BY DEF ContainerInv, HeldInv, NoOrphan, NoOrphanBut, Serving
  <2>1. faults = 0
    BY CalmSteps DEF SettledInv
  <2> QED
    BY <2>1, HeldStep DEF ContainerInv, SettledInv, NoOrphan, NoOrphanBut, Serving
<1> QED
  BY <1>1, <1>2, TypeCorrect, QueueInvHolds, SettledInvHolds, PTL DEF Spec

\* For every number of deployments, slots and retries: without faults, every container
\* that runs is served by a live row, watched by its handler, or was cancelled.
THEOREM NoOrphanHolds == Spec => []NoOrphan
<1>1. ContainerInv => NoOrphan
  BY DEF ContainerInv, NoOrphan
<1> QED
  BY <1>1, ContainerInvHolds, PTL

-----------------------------------------------------------------------------
(* Images.                                                                 *)

\* A step of the handler of d that removes no image but the one d has built itself, makes
\* no row live and neither removes nor retires what is live.
ImageFrame(d) ==
  /\ UNCHANGED <<dockerImage, target, req>>
  /\ images \ {d} \subseteq images'
  /\ Settled(d) => images \subseteq images'
  /\ pc'[d] \in Serving => Image(d) \in images'
  /\ \A e \in Deployments \ {d} : pc'[e] = pc[e]
  /\ \A e \in Deployments : status'[e] = "live" =>
       /\ status[e] = "live"
       /\ container[e] \in {"running", "exited"} => container'[e] \in {"running", "exited"}
  /\ \A c \in Deployments : pc[c] = "stopRow" => pc'[c] = "stopRow" /\ old'[c] = old[c]

LEMMA ImageFrameKeeps ==
  ASSUME TypeOK, AtRestInv, ImageInv, faults = 0, NEW d \in Deployments, ImageFrame(d),
         \A e \in Deployments : Settled(e) => Settled(e)'
  PROVE  ImageInv'
<1> USE DEF ImageInv, ImageFrame, TypeOK
<1>1. /\ \A e \in Deployments : dockerImage'[e] # NoDep => Settled(dockerImage[e])'
      /\ \A e \in Deployments : target'[e] # NoDep => Settled(target[e])'
  OBVIOUS
<1>2. ASSUME NEW r \in Requests, req'[r].pc = "supersede", req'[r].target # NoDep
      PROVE  Settled(req[r].target)'
  <2>1. req[r].target \in Deployments
    BY <1>2 DEF Superseding, Enqueueing, IdleRequest
  <2> QED
    BY <1>2, <2>1
<1>3. ASSUME NEW e \in Deployments, Settled(e) \/ e # d, Image(e) \in images PROVE Image(e) \in images'
  BY <1>3 DEF Image, IsRollback
<1>4. \A e \in Deployments : pc'[e] \in Serving => Image(e)' \in images'
  BY <1>3 DEF Image, IsRollback
<1>5. LiveIsServed'
  <2> SUFFICES ASSUME NEW e \in Deployments, status'[e] = "live"
               PROVE  \/ container'[e] \in {"running", "exited"} /\ Image(e) \in images'
                      \/ \E c \in Deployments : pc'[c] = "stopRow" /\ IsNewest(e, old'[c])
    BY DEF LiveIsServed, Image, IsRollback
  <2>1. status[e] = "live" /\ Settled(e)
    BY DEF AtRestInv
  <2>2. CASE container[e] \in {"running", "exited"} /\ Image(e) \in images
    BY <1>3, <2>1, <2>2
  <2>3. CASE \E c \in Deployments : pc[c] = "stopRow" /\ IsNewest(e, old[c])
    BY <2>3
  <2> QED
    BY <2>1, <2>2, <2>3 DEF LiveIsServed
<1> QED
  BY <1>1, <1>2, <1>4, <1>5

\* The handler steps outside the switch.
LEMMA HandlerImageFrame ==
  ASSUME TypeOK, QueueInv, AtRestInv, HeldInv, ImageInv, faults = 0, NEW d \in Deployments,
         Handler(d), ~RemoveOld(d), ~StopOldRow(d), ~Promote(d)
  PROVE  ImageFrame(d)
<1> USE DEF ImageFrame, TypeOK, Serving, Settled, QueueInv, Goto, UpdateStatus, dbVars, queueVars, dockerVars
<1>1. CASE AcquireLock(d) \/ DeployRefused(d) \/ FastPath(d) \/ DeployCapacity(d)
  BY <1>1 DEF AcquireLock, DeployRefused, FastPath, DeployCapacity
<1>2. CASE SetCloning(d) \/ Clone(d)
  BY <1>2 DEF SetCloning, Clone
<1>3. CASE BuildImage(d) \/ SetRunning(d)
  BY <1>3 DEF BuildImage, RemoveBuiltImage, SetRunning
<1>4. CASE SetRollbackRunning(d) \/ RollbackCapacity(d) \/ RollbackRefused(d) \/ FailRefused(d)
  BY <1>4 DEF SetRollbackRunning, RollbackCapacity, RollbackRefused, FailRefused
<1>5. CASE RunContainer(d)
  BY <1>5 DEF RunContainer, RemoveBuiltImage
<1>6. CASE Probe(d) \/ SafetyNet(d)
  <2>1. pc[d] \in {"probe", "safety"} /\ ~Settled(d)
    BY <1>6 DEF Probe, SafetyNet
  <2>2. status[d] # "live"
    BY <2>1 DEF AtRestInv
  <2>3. Image(d) \in images
    BY <2>1 DEF ImageInv
  <2> QED
    BY <1>6, <2>1, <2>2, <2>3 DEF Probe, SafetyNet, RemoveContainer, RemoveBuiltImage
<1>7. CASE ListLive(d)
  BY <1>7 DEF ListLive, ImageInv
<1>8. CASE StopOld(d)
  BY <1>8 DEF StopOld, StopContainer, ImageInv
<1>9. CASE MarkFailed(d) \/ Return(d)
  BY <1>9 DEF MarkFailed, Return, Acknowledge
<1> QED
  BY <1>1, <1>2, <1>3, <1>4, <1>5, <1>6, <1>7, <1>8, <1>9 DEF Handler

\* The switch: the container it removes belongs to the row it retires next, and the row
\* that goes live has its container and its image.
LEMMA SwitchKeepsImages ==
  ASSUME TypeOK, QueueInv, AtRestInv, HeldInv, ImageInv, faults = 0, NEW d \in Deployments,
         RemoveOld(d) \/ StopOldRow(d) \/ Promote(d),
         \A e \in Deployments : Settled(e) => Settled(e)'
  PROVE  ImageInv'
<1> USE DEF TypeOK, Goto, dbVars, dockerVars
<1>1. /\ UNCHANGED <<target, images, req>> /\ pc[d] \in Serving
      /\ \A e \in Deployments \ {d} : pc'[e] = pc[e]
  BY DEF RemoveOld, StopOldRow, DoneWith, Promote, Serving
<1>2. \A e \in Deployments : pc'[e] \in Serving => Image(e)' \in images'
  BY <1>1 DEF ImageInv, Image, IsRollback
<1>3. ASSUME NEW r \in Requests, req'[r].pc = "supersede", req'[r].target # NoDep
      PROVE  Settled(req[r].target)'
  <2>1. req[r].target \in Deployments
    BY <1>1, <1>3 DEF Superseding, Enqueueing, IdleRequest
  <2> QED
    BY <1>1, <1>3, <2>1 DEF ImageInv
<1>4. \A e \in Deployments : target'[e] # NoDep => Settled(target[e])'
  BY <1>1 DEF ImageInv
<1>5. CASE RemoveOld(d)
  <2>1. PICK o \in old[d] : IsNewest(o, old[d]) /\ RemoveContainer(o)
    BY <1>5 DEF RemoveOld
  <2>2. pc'[d] = "stopRow" /\ pc[d] = "remove" /\ UNCHANGED <<dockerImage, old, status>>
    BY <1>5 DEF RemoveOld
  <2>3. LiveIsServed'
    <3> SUFFICES ASSUME NEW e \in Deployments, status'[e] = "live"
                 PROVE  \/ container'[e] \in {"running", "exited"} /\ Image(e) \in images
                        \/ \E c \in Deployments : pc'[c] = "stopRow" /\ IsNewest(e, old[c])
      BY <1>1, <2>2 DEF LiveIsServed, Image, IsRollback
    <3>1. CASE e = o
      BY <2>1, <2>2, <3>1
    <3>2. CASE e # o
      BY <1>1, <2>1, <2>2, <3>2 DEF RemoveContainer, ImageInv, LiveIsServed
    <3> QED
      BY <3>1, <3>2
  <2>4. \A e \in Deployments : dockerImage'[e] # NoDep => Settled(dockerImage[e])'
    BY <2>2 DEF ImageInv
  <2> QED
    BY <1>2, <1>3, <1>4, <2>3, <2>4 DEF ImageInv
<1>6. CASE StopOldRow(d)
  <2>1. PICK o \in old[d] : IsNewest(o, old[d]) /\ UpdateStatus(o, "stopped") /\ DoneWith(d, o)
    BY <1>6 DEF StopOldRow
  <2>2. /\ UNCHANGED <<dockerImage, container>> /\ status'[o] # "live"
        /\ \A e \in Deployments : status'[e] = "live" => status[e] = "live" /\ e # o
        /\ \A c \in Deployments \ {d} : old'[c] = old[c]
    BY <1>6, <2>1, <1>1 DEF StopOldRow, UpdateStatus, DoneWith
  <2>3. LiveIsServed'
    <3> SUFFICES ASSUME NEW e \in Deployments, status'[e] = "live"
                 PROVE  \/ container[e] \in {"running", "exited"} /\ Image(e) \in images
                        \/ \E c \in Deployments : pc'[c] = "stopRow" /\ IsNewest(e, old'[c])
      BY <1>1, <2>2 DEF LiveIsServed, Image, IsRollback
    <3>1. ~IsNewest(e, old[d])
      <4>1. e # o /\ e \in Int /\ o \in Int
        BY <2>2, PipelineAssumption DEF PipelineAssumption, Deployments
      <4> QED
        BY <2>1, <4>1 DEF IsNewest
    <3> QED
      BY <1>1, <2>2, <3>1 DEF ImageInv, LiveIsServed
  <2>4. \A e \in Deployments : dockerImage'[e] # NoDep => Settled(dockerImage[e])'
    BY <2>2 DEF ImageInv
  <2> QED
    BY <1>2, <1>3, <1>4, <2>3, <2>4 DEF ImageInv
<1>7. CASE Promote(d)
  <2>1. /\ pc[d] = "promote" /\ pc' = [pc EXCEPT ![d] = "returnOk"]
        /\ UNCHANGED <<container, old>>
        /\ \/ UNCHANGED <<status, dockerImage>>
           \/ /\ status' = [status EXCEPT ![d] = "live"]
              /\ dockerImage' = [dockerImage EXCEPT ![d] = Image(d)]
    BY <1>7 DEF Promote, AtRestInv
  <2>2. Settled(d)'
    BY <2>1 DEF Settled
  <2>3. container[d] \in {"running", "exited"} /\ Image(d) \in images
    BY <1>1 DEF HeldInv, ImageInv
  <2>4. LiveIsServed'
    <3> SUFFICES ASSUME NEW e \in Deployments, status'[e] = "live"
                 PROVE  \/ container[e] \in {"running", "exited"} /\ Image(e) \in images
                        \/ \E c \in Deployments : pc'[c] = "stopRow" /\ IsNewest(e, old[c])
      BY <1>1, <2>1 DEF LiveIsServed, Image, IsRollback
    <3> QED
      BY <2>1, <2>3 DEF ImageInv, LiveIsServed
  <2>5. Settled(Image(d))'
    BY <1>1, <2>2 DEF Image, IsRollback, ImageInv
  <2>6. \A e \in Deployments : dockerImage'[e] # NoDep => Settled(dockerImage[e])'
    <3> SUFFICES ASSUME NEW e \in Deployments, dockerImage'[e] # NoDep
                 PROVE  Settled(dockerImage[e])'
      OBVIOUS
    <3>1. CASE dockerImage'[e] = Image(d)
      <4>1. Image(d)' = Image(d)
        BY <1>1 DEF Image, IsRollback
      <4> QED
        BY <2>5, <3>1, <4>1 DEF Settled
    <3>2. CASE dockerImage'[e] = dockerImage[e]
      BY <3>2 DEF ImageInv
    <3> QED
      BY <2>1, <3>1, <3>2
  <2> QED
    BY <1>2, <1>3, <1>4, <2>4, <2>6 DEF ImageInv
<1> QED
  BY <1>5, <1>6, <1>7

\* The requests: a rollback names an image that a row carries already.
LEMMA RequestKeepsImages ==
  ASSUME TypeOK, QueueInv, ImageInv, faults = 0, NEW r \in Requests, CalmRequest(r),
         \A e \in Deployments : Settled(e) => Settled(e)'
  PROVE  ImageInv'
<1> USE DEF TypeOK, Superseding, Enqueueing, IdleRequest, dbVars, dockerVars
<1>1. UNCHANGED <<pc, container, images, old>>
  BY DEF CalmRequest, BeginDeploy, BeginWebhook, BeginRollback, Supersede, Create, Enqueue
<1>2. CASE \E d \in Deployments : Create(r, d)
  <2>1. PICK d \in Deployments : Create(r, d)
    BY <1>2
  <2>2. /\ status[d] = "none" /\ status' = [status EXCEPT ![d] = "pending"]
        /\ dockerImage' = [dockerImage EXCEPT ![d] = req[r].target]
        /\ target' = [target EXCEPT ![d] = req[r].target]
        /\ req' = [req EXCEPT ![r] = [pc |-> "enqueue", dep |-> d]]
        /\ req[r] \in Superseding
    BY <2>1 DEF Create
  <2>3. pc[d] \notin Serving
    BY <2>2 DEF QueueInv, Serving
  <2>4. ASSUME req[r].target # NoDep
        PROVE  req[r].target \in Deployments /\ (task'[req[r].target] = "done" \/ pc'[req[r].target] = "returnOk")
    <3> DEFINE t == req[r].target
    <3>1. t \in Deployments /\ Settled(t)
      BY <2>2, <2>4 DEF ImageInv, Create
    <3> QED
      BY <3>1 DEF Settled
  <2>5. \A e \in Deployments \ {d} : target'[e] = target[e]
    BY <2>2
  <2>6. \A e \in Deployments : pc'[e] \in Serving => Image(e)' \in images'
    BY <1>1, <2>3, <2>5 DEF ImageInv, Image, IsRollback
  <2>7. LiveIsServed'
    BY <1>1, <2>2, <2>5 DEF ImageInv, LiveIsServed, Image, IsRollback
  <2>8. \A e \in Deployments : dockerImage'[e] # NoDep => Settled(dockerImage[e])'
    BY <2>2, <2>4 DEF ImageInv, Settled
  <2>9. \A e \in Deployments : target'[e] # NoDep => Settled(target[e])'
    BY <2>2, <2>4 DEF ImageInv, Settled
  <2>10. \A s \in Requests : req'[s].pc = "supersede" /\ req'[s].target # NoDep => Settled(req[s].target)'
    BY <2>2 DEF ImageInv
  <2> QED
    BY <2>6, <2>7, <2>8, <2>9, <2>10 DEF ImageInv
<1>3. CASE ~\E d \in Deployments : Create(r, d)
  <2>1. UNCHANGED <<dockerImage, target>> /\ \A e \in Deployments : status'[e] = "live" => status[e] = "live"
    BY <1>3 DEF CalmRequest, BeginDeploy, BeginWebhook, BeginRollback, Supersede, Enqueue, UpdateStatus
  <2>2. \A e \in Deployments : pc'[e] \in Serving => Image(e)' \in images'
    BY <1>1, <2>1 DEF ImageInv, Image, IsRollback
  <2>3. LiveIsServed'
    BY <1>1, <2>1 DEF ImageInv, LiveIsServed, Image, IsRollback
  <2>4. ASSUME NEW s \in Requests, req'[s].pc = "supersede", req'[s].target # NoDep
        PROVE  Settled(req[s].target)'
    <3>1. ASSUME NEW p \in Projects, BeginDeploy(r, p) \/ BeginWebhook(r, p) PROVE req'[s] = req[s]
      BY <2>4, <3>1 DEF BeginDeploy, BeginWebhook
    <3>2. CASE \E t \in Deployments : BeginRollback(r, t)
      <4>1. PICK t \in Deployments : BeginRollback(r, t)
        BY <3>2
      <4>2. CASE s = r
        BY <2>4, <4>1, <4>2 DEF BeginRollback, ImageInv
      <4>3. CASE s # r
        BY <2>4, <4>1, <4>3 DEF BeginRollback, ImageInv
      <4> QED
        BY <4>2, <4>3
    <3>3. CASE Supersede(r)
      <4>1. PICK d \in req[r].todo : req' = [req EXCEPT ![r].todo = @ \ {d}]
        BY <3>3 DEF Supersede
      <4>2. req[s].pc = "supersede" /\ req'[s].target = req[s].target
        BY <2>4, <3>3, <4>1 DEF Supersede
      <4> QED
        BY <2>4, <4>2 DEF ImageInv
    <3>4. CASE Enqueue(r)
      BY <2>4, <3>4 DEF Enqueue, ImageInv
    <3>5. CASE req'[s] = req[s]
      BY <2>4, <3>5 DEF ImageInv
    <3> QED
      BY <1>3, <3>1, <3>2, <3>3, <3>4, <3>5 DEF CalmRequest
  <2> QED
    BY <2>1, <2>2, <2>3, <2>4 DEF ImageInv
<1> QED
  BY <1>2, <1>3

\* Every step keeps ImageInv.
LEMMA ImageStep ==
  TypeOK /\ QueueInv /\ AtRestInv /\ HeldInv /\ ImageInv /\ [Next]_vars => ImageInv'
<1> SUFFICES ASSUME TypeOK, QueueInv, AtRestInv, HeldInv, ImageInv, [Next]_vars, faults' = 0
             PROVE  ImageInv'
  BY DEF ImageInv
<1>1. faults = 0 /\ CalmStep
  BY CalmSteps
<1>2. \A e \in Deployments : Settled(e) => Settled(e)'
  BY <1>1, SettledStays
<1>3. ASSUME NEW d \in Deployments, Handler(d) PROVE ImageInv'
  BY <1>1, <1>2, <1>3, HandlerImageFrame, ImageFrameKeeps, SwitchKeepsImages
<1>4. ASSUME NEW d \in Deployments, Dequeue(d) \/ ContainerExit(d) PROVE ImageInv'
  <2>1. ImageFrame(d)
    BY <1>1, <1>4 DEF Dequeue, ContainerExit, ImageFrame, ImageInv, QueueInv, Serving, Goto, TypeOK, dbVars, dockerVars
  <2> QED
    BY <1>1, <1>2, <2>1, ImageFrameKeeps
<1>5. ASSUME NEW r \in Requests, CalmRequest(r) PROVE ImageInv'
  BY <1>1, <1>2, <1>5, RequestKeepsImages
<1>6. ASSUME UNCHANGED <<dockerImage, target, req, pc, images, container, status, old, faults>> PROVE ImageInv'
  <2>1. LiveIsServed'
    BY <1>6 DEF ImageInv, LiveIsServed, Image, IsRollback
  <2>2. ASSUME NEW r \in Requests, req[r].pc = "supersede", req[r].target # NoDep
        PROVE  Settled(req[r].target)'
    <3>1. req[r].target \in Deployments /\ Settled(req[r].target)
      BY <1>1, <2>2 DEF ImageInv, TypeOK, Superseding, Enqueueing, IdleRequest
    <3> QED
      BY <1>2, <1>6, <3>1
  <2> QED
    BY <1>1, <1>2, <1>6, <2>1, <2>2 DEF ImageInv, Image, IsRollback, TypeOK
<1>7. ASSUME NEW p \in Projects, Expire(p) PROVE ImageInv'
  BY <1>6, <1>7 DEF Expire, dbVars, dockerVars
<1> QED
  BY <1>1, <1>3, <1>4, <1>5, <1>6, <1>7 DEF CalmStep, vars

\* Without faults, an image that a row names or a rollback wants was built by a handler
\* that has returned, and no handler removes it any more.
THEOREM ImageInvHolds == Spec => []ImageInv
<1>1. Init => ImageInv
  BY DEF Init, ImageInv, LiveIsServed, Serving, IdleRequest
<1>2. SettledInv /\ ContainerInv => AtRestInv /\ HeldInv
  BY DEF SettledInv, ContainerInv
<1> QED
  BY <1>1, <1>2, ImageStep, TypeCorrect, QueueInvHolds, SettledInvHolds, ContainerInvHolds, PTL DEF Spec

\* For every number of deployments, slots and retries: without faults, a live row has its
\* container and its image, except between the two calls that retire it.
THEOREM LiveIsServedHolds == Spec => []LiveIsServed
<1>1. ImageInv => LiveIsServed
  BY DEF ImageInv, LiveIsServed
<1> QED
  BY <1>1, ImageInvHolds, PTL

-----------------------------------------------------------------------------
(* Capacity.                                                               *)

\* Handlers that have passed the capacity check and have not started their container.
Cleared == {d \in Deployments : \/ pc[d] \in {"cloning", "clone", "build", "running", "run"}
                                \/ pc[d] = "lock" /\ IsRollback(d)}

Handlers == {d \in Deployments : pc[d] # "idle"}

\* asynq runs no more handlers than it has slots.
BusyInv == Busy <= Concurrency

\* Whoever was let through by the check still fits beside what runs, give or take the
\* other slots: the check itself holds with one container to spare.
CapInv == faults = 0 => Cardinality(Running) + Cardinality(Cleared) <= Slots + Concurrency - 1

\* Sets of deployments are finite, so that a subset has no more elements.
LEMMA FewerDeployments ==
  ASSUME NEW T \in SUBSET Deployments, NEW S \in SUBSET T
  PROVE  Cardinality(S) \in Nat /\ Cardinality(T) \in Nat /\ Cardinality(S) <= Cardinality(T)
<1>1. IsFiniteSet(Deployments)
  BY FS_Interval, PipelineAssumption DEF PipelineAssumption, Deployments
<1>2. IsFiniteSet(T)
  BY <1>1, FS_Subset
<1> QED
  BY <1>2, FS_Subset, FS_CardinalityType

LEMMA OneMoreDeployment ==
  ASSUME NEW S \in SUBSET Deployments, NEW d \in Deployments
  PROVE  Cardinality(S \union {d}) <= Cardinality(S) + 1
<1>1. IsFiniteSet(Deployments)
  BY FS_Interval, PipelineAssumption DEF PipelineAssumption, Deployments
<1>2. IsFiniteSet(S)
  BY <1>1, FS_Subset
<1>3. Cardinality(S) \in Nat
  BY <1>2, FS_CardinalityType
<1> QED
  BY <1>2, <1>3, FS_AddElement

LEMMA OneLessDeployment ==
  ASSUME NEW S \in SUBSET Deployments, NEW d \in S
  PROVE  Cardinality(S \ {d}) = Cardinality(S) - 1
<1>1. IsFiniteSet(Deployments)
  BY FS_Interval, PipelineAssumption DEF PipelineAssumption, Deployments
<1>2. IsFiniteSet(S)
  BY <1>1, FS_Subset
<1> QED
  BY <1>2, FS_RemoveElement, FS_CardinalityType

\* A step that starts no handler and no run of the reaper frees slots or leaves them.
LEMMA NoNewHandler ==
  ASSUME TypeOK, BusyInv, Handlers' \subseteq Handlers, reapPc = "idle" => reapPc' = "idle"
  PROVE  BusyInv'
<1>1. /\ Cardinality(Handlers') \in Nat /\ Cardinality(Handlers) \in Nat
      /\ Cardinality(Handlers') <= Cardinality(Handlers)
  BY FewerDeployments DEF Handlers
<1> QED
  BY <1>1, PipelineAssumption DEF BusyInv, Busy, Handlers, PipelineAssumption

\* Every step keeps BusyInv: a handler is started, and the reaper, only in a free slot.
LEMMA BusyStep == TypeOK /\ BusyInv /\ [Next]_vars => BusyInv'
<1> SUFFICES ASSUME TypeOK, BusyInv, [Next]_vars PROVE BusyInv'
  OBVIOUS
<1> USE DEF Handlers, TypeOK, Goto, reapVars
<1>1. ASSUME NEW r \in Requests, Request(r) PROVE BusyInv'
  BY <1>1, NoNewHandler DEF Request, BeginDeploy, BeginWebhook, BeginRollback, Supersede, SupersedeError, Create, Enqueue, Abandon
<1>2. ASSUME NEW d \in Deployments, Dequeue(d) PROVE BusyInv'
  <2>1. Handlers' \subseteq Handlers \union {d} /\ reapPc' = reapPc /\ Busy < Concurrency
    BY <1>2 DEF Dequeue
  <2>2. Cardinality(Handlers') \in Nat /\ Cardinality(Handlers) \in Nat
    BY FewerDeployments
  <2>3. Cardinality(Handlers') <= Cardinality(Handlers) + 1
    <3>1. Cardinality(Handlers') <= Cardinality(Handlers \union {d})
      BY <2>1, FewerDeployments
    <3>2. Cardinality(Handlers \union {d}) <= Cardinality(Handlers) + 1 /\ Cardinality(Handlers \union {d}) \in Nat
      BY OneMoreDeployment, FewerDeployments
    <3> QED
      BY <2>2, <3>1, <3>2
  <2> QED
    BY <2>1, <2>2, <2>3, PipelineAssumption DEF BusyInv, Busy, PipelineAssumption
<1>3. ASSUME NEW d \in Deployments, Handler(d) PROVE BusyInv'
  <2>1. Handlers' \subseteq Handlers
    BY <1>3, HandlerKeepsTask, HandlerEndsTask
  <2>2. reapPc' = reapPc
    BY <1>3 DEF Handler, AcquireLock, DeployRefused, FastPath, DeployCapacity, SetCloning, Clone, BuildImage, SetRunning,
                SetRollbackRunning, RollbackCapacity, RollbackRefused, FailRefused, RunContainer, Probe, SafetyNet, ListLive,
                StopOld, RemoveOld, StopOldRow, Promote, MarkFailed, Return
  <2> QED
    BY <2>1, <2>2, NoNewHandler
<1>4. ASSUME NEW d \in Deployments, Recover(d) \/ WriteError(d) \/ ReadError(d) \/ DockerError(d) \/ IgnoredError(d) \/ ContainerExit(d)
      PROVE  BusyInv'
  <2>1. Handlers' \subseteq Handlers /\ reapPc' = reapPc
    BY <1>4 DEF Recover, WriteError, ReadError, DockerError, IgnoredError, Acknowledge, DoneWith, ContainerExit
  <2> QED
    BY <2>1, NoNewHandler
<1>5. ASSUME NEW p \in Projects, Expire(p) PROVE BusyInv'
  BY <1>5, NoNewHandler DEF Expire
<1>6. CASE ReapList
  <2>1. Handlers' = Handlers /\ reapPc = "idle" /\ reapPc' = "mark" /\ Busy < Concurrency
    BY <1>6 DEF ReapList
  <2>2. Cardinality(Handlers) \in Nat
    BY FewerDeployments
  <2> QED
    <3>1. Busy = Cardinality(Handlers) + 0 /\ Busy' = Cardinality(Handlers) + 1
      BY <2>1 DEF Busy
    <3> QED
      BY <2>1, <2>2, <3>1, PipelineAssumption DEF BusyInv, PipelineAssumption
<1>7. CASE ReapMark \/ ReapRelease \/ ReapError \/ Crash \/ Terminated \/ UNCHANGED vars
  BY <1>7, NoNewHandler DEF ReapMark, ReapRelease, ReapError, Crash, Terminated, vars
<1> QED
  BY <1>1, <1>2, <1>3, <1>4, <1>5, <1>6, <1>7 DEF Next, Step, Reaper

\* A step that starts no container and lets no handler past the check keeps the bound.
LEMMA NoneStarted ==
  ASSUME TypeOK, CapInv, faults = 0, Running' \subseteq Running, Cleared' \subseteq Cleared
  PROVE  CapInv'
<1>1. /\ Cardinality(Running') \in Nat /\ Cardinality(Running) \in Nat
      /\ Cardinality(Running') <= Cardinality(Running)
  BY FewerDeployments DEF Running
<1>2. /\ Cardinality(Cleared') \in Nat /\ Cardinality(Cleared) \in Nat
      /\ Cardinality(Cleared') <= Cardinality(Cleared)
  BY FewerDeployments DEF Cleared
<1> QED
  BY <1>1, <1>2, PipelineAssumption DEF CapInv, PipelineAssumption

\* The check: Running leaves a slot free, and a cleared handler takes an asynq slot.
LEMMA CheckClears ==
  ASSUME TypeOK, BusyInv', faults = 0, NEW d \in Deployments,
         DeployCapacity(d) \/ RollbackCapacity(d), ~(Cleared' \subseteq Cleared)
  PROVE  CapInv'
<1>1. CheckCapacity /\ container' = container /\ reapPc' = reapPc
  BY DEF DeployCapacity, RollbackCapacity, Cleared, IsRollback, Goto, TypeOK, dockerVars, reapVars
<1>2. Cardinality(Running) \in Nat /\ Cardinality(Running) <= Slots - 1
  BY <1>1, FewerDeployments, PipelineAssumption DEF CheckCapacity, Running, PipelineAssumption
<1>3. Running' = Running
  BY <1>1 DEF Running
<1>4. /\ Cardinality(Handlers') \in Nat /\ Cardinality(Cleared') \in Nat
      /\ Cardinality(Cleared') <= Cardinality(Handlers')
  BY FewerDeployments DEF Cleared, Handlers
<1>5. Cardinality(Handlers') <= Concurrency
  BY <1>4, PipelineAssumption DEF BusyInv, Busy, Handlers, PipelineAssumption
<1> QED
  BY <1>2, <1>3, <1>4, <1>5, PipelineAssumption DEF CapInv, PipelineAssumption

\* The start: a handler that had been let through gives its place to its container.
LEMMA StartTakesPlace ==
  ASSUME TypeOK, CapInv, faults = 0, NEW d \in Deployments, RunContainer(d)
  PROVE  CapInv'
<1>1. pc[d] = "run" /\ pc' \in {[pc EXCEPT ![d] = "probe"], [pc EXCEPT ![d] = "markFailed"]} /\ UNCHANGED target
  BY DEF RunContainer, Goto
<1>2. d \in Cleared
  BY <1>1 DEF Cleared
<1>3. Cleared' = Cleared \ {d}
  BY <1>1 DEF Cleared, IsRollback, TypeOK
<1>4. Running' \subseteq Running \union {d}
  BY DEF RunContainer, Running, TypeOK
<1>5. /\ Cardinality(Cleared) \in Nat
      /\ Cardinality(Cleared') = Cardinality(Cleared) - 1
  BY <1>2, <1>3, FewerDeployments, OneLessDeployment DEF Cleared
<1>6. Running \in SUBSET Deployments /\ Running \union {d} \in SUBSET Deployments
  BY DEF Running
<1>7. Cardinality(Running') \in Nat /\ Cardinality(Running \union {d}) \in Nat /\ Cardinality(Running') <= Cardinality(Running \union {d})
  BY <1>4, <1>6, FewerDeployments
<1>8. Cardinality(Running) \in Nat /\ Cardinality(Running \union {d}) <= Cardinality(Running) + 1
  BY <1>6, FewerDeployments, OneMoreDeployment
<1> QED
  BY <1>5, <1>7, <1>8, PipelineAssumption DEF CapInv, PipelineAssumption

\* Every step keeps CapInv.
LEMMA CapStep ==
  TypeOK /\ QueueInv /\ SettledInv /\ BusyInv /\ CapInv /\ [Next]_vars => CapInv'
<1> SUFFICES ASSUME TypeOK, QueueInv, SettledInv, BusyInv, CapInv, [Next]_vars, faults' = 0
             PROVE  CapInv'
  BY DEF CapInv
<1>1. faults = 0 /\ CalmStep
  BY CalmSteps DEF SettledInv
<1>2. BusyInv'
  BY BusyStep
<1> DEFINE Frame == Running' \subseteq Running /\ Cleared' \subseteq Cleared
<1> USE DEF Running, Cleared, IsRollback, TypeOK, Goto, dockerVars
<1>3. ASSUME NEW r \in Requests, CalmRequest(r) PROVE Frame
  <2>1. CASE \E d \in Deployments : Create(r, d)
    BY <2>1 DEF Create, QueueInv
  <2>2. CASE ~\E d \in Deployments : Create(r, d)
    BY <1>3, <2>2 DEF CalmRequest, BeginDeploy, BeginWebhook, BeginRollback, Supersede, Enqueue
  <2> QED
    BY <2>1, <2>2
<1>4. ASSUME NEW d \in Deployments, Dequeue(d) \/ ContainerExit(d) PROVE Frame
  BY <1>4 DEF Dequeue, ContainerExit
<1>5. ASSUME NEW d \in Deployments, Handler(d), ~DeployCapacity(d), ~RollbackCapacity(d), ~RunContainer(d) PROVE Frame
  <2>1. CASE AcquireLock(d) \/ DeployRefused(d) \/ FastPath(d) \/ SetCloning(d) \/ Clone(d)
    BY <2>1 DEF AcquireLock, DeployRefused, FastPath, SetCloning, Clone
  <2>2. CASE BuildImage(d) \/ SetRunning(d) \/ SetRollbackRunning(d) \/ RollbackRefused(d) \/ FailRefused(d)
    BY <2>2 DEF BuildImage, SetRunning, SetRollbackRunning, RollbackRefused, FailRefused
  <2>3. CASE Probe(d) \/ SafetyNet(d) \/ ListLive(d)
    BY <2>3 DEF Probe, SafetyNet, ListLive, RemoveContainer
  <2>4. CASE StopOld(d)
    BY <2>4 DEF StopOld, StopContainer
  <2>5. CASE RemoveOld(d)
    BY <2>5 DEF RemoveOld, RemoveContainer
  <2>6. CASE StopOldRow(d) \/ Promote(d)
    BY <2>6 DEF StopOldRow, DoneWith, Promote
  <2>7. CASE MarkFailed(d) \/ Return(d)
    BY <2>7 DEF MarkFailed, Return, Acknowledge
  <2> QED
    BY <1>5, <2>1, <2>2, <2>3, <2>4, <2>5, <2>6, <2>7 DEF Handler
<1>6. ASSUME NEW p \in Projects, Expire(p) PROVE Frame
  BY <1>6 DEF Expire
<1>7. ASSUME UNCHANGED vars PROVE Frame
  BY <1>7 DEF vars
<1>8. ASSUME NEW d \in Deployments, DeployCapacity(d) \/ RollbackCapacity(d), ~Frame PROVE CapInv'
  <2>1. Running' = Running
    BY <1>8 DEF DeployCapacity, RollbackCapacity
  <2> HIDE DEF Running, Cleared
  <2> QED
    BY <1>1, <1>2, <1>8, <2>1, CheckClears
<1> HIDE DEF Running, Cleared
<1> QED
  BY <1>1, <1>3, <1>4, <1>5, <1>6, <1>7, <1>8, NoneStarted, StartTakesPlace DEF CalmStep

\* No more handlers at work than asynq has slots, in every reachable state.
THEOREM BusyInvHolds == Spec => []BusyInv
<1>1. Init => BusyInv
  <2>1. ASSUME Init PROVE Busy = Cardinality({}) + 0
    BY <2>1 DEF Init, Busy
  <2> QED
    BY <2>1, FS_EmptySet, PipelineAssumption DEF BusyInv, PipelineAssumption
<1> QED
  BY <1>1, BusyStep, TypeCorrect, PTL DEF Spec

\* For every number of deployments, slots and retries: without faults, no more containers
\* run than the budget allows and the other worker slots can add between check and start.
THEOREM CapacityBoundHolds == Spec => []CapacityBound
<1>1. Init => CapInv
  <2>1. ASSUME Init PROVE Running = {} /\ Cleared = {}
    BY <2>1 DEF Init, Running, Cleared
  <2>2. ASSUME Init PROVE Cardinality(Running) = 0 /\ Cardinality(Cleared) = 0
    BY <2>1, <2>2, FS_EmptySet
  <2> QED
    BY <2>2, PipelineAssumption DEF CapInv, PipelineAssumption
<1>2. CapInv => CapacityBound
  <2>1. Cardinality(Running) \in Nat /\ Cardinality(Cleared) \in Nat
    BY FewerDeployments DEF Running, Cleared
  <2> QED
    BY <2>1, PipelineAssumption DEF CapInv, CapacityBound, PipelineAssumption
<1> QED
  BY <1>1, <1>2, CapStep, TypeCorrect, QueueInvHolds, SettledInvHolds, BusyInvHolds, PTL DEF Spec

-----------------------------------------------------------------------------
(* The newest deployment wins.                                             *)

\* From the fast path, which finds the row in progress, to the end of the handler.
Working == Inside \ {"check", "returnOk", "returnErr"}

\* With manual triggers made one after the other every older row is either cancelled by
\* the trigger or already worked on, and whoever goes live after a newer one would have to
\* get past the fast path with its row cancelled. Rows are inserted in the order of their ids.
OrderInv ==
  faults = 0 =>
    /\ \A d \in Deployments : target[d] = NoDep
    /\ \A d, e \in Deployments :
         ProjectOf[d] = ProjectOf[e] /\ e < d /\ status[e] = "none" => status[d] = "none"
    /\ \A d \in promoted : status[d] # "none"
    /\ \A r \in Requests : req[r].pc = "supersede" =>
         /\ req[r].target = NoDep
         /\ \A e \in req[r].todo : status[e] # "none"
         /\ \A e \in Deployments : ProjectOf[e] = req[r].project /\ status[e] \in Active
              => e \in req[r].todo \/ pc[e] \in Working
    /\ \A d, e \in Deployments :
         ProjectOf[d] = ProjectOf[e] /\ e < d /\ status[d] # "none"
           => status[e] \notin Active \/ pc[e] \in Working
    /\ \A d, e \in Deployments :
         ProjectOf[d] = ProjectOf[e] /\ e < d /\ d \in promoted /\ ~lockLost[ProjectOf[d]]
           => pc[e] \notin Working

\* A step that inserts no row and begins no request: rows in progress are those worked on,
\* a handler gets to work only through the fast path, and goes live only at its end.
OrderFrame ==
  /\ UNCHANGED <<target, req>>
  /\ \A e \in Deployments : status'[e] = "none" <=> status[e] = "none"
  /\ \A e \in Deployments : status'[e] \in Active =>
       pc'[e] \in Working \/ (status[e] \in Active /\ pc[e] \notin Working)
  /\ \A e \in Deployments : pc'[e] \in Working => pc[e] \in Working \/ (pc[e] = "check" /\ status[e] \in Active)
  /\ promoted' \subseteq promoted \union {d \in Deployments : pc[d] = "promote"}
  /\ \A p \in Projects : lockLost[p] => lockLost'[p]

LEMMA OrderFrameKeeps ==
  ASSUME TypeOK, QueueInv, LockNamesHolder, OrderInv, faults = 0, OrderFrame
  PROVE  OrderInv'
<1> USE DEF OrderInv, OrderFrame
<1>1. \A d \in Deployments : target'[d] = NoDep
  OBVIOUS
<1>2. \A d, e \in Deployments :
        ProjectOf[d] = ProjectOf[e] /\ e < d /\ status'[e] = "none" => status'[d] = "none"
  OBVIOUS
<1>3. \A d \in promoted' : status'[d] # "none"
  BY DEF QueueInv, TypeOK
<1>4. ASSUME NEW r \in Requests, req'[r].pc = "supersede"
      PROVE  /\ req'[r].target = NoDep
             /\ \A e \in req'[r].todo : status'[e] # "none"
             /\ \A e \in Deployments : ProjectOf[e] = req'[r].project /\ status'[e] \in Active
                  => e \in req'[r].todo \/ pc'[e] \in Working
  BY <1>4 DEF TypeOK, Superseding, Enqueueing, IdleRequest
<1>5. \A d, e \in Deployments :
        ProjectOf[d] = ProjectOf[e] /\ e < d /\ status'[d] # "none"
          => status'[e] \notin Active \/ pc'[e] \in Working
  OBVIOUS
<1>6. ASSUME NEW d \in Deployments, NEW e \in Deployments,
             ProjectOf[d] = ProjectOf[e], e < d, d \in promoted', ~lockLost'[ProjectOf[d]], pc'[e] \in Working
      PROVE  FALSE
  <2>1. ~lockLost[ProjectOf[d]] /\ pc[e] \in Inside
    BY <1>6, PipelineAssumption DEF PipelineAssumption, Working, Inside
  <2>2. CASE d \in promoted
    BY <1>6, <2>1, <2>2
  <2>3. CASE pc[d] = "promote"
    <3>1. d = e
      BY <1>6, <2>1, <2>3 DEF LockNamesHolder, Inside
    <3> QED
      BY <1>6, <3>1, PipelineAssumption DEF PipelineAssumption, Deployments
  <2> QED
    BY <1>6, <2>2, <2>3
<1> QED
  BY <1>1, <1>2, <1>3, <1>4, <1>5, <1>6

\* The steps of the handlers.
LEMMA HandlerOrderFrame ==
  ASSUME TypeOK, QueueInv, SettledInv, OrderInv, faults = 0, NEW d \in Deployments, Handler(d)
  PROVE  OrderFrame
<1> USE DEF OrderFrame, TypeOK, Working, Inside, Active, Goto, UpdateStatus, dbVars, historyVars
<1>1. status[d] # "none" /\ ~IsRollback(d)
  BY HandlerKeepsTask, HandlerEndsTask DEF QueueInv, OrderInv, IsRollback
<1>2. CASE AcquireLock(d) \/ DeployRefused(d)
  BY <1>1, <1>2 DEF AcquireLock, DeployRefused
<1>3. CASE FastPath(d)
  <2>1. status[d] \in Active \union {"failed"}
    BY <1>1, <1>3 DEF FastPath, SettledInv, AtRestInv, Settled, QueueInv, Statuses
  <2> QED
    BY <1>3, <2>1 DEF FastPath
<1>4. CASE DeployCapacity(d) \/ SetCloning(d) \/ BuildImage(d) \/ SetRunning(d)
  BY <1>1, <1>4 DEF DeployCapacity, SetCloning, BuildImage, SetRunning
<1>5. CASE Clone(d)
  <2>1. /\ status' = [status EXCEPT ![d] = "building"] \/ status' = status
        /\ pc' = [pc EXCEPT ![d] = "build"] \/ pc' = [pc EXCEPT ![d] = "markFailed"]
        /\ pc[d] = "clone" /\ UNCHANGED <<target, req, promoted, lockLost>>
    BY <1>5, <1>1 DEF Clone, SettledInv, AtRestInv
  <2> QED
    BY <1>1, <2>1
<1>6. CASE SetRollbackRunning(d) \/ RollbackCapacity(d) \/ RollbackRefused(d)
  BY <1>1, <1>6 DEF SetRollbackRunning, RollbackCapacity, RollbackRefused, SettledInv, AtRestInv
<1>7. CASE FailRefused(d)
  BY <1>1, <1>7 DEF FailRefused, SettledInv, AtRestInv
<1>8. CASE RunContainer(d) \/ Probe(d) \/ SafetyNet(d)
  BY <1>1, <1>8 DEF RunContainer, Probe, SafetyNet
<1>9. CASE ListLive(d) \/ StopOld(d) \/ RemoveOld(d)
  BY <1>1, <1>9 DEF ListLive, StopOld, RemoveOld
<1>10. CASE StopOldRow(d)
  <2>1. PICK e \in old[d] : UpdateStatus(e, "stopped") /\ DoneWith(d, e)
    BY <1>10 DEF StopOldRow
  <2>2. e \in Deployments /\ status[e] # "none"
    BY <2>1 DEF SettledInv, AtRestInv, Settled, QueueInv
  <2> QED
    BY <1>1, <1>10, <2>1, <2>2 DEF StopOldRow, DoneWith
<1>11. CASE Promote(d) \/ MarkFailed(d)
  BY <1>1, <1>11 DEF Promote, MarkFailed, SettledInv, AtRestInv
<1>12. CASE Return(d)
  BY <1>1, <1>12 DEF Return, Acknowledge
<1> QED
  BY <1>2, <1>3, <1>4, <1>5, <1>6, <1>7, <1>8, <1>9, <1>10, <1>11, <1>12 DEF Handler

\* The requests: the one under way has read every row in progress, cancels them one by
\* one, and inserts its row when all of them are cancelled or already worked on.
LEMMA RequestOrderStep ==
  ASSUME Kinds = {"manual"}, \A r, s \in Requests : r = s,
         TypeOK, QueueInv, SettledInv, OrderInv, faults = 0, NEW r \in Requests, CalmRequest(r)
  PROVE  OrderInv'
<1> USE DEF TypeOK, Superseding, Enqueueing, IdleRequest, dbVars, historyVars
<1>1. UNCHANGED <<pc, promoted, lockLost>>
  BY DEF CalmRequest, BeginDeploy, BeginWebhook, BeginRollback, Supersede, Create, Enqueue
<1>2. ASSUME NEW p \in Projects, BeginDeploy(r, p) PROVE OrderInv'
  <2>1. UNCHANGED <<status, target>>
    BY <1>2 DEF BeginDeploy
  <2>2. req'[r] = [pc |-> "supersede", project |-> p, target |-> NoDep,
                   todo |-> {d \in RowsOf(p) : status[d] \in Active}]
    BY <1>2 DEF BeginDeploy
  <2>3. \A s \in Requests : req'[s].pc = "supersede" =>
          /\ req'[s].target = NoDep
          /\ \A e \in req'[s].todo : status'[e] # "none"
          /\ \A e \in Deployments : ProjectOf[e] = req'[s].project /\ status'[e] \in Active
               => e \in req'[s].todo \/ pc'[e] \in Working
    BY <2>1, <2>2 DEF RowsOf, Exists, Active
  <2> QED
    BY <1>1, <2>1, <2>3 DEF OrderInv
<1>3. CASE Supersede(r)
  <2>1. PICK d \in req[r].todo :
          UpdateStatus(d, "failed") /\ req' = [req EXCEPT ![r].todo = @ \ {d}]
    BY <1>3 DEF Supersede
  <2>2. req[r].pc = "supersede" /\ req[r] \in Superseding /\ UNCHANGED target
    BY <1>3 DEF Supersede
  <2>3. req'[r] = [req[r] EXCEPT !.todo = @ \ {d}]
    BY <2>1, <2>2
  <2>4. d \in Deployments /\ status[d] # "none"
    BY <2>1, <2>2 DEF OrderInv
  <2>5. status'[d] = "failed" /\ \A e \in Deployments \ {d} : status'[e] = status[e]
    BY <2>1, <2>4 DEF UpdateStatus, SettledInv, AtRestInv
  <2>6. \A s \in Requests : req'[s].pc = "supersede" =>
          /\ req'[s].target = NoDep
          /\ \A e \in req'[s].todo : status'[e] # "none"
          /\ \A e \in Deployments : ProjectOf[e] = req'[s].project /\ status'[e] \in Active
               => e \in req'[s].todo \/ pc'[e] \in Working
    BY <1>1, <2>2, <2>3, <2>5 DEF OrderInv, Active
  <2> QED
    BY <1>1, <2>2, <2>4, <2>5, <2>6 DEF OrderInv, Active
<1>4. ASSUME NEW d \in Deployments, Create(r, d) PROVE OrderInv'
  <2>1. /\ req[r].pc = "supersede" /\ req[r].todo = {} /\ ProjectOf[d] = req[r].project
        /\ status[d] = "none" /\ status' = [status EXCEPT ![d] = "pending"]
        /\ target' = [target EXCEPT ![d] = req[r].target]
        /\ \A e \in Deployments : e < d /\ ProjectOf[e] = ProjectOf[d] => status[e] # "none"
        /\ req'[r] = [pc |-> "enqueue", dep |-> d]
    BY <1>4 DEF Create
  <2>2. \A e \in Deployments : target'[e] = NoDep
    BY <2>1 DEF OrderInv
  <2>3. ASSUME NEW e \in Deployments, ProjectOf[e] = ProjectOf[d] PROVE status[e] \notin Active \/ pc[e] \in Working
    BY <2>1, <2>3 DEF OrderInv
  <2>4. \A s \in Requests : req'[s].pc # "supersede"
    BY <2>1
  <2>5. ASSUME NEW c \in Deployments, NEW e \in Deployments, ProjectOf[c] = ProjectOf[e], e < c, status'[c] # "none"
        PROVE  status'[e] \notin Active \/ pc'[e] \in Working
    <3>1. CASE e = d
      BY <2>1, <2>5, <3>1, PipelineAssumption DEF OrderInv, PipelineAssumption, Deployments
    <3>2. CASE e # d
      BY <1>1, <2>1, <2>3, <2>5, <3>2 DEF OrderInv
    <3> QED
      BY <3>1, <3>2
  <2>6. ASSUME NEW c \in Deployments, NEW e \in Deployments, ProjectOf[c] = ProjectOf[e], e < c, status'[e] = "none"
        PROVE  status'[c] = "none"
    <3>1. e # d /\ status[e] = "none"
      BY <2>1, <2>6
    <3>2. c # d
      BY <2>1, <2>6, <3>1
    <3> QED
      BY <2>1, <2>6, <3>1, <3>2 DEF OrderInv
  <2>7. \A c \in promoted' : status'[c] # "none"
    BY <1>1, <2>1 DEF OrderInv
  <2> QED
    BY <1>1, <2>2, <2>4, <2>5, <2>6, <2>7 DEF OrderInv
<1>5. CASE Enqueue(r)
  <2>1. UNCHANGED <<status, target>> /\ req'[r].pc = "idle"
    BY <1>5 DEF Enqueue
  <2> QED
    BY <1>1, <2>1 DEF OrderInv
<1> QED
  BY <1>2, <1>3, <1>4, <1>5 DEF CalmRequest, BeginWebhook, BeginRollback

\* Every step keeps OrderInv.
LEMMA OrderStep ==
  ASSUME Kinds = {"manual"}, \A r, s \in Requests : r = s,
         TypeOK, QueueInv, SettledInv, LockNamesHolder, OrderInv, [Next]_vars
  PROVE  OrderInv'
<1> SUFFICES ASSUME faults' = 0 PROVE OrderInv'
  BY DEF OrderInv
<1>1. faults = 0 /\ CalmStep
  BY CalmSteps DEF SettledInv
<1> USE DEF OrderFrame, OrderInv, TypeOK, Goto, dbVars, historyVars
<1>2. ASSUME NEW d \in Deployments, Dequeue(d) PROVE OrderFrame
  BY <1>1, <1>2 DEF Dequeue, IsRollback, QueueInv, Working, Inside
<1>3. ASSUME NEW d \in Deployments, ContainerExit(d) PROVE OrderFrame
  BY <1>3 DEF ContainerExit
<1>4. ASSUME NEW p \in Projects, Expire(p) PROVE OrderFrame
  BY <1>4 DEF Expire
<1>5. ASSUME UNCHANGED vars PROVE OrderFrame
  BY <1>5 DEF vars
<1> HIDE DEF OrderFrame, OrderInv
<1> QED
  BY <1>1, <1>2, <1>3, <1>4, <1>5, HandlerOrderFrame, OrderFrameKeeps, RequestOrderStep DEF CalmStep

\* A deployment goes live only while its handler is at work on the project, and then no
\* newer one has gone live.
LEMMA NewestStep ==
  ASSUME TypeOK, OrderInv, [Next]_vars, NEW d \in Deployments,
         promoted' \ promoted = {d}, faults = 0, ~lockLost[ProjectOf[d]],
         NEW e \in promoted, ProjectOf[e] = ProjectOf[d]
  PROVE  e < d
<1>1. pc[d] = "promote"
  <2>1. PICK c \in Deployments : Promote(c)
    <3> SUFFICES ASSUME \A c \in Deployments : ~Promote(c) PROVE promoted' = promoted
      OBVIOUS
    <3> USE DEF historyVars
    <3>1. ASSUME NEW r \in Requests, Request(r) PROVE promoted' = promoted
      BY <3>1 DEF Request, BeginDeploy, BeginWebhook, BeginRollback, Supersede, SupersedeError, Create, Enqueue, Abandon
    <3>2. ASSUME NEW c \in Deployments, Handler(c) PROVE promoted' = promoted
      BY <3>2 DEF Handler, AcquireLock, DeployRefused, FastPath, DeployCapacity, SetCloning, Clone, BuildImage, SetRunning,
                  SetRollbackRunning, RollbackCapacity, RollbackRefused, FailRefused, RunContainer, Probe, SafetyNet, ListLive,
                  StopOld, RemoveOld, StopOldRow, MarkFailed, Return
    <3>3. ASSUME NEW c \in Deployments, Dequeue(c) \/ Recover(c) \/ WriteError(c) \/ ReadError(c) \/ DockerError(c)
                                          \/ IgnoredError(c) \/ ContainerExit(c)
          PROVE  promoted' = promoted
      BY <3>3 DEF Dequeue, Recover, WriteError, ReadError, DockerError, IgnoredError, ContainerExit
    <3>4. ASSUME NEW p \in Projects, Expire(p) PROVE promoted' = promoted
      BY <3>4 DEF Expire
    <3>5. CASE Reaper \/ ReapError \/ Crash \/ Terminated \/ UNCHANGED vars
      BY <3>5 DEF Reaper, ReapList, ReapMark, ReapRelease, ReapError, Crash, Terminated, vars
    <3> QED
      BY <3>1, <3>2, <3>3, <3>4, <3>5 DEF Next, Step
  <2>2. c = d
    BY <2>1 DEF Promote
  <2> QED
    BY <2>1, <2>2 DEF Promote
<1>2. e # d /\ e \in Deployments
  BY DEF TypeOK
<1>3. ~(d < e)
  BY <1>1, <1>2 DEF OrderInv, Working, Inside
<1> QED
  BY <1>2, <1>3, PipelineAssumption DEF PipelineAssumption, Deployments

\* For every number of deployments and projects: with manual triggers made one after the
\* other, as long as nothing fails and the lock holds, no deployment takes over from one
\* that was inserted after it.
THEOREM NewestWinsHolds ==
  ASSUME Kinds = {"manual"}, \A r, s \in Requests : r = s
  PROVE  Spec => NewestWins
<1>1. Init => OrderInv
  BY DEF Init, OrderInv, Active, IdleRequest
<1>2. TypeOK /\ QueueInv /\ SettledInv /\ LockNamesHolder /\ OrderInv /\ [Next]_vars => OrderInv'
  BY OrderStep
<1>3. TypeOK /\ OrderInv /\ [Next]_vars
        => [\A d \in Deployments :
              (promoted' \ promoted = {d} /\ faults = 0 /\ ~lockLost[ProjectOf[d]])
                => \A e \in promoted : ProjectOf[e] = ProjectOf[d] => e < d]_vars
  BY NewestStep
<1>4. SafetyInv => LockNamesHolder
  BY DEF SafetyInv
<1> QED
  BY <1>1, <1>2, <1>3, <1>4, TypeCorrect, QueueInvHolds, SettledInvHolds, SafetyInvHolds, PTL DEF Spec, NewestWins

=============================================================================
