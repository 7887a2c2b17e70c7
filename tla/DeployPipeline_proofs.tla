------------------------ MODULE DeployPipeline_proofs ------------------------
(***************************************************************************)
(* Theorems about DeployPipeline, for every number of deployments,         *)
(* projects, requests, worker slots, retries and faults.                   *)
(***************************************************************************)
EXTENDS DeployPipeline, TLAPS

-----------------------------------------------------------------------------
(* Types.                                                                  *)

\* Every variable starts in its type.
LEMMA InitType == Init => TypeOK
  BY PipelineAssumption DEF PipelineAssumption, Init, TypeOK, Labels, Statuses, Inside, Outside, IdleRequest

\* A fault stays within its bound.
LEMMA FaultType ==
  ASSUME faults \in 0..MaxFaults, Fault
  PROVE  faults' \in 0..MaxFaults
  BY PipelineAssumption DEF PipelineAssumption, Fault, CanFail

\* What asynq does with a failed task keeps the types of the queue.
LEMMA RetryType ==
  ASSUME NEW d \in Deployments, Retry(d),
         task \in [Deployments -> {"none", "queued", "active", "done", "archived"}],
         retried \in [Deployments -> 0..MaxRetry]
  PROVE  /\ task' \in [Deployments -> {"none", "queued", "active", "done", "archived"}]
         /\ retried' \in [Deployments -> 0..MaxRetry]
<1> USE PipelineAssumption DEF PipelineAssumption, Retry
<1>1. CASE retried[d] < MaxRetry
  BY <1>1
<1>2. CASE ~(retried[d] < MaxRetry)
  BY <1>2
<1> QED
  BY <1>1, <1>2

\* A step of an API request keeps the types.
LEMMA RequestType ==
  ASSUME TypeOK, NEW r \in Requests, Request(r)
  PROVE  TypeOK'
<1> USE PipelineAssumption DEF PipelineAssumption, TypeOK, Statuses, dbVars, queueVars, dockerVars, reapVars,
      historyVars, Superseding, Enqueueing, IdleRequest, RowsOf, Exists
<1>1. ASSUME NEW p \in Projects, BeginDeploy(r, p) PROVE TypeOK'
  BY <1>1 DEF BeginDeploy
<1>2. ASSUME NEW p \in Projects, BeginWebhook(r, p) PROVE TypeOK'
  BY <1>2 DEF BeginWebhook
<1>3. ASSUME NEW t \in Deployments, BeginRollback(r, t) PROVE TypeOK'
  BY <1>3 DEF BeginRollback
<1>4. CASE Supersede(r)
  <2>1. PICK d \in req[r].todo :
          /\ UpdateStatus(d, "failed")
          /\ superseded' = superseded \union {d}
          /\ req' = [req EXCEPT ![r].todo = @ \ {d}]
    BY <1>4 DEF Supersede
  <2>2. req[r] \in Superseding
    BY <1>4 DEF Supersede
  <2>3. [req[r] EXCEPT !.todo = @ \ {d}] \in Superseding
    BY <2>2
  <2>4. req' = [req EXCEPT ![r] = [req[r] EXCEPT !.todo = @ \ {d}]]
    BY <2>1
  <2>5. req' \in [Requests -> {IdleRequest} \union Superseding \union Enqueueing]
    BY <2>3, <2>4
  <2>6. d \in Deployments
    BY <2>1, <2>2
  <2>7. status' \in [Deployments -> Statuses \union {"none", "deleted"}] /\ superseded' \in SUBSET Deployments
    BY <2>1, <2>6 DEF UpdateStatus
  <2> QED
    BY <1>4, <2>5, <2>7 DEF Supersede
<1>5. ASSUME NEW d \in Deployments, Create(r, d) PROVE TypeOK'
  BY <1>5 DEF Create
<1>6. CASE Enqueue(r)
  BY <1>6 DEF Enqueue
<1>7. CASE Abandon(r)
  BY <1>7, FaultType DEF Abandon
<1>8. CASE SupersedeError(r)
  <2>1. PICK rest \in SUBSET req[r].todo : req' = [req EXCEPT ![r].todo = rest]
    BY <1>8 DEF SupersedeError
  <2>2. req[r] \in Superseding /\ faults' \in 0..MaxFaults
    BY <1>8, FaultType DEF SupersedeError
  <2>3. [req[r] EXCEPT !.todo = rest] \in Superseding
    BY <2>1, <2>2
  <2>4. req' = [req EXCEPT ![r] = [req[r] EXCEPT !.todo = rest]]
    BY <2>1
  <2>5. req' \in [Requests -> {IdleRequest} \union Superseding \union Enqueueing]
    BY <2>3, <2>4
  <2> QED
    BY <1>8, <2>2, <2>5 DEF SupersedeError
<1> QED
  BY <1>1, <1>2, <1>3, <1>4, <1>5, <1>6, <1>7, <1>8 DEF Request

\* A step of a handler keeps the types.
LEMMA HandlerType ==
  ASSUME TypeOK, NEW d \in Deployments, Handler(d)
  PROVE  TypeOK'
<1> USE PipelineAssumption DEF PipelineAssumption, TypeOK, Statuses, Labels, Inside, Outside, dbVars, queueVars,
      dockerVars, reapVars, historyVars, Goto, UpdateStatus
<1>1. CASE AcquireLock(d)
  BY <1>1 DEF AcquireLock
<1>2. CASE DeployRefused(d)
  BY <1>2, RetryType DEF DeployRefused
<1>3. CASE FastPath(d)
  BY <1>3 DEF FastPath
<1>4. CASE DeployCapacity(d)
  BY <1>4 DEF DeployCapacity
<1>5. CASE SetCloning(d)
  BY <1>5 DEF SetCloning
<1>6. CASE Clone(d)
  <2>1. CASE UpdateStatus(d, "building") /\ Goto(d, "build")
    BY <1>6, <2>1 DEF Clone
  <2>2. CASE UNCHANGED status /\ Goto(d, "markFailed")
    BY <1>6, <2>2 DEF Clone
  <2> QED
    BY <1>6, <2>1, <2>2 DEF Clone
<1>7. CASE BuildImage(d)
  BY <1>7 DEF BuildImage, RemoveBuiltImage
<1>8. CASE SetRunning(d)
  BY <1>8 DEF SetRunning
<1>9. CASE SetRollbackRunning(d)
  BY <1>9 DEF SetRollbackRunning
<1>10. CASE RollbackCapacity(d)
  BY <1>10 DEF RollbackCapacity
<1>11. CASE RollbackRefused(d)
  BY <1>11 DEF RollbackRefused
<1>12. CASE FailRefused(d)
  BY <1>12, RetryType DEF FailRefused
<1>13. CASE RunContainer(d)
  <2>1. container' \in [Deployments -> {"none", "created", "running", "exited"}]
    BY <1>13 DEF RunContainer
  <2>2. images' \in SUBSET Deployments
    BY <1>13 DEF RunContainer, RemoveBuiltImage
  <2>3. pc' \in [Deployments -> Labels]
    BY <1>13 DEF RunContainer
  <2> QED
    BY <1>13, <2>1, <2>2, <2>3 DEF RunContainer
<1>14. CASE Probe(d)
  <2>1. container' \in [Deployments -> {"none", "created", "running", "exited"}]
    BY <1>14 DEF Probe, RemoveContainer
  <2>2. images' \in SUBSET Deployments
    BY <1>14 DEF Probe, RemoveBuiltImage
  <2>3. pc' \in [Deployments -> Labels]
    BY <1>14 DEF Probe
  <2> QED
    BY <1>14, <2>1, <2>2, <2>3 DEF Probe
<1>15. CASE SafetyNet(d)
  <2>1. CASE status[d] = "failed"
    BY <1>15, <2>1 DEF SafetyNet, RemoveBuiltImage, RemoveContainer
  <2>2. CASE status[d] # "failed"
    BY <1>15, <2>2 DEF SafetyNet
  <2> QED
    BY <2>1, <2>2
<1>16. CASE ListLive(d)
  BY <1>16 DEF ListLive, RowsOf, Exists
<1>17. CASE StopOld(d)
  BY <1>17 DEF StopOld, StopContainer
<1>22. CASE RemoveOld(d)
  BY <1>22 DEF RemoveOld, RemoveContainer
<1>18. CASE StopOldRow(d)
  BY <1>18 DEF StopOldRow, DoneWith
<1>19. CASE Promote(d)
  <2>1. CASE d \in unread \/ status[d] = "deleted"
    BY <1>19, <2>1 DEF Promote
  <2>2. CASE ~(d \in unread \/ status[d] = "deleted")
    <3>1. Image(d) \in Deployments
      BY DEF Image, IsRollback
    <3>2. /\ status' = [status EXCEPT ![d] = "live"]
          /\ dockerImage' = [dockerImage EXCEPT ![d] = Image(d)]
          /\ containerId' = [containerId EXCEPT ![d] = TRUE]
          /\ promoted' = promoted \union {d}
      BY <1>19, <2>2 DEF Promote
    <3>3. pc' \in [Deployments -> Labels] /\ unread' \in SUBSET Deployments
      BY <1>19 DEF Promote
    <3>4. UNCHANGED <<target, task, retried, old, lock, container, images, req, reapPc, reapTodo, faults,
                      lockLost, listLost, superseded>>
      BY <1>19 DEF Promote
    <3> QED
      BY <3>1, <3>2, <3>3, <3>4
  <2> QED
    BY <2>1, <2>2
<1>20. CASE MarkFailed(d)
  BY <1>20 DEF MarkFailed
<1>21. CASE Return(d)
  <2>1. /\ task' \in [Deployments -> {"none", "queued", "active", "done", "archived"}]
        /\ retried' \in [Deployments -> 0..MaxRetry]
    BY <1>21, RetryType DEF Return, Acknowledge
  <2> QED
    BY <1>21, <2>1 DEF Return, Acknowledge
<1> QED
  BY <1>1, <1>2, <1>3, <1>4, <1>5, <1>6, <1>7, <1>8, <1>9, <1>10, <1>11, <1>12, <1>13, <1>14, <1>15, <1>16, <1>17, <1>18, <1>19, <1>20, <1>21, <1>22 DEF Handler

\* Every other step keeps the types too.
LEMMA NextType == TypeOK /\ [Next]_vars => TypeOK'
<1> SUFFICES ASSUME TypeOK, [Next]_vars PROVE TypeOK'
  OBVIOUS
<1> USE PipelineAssumption DEF PipelineAssumption, TypeOK, Statuses, Labels, Inside, Outside, dbVars, queueVars,
      dockerVars, reapVars, historyVars, Goto, UpdateStatus
<1>1. ASSUME NEW r \in Requests, Request(r) PROVE TypeOK'
  BY <1>1, RequestType
<1>2. ASSUME NEW d \in Deployments, Handler(d) PROVE TypeOK'
  BY <1>2, HandlerType
<1>3. ASSUME NEW d \in Deployments, Dequeue(d) PROVE TypeOK'
  BY <1>3 DEF Dequeue
<1>4. ASSUME NEW d \in Deployments, Recover(d) PROVE TypeOK'
  BY <1>4, RetryType DEF Recover
<1>5. ASSUME NEW d \in Deployments, WriteError(d) PROVE TypeOK'
  <2>1. faults' \in 0..MaxFaults
    BY <1>5, FaultType DEF WriteError
  <2>2. /\ task' \in [Deployments -> {"none", "queued", "active", "done", "archived"}]
        /\ retried' \in [Deployments -> 0..MaxRetry]
    BY <1>5, RetryType DEF WriteError
  <2>3. images' \in SUBSET Deployments
    BY <1>5 DEF WriteError, RemoveBuiltImage
  <2>4. pc' \in [Deployments -> Labels] /\ unread' \in SUBSET Deployments
    BY <1>5 DEF WriteError
  <2> QED
    BY <1>5, <2>1, <2>2, <2>3, <2>4 DEF WriteError
<1>6. ASSUME NEW d \in Deployments, ReadError(d) PROVE TypeOK'
  <2>1. faults' \in 0..MaxFaults
    BY <1>6, FaultType DEF ReadError
  <2>2. pc' \in [Deployments -> Labels]
    BY <1>6 DEF ReadError
  <2>3. listLost' \in [Projects -> BOOLEAN]
    BY <1>6 DEF ReadError
  <2>4. unread' \in SUBSET Deployments
    BY <1>6 DEF ReadError
  <2> QED
    BY <1>6, <2>1, <2>2, <2>3, <2>4 DEF ReadError
<1>14. ASSUME NEW d \in Deployments, DockerError(d) PROVE TypeOK'
  <2>1. faults' \in 0..MaxFaults
    BY <1>14, FaultType DEF DockerError
  <2>2. pc' \in [Deployments -> Labels]
    BY <1>14 DEF DockerError
  <2> QED
    BY <1>14, <2>1, <2>2 DEF DockerError
<1>15. ASSUME NEW d \in Deployments, IgnoredError(d) PROVE TypeOK'
  <2>1. faults' \in 0..MaxFaults
    BY <1>15, FaultType DEF IgnoredError
  <2>2. CASE Acknowledge(d) /\ UNCHANGED <<old, listLost>>
    <3>1. /\ task' \in [Deployments -> {"none", "queued", "active", "done", "archived"}]
          /\ retried' \in [Deployments -> 0..MaxRetry]
          /\ pc' \in [Deployments -> Labels]
      BY <2>2, RetryType DEF Acknowledge
    <3> QED
      BY <1>15, <2>1, <2>2, <3>1 DEF IgnoredError
  <2>3. CASE ~(Acknowledge(d) /\ UNCHANGED <<old, listLost>>)
    <3>1. PICK e \in old[d] : DoneWith(d, e)
      BY <1>15, <2>3 DEF IgnoredError
    <3>2. old' \in [Deployments -> SUBSET Deployments] /\ pc' \in [Deployments -> Labels]
      BY <3>1 DEF DoneWith
    <3>3. listLost' \in [Projects -> BOOLEAN] /\ UNCHANGED queueVars
      BY <1>15, <2>3 DEF IgnoredError
    <3> QED
      BY <1>15, <2>1, <3>2, <3>3 DEF IgnoredError
  <2> QED
    BY <2>2, <2>3
<1>16. CASE ReapError
  BY <1>16, FaultType DEF ReapError
<1>7. ASSUME NEW d \in Deployments, ContainerExit(d) PROVE TypeOK'
  BY <1>7 DEF ContainerExit
<1>8. ASSUME NEW p \in Projects, Expire(p) PROVE TypeOK'
  BY <1>8 DEF Expire
<1>9. CASE ReapList
  BY <1>9 DEF ReapList
<1>10. CASE ReapMark
  BY <1>10 DEF ReapMark
<1>11. CASE ReapRelease
  BY <1>11 DEF ReapRelease
<1>12. CASE Crash
  BY <1>12 DEF Crash, Fault, CanFail
<1>13. CASE Terminated \/ UNCHANGED vars
  BY <1>13 DEF Terminated, vars
<1> QED
  BY <1>1, <1>2, <1>3, <1>4, <1>5, <1>6, <1>7, <1>8, <1>9, <1>10, <1>11, <1>12, <1>13, <1>14, <1>15, <1>16 DEF Next, Step, Reaper

\* TypeOK is an invariant: the program keeps every variable in its type.
THEOREM TypeCorrect == Spec => []TypeOK
  BY InitType, NextType, PTL DEF Spec

-----------------------------------------------------------------------------
(* The lock.                                                               *)

\* A key without a value names no deployment.
LEMMA NoDepIsNone == NoDep \notin Deployments
  BY PipelineAssumption DEF PipelineAssumption, NoDep, Deployments

\* A step that leaves the lock alone and takes no handler inside keeps LockNamesHolder.
LockFrame ==
  /\ UNCHANGED <<lock, lockLost>>
  /\ \A d \in Deployments : pc'[d] \in Inside => pc[d] \in Inside

LEMMA LockFrameKeeps == LockNamesHolder /\ LockFrame => LockNamesHolder'
  BY DEF LockNamesHolder, LockFrame

\* The handler steps that neither take nor release the lock.
LEMMA HandlerLockFrame ==
  ASSUME TypeOK, NEW d \in Deployments, Handler(d), ~AcquireLock(d), ~Return(d)
  PROVE  LockFrame
<1> USE DEF LockFrame, TypeOK, Inside, Goto, historyVars
<1>1. CASE DeployRefused(d)
  BY <1>1 DEF DeployRefused
<1>2. CASE FastPath(d)
  BY <1>2 DEF FastPath
<1>3. CASE DeployCapacity(d)
  BY <1>3 DEF DeployCapacity
<1>4. CASE SetCloning(d)
  BY <1>4 DEF SetCloning
<1>5. CASE Clone(d)
  BY <1>5 DEF Clone
<1>6. CASE BuildImage(d)
  BY <1>6 DEF BuildImage
<1>7. CASE SetRunning(d)
  BY <1>7 DEF SetRunning
<1>8. CASE SetRollbackRunning(d)
  BY <1>8 DEF SetRollbackRunning
<1>9. CASE RollbackCapacity(d)
  BY <1>9 DEF RollbackCapacity
<1>10. CASE RollbackRefused(d)
  BY <1>10 DEF RollbackRefused
<1>11. CASE FailRefused(d)
  BY <1>11 DEF FailRefused
<1>12. CASE RunContainer(d)
  BY <1>12 DEF RunContainer
<1>13. CASE Probe(d)
  BY <1>13 DEF Probe
<1>14. CASE SafetyNet(d)
  BY <1>14 DEF SafetyNet
<1>15. CASE ListLive(d)
  BY <1>15 DEF ListLive
<1>16. CASE StopOld(d)
  BY <1>16 DEF StopOld
<1>17. CASE StopOldRow(d)
  BY <1>17 DEF StopOldRow, DoneWith
<1>18. CASE Promote(d)
  BY <1>18 DEF Promote
<1>19. CASE MarkFailed(d)
  BY <1>19 DEF MarkFailed
<1>20. CASE RemoveOld(d)
  BY <1>20 DEF RemoveOld
<1> QED
  BY <1>1, <1>2, <1>3, <1>4, <1>5, <1>6, <1>7, <1>8, <1>9, <1>10, <1>11, <1>12, <1>13, <1>14, <1>15, <1>16, <1>17, <1>18, <1>19, <1>20 DEF Handler

\* Every step keeps LockNamesHolder: SetNX succeeds only on a free key, and whatever
\* else removes a key that somebody inside relies on is recorded in lockLost.
LEMMA LockStep == TypeOK /\ LockNamesHolder /\ [Next]_vars => LockNamesHolder'
<1> SUFFICES ASSUME TypeOK, LockNamesHolder, [Next]_vars PROVE LockNamesHolder'
  OBVIOUS
<1>1. ASSUME NEW r \in Requests, Request(r) PROVE LockFrame
  BY <1>1 DEF LockFrame, Request, BeginDeploy, BeginRollback, BeginWebhook, Supersede, SupersedeError, Create,
              Enqueue, Abandon, historyVars
<1>2. ASSUME NEW d \in Deployments, AcquireLock(d) PROVE LockNamesHolder'
  <2>1. /\ lock[ProjectOf[d]] = NoDep
        /\ lock' = [lock EXCEPT ![ProjectOf[d]] = d]
        /\ lockLost' = lockLost
    BY <1>2 DEF AcquireLock, historyVars
  <2>2. \A e \in Deployments \ {d} : pc'[e] = pc[e]
    BY <1>2 DEF AcquireLock, Goto, TypeOK
  <2>3. ASSUME NEW e \in Deployments, pc'[e] \in Inside, ~lockLost'[ProjectOf[e]]
        PROVE  lock'[ProjectOf[e]] = e
    <3>1. CASE e = d
      BY <2>1, <3>1, PipelineAssumption DEF TypeOK, PipelineAssumption
    <3>2. CASE e # d
      <4>1. lock[ProjectOf[e]] = e
        BY <2>1, <2>2, <2>3, <3>2 DEF LockNamesHolder
      <4> QED
        BY <2>1, <4>1, NoDepIsNone, PipelineAssumption DEF TypeOK, PipelineAssumption
    <3> QED
      BY <3>1, <3>2
  <2> QED
    BY <2>3 DEF LockNamesHolder
<1>3. ASSUME NEW d \in Deployments, Return(d) PROVE LockNamesHolder'
  <2>1. /\ pc[d] \in Inside
        /\ pc' = [pc EXCEPT ![d] = "idle"]
        /\ lock' = [lock EXCEPT ![ProjectOf[d]] = NoDep]
        /\ lockLost' = lockLost
    BY <1>3 DEF Return, Acknowledge, Inside, Goto, historyVars
  <2>2. ASSUME NEW e \in Deployments, pc'[e] \in Inside, ~lockLost'[ProjectOf[e]]
        PROVE  lock'[ProjectOf[e]] = e
    <3>1. e # d /\ pc[e] \in Inside
      BY <2>1, <2>2 DEF TypeOK, Inside
    <3>2. lock[ProjectOf[e]] = e
      BY <2>1, <2>2, <3>1 DEF LockNamesHolder
    <3>3. ProjectOf[e] # ProjectOf[d]
      BY <2>1, <2>2, <3>1, <3>2 DEF LockNamesHolder
    <3> QED
      BY <2>1, <3>2, <3>3, PipelineAssumption DEF TypeOK, PipelineAssumption
  <2> QED
    BY <2>2 DEF LockNamesHolder
<1>4. ASSUME NEW d \in Deployments, Handler(d), ~AcquireLock(d), ~Return(d) PROVE LockFrame
  BY <1>4, HandlerLockFrame
<1>5. ASSUME NEW d \in Deployments,
             \/ Dequeue(d) \/ Recover(d) \/ ContainerExit(d)
             \/ WriteError(d) \/ ReadError(d) \/ DockerError(d) \/ IgnoredError(d)
      PROVE  LockFrame
  <2> USE DEF LockFrame, TypeOK, Inside, Goto, historyVars
  <2>1. CASE Dequeue(d) \/ Recover(d) \/ ContainerExit(d)
    BY <2>1 DEF Dequeue, Recover, ContainerExit
  <2>2. CASE WriteError(d)
    BY <2>2 DEF WriteError
  <2>3. CASE ReadError(d)
    BY <2>3 DEF ReadError
  <2>4. CASE DockerError(d)
    BY <2>4 DEF DockerError
  <2>5. CASE IgnoredError(d)
    BY <2>5 DEF IgnoredError, Acknowledge, DoneWith
  <2> QED
    BY <1>5, <2>1, <2>2, <2>3, <2>4, <2>5
<1>6. ASSUME NEW p \in Projects, Expire(p) PROVE LockNamesHolder'
  BY <1>6, PipelineAssumption DEF Expire, LockNamesHolder, TypeOK, InsideOf, PipelineAssumption
<1>7. CASE ReapRelease
  <2>1. PICK d \in reapTodo :
          /\ lock' = [lock EXCEPT ![ProjectOf[d]] = NoDep]
          /\ lockLost' = [lockLost EXCEPT ![ProjectOf[d]] = @ \/ InsideOf(ProjectOf[d]) # {}]
    BY <1>7 DEF ReapRelease
  <2>2. pc' = pc
    BY <1>7 DEF ReapRelease
  <2>3. ASSUME NEW e \in Deployments, pc'[e] \in Inside, ~lockLost'[ProjectOf[e]]
        PROVE  lock'[ProjectOf[e]] = e
    <3>1. CASE ProjectOf[e] = ProjectOf[d]
      BY <2>1, <2>2, <2>3, <3>1, PipelineAssumption DEF TypeOK, InsideOf, PipelineAssumption
    <3>2. CASE ProjectOf[e] # ProjectOf[d]
      BY <2>1, <2>2, <2>3, <3>2, PipelineAssumption DEF TypeOK, LockNamesHolder, PipelineAssumption
    <3> QED
      BY <3>1, <3>2
  <2> QED
    BY <2>3 DEF LockNamesHolder
<1>8. CASE ReapList \/ ReapMark \/ ReapError \/ Terminated \/ UNCHANGED vars
  BY <1>8, LockFrameKeeps DEF LockFrame, ReapList, ReapMark, ReapError, Terminated, vars, historyVars
<1>9. CASE Crash
  BY <1>9, LockFrameKeeps DEF LockFrame, Crash, Inside, historyVars
<1> QED
  BY <1>1, <1>2, <1>3, <1>4, <1>5, <1>6, <1>7, <1>8, <1>9, LockFrameKeeps DEF Next, Step, Reaper

\* For every number of deployments, slots and faults: at most one handler of a project
\* is between SetNX and Del, until a TTL or the reaper takes the lock away from it.
THEOREM MutualExclusionHolds == Spec => []MutualExclusion
<1>1. Init => LockNamesHolder
  BY DEF Init, LockNamesHolder, Inside
<1>2. LockNamesHolder => MutualExclusion
  BY DEF LockNamesHolder, MutualExclusion
<1> QED
  BY <1>1, <1>2, LockStep, TypeCorrect, PTL DEF Spec


-----------------------------------------------------------------------------
(* The switch to the new deployment.                                       *)

Switching == {"stop", "remove", "stopRow", "promote"}

\* A step that makes no row live, takes no handler into its switch or to the end of it,
\* and finds no lost lock again, keeps SwitchSeesLive and OneLive.
SwitchFrame ==
  /\ \A p \in Projects : (lockLost[p] => lockLost'[p]) /\ (listLost[p] => listLost'[p])
  /\ \A d \in Deployments : status'[d] = "live" => status[d] = "live"
  /\ \A d \in Deployments :
       pc'[d] \in Switching => /\ pc[d] \in Switching
                               /\ pc'[d] = "promote" => pc[d] = "promote"
                               /\ old'[d] = old[d]

LEMMA SwitchFrameKeeps ==
  SwitchSeesLive /\ OneLive /\ SwitchFrame => SwitchSeesLive' /\ OneLive'
<1> SUFFICES ASSUME SwitchSeesLive, OneLive, SwitchFrame PROVE SwitchSeesLive' /\ OneLive'
  OBVIOUS
<1> USE PipelineAssumption DEF PipelineAssumption, SwitchFrame
<1>1. SwitchSeesLive'
  BY DEF SwitchSeesLive, Switching
<1>2. OneLive'
  BY DEF OneLive
<1> QED
  BY <1>1, <1>2

\* The handler steps that retire no row and make none live.
LEMMA HandlerSwitchFrame ==
  ASSUME TypeOK, NEW d \in Deployments, Handler(d),
         ~ListLive(d), ~StopOldRow(d), ~Promote(d)
  PROVE  SwitchFrame
<1> USE DEF SwitchFrame, Switching, TypeOK, Goto, dbVars, historyVars, UpdateStatus
<1>1. CASE AcquireLock(d)
  BY <1>1 DEF AcquireLock
<1>2. CASE DeployRefused(d)
  BY <1>2 DEF DeployRefused
<1>3. CASE FastPath(d)
  BY <1>3 DEF FastPath
<1>4. CASE DeployCapacity(d)
  BY <1>4 DEF DeployCapacity
<1>5. CASE SetCloning(d)
  BY <1>5 DEF SetCloning
<1>6. CASE Clone(d)
  BY <1>6 DEF Clone
<1>7. CASE BuildImage(d)
  BY <1>7 DEF BuildImage
<1>8. CASE SetRunning(d)
  BY <1>8 DEF SetRunning
<1>9. CASE SetRollbackRunning(d)
  BY <1>9 DEF SetRollbackRunning
<1>10. CASE RollbackCapacity(d)
  BY <1>10 DEF RollbackCapacity
<1>11. CASE RollbackRefused(d)
  BY <1>11 DEF RollbackRefused
<1>12. CASE FailRefused(d)
  BY <1>12 DEF FailRefused
<1>13. CASE RunContainer(d)
  BY <1>13 DEF RunContainer
<1>14. CASE Probe(d)
  BY <1>14 DEF Probe
<1>15. CASE SafetyNet(d)
  BY <1>15 DEF SafetyNet
<1>16. CASE MarkFailed(d)
  BY <1>16 DEF MarkFailed
<1>17. CASE Return(d)
  BY <1>17 DEF Return, Acknowledge
<1>18. CASE StopOld(d) \/ RemoveOld(d)
  BY <1>18 DEF StopOld, RemoveOld
<1> QED
  BY <1>1, <1>2, <1>3, <1>4, <1>5, <1>6, <1>7, <1>8, <1>9, <1>10, <1>11, <1>12, <1>13, <1>14, <1>15, <1>16, <1>17, <1>18 DEF Handler

\* The steps of the switch: every live row is in the list, each turn of the loop
\* settles the row it takes out, and only then the deployment goes live itself.
LEMMA SwitchStep ==
  ASSUME TypeOK, LockNamesHolder, SwitchSeesLive, OneLive, NEW d \in Deployments,
         ListLive(d) \/ StopOldRow(d) \/ Promote(d)
  PROVE  SwitchSeesLive' /\ OneLive'
<1>1. CASE ListLive(d)
  <2>1. /\ status' = status /\ lockLost' = lockLost /\ listLost' = listLost
        /\ \A e \in Deployments \ {d} : pc'[e] = pc[e] /\ old'[e] = old[e]
    BY <1>1 DEF ListLive, Goto, TypeOK, dbVars, historyVars
  <2>2. /\ old'[d] = {e \in RowsOf(ProjectOf[d]) \ {d} : status[e] = "live"}
        /\ pc'[d] = "promote" => old'[d] = {}
    BY <1>1 DEF ListLive, Goto, TypeOK
  <2>3. OneLive'
    BY <2>1 DEF OneLive
  <2>4. SwitchSeesLive'
    BY <2>1, <2>2 DEF SwitchSeesLive, RowsOf, Exists
  <2> QED
    BY <2>3, <2>4
<1>3. CASE StopOldRow(d)
  <2>1. PICK o \in old[d] : UpdateStatus(o, "stopped") /\ old' = [old EXCEPT ![d] = @ \ {o}]
    BY <1>3 DEF StopOldRow, DoneWith
  <2>2. /\ lockLost' = lockLost /\ listLost' = listLost /\ pc[d] = "stopRow"
        /\ \A e \in Deployments \ {d} : pc'[e] = pc[e] /\ old'[e] = old[e]
        /\ old'[d] = old[d] \ {o}
        /\ pc'[d] = "promote" => old'[d] = {}
    BY <1>3, <2>1 DEF StopOldRow, DoneWith, Goto, TypeOK, historyVars
  <2>3. \A e \in Deployments : status'[e] = "live" => status[e] = "live" /\ e # o
    BY <2>1 DEF UpdateStatus, TypeOK
  <2>4. OneLive'
    BY <2>2, <2>3 DEF OneLive
  <2>5. SwitchSeesLive'
    BY <2>2, <2>3 DEF SwitchSeesLive
  <2> QED
    BY <2>4, <2>5
<1>4. CASE Promote(d)
  <2>1. /\ lockLost' = lockLost /\ listLost' = listLost /\ old' = old
        /\ pc[d] = "promote"
        /\ pc' = [pc EXCEPT ![d] = IF d \in unread THEN "returnErr" ELSE "returnOk"]
    BY <1>4 DEF Promote, Goto
  <2>2. \A e \in Deployments \ {d} : status'[e] = status[e]
    BY <1>4 DEF Promote, TypeOK, dbVars
  <2>3. OneLive'
    BY <2>1, <2>2 DEF OneLive, SwitchSeesLive
  <2>4. ASSUME NEW e \in Deployments, e # d, ProjectOf[e] = ProjectOf[d], ~lockLost[ProjectOf[d]]
        PROVE  pc[e] \notin Switching
    BY <2>1, <2>4 DEF LockNamesHolder, Inside, Switching
  <2>5. SwitchSeesLive'
    BY <2>1, <2>2, <2>4 DEF SwitchSeesLive, Switching, TypeOK
  <2> QED
    BY <2>3, <2>5
<1> QED
  BY <1>1, <1>3, <1>4

\* The inductive invariant: every step keeps all its parts.
LEMMA SafetyStep == SafetyInv /\ [Next]_vars => SafetyInv'
<1> SUFFICES ASSUME SafetyInv, [Next]_vars PROVE SwitchSeesLive' /\ OneLive'
  BY NextType, LockStep DEF SafetyInv
<1> USE DEF SafetyInv
<1>1. ASSUME NEW r \in Requests, Request(r) PROVE SwitchFrame
  <2> USE DEF SwitchFrame, TypeOK, historyVars, dbVars
  <2>1. CASE Supersede(r)
    BY <2>1 DEF Supersede, UpdateStatus
  <2>2. ASSUME NEW d \in Deployments, Create(r, d) PROVE SwitchFrame
    BY <2>2 DEF Create
  <2>3. CASE Enqueue(r) \/ Abandon(r) \/ SupersedeError(r)
    BY <2>3 DEF Enqueue, Abandon, SupersedeError
  <2>4. ASSUME NEW p \in Projects, BeginDeploy(r, p) \/ BeginWebhook(r, p) PROVE SwitchFrame
    BY <2>4 DEF BeginDeploy, BeginWebhook
  <2>5. ASSUME NEW t \in Deployments, BeginRollback(r, t) PROVE SwitchFrame
    BY <2>5 DEF BeginRollback
  <2> QED
    BY <1>1, <2>1, <2>2, <2>3, <2>4, <2>5 DEF Request
<1>2. ASSUME NEW d \in Deployments, Handler(d) PROVE SwitchSeesLive' /\ OneLive'
  BY <1>2, SwitchStep, HandlerSwitchFrame, SwitchFrameKeeps
<1>3. ASSUME NEW d \in Deployments,
             Dequeue(d) \/ Recover(d) \/ ContainerExit(d) \/ WriteError(d) \/ DockerError(d)
      PROVE  SwitchFrame
  <2> USE DEF SwitchFrame, Switching, TypeOK, Goto, historyVars, dbVars
  <2>1. CASE Dequeue(d) \/ Recover(d) \/ ContainerExit(d)
    BY <2>1 DEF Dequeue, Recover, ContainerExit
  <2>2. CASE WriteError(d)
    BY <2>2 DEF WriteError
  <2>3. CASE DockerError(d)
    BY <2>3 DEF DockerError
  <2> QED
    BY <1>3, <2>1, <2>2, <2>3
<1>4. ASSUME NEW d \in Deployments, ReadError(d) PROVE SwitchSeesLive' /\ OneLive'
  <2>1. CASE pc[d] = "list"
    <3>1. /\ status' = status /\ lockLost' = lockLost /\ old' = old
          /\ listLost' = [listLost EXCEPT ![ProjectOf[d]] = TRUE]
          /\ pc' = [pc EXCEPT ![d] = "promote"]
      BY <1>4, <2>1 DEF ReadError, Goto, dbVars
    <3> QED
      BY <3>1, PipelineAssumption DEF OneLive, SwitchSeesLive, TypeOK, PipelineAssumption
  <2>2. CASE pc[d] # "list"
    <3>1. SwitchFrame
      BY <1>4, <2>2 DEF ReadError, SwitchFrame, Switching, TypeOK, Goto, dbVars
    <3> QED
      BY <3>1, SwitchFrameKeeps
  <2> QED
    BY <2>1, <2>2
<1>8. ASSUME NEW d \in Deployments, IgnoredError(d) PROVE SwitchSeesLive' /\ OneLive'
  <2>1. CASE pc[d] = "stopRow"
    <3>1. PICK e \in old[d] : DoneWith(d, e)
      BY <1>8, <2>1 DEF IgnoredError, Acknowledge
    <3>2. /\ status' = status /\ lockLost' = lockLost
          /\ listLost' = [listLost EXCEPT ![ProjectOf[d]] = TRUE]
          /\ \A o \in Deployments \ {d} : pc'[o] = pc[o] /\ old'[o] = old[o]
      BY <1>8, <2>1, <3>1 DEF IgnoredError, Acknowledge, DoneWith, Goto, TypeOK, dbVars
    <3> QED
      BY <3>2, PipelineAssumption DEF OneLive, SwitchSeesLive, TypeOK, PipelineAssumption
  <2>2. CASE pc[d] # "stopRow"
    <3>1. SwitchFrame
      BY <1>8, <2>2 DEF IgnoredError, Acknowledge, SwitchFrame, Switching, TypeOK, Goto, dbVars
    <3> QED
      BY <3>1, SwitchFrameKeeps
  <2> QED
    BY <2>1, <2>2
<1>5. ASSUME NEW p \in Projects, Expire(p) PROVE SwitchFrame
  BY <1>5 DEF Expire, SwitchFrame, TypeOK, dbVars
<1>6. CASE Reaper \/ ReapError
  <2>1. SwitchFrame
    BY <1>6 DEF Reaper, ReapList, ReapMark, ReapRelease, ReapError, SwitchFrame, TypeOK, UpdateStatus, dbVars, historyVars
  <2> QED
    BY <2>1, SwitchFrameKeeps
<1>7. CASE Crash \/ Terminated \/ UNCHANGED vars
  <2>1. SwitchFrame
    BY <1>7 DEF Crash, Terminated, vars, SwitchFrame, Switching, TypeOK, dbVars, historyVars
  <2> QED
    BY <2>1, SwitchFrameKeeps
<1> QED
  BY <1>1, <1>2, <1>3, <1>4, <1>5, <1>6, <1>7, <1>8, SwitchFrameKeeps DEF Next, Step

\* The invariant holds from the start.
LEMMA SafetyInit == Init => SafetyInv
  BY InitType DEF Init, SafetyInv, LockNamesHolder, SwitchSeesLive, OneLive, Inside

\* The inductive invariant is one: types, the lock and the switch, in every reachable state.
THEOREM SafetyInvHolds == Spec => []SafetyInv
  BY SafetyInit, SafetyStep, PTL DEF Spec

\* For every number of deployments, slots and faults: a project has at most one live
\* row, until a lock is lost or a handler cannot read or retire the other live rows.
THEOREM OneLiveHolds == Spec => []OneLive
<1>1. SafetyInv => OneLive
  BY DEF SafetyInv
<1> QED
  BY <1>1, SafetyInvHolds, PTL

-----------------------------------------------------------------------------
(* The queue.                                                              *)

\* A step that changes no task, starts no handler, reopens no row unless its handler
\* does, and enqueues nothing, keeps QueueInv.
QueueFrame ==
  /\ UNCHANGED task
  /\ \A r \in Requests : req'[r].pc = "enqueue" => req'[r] = req[r]
  /\ \A d \in Deployments : pc'[d] # "idle" => pc[d] # "idle"
  /\ \A d \in Deployments : status'[d] = "none" => status[d] = "none"
  /\ \A d \in Deployments :
       status'[d] \in Active => status[d] \in Active \/ (pc[d] # "idle" /\ pc'[d] # "returnOk")
  /\ \A d \in Deployments :
       pc'[d] = "returnOk" => pc[d] = "returnOk" \/ status'[d] \notin Active

LEMMA QueueFrameKeeps ==
  ASSUME TypeOK, QueueInv, QueueFrame
  PROVE  QueueInv'
<1> USE DEF QueueFrame, QueueInv, FinishedIsSettled
<1>1. \A d \in Deployments : pc'[d] # "idle" => task'[d] = "active"
  OBVIOUS
<1>2. \A d \in Deployments : status'[d] = "none" => task'[d] = "none"
  OBVIOUS
<1>3. ASSUME NEW r \in Requests, req'[r].pc = "enqueue"
      PROVE  task'[req'[r].dep] = "none" /\ status'[req'[r].dep] # "none"
  <2>1. req[r] \in Enqueueing /\ req[r].dep \in Deployments
    BY <1>3 DEF TypeOK, Enqueueing, Superseding, IdleRequest
  <2> QED
    BY <1>3, <2>1
<1>4. \A r, s \in Requests : req'[r].pc = "enqueue" /\ req'[s] = req'[r] => r = s
  OBVIOUS
<1>5. \A d \in Deployments : pc'[d] = "returnOk" => status'[d] \notin Active
  OBVIOUS
<1>6. FinishedIsSettled'
  OBVIOUS
<1> QED
  BY <1>1, <1>2, <1>3, <1>4, <1>5, <1>6

\* The end of a handler, and what asynq makes of it.
QueueEnd(d) ==
  /\ task[d] = "active"
  /\ pc' = [pc EXCEPT ![d] = "idle"]
  /\ \E x \in {"queued", "archived", "done"} :
       /\ task' = [task EXCEPT ![d] = x]
       /\ x = "done" => status[d] \notin Active
  /\ UNCHANGED req
  /\ \A e \in Deployments : status'[e] = "none" => status[e] = "none"
  /\ \A e \in Deployments : status'[e] \in Active => status[e] \in Active

LEMMA QueueEndKeeps ==
  ASSUME TypeOK, QueueInv, NEW d \in Deployments, QueueEnd(d)
  PROVE  QueueInv'
<1> USE DEF QueueEnd, QueueInv, FinishedIsSettled
<1>1. \A e \in Deployments \ {d} : task'[e] = task[e] /\ pc'[e] = pc[e]
  BY DEF TypeOK
<1>2. /\ pc'[d] = "idle" /\ task'[d] \in {"queued", "archived", "done"}
      /\ task'[d] = "done" => status[d] \notin Active
  BY DEF TypeOK
<1>3. ASSUME NEW r \in Requests, req[r].pc = "enqueue"
      PROVE  task'[req[r].dep] = "none" /\ status'[req[r].dep] # "none"
  <2>1. req[r] \in Enqueueing /\ req[r].dep \in Deployments
    BY <1>3 DEF TypeOK, Enqueueing, Superseding, IdleRequest
  <2> QED
    BY <1>1, <1>3, <2>1
<1>4. \A e \in Deployments : pc'[e] # "idle" => task'[e] = "active"
  BY <1>1, <1>2
<1>5. \A e \in Deployments : status'[e] = "none" => task'[e] = "none"
  BY <1>1, <1>2
<1>6. \A e \in Deployments : pc'[e] = "returnOk" => status'[e] \notin Active
  BY <1>1, <1>2
<1>7. FinishedIsSettled'
  BY <1>1, <1>2
<1>8. \A r, s \in Requests : req'[r].pc = "enqueue" /\ req'[s] = req'[r] => r = s
  OBVIOUS
<1> QED
  BY <1>3, <1>4, <1>5, <1>6, <1>7, <1>8

\* A task that has failed goes back to the queue, or to the archive.
LEMMA RetryQueues ==
  ASSUME NEW d \in Deployments, Retry(d)
  PROVE  \E x \in {"queued", "archived"} : task' = [task EXCEPT ![d] = x]
<1>1. CASE retried[d] < MaxRetry
  BY <1>1 DEF Retry
<1>2. CASE ~(retried[d] < MaxRetry)
  BY <1>2 DEF Retry
<1> QED
  BY <1>1, <1>2

\* The requests of the API: a row is inserted with no task, and enqueued once.
LEMMA RequestQueueStep ==
  ASSUME TypeOK, QueueInv, NEW r \in Requests, Request(r)
  PROVE  QueueInv'
<1> USE DEF TypeOK, Superseding, Enqueueing, IdleRequest, Active, dbVars, queueVars
<1>1. ASSUME NEW p \in Projects, BeginDeploy(r, p) \/ BeginWebhook(r, p) PROVE QueueFrame
  BY <1>1 DEF BeginDeploy, BeginWebhook, QueueFrame
<1>2. ASSUME NEW t \in Deployments, BeginRollback(r, t) PROVE QueueFrame
  BY <1>2 DEF BeginRollback, QueueFrame
<1>3. ASSUME Supersede(r) PROVE QueueFrame
  <2>1. PICK d \in req[r].todo :
          UpdateStatus(d, "failed") /\ req' = [req EXCEPT ![r].todo = @ \ {d}]
    BY <1>3 DEF Supersede
  <2>2. req[r].pc = "supersede" /\ req[r] \in Superseding /\ UNCHANGED <<task, pc>>
    BY <1>3 DEF Supersede
  <2>3. d \in req[r].todo /\ req'[r].pc = "supersede" /\ \A s \in Requests \ {r} : req'[s] = req[s]
    BY <2>1, <2>2
  <2> QED
    <3>1. \A s \in Requests : req'[s].pc = "enqueue" => req'[s] = req[s]
      BY <2>2, <2>3
    <3>2. \A e \in Deployments : status'[e] = status[e] \/ status'[e] = "failed"
      BY <2>1 DEF UpdateStatus
    <3> QED
      BY <2>2, <3>1, <3>2 DEF QueueFrame
<1>4. ASSUME SupersedeError(r) PROVE QueueFrame
  <2>1. PICK rest \in SUBSET req[r].todo : req' = [req EXCEPT ![r].todo = rest]
    BY <1>4 DEF SupersedeError
  <2>3. req[r].pc = "supersede" /\ req[r] \in Superseding /\ UNCHANGED <<task, pc, status>>
    BY <1>4 DEF SupersedeError
  <2>2. req'[r].pc = "supersede" /\ \A s \in Requests \ {r} : req'[s] = req[s]
    BY <2>1, <2>3
  <2> QED
    <3>1. \A s \in Requests : req'[s].pc = "enqueue" => req'[s] = req[s]
      BY <2>2, <2>3
    <3> QED
      BY <2>3, <3>1 DEF QueueFrame
<1>5. ASSUME Abandon(r) PROVE QueueFrame
  <2>1. req' = [req EXCEPT ![r] = [pc |-> "idle"]] /\ UNCHANGED <<task, pc, status>>
    BY <1>5 DEF Abandon
  <2>2. \A s \in Requests : req'[s].pc = "enqueue" => req'[s] = req[s]
    BY <2>1
  <2> QED
    BY <2>1, <2>2 DEF QueueFrame
<1>6. ASSUME NEW d \in Deployments, Create(r, d) PROVE QueueInv'
  <2>1. /\ status[d] = "none" /\ status' = [status EXCEPT ![d] = "pending"]
        /\ req' = [req EXCEPT ![r] = [pc |-> "enqueue", dep |-> d]]
        /\ UNCHANGED <<task, pc>>
    BY <1>6 DEF Create
  <2>2. task[d] = "none" /\ pc[d] = "idle"
    BY <2>1 DEF QueueInv
  <2>3. \A s \in Requests \ {r} : req'[s] = req[s] /\ (req[s].pc = "enqueue" => req[s].dep # d)
    BY <2>1 DEF QueueInv
  <2>4. req'[r] = [pc |-> "enqueue", dep |-> d]
    BY <2>1
  <2>5. \A e \in Deployments \ {d} : status'[e] = status[e]
    BY <2>1
  <2>6. status'[d] = "pending"
    BY <2>1
  <2>7. ASSUME NEW s \in Requests, req'[s].pc = "enqueue"
        PROVE  task'[req'[s].dep] = "none" /\ status'[req'[s].dep] # "none"
    <3>1. CASE s = r
      BY <2>1, <2>2, <2>4, <2>6, <3>1
    <3>2. CASE s # r
      <4>1. req[s].pc = "enqueue" /\ req[s].dep \in Deployments
        BY <2>3, <2>7, <3>2
      <4> QED
        BY <2>1, <2>3, <2>5, <3>2, <4>1 DEF QueueInv
    <3> QED
      BY <3>1, <3>2
  <2>8. ASSUME NEW s \in Requests, NEW u \in Requests, req'[s].pc = "enqueue", req'[u] = req'[s]
        PROVE  s = u
    BY <2>3, <2>4, <2>8 DEF QueueInv
  <2>9. FinishedIsSettled'
    BY <2>1, <2>2, <2>5 DEF QueueInv, FinishedIsSettled
  <2> QED
    BY <2>1, <2>2, <2>5, <2>6, <2>7, <2>8, <2>9 DEF QueueInv
<1>7. CASE Enqueue(r)
  <2> DEFINE d == req[r].dep
  <2>1. /\ req[r].pc = "enqueue" /\ task' = [task EXCEPT ![d] = "queued"]
        /\ req' = [req EXCEPT ![r] = IdleRequest]
        /\ UNCHANGED <<status, pc>>
    BY <1>7 DEF Enqueue
  <2>2. d \in Deployments /\ req[r] = [pc |-> "enqueue", dep |-> d]
    BY <2>1
  <2>3. task[d] = "none" /\ status[d] # "none" /\ pc[d] = "idle"
    BY <2>1, <2>2 DEF QueueInv
  <2>4. task'[d] = "queued" /\ \A e \in Deployments \ {d} : task'[e] = task[e]
    BY <2>1, <2>2
  <2>5. req'[r] = IdleRequest /\ \A s \in Requests \ {r} : req'[s] = req[s]
    BY <2>1
  <2>6. ASSUME NEW s \in Requests, req'[s].pc = "enqueue"
        PROVE  task'[req'[s].dep] = "none" /\ status'[req'[s].dep] # "none"
    <3>1. s # r /\ req'[s] = req[s] /\ req[s].pc = "enqueue"
      BY <2>5, <2>6
    <3>2. req[s].dep \in Deployments /\ req[s] = [pc |-> "enqueue", dep |-> req[s].dep]
      BY <3>1
    <3>3. req[s].dep # d
      BY <2>1, <2>2, <3>1, <3>2 DEF QueueInv
    <3> QED
      BY <2>1, <2>4, <3>1, <3>2, <3>3 DEF QueueInv
  <2>7. \A s, u \in Requests : req'[s].pc = "enqueue" /\ req'[u] = req'[s] => s = u
    BY <2>5 DEF QueueInv
  <2>8. FinishedIsSettled'
    BY <2>1, <2>4 DEF QueueInv, FinishedIsSettled
  <2> QED
    BY <2>1, <2>3, <2>4, <2>6, <2>7, <2>8 DEF QueueInv
<1> QED
  BY <1>1, <1>2, <1>3, <1>4, <1>5, <1>6, <1>7, QueueFrameKeeps DEF Request

\* The handler steps that are not its last.
LEMMA HandlerQueueFrame ==
  ASSUME TypeOK, QueueInv, NEW d \in Deployments, Handler(d),
         ~DeployRefused(d), ~FailRefused(d), ~Return(d)
  PROVE  QueueFrame
<1> USE DEF QueueFrame, TypeOK, Active, Goto, UpdateStatus, dbVars, queueVars
<1>1. CASE AcquireLock(d)
  BY <1>1 DEF AcquireLock
<1>2. CASE FastPath(d)
  BY <1>2 DEF FastPath
<1>3. CASE DeployCapacity(d)
  BY <1>3 DEF DeployCapacity
<1>4. CASE SetCloning(d)
  BY <1>4 DEF SetCloning
<1>5. CASE Clone(d)
  <2>1. CASE UpdateStatus(d, "building") /\ Goto(d, "build")
    BY <1>5, <2>1 DEF Clone
  <2>2. CASE UNCHANGED status /\ Goto(d, "markFailed")
    BY <1>5, <2>2 DEF Clone
  <2> QED
    BY <1>5, <2>1, <2>2 DEF Clone
<1>6. CASE BuildImage(d)
  BY <1>6 DEF BuildImage
<1>7. CASE SetRunning(d)
  BY <1>7 DEF SetRunning
<1>8. CASE SetRollbackRunning(d)
  BY <1>8 DEF SetRollbackRunning
<1>9. CASE RollbackCapacity(d)
  BY <1>9 DEF RollbackCapacity
<1>10. CASE RollbackRefused(d)
  BY <1>10 DEF RollbackRefused
<1>11. CASE RunContainer(d)
  BY <1>11 DEF RunContainer
<1>12. CASE Probe(d)
  BY <1>12 DEF Probe
<1>13. CASE SafetyNet(d)
  BY <1>13 DEF SafetyNet
<1>14. CASE ListLive(d)
  BY <1>14 DEF ListLive
<1>15. CASE StopOld(d) \/ RemoveOld(d)
  BY <1>15 DEF StopOld, RemoveOld
<1>16. CASE StopOldRow(d)
  BY <1>16 DEF StopOldRow, DoneWith
<1>17. CASE Promote(d)
  <2>1. status' = status \/ status' = [status EXCEPT ![d] = "live"]
    BY <1>17 DEF Promote
  <2>2. /\ UNCHANGED <<task, req>> /\ pc[d] = "promote"
        /\ pc' = [pc EXCEPT ![d] = IF d \in unread THEN "returnErr" ELSE "returnOk"]
        /\ d \notin unread => status[d] = "deleted" \/ status' = [status EXCEPT ![d] = "live"]
    BY <1>17 DEF Promote
  <2> QED
    BY <2>1, <2>2
<1>18. CASE MarkFailed(d)
  BY <1>18 DEF MarkFailed
<1> QED
  BY <1>1, <1>2, <1>3, <1>4, <1>5, <1>6, <1>7, <1>8, <1>9, <1>10, <1>11, <1>12, <1>13, <1>14, <1>15, <1>16, <1>17, <1>18 DEF Handler

\* The steps that end a handler.
LEMMA HandlerQueueEnd ==
  ASSUME TypeOK, QueueInv, NEW d \in Deployments, DeployRefused(d) \/ FailRefused(d) \/ Return(d)
  PROVE  QueueEnd(d)
<1> USE DEF QueueEnd, TypeOK, Active, Goto, dbVars
<1>1. CASE DeployRefused(d)
  BY <1>1, RetryQueues DEF DeployRefused, QueueInv
<1>2. CASE FailRefused(d)
  BY <1>2, RetryQueues DEF FailRefused, QueueInv, UpdateStatus
<1>3. CASE Return(d)
  BY <1>3, RetryQueues DEF Return, Acknowledge, QueueInv
<1> QED
  BY <1>1, <1>2, <1>3

\* Errors end a handler, or send it on to another label.
LEMMA ErrorQueueStep ==
  ASSUME TypeOK, QueueInv, NEW d \in Deployments,
         WriteError(d) \/ ReadError(d) \/ DockerError(d) \/ IgnoredError(d)
  PROVE  QueueFrame \/ QueueEnd(d)
<1> USE DEF TypeOK, Active, Goto, dbVars, queueVars
<1>1. CASE WriteError(d)
  <2>1. CASE Retry(d) /\ Goto(d, "idle") /\ pc[d] # "idle"
    BY <1>1, <2>1, RetryQueues DEF WriteError, QueueEnd, QueueInv
  <2>2. CASE ~(Retry(d) /\ Goto(d, "idle") /\ pc[d] # "idle")
    BY <1>1, <2>2 DEF WriteError, QueueFrame
  <2> QED
    BY <2>1, <2>2
<1>2. CASE ReadError(d)
  BY <1>2 DEF ReadError, QueueFrame
<1>3. CASE DockerError(d)
  BY <1>3 DEF DockerError, QueueFrame
<1>4. CASE IgnoredError(d) /\ ~Acknowledge(d)
  BY <1>4 DEF IgnoredError, DoneWith, QueueFrame
<1>5. CASE IgnoredError(d) /\ Acknowledge(d)
  BY <1>5, RetryQueues DEF IgnoredError, Acknowledge, QueueEnd, QueueInv
<1> QED
  BY <1>1, <1>2, <1>3, <1>4, <1>5

\* Every step keeps QueueInv.
LEMMA QueueStep == TypeOK /\ QueueInv /\ [Next]_vars => QueueInv'
<1> SUFFICES ASSUME TypeOK, QueueInv, [Next]_vars PROVE QueueInv'
  OBVIOUS
<1>1. ASSUME NEW r \in Requests, Request(r) PROVE QueueInv'
  BY <1>1, RequestQueueStep
<1>2. ASSUME NEW d \in Deployments, Handler(d) PROVE QueueInv'
  BY <1>2, HandlerQueueFrame, HandlerQueueEnd, QueueFrameKeeps, QueueEndKeeps
<1>3. ASSUME NEW d \in Deployments, WriteError(d) \/ ReadError(d) \/ DockerError(d) \/ IgnoredError(d)
      PROVE  QueueInv'
  BY <1>3, ErrorQueueStep, QueueFrameKeeps, QueueEndKeeps
<1>4. ASSUME NEW d \in Deployments, Dequeue(d) PROVE QueueInv'
  <2>1. /\ task[d] = "queued" /\ task' = [task EXCEPT ![d] = "active"]
        /\ pc' = [pc EXCEPT ![d] = IF IsRollback(d) THEN "rbStatus" ELSE "lock"]
        /\ UNCHANGED <<status, req>>
    BY <1>4 DEF Dequeue, Goto, dbVars
  <2>2. status[d] # "none"
    BY <2>1 DEF QueueInv
  <2>3. \A e \in Deployments \ {d} : task'[e] = task[e] /\ pc'[e] = pc[e]
    BY <2>1 DEF TypeOK
  <2>4. task'[d] = "active" /\ pc'[d] \in {"rbStatus", "lock"}
    BY <2>1 DEF TypeOK
  <2>5. ASSUME NEW r \in Requests, req[r].pc = "enqueue" PROVE task'[req[r].dep] = "none"
    <3>1. req[r].dep \in Deployments
      BY <2>5 DEF TypeOK, Superseding, Enqueueing, IdleRequest
    <3> QED
      BY <2>1, <2>3, <2>5, <3>1 DEF QueueInv
  <2> QED
    BY <2>1, <2>2, <2>3, <2>4, <2>5 DEF QueueInv, FinishedIsSettled
<1>5. ASSUME NEW d \in Deployments, Recover(d) PROVE QueueInv'
  <2>1. QueueEnd(d)
    BY <1>5, RetryQueues DEF Recover, QueueEnd, TypeOK, dbVars
  <2> QED
    BY <2>1, QueueEndKeeps
<1>6. ASSUME NEW d \in Deployments, ContainerExit(d) PROVE QueueFrame
  BY <1>6 DEF ContainerExit, QueueFrame, dbVars, queueVars
<1>7. ASSUME NEW p \in Projects, Expire(p) PROVE QueueFrame
  BY <1>7 DEF Expire, QueueFrame, dbVars, queueVars
<1>8. CASE Reaper \/ ReapError
  <2>1. QueueFrame
    BY <1>8 DEF Reaper, ReapList, ReapMark, ReapRelease, ReapError, QueueFrame, UpdateStatus, TypeOK, Active,
                dbVars, queueVars
  <2> QED
    BY <2>1, QueueFrameKeeps
<1>9. CASE Crash \/ Terminated \/ UNCHANGED vars
  <2>1. QueueFrame
    BY <1>9 DEF Crash, Terminated, vars, QueueFrame, dbVars, queueVars, TypeOK
  <2> QED
    BY <2>1, QueueFrameKeeps
<1> QED
  BY <1>1, <1>2, <1>3, <1>4, <1>5, <1>6, <1>7, <1>8, <1>9, QueueFrameKeeps DEF Next, Step

\* One handler per task, in every reachable state, and what else QueueInv says.
THEOREM QueueInvHolds == Spec => []QueueInv
<1>1. Init => QueueInv
  BY DEF Init, QueueInv, FinishedIsSettled, IdleRequest, Active
<1> QED
  BY <1>1, QueueStep, TypeCorrect, PTL DEF Spec

\* For every number of deployments, retries and faults: a task is acknowledged only with
\* its row settled, and no later step reopens the row.
THEOREM FinishedIsSettledHolds == Spec => []FinishedIsSettled
<1>1. QueueInv => FinishedIsSettled
  BY DEF QueueInv
<1> QED
  BY <1>1, QueueInvHolds, PTL

=============================================================================
