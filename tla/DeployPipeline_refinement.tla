---------------------- MODULE DeployPipeline_refinement ----------------------
(***************************************************************************)
(* DeployPipeline implements ServingSlot, for every number of deployments, *)
(* projects, requests, worker slots, retries and faults: its initial       *)
(* states map to the abstract one, and every step maps to an abstract step *)
(* or to none.                                                             *)
(***************************************************************************)
EXTENDS DeployPipeline_proofs

SlotStep == [Promise!Next]_(Promise!slotVars)

\* Work on a project goes on, and no row goes live.
SlotFrame ==
  /\ UNCHANGED <<lockLost, listLost>>
  /\ \A d \in Deployments : pc'[d] \in Inside <=> pc[d] \in Inside
  /\ \A d \in Deployments : status'[d] = "live" => status[d] = "live"

\* Such a step frees the slots whose deployment is not live any more.
LEMMA SlotFrameStep ==
  ASSUME SafetyInv, SlotFrame
  PROVE  SlotStep
<1> DEFINE S == {p \in Projects : LiveOf(p)' = {}}
<1>1. \A p \in Projects : Broken(p)' = Broken(p) /\ InsideOf(p)' = InsideOf(p)
  BY DEF SlotFrame, Broken, InsideOf
<1>2. \A p \in Projects : ~Broken(p) => LiveOf(p)' = IF p \in S THEN {} ELSE LiveOf(p)
  BY DEF SlotFrame, SafetyInv, OneLive, LiveOf, Broken
<1>3. Promise!Vacate(S)
  BY <1>1, <1>2 DEF Promise!Vacate
<1> QED
  BY <1>3 DEF SlotStep, Promise!Next

\* A lock is taken only while nobody is inside.
LEMMA AcquireStep ==
  ASSUME SafetyInv, NEW d \in Deployments, AcquireLock(d)
  PROVE  SlotStep
<1> DEFINE p == ProjectOf[d]
<1> USE PipelineAssumption DEF PipelineAssumption
<1>1. /\ p \in Projects /\ lock[p] = NoDep
      /\ UNCHANGED <<status, lockLost, listLost>>
      /\ pc[d] = "lock" /\ pc'[d] \in Inside
      /\ \A e \in Deployments \ {d} : pc'[e] = pc[e]
  BY DEF AcquireLock, Goto, SafetyInv, TypeOK, Inside, dbVars, historyVars
<1>2. \A q \in Projects : Broken(q)' = Broken(q) /\ LiveOf(q)' = LiveOf(q)
  BY <1>1 DEF Broken, LiveOf
<1>3. \A q \in Projects \ {p} : InsideOf(q)' = InsideOf(q)
  BY <1>1 DEF InsideOf, Inside
<1>4. CASE Broken(p)
  BY <1>2, <1>3, <1>4 DEF SlotStep, Promise!slotVars
<1>5. CASE ~Broken(p)
  <2>1. InsideOf(p) = {}
    BY <1>1, <1>5, NoDepIsNone DEF SafetyInv, LockNamesHolder, InsideOf, Broken
  <2>2. InsideOf(p)' = {d}
    BY <1>1, <2>1 DEF InsideOf
  <2>3. Promise!Enter(p, d)
    BY <1>1, <1>2, <1>3, <1>5, <2>1, <2>2 DEF Promise!Enter
  <2> QED
    BY <1>1, <2>3 DEF SlotStep, Promise!Next
<1> QED
  BY <1>4, <1>5

\* The end of a handler ends the work on its project.
LEMMA ReturnStep ==
  ASSUME SafetyInv, NEW d \in Deployments, Acknowledge(d), UNCHANGED <<status, lockLost, listLost>>
  PROVE  SlotStep
<1> DEFINE p == ProjectOf[d]
<1> USE PipelineAssumption DEF PipelineAssumption
<1>1. /\ p \in Projects
      /\ pc[d] \in Inside /\ pc'[d] = "idle"
      /\ \A e \in Deployments \ {d} : pc'[e] = pc[e]
  BY DEF Acknowledge, Goto, SafetyInv, TypeOK, Inside
<1>2. \A q \in Projects : Broken(q)' = Broken(q) /\ LiveOf(q)' = LiveOf(q)
  BY DEF Broken, LiveOf
<1>3. \A q \in Projects \ {p} : InsideOf(q)' = InsideOf(q)
  BY <1>1 DEF InsideOf, Inside
<1>4. ~Broken(p) => InsideOf(p)' = {}
  BY <1>1 DEF SafetyInv, LockNamesHolder, InsideOf, Broken, Inside
<1>5. Promise!Leave({p})
  BY <1>2, <1>3, <1>4 DEF Promise!Leave
<1> QED
  BY <1>1, <1>5 DEF SlotStep, Promise!Next

\* A worker that dies ends the work on every project.
LEMMA CrashStep ==
  ASSUME Crash
  PROVE  SlotStep
<1>1. \A q \in Projects : Broken(q)' = Broken(q) /\ LiveOf(q)' = LiveOf(q) /\ InsideOf(q)' = {}
  BY DEF Crash, Broken, LiveOf, InsideOf, Inside, dbVars, historyVars
<1>2. Promise!Leave(Projects)
  BY <1>1 DEF Promise!Leave
<1> QED
  BY <1>2 DEF SlotStep, Promise!Next

\* A deployment that goes live is alone inside and finds no other live row.
LEMMA PromoteStep ==
  ASSUME SafetyInv, NEW d \in Deployments, Promote(d)
  PROVE  SlotStep
<1> DEFINE p == ProjectOf[d]
<1> USE PipelineAssumption DEF PipelineAssumption
<1>1. /\ p \in Projects
      /\ UNCHANGED <<lockLost, listLost>>
      /\ pc[d] = "promote" /\ pc'[d] \in Inside
      /\ \A e \in Deployments \ {d} : pc'[e] = pc[e] /\ status'[e] = status[e]
      /\ status'[d] \in {status[d], "live"}
  BY ZenonT(60) DEF Promote, Goto, SafetyInv, TypeOK, Inside, dbVars
<1>2. \A q \in Projects : Broken(q)' = Broken(q) /\ InsideOf(q)' = InsideOf(q)
  BY <1>1 DEF Broken, InsideOf, Inside
<1>3. \A q \in Projects \ {p} : LiveOf(q)' = LiveOf(q)
  BY <1>1 DEF LiveOf
<1>4. CASE Broken(p) \/ status'[d] = status[d]
  <2>1. Broken(p) \/ LiveOf(p)' = LiveOf(p)
    BY <1>1, <1>4 DEF LiveOf
  <2> QED
    BY <1>2, <1>3, <2>1 DEF SlotStep, Promise!slotVars
<1>5. CASE ~Broken(p) /\ status'[d] # status[d]
  <2>1. InsideOf(p) = {d}
    BY <1>1, <1>5 DEF SafetyInv, LockNamesHolder, InsideOf, Broken, Inside
  <2>2. LiveOf(p) = {} /\ LiveOf(p)' = {d}
    BY <1>1, <1>5 DEF SafetyInv, SwitchSeesLive, LiveOf, Broken
  <2>3. Promise!GoLive(p, d)
    BY <1>1, <1>2, <1>3, <1>5, <2>1, <2>2 DEF Promise!GoLive
  <2> QED
    BY <1>1, <2>3 DEF SlotStep, Promise!Next
<1> QED
  BY <1>4, <1>5

\* A step that loses a lock or a list of one project, and touches nothing else of the
\* mapping, breaks the promise to that project.
LEMMA BreakStep ==
  ASSUME SafetyInv, NEW p \in Projects,
         UNCHANGED status,
         \A d \in Deployments : pc'[d] \in Inside <=> pc[d] \in Inside,
         \A q \in Projects \ {p} : lockLost'[q] = lockLost[q] /\ listLost'[q] = listLost[q],
         (lockLost'[p] = lockLost[p] /\ listLost'[p] = listLost[p]) \/ lockLost'[p] \/ listLost'[p]
  PROVE  SlotStep
<1>1. \A q \in Projects : LiveOf(q)' = LiveOf(q) /\ InsideOf(q)' = InsideOf(q)
  BY DEF LiveOf, InsideOf
<1>2. \A q \in Projects \ {p} : Broken(q)' = Broken(q)
  BY DEF Broken
<1>3. CASE Broken(p)' = Broken(p)
  BY <1>1, <1>2, <1>3 DEF SlotStep, Promise!slotVars
<1>4. CASE Broken(p)' # Broken(p)
  <2>1. Broken(p)'
    BY <1>4 DEF Broken
  <2>2. Promise!Break(p)
    BY <1>1, <1>2, <2>1 DEF Promise!Break
  <2> QED
    BY <2>2 DEF SlotStep, Promise!Next
<1> QED
  BY <1>3, <1>4

-----------------------------------------------------------------------------
(* Every step.                                                             *)

\* The handler steps between the SetNX and the deferred Del, and those before it.
LEMMA HandlerSlotFrame ==
  ASSUME TypeOK, NEW d \in Deployments, Handler(d), ~AcquireLock(d), ~Promote(d), ~Return(d)
  PROVE  SlotFrame
<1> USE DEF SlotFrame, TypeOK, Inside, Goto, UpdateStatus, dbVars, historyVars
<1>1. CASE DeployRefused(d)
  BY <1>1 DEF DeployRefused
<1>2. CASE FastPath(d) \/ DeployCapacity(d)
  BY <1>2 DEF FastPath, DeployCapacity
<1>3. CASE SetCloning(d)
  BY <1>3 DEF SetCloning
<1>4. CASE Clone(d)
  BY <1>4 DEF Clone
<1>5. CASE BuildImage(d)
  BY <1>5 DEF BuildImage
<1>6. CASE SetRunning(d)
  BY <1>6 DEF SetRunning
<1>7. CASE SetRollbackRunning(d)
  BY <1>7 DEF SetRollbackRunning
<1>8. CASE RollbackCapacity(d) \/ RollbackRefused(d)
  BY <1>8 DEF RollbackCapacity, RollbackRefused
<1>9. CASE FailRefused(d)
  BY <1>9 DEF FailRefused
<1>10. CASE RunContainer(d)
  BY <1>10 DEF RunContainer
<1>11. CASE Probe(d)
  BY <1>11 DEF Probe
<1>12. CASE SafetyNet(d)
  BY <1>12 DEF SafetyNet
<1>13. CASE ListLive(d)
  BY <1>13 DEF ListLive
<1>14. CASE StopOld(d) \/ RemoveOld(d)
  BY <1>14 DEF StopOld, RemoveOld
<1>15. CASE StopOldRow(d)
  BY <1>15 DEF StopOldRow, DoneWith
<1>16. CASE MarkFailed(d)
  BY <1>16 DEF MarkFailed
<1> QED
  BY <1>1, <1>2, <1>3, <1>4, <1>5, <1>6, <1>7, <1>8, <1>9, <1>10, <1>11, <1>12, <1>13, <1>14, <1>15, <1>16 DEF Handler

\* The requests of the API cancel live rows at most.
LEMMA RequestSlotFrame ==
  ASSUME TypeOK, NEW r \in Requests, Request(r)
  PROVE  SlotFrame
<1> USE DEF SlotFrame, TypeOK, historyVars, dbVars
<1>1. CASE Supersede(r)
  BY <1>1 DEF Supersede, UpdateStatus
<1>2. ASSUME NEW d \in Deployments, Create(r, d) PROVE SlotFrame
  BY <1>2 DEF Create
<1>3. CASE Enqueue(r) \/ Abandon(r) \/ SupersedeError(r)
  BY <1>3 DEF Enqueue, Abandon, SupersedeError
<1>4. ASSUME NEW p \in Projects, BeginDeploy(r, p) \/ BeginWebhook(r, p) PROVE SlotFrame
  BY <1>4 DEF BeginDeploy, BeginWebhook
<1>5. ASSUME NEW t \in Deployments, BeginRollback(r, t) PROVE SlotFrame
  BY <1>5 DEF BeginRollback
<1> QED
  BY <1>1, <1>2, <1>3, <1>4, <1>5 DEF Request

\* The steps of the queue, of a container, and the errors that lose nothing.
LEMMA QueueSlotFrame ==
  ASSUME TypeOK, QueueInv, NEW d \in Deployments,
         Dequeue(d) \/ Recover(d) \/ ContainerExit(d) \/ WriteError(d) \/ DockerError(d)
  PROVE  SlotFrame
<1> USE DEF SlotFrame, TypeOK, Inside, Goto, historyVars, dbVars
<1>1. CASE Dequeue(d) \/ Recover(d) \/ ContainerExit(d)
  BY <1>1 DEF Dequeue, Recover, ContainerExit, QueueInv
<1>2. CASE WriteError(d)
  BY <1>2 DEF WriteError
<1>3. CASE DockerError(d)
  BY <1>3 DEF DockerError
<1> QED
  BY <1>1, <1>2, <1>3

\* The errors that may lose the list of live rows.
LEMMA LossStep ==
  ASSUME SafetyInv, NEW d \in Deployments, ReadError(d) \/ IgnoredError(d)
  PROVE  SlotStep
<1> USE PipelineAssumption DEF PipelineAssumption
<1>1. ProjectOf[d] \in Projects
  OBVIOUS
<1>2. CASE ReadError(d)
  <2>1. /\ UNCHANGED <<status, lockLost>>
        /\ \A e \in Deployments : pc'[e] \in Inside <=> pc[e] \in Inside
        /\ listLost' \in {listLost, [listLost EXCEPT ![ProjectOf[d]] = TRUE]}
    BY <1>2 DEF ReadError, SafetyInv, TypeOK, Inside, Goto, dbVars
  <2> QED
    BY <1>1, <2>1, BreakStep DEF SafetyInv, TypeOK
<1>3. CASE IgnoredError(d) /\ pc[d] # "stopRow"
  BY <1>3, ReturnStep DEF IgnoredError, dbVars
<1>4. CASE IgnoredError(d) /\ pc[d] = "stopRow"
  <2>1. PICK e \in old[d] : DoneWith(d, e)
    BY <1>4 DEF IgnoredError, Acknowledge
  <2>2. /\ UNCHANGED <<status, lockLost>>
        /\ listLost' = [listLost EXCEPT ![ProjectOf[d]] = TRUE]
        /\ \A o \in Deployments : pc'[o] \in Inside <=> pc[o] \in Inside
    BY <1>4, <2>1 DEF IgnoredError, Acknowledge, DoneWith, SafetyInv, TypeOK, Inside, Goto, dbVars
  <2> QED
    BY <1>1, <2>2, BreakStep DEF SafetyInv, TypeOK
<1> QED
  BY <1>2, <1>3, <1>4

\* A lock that expires, and a lock the reaper releases.
LEMMA LockLossStep ==
  ASSUME SafetyInv, (\E p \in Projects : Expire(p)) \/ ReapRelease
  PROVE  SlotStep
<1> USE PipelineAssumption DEF PipelineAssumption
<1>1. PICK p \in Projects :
        /\ UNCHANGED <<status, pc, listLost>>
        /\ lockLost' = [lockLost EXCEPT ![p] = @ \/ InsideOf(p) # {}]
  BY DEF Expire, ReapRelease, SafetyInv, TypeOK, dbVars
<1>2. /\ \A q \in Projects \ {p} : lockLost'[q] = lockLost[q]
      /\ lockLost'[p] = lockLost[p] \/ lockLost'[p]
  BY <1>1 DEF SafetyInv, TypeOK
<1> QED
  BY <1>1, <1>2, BreakStep

\* Every step of the pipeline is a step of the abstract specification, or none of it.
LEMMA PipelineSlotStep ==
  ASSUME SafetyInv, QueueInv, [Next]_vars
  PROVE  SlotStep
<1>1. ASSUME NEW r \in Requests, Request(r) PROVE SlotStep
  BY <1>1, RequestSlotFrame, SlotFrameStep DEF SafetyInv
<1>2. ASSUME NEW d \in Deployments, Handler(d) PROVE SlotStep
  <2>1. CASE Return(d)
    BY <2>1, ReturnStep DEF Return, dbVars, historyVars
  <2> QED
    BY <1>2, <2>1, AcquireStep, PromoteStep, HandlerSlotFrame, SlotFrameStep DEF SafetyInv
<1>3. ASSUME NEW d \in Deployments,
             Dequeue(d) \/ Recover(d) \/ ContainerExit(d) \/ WriteError(d) \/ DockerError(d)
      PROVE  SlotStep
  BY <1>3, QueueSlotFrame, SlotFrameStep DEF SafetyInv
<1>4. ASSUME NEW d \in Deployments, ReadError(d) \/ IgnoredError(d) PROVE SlotStep
  BY <1>4, LossStep
<1>5. CASE (\E p \in Projects : Expire(p)) \/ ReapRelease
  BY <1>5, LockLossStep
<1>6. CASE ReapList \/ ReapMark \/ ReapError
  <2>1. SlotFrame
    BY <1>6 DEF ReapList, ReapMark, ReapError, SlotFrame, SafetyInv, TypeOK, UpdateStatus, dbVars, historyVars
  <2> QED
    BY <2>1, SlotFrameStep
<1>7. CASE Crash
  BY <1>7, CrashStep
<1>8. CASE Terminated \/ UNCHANGED vars
  <2>1. SlotFrame
    BY <1>8 DEF Terminated, vars, SlotFrame
  <2> QED
    BY <2>1, SlotFrameStep
<1> QED
  BY <1>1, <1>2, <1>3, <1>4, <1>5, <1>6, <1>7, <1>8 DEF Next, Step, Reaper

\* At the start nobody works on a project, and no slot is taken.
LEMMA PipelineSlotInit == Init => Promise!Init
  BY DEF Init, Promise!Init, InsideOf, LiveOf, Broken, Inside

\* The pipeline implements ServingSlot: for every number of deployments, projects,
\* requests, slots and faults, a deployment goes live only while it alone works on its
\* project, and only into a free slot, until a lock or a list of live rows is lost.
THEOREM ServesAsSlotHolds == Spec => ServesAsSlot
  BY PipelineSlotInit, PipelineSlotStep, SafetyInvHolds, QueueInvHolds, PTL DEF Spec, ServesAsSlot, Promise!Spec, SlotStep

=============================================================================
