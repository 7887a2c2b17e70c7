--------------------------- MODULE DeployPipeline ---------------------------
(***************************************************************************)
(* The deployment pipeline of Pontoon: API requests that create deployment *)
(* rows and enqueue tasks, the asynq queue, the worker's deploy and        *)
(* rollback handlers, the per-project Redis lock, the containers and image *)
(* tags of the Docker host, and the reaper.                                *)
(*                                                                         *)
(* Every handler is cut at its calls to Postgres, Redis and Docker: one    *)
(* action per call, so that calls of other actors interleave between them. *)
(* Ids are numbers in the order the rows are inserted (created_at); a      *)
(* container is named after its deployment, an image tag after the         *)
(* deployment that built it.                                               *)
(***************************************************************************)
EXTENDS Integers, FiniteSets

CONSTANTS
  MaxDeployments,   \* bound: rows ever inserted
  Projects,
  ProjectOf,        \* the project a deployment id belongs to
  Requests,         \* API request handlers running at the same time
  Concurrency,      \* asynq worker slots (cmd/worker/main.go: 2)
  Slots,            \* TOTAL_CONTAINER_MEMORY_MB \div MAX_CONTAINER_MEMORY_MB
  MaxRetry,         \* bound: asynq retries of a task (the default is 25)
  MaxFaults,        \* bound: crashes, database errors, docker errors
  Kinds,            \* which triggers the environment uses
  SlowHandlers,     \* may a handler outlive the TTL of its lock?
  StuckQueryRuns    \* does the database take the reaper's query? See GetStuck

Deployments == 1..MaxDeployments
NoDep == 0

ASSUME PipelineAssumption ==
  /\ MaxDeployments \in Nat
  /\ ProjectOf \in [Deployments -> Projects]
  /\ Concurrency \in Nat \ {0}
  /\ Slots \in Nat
  /\ MaxRetry \in Nat
  /\ MaxFaults \in Nat
  /\ Kinds \subseteq {"manual", "webhook", "rollback"}
  /\ SlowHandlers \in BOOLEAN
  /\ StuckQueryRuns \in BOOLEAN

VARIABLES
  status,       \* deployments.status, "none" before the INSERT
  dockerImage,  \* deployments.docker_image
  containerId,  \* is deployments.container_id set?
  target,       \* payload.TargetImage of a rollback task, NoDep for a deploy
  task,         \* the asynq state of the deployment's task
  retried,      \* how often asynq has retried it
  pc,           \* where the handler of the deployment stands
  old,          \* live deployments the handler has still to retire
  unread,       \* rollback handlers that could not read their row before the switch
  lock,         \* the value of the Redis key deploy_lock:<project>
  container,    \* the Docker container named after the deployment
  images,       \* image tags the Docker host has
  req,          \* what each API request handler is doing
  reapPc,       \* where the reaper stands
  reapTodo,     \* stuck deployments it has still to reap
  faults,       \* faults so far
  \* history variables: nothing the program does depends on them
  lockLost,     \* a lock vanished while a handler of the project was inside
  listLost,     \* a handler could not read, or not retire, the other live rows
  superseded,   \* deployments a later request has cancelled
  promoted      \* deployments that have gone live

dbVars      == <<status, dockerImage, containerId>>
queueVars   == <<task, retried>>
dockerVars  == <<container, images>>
reapVars    == <<reapPc, reapTodo>>
historyVars == <<lockLost, listLost, superseded, promoted>>
vars == <<status, dockerImage, containerId, target, task, retried, pc, old, unread, lock,
          container, images, req, reapPc, reapTodo, faults,
          lockLost, listLost, superseded, promoted>>

Statuses == {"pending", "cloning", "building", "running", "live", "failed", "stopped"}
Active   == {"pending", "cloning", "building", "running"}
Stuck    == {"cloning", "building", "running"}

\* Between acquiring the project lock and the deferred Del of it.
Inside == {"check", "capacity", "cloning", "clone", "build", "running", "run",
           "probe", "safety", "list", "stop", "remove", "stopRow", "promote",
           "markFailed", "returnOk", "returnErr"}
\* Before the lock: the SetNX, and what a rollback does ahead of it.
Outside == {"lock", "rbStatus", "rbCapacity", "refused"}
Labels  == {"idle"} \union Outside \union Inside

IdleRequest == [pc |-> "idle"]
Superseding == [pc : {"supersede"}, project : Projects,
                target : Deployments \union {NoDep}, todo : SUBSET Deployments]
Enqueueing  == [pc : {"enqueue"}, dep : Deployments]

TypeOK ==
  /\ status      \in [Deployments -> Statuses \union {"none", "deleted"}]
  /\ dockerImage \in [Deployments -> Deployments \union {NoDep}]
  /\ containerId \in [Deployments -> BOOLEAN]
  /\ target      \in [Deployments -> Deployments \union {NoDep}]
  /\ task        \in [Deployments -> {"none", "queued", "active", "done", "archived"}]
  /\ retried     \in [Deployments -> 0..MaxRetry]
  /\ pc          \in [Deployments -> Labels]
  /\ old         \in [Deployments -> SUBSET Deployments]
  /\ unread      \in SUBSET Deployments
  /\ lock        \in [Projects -> Deployments \union {NoDep}]
  /\ container   \in [Deployments -> {"none", "created", "running", "exited"}]
  /\ images      \in SUBSET Deployments
  /\ req         \in [Requests -> {IdleRequest} \union Superseding \union Enqueueing]
  /\ reapPc      \in {"idle", "mark", "release"}
  /\ reapTodo    \in SUBSET Deployments
  /\ faults      \in 0..MaxFaults
  /\ lockLost    \in [Projects -> BOOLEAN]
  /\ listLost    \in [Projects -> BOOLEAN]
  /\ superseded  \in SUBSET Deployments
  /\ promoted    \in SUBSET Deployments

Init ==
  /\ status      = [d \in Deployments |-> "none"]
  /\ dockerImage = [d \in Deployments |-> NoDep]
  /\ containerId = [d \in Deployments |-> FALSE]
  /\ target      = [d \in Deployments |-> NoDep]
  /\ task        = [d \in Deployments |-> "none"]
  /\ retried     = [d \in Deployments |-> 0]
  /\ pc          = [d \in Deployments |-> "idle"]
  /\ old         = [d \in Deployments |-> {}]
  /\ unread      = {}
  /\ lock        = [p \in Projects |-> NoDep]
  /\ container   = [d \in Deployments |-> "none"]
  /\ images      = {}
  /\ req         = [r \in Requests |-> IdleRequest]
  /\ reapPc      = "idle"
  /\ reapTodo    = {}
  /\ faults      = 0
  /\ lockLost    = [p \in Projects |-> FALSE]
  /\ listLost    = [p \in Projects |-> FALSE]
  /\ superseded  = {}
  /\ promoted    = {}

-----------------------------------------------------------------------------
(* Rows, containers and images.                                            *)

Exists(d)  == status[d] \notin {"none", "deleted"}
RowsOf(p)  == {d \in Deployments : Exists(d) /\ ProjectOf[d] = p}
InsideOf(p) == {d \in Deployments : pc[d] \in Inside /\ ProjectOf[d] = p}
\* Lists of rows are read newest first.
IsNewest(d, S) == d \in S /\ \A e \in S : e <= d

\* An UPDATE of a deleted row changes nothing and reports no error.
UpdateStatus(d, s) ==
  status' = [status EXCEPT ![d] = IF @ = "deleted" THEN @ ELSE s]

IsRollback(d) == target[d] # NoDep
Image(d) == IF IsRollback(d) THEN target[d] ELSE d

StopContainer(d) == container' = [container EXCEPT ![d] = IF @ = "running" THEN "exited" ELSE @]
RemoveContainer(d) == container' = [container EXCEPT ![d] = "none"]
RemoveAnyImage(d) == images' = images \ {Image(d)}

\* A failing deploy removes the tag it built; a failing rollback removes none.
RemoveBuiltImage(d) == images' = IF IsRollback(d) THEN images ELSE images \ {d}

Running == {d \in Deployments : container[d] = "running"}

CheckCapacityOffByOne == Cardinality(Running) <= Slots

\* The sum over running containers: each is started with the same limit.
CheckCapacity == Cardinality(Running) < Slots

Goto(d, label) == pc' = [pc EXCEPT ![d] = label]
CanFail == faults < MaxFaults
Fault == CanFail /\ faults' = faults + 1

-----------------------------------------------------------------------------
(* API requests (usecase/deployment.go, usecase/webhook.go).               *)

\* The bound MaxDeployments: an id is left for every request of the project under way.
HasId(p) ==
  Cardinality({r \in Requests : req[r].pc = "supersede" /\ req[r].project = p})
    < Cardinality({d \in Deployments : status[d] = "none" /\ ProjectOf[d] = p})

\* TriggerDeployment reads the active rows it is going to cancel.
BeginDeploy(r, p) ==
  /\ "manual" \in Kinds
  /\ req[r] = IdleRequest
  /\ HasId(p)
  /\ req' = [req EXCEPT ![r] = [pc |-> "supersede", project |-> p, target |-> NoDep,
                                todo |-> {d \in RowsOf(p) : status[d] \in Active}]]
  /\ UNCHANGED <<dbVars, target, queueVars, pc, old, unread, lock, dockerVars, reapVars, faults, historyVars>>

\* TriggerRollback first reads the row to roll back to: it must carry an image.
BeginRollback(r, t) ==
  /\ "rollback" \in Kinds
  /\ req[r] = IdleRequest
  /\ HasId(ProjectOf[t])
  /\ Exists(t)
  /\ dockerImage[t] # NoDep
  /\ req' = [req EXCEPT ![r] = [pc |-> "supersede", project |-> ProjectOf[t], target |-> dockerImage[t],
                                todo |-> {d \in RowsOf(ProjectOf[t]) : status[d] \in Active}]]
  /\ UNCHANGED <<dbVars, target, queueVars, pc, old, unread, lock, dockerVars, reapVars, faults, historyVars>>

\* TriggerDeploymentFromWebhook cancels nothing.
BeginWebhook(r, p) ==
  /\ "webhook" \in Kinds
  /\ req[r] = IdleRequest
  /\ HasId(p)
  /\ req' = [req EXCEPT ![r] = [pc |-> "supersede", project |-> p, target |-> NoDep, todo |-> {}]]
  /\ UNCHANGED <<dbVars, target, queueVars, pc, old, unread, lock, dockerVars, reapVars, faults, historyVars>>

\* One turn of the loop over the active rows read before, newest first.
Supersede(r) ==
  /\ req[r].pc = "supersede"
  /\ \E d \in req[r].todo :
     /\ IsNewest(d, req[r].todo)
     /\ UpdateStatus(d, "failed")
     /\ superseded' = superseded \union {d}
     /\ req' = [req EXCEPT ![r].todo = @ \ {d}]
  /\ UNCHANGED <<dockerImage, containerId, target, queueVars, pc, old, unread, lock, dockerVars,
                 reapVars, faults, lockLost, listLost, promoted>>

\* A refused read or write of the loop is ignored: the request goes on without it.
SupersedeError(r) ==
  /\ req[r].pc = "supersede"
  /\ Fault
  /\ \E d \in req[r].todo, rest \in SUBSET req[r].todo :
     /\ IsNewest(d, req[r].todo)
     /\ rest \in {{}, req[r].todo \ {d}}
     /\ req' = [req EXCEPT ![r].todo = rest]
  /\ UNCHANGED <<dbVars, target, queueVars, pc, old, unread, lock, dockerVars, reapVars, historyVars>>

\* INSERT of the pending row; the new row is the newest of its project.
Create(r, d) ==
  /\ req[r].pc = "supersede"
  /\ req[r].todo = {}
  /\ status[d] = "none"
  /\ ProjectOf[d] = req[r].project
  /\ \A e \in Deployments : e < d /\ ProjectOf[e] = ProjectOf[d] => status[e] # "none"
  /\ status' = [status EXCEPT ![d] = "pending"]
  /\ dockerImage' = [dockerImage EXCEPT ![d] = req[r].target]
  /\ target' = [target EXCEPT ![d] = req[r].target]
  /\ req' = [req EXCEPT ![r] = [pc |-> "enqueue", dep |-> d]]
  /\ UNCHANGED <<containerId, queueVars, pc, old, unread, lock, dockerVars, reapVars, faults, historyVars>>

Enqueue(r) ==
  /\ req[r].pc = "enqueue"
  /\ task' = [task EXCEPT ![req[r].dep] = "queued"]
  /\ req' = [req EXCEPT ![r] = IdleRequest]
  /\ UNCHANGED <<dbVars, target, retried, pc, old, unread, lock, dockerVars, reapVars, faults, historyVars>>

\* A failed INSERT or Enqueue returns an error; an API restart just ends the request.
Abandon(r) ==
  /\ req[r] # IdleRequest
  /\ Fault
  /\ req' = [req EXCEPT ![r] = IdleRequest]
  /\ UNCHANGED <<dbVars, target, queueVars, pc, old, unread, lock, dockerVars, reapVars, historyVars>>

Request(r) ==
  \/ \E p \in Projects : BeginDeploy(r, p) \/ BeginWebhook(r, p)
  \/ \E t \in Deployments : BeginRollback(r, t)
  \/ Supersede(r)
  \/ SupersedeError(r)
  \/ \E d \in Deployments : Create(r, d)
  \/ Enqueue(r)
  \/ Abandon(r)

-----------------------------------------------------------------------------
(* The queue (asynq): slots, retries with backoff, recovery of the tasks of *)
(* a dead worker when their lease has run out.                             *)

Busy == Cardinality({d \in Deployments : pc[d] # "idle"}) + (IF reapPc = "idle" THEN 0 ELSE 1)

Dequeue(d) ==
  /\ task[d] = "queued"
  /\ Busy < Concurrency
  /\ task' = [task EXCEPT ![d] = "active"]
  /\ Goto(d, IF IsRollback(d) THEN "rbStatus" ELSE "lock")
  /\ UNCHANGED <<dbVars, target, retried, old, unread, lock, dockerVars, req, reapVars, faults, historyVars>>

\* What asynq does with a task whose handler returned an error, or died.
Retry(d) ==
  IF retried[d] < MaxRetry
  THEN /\ task' = [task EXCEPT ![d] = "queued"]
       /\ retried' = [retried EXCEPT ![d] = @ + 1]
  ELSE /\ task' = [task EXCEPT ![d] = "archived"]
       /\ UNCHANGED retried

Recover(d) ==
  /\ task[d] = "active"
  /\ pc[d] = "idle"
  /\ Retry(d)
  /\ UNCHANGED <<dbVars, target, pc, old, unread, lock, dockerVars, req, reapVars, faults, historyVars>>

\* The worker stops: every handler is cut off where it stands, also on SIGTERM.
Crash ==
  /\ Busy > 0
  /\ Fault
  /\ pc' = [d \in Deployments |-> "idle"]
  /\ old' = [d \in Deployments |-> {}]
  /\ unread' = {}
  /\ reapPc' = "idle"
  /\ reapTodo' = {}
  /\ UNCHANGED <<dbVars, target, queueVars, lock, dockerVars, req, historyVars>>

\* The TTL of a lock. It ends the lock of a dead handler, or of a slow one.
Expire(p) ==
  /\ lock[p] # NoDep
  /\ InsideOf(p) # {} => SlowHandlers
  /\ lock' = [lock EXCEPT ![p] = NoDep]
  /\ lockLost' = [lockLost EXCEPT ![p] = @ \/ InsideOf(p) # {}]
  /\ UNCHANGED <<dbVars, target, queueVars, pc, old, unread, dockerVars, req, reapVars, faults,
                 listLost, superseded, promoted>>

-----------------------------------------------------------------------------
(* ProcessDeployTask up to the start of the container.                     *)

\* SetNX, of both handlers.
AcquireLock(d) ==
  /\ pc[d] = "lock"
  /\ lock[ProjectOf[d]] = NoDep
  /\ lock' = [lock EXCEPT ![ProjectOf[d]] = d]
  /\ Goto(d, IF IsRollback(d) THEN "run" ELSE "check")
  /\ UNCHANGED <<dbVars, target, queueVars, old, unread, dockerVars, req, reapVars, faults, historyVars>>

\* A deploy that finds the project locked returns an error and keeps its status.
DeployRefused(d) ==
  /\ pc[d] = "lock"
  /\ lock[ProjectOf[d]] # NoDep
  /\ ~IsRollback(d)
  /\ Goto(d, "idle")
  /\ Retry(d)
  /\ UNCHANGED <<dbVars, target, old, unread, lock, dockerVars, req, reapVars, faults, historyVars>>

FastPathWithoutAbort(d) ==
  /\ pc[d] = "check"
  /\ Goto(d, "capacity")
  /\ UNCHANGED <<dbVars, target, queueVars, old, unread, lock, dockerVars, req, reapVars, faults, historyVars>>

FastPathIfStarted(d) ==
  /\ pc[d] = "check"
  /\ Goto(d, IF status[d] # "pending" THEN "returnOk" ELSE "capacity")
  /\ UNCHANGED <<dbVars, target, queueVars, old, unread, lock, dockerVars, req, reapVars, faults, historyVars>>

\* FAST PATH ABORT: a row found failed ends the handler.
FastPath(d) ==
  /\ pc[d] = "check"
  /\ Goto(d, IF status[d] = "failed" THEN "returnOk" ELSE "capacity")
  /\ UNCHANGED <<dbVars, target, queueVars, old, unread, lock, dockerVars, req, reapVars, faults, historyVars>>

DeployCapacityWaits(d) ==
  /\ pc[d] = "capacity"
  /\ CheckCapacity
  /\ Goto(d, "cloning")
  /\ UNCHANGED <<dbVars, target, queueVars, old, unread, lock, dockerVars, req, reapVars, faults, historyVars>>

DeployCapacity(d) ==
  /\ pc[d] = "capacity"
  /\ Goto(d, IF CheckCapacity THEN "cloning" ELSE "markFailed")
  /\ UNCHANGED <<dbVars, target, queueVars, old, unread, lock, dockerVars, req, reapVars, faults, historyVars>>

SetCloning(d) ==
  /\ pc[d] = "cloning"
  /\ UpdateStatus(d, "cloning")
  /\ Goto(d, "clone")
  /\ UNCHANGED <<dockerImage, containerId, target, queueVars, old, unread, lock, dockerVars, req,
                 reapVars, faults, historyVars>>

\* git clone, then the status of the next phase.
Clone(d) ==
  /\ pc[d] = "clone"
  /\ \/ UpdateStatus(d, "building") /\ Goto(d, "build")
     \/ UNCHANGED status /\ Goto(d, "markFailed")
  /\ UNCHANGED <<dockerImage, containerId, target, queueVars, old, unread, lock, dockerVars, req,
                 reapVars, faults, historyVars>>

\* A failed build removes the tag, which an earlier attempt may have built. But an
\* error inside the stream of a docker build is only logged: the call succeeds.
BuildImage(d) ==
  /\ pc[d] = "build"
  /\ \/ images' = images \union {d} /\ Goto(d, "running")
     \/ UNCHANGED images /\ Goto(d, "running")
     \/ RemoveBuiltImage(d) /\ Goto(d, "markFailed")
  /\ UNCHANGED <<dbVars, target, queueVars, old, unread, lock, container, req, reapVars, faults, historyVars>>

SetRunning(d) ==
  /\ pc[d] = "running"
  /\ UpdateStatus(d, "running")
  /\ Goto(d, "run")
  /\ UNCHANGED <<dockerImage, containerId, target, queueVars, old, unread, lock, dockerVars, req,
                 reapVars, faults, historyVars>>

-----------------------------------------------------------------------------
(* ProcessRollbackTask up to the start of the container: it sets the status *)
(* and checks the capacity before it has the lock.                         *)

SetRollbackRunning(d) ==
  /\ pc[d] = "rbStatus"
  /\ UpdateStatus(d, "running")
  /\ Goto(d, "rbCapacity")
  /\ UNCHANGED <<dockerImage, containerId, target, queueVars, old, unread, lock, dockerVars, req,
                 reapVars, faults, historyVars>>

RollbackWithoutLock(d) ==
  /\ pc[d] = "rbCapacity"
  /\ Goto(d, IF CheckCapacity THEN "run" ELSE "refused")
  /\ UNCHANGED <<dbVars, target, queueVars, old, unread, lock, dockerVars, req, reapVars, faults, historyVars>>

RollbackCapacity(d) ==
  /\ pc[d] = "rbCapacity"
  /\ Goto(d, IF CheckCapacity THEN "lock" ELSE "refused")
  /\ UNCHANGED <<dbVars, target, queueVars, old, unread, lock, dockerVars, req, reapVars, faults, historyVars>>

RollbackRefused(d) ==
  /\ pc[d] = "lock"
  /\ lock[ProjectOf[d]] # NoDep
  /\ IsRollback(d)
  /\ Goto(d, "refused")
  /\ UNCHANGED <<dbVars, target, queueVars, old, unread, lock, dockerVars, req, reapVars, faults, historyVars>>

FailRefusedReleasing(d) ==
  /\ pc[d] = "refused"
  /\ UpdateStatus(d, "failed")
  /\ Retry(d)
  /\ Goto(d, "idle")
  /\ lock' = [lock EXCEPT ![ProjectOf[d]] = NoDep]
  /\ UNCHANGED <<dockerImage, containerId, target, old, unread, dockerVars, req, reapVars, faults, historyVars>>

\* failDeployment without the lock: the row fails, the error has asynq retry it.
FailRefused(d) ==
  /\ pc[d] = "refused"
  /\ UpdateStatus(d, "failed")
  /\ Retry(d)
  /\ Goto(d, "idle")
  /\ UNCHANGED <<dockerImage, containerId, target, old, unread, lock, dockerVars, req, reapVars, faults, historyVars>>

-----------------------------------------------------------------------------
(* What both handlers do from the container to the return.                 *)

RunContainerStartsFirst(d) ==
  /\ pc[d] = "run"
  /\ \/ /\ container[d] = "none" /\ Image(d) \in images
        /\ container' = [container EXCEPT ![d] = "running"]
        /\ Goto(d, "probe")
        /\ UNCHANGED images
     \/ /\ container[d] = "none" /\ Image(d) \in images
        /\ container' = [container EXCEPT ![d] = "running"]
        /\ RemoveBuiltImage(d)
        /\ Goto(d, "markFailed")
     \/ /\ RemoveBuiltImage(d)
        /\ Goto(d, "markFailed")
        /\ UNCHANGED container
  /\ UNCHANGED <<dbVars, target, queueVars, old, unread, lock, req, reapVars, faults, historyVars>>

\* RunContainer: create, connect, start. An error after the create leaves the
\* created container, and its name, behind. A taken name or a missing image is
\* an error, like any other failure of the call.
RunContainer(d) ==
  /\ pc[d] = "run"
  /\ \/ /\ container[d] = "none" /\ Image(d) \in images
        /\ container' = [container EXCEPT ![d] = "running"]
        /\ Goto(d, "probe")
        /\ UNCHANGED images
     \/ /\ container[d] = "none" /\ Image(d) \in images
        /\ container' = [container EXCEPT ![d] = "created"]
        /\ RemoveBuiltImage(d)
        /\ Goto(d, "markFailed")
     \/ /\ RemoveBuiltImage(d)
        /\ Goto(d, "markFailed")
        /\ UNCHANGED container
  /\ UNCHANGED <<dbVars, target, queueVars, old, unread, lock, req, reapVars, faults, historyVars>>

\* The liveness check after three seconds. An inspect that fails counts as alive.
Probe(d) ==
  /\ pc[d] = "probe"
  /\ IF container[d] = "exited"
     THEN RemoveContainer(d) /\ RemoveBuiltImage(d) /\ Goto(d, "markFailed")
     ELSE UNCHANGED dockerVars /\ Goto(d, "safety")
  /\ UNCHANGED <<dbVars, target, queueVars, old, unread, lock, req, reapVars, faults, historyVars>>

\* The safety net: a row that was marked failed meanwhile does not go live. A row
\* that is gone does not stop the handler, but a rollback will still need it.
SafetyNet(d) ==
  /\ pc[d] = "safety"
  /\ IF status[d] = "failed"
     THEN RemoveContainer(d) /\ RemoveBuiltImage(d) /\ Goto(d, "returnOk") /\ UNCHANGED unread
     ELSE /\ Goto(d, "list")
          /\ unread' = IF IsRollback(d) /\ ~Exists(d) THEN unread \union {d} ELSE unread
          /\ UNCHANGED dockerVars
  /\ UNCHANGED <<dbVars, target, queueVars, old, lock, req, reapVars, faults, historyVars>>

ListOlderLive(d) ==
  /\ pc[d] = "list"
  /\ LET live == {e \in RowsOf(ProjectOf[d]) : e < d /\ status[e] = "live"} IN
     /\ old' = [old EXCEPT ![d] = live]
     /\ Goto(d, IF live = {} THEN "promote" ELSE "stop")
  /\ UNCHANGED <<dbVars, target, queueVars, unread, lock, dockerVars, req, reapVars, faults, historyVars>>

\* The rows to retire: every other live row of the project.
ListLive(d) ==
  /\ pc[d] = "list"
  /\ LET live == {e \in RowsOf(ProjectOf[d]) \ {d} : status[e] = "live"} IN
     /\ old' = [old EXCEPT ![d] = live]
     /\ Goto(d, IF live = {} THEN "promote" ELSE "stop")
  /\ UNCHANGED <<dbVars, target, queueVars, unread, lock, dockerVars, req, reapVars, faults, historyVars>>

\* Stop the container of the next one, remove it, then retire its row.
StopOld(d) ==
  /\ pc[d] = "stop"
  /\ \E e \in old[d] : IsNewest(e, old[d]) /\ StopContainer(e)
  /\ Goto(d, "remove")
  /\ UNCHANGED <<dbVars, target, queueVars, old, unread, lock, images, req, reapVars, faults, historyVars>>

RemoveOld(d) ==
  /\ pc[d] = "remove"
  /\ \E e \in old[d] : IsNewest(e, old[d]) /\ RemoveContainer(e)
  /\ Goto(d, "stopRow")
  /\ UNCHANGED <<dbVars, target, queueVars, old, unread, lock, images, req, reapVars, faults, historyVars>>

\* The loop over the old deployments goes on with the next, or ends.
DoneWith(d, e) ==
  /\ old' = [old EXCEPT ![d] = @ \ {e}]
  /\ Goto(d, IF old[d] = {e} THEN "promote" ELSE "stop")

StopOldRow(d) ==
  /\ pc[d] = "stopRow"
  /\ \E e \in old[d] : IsNewest(e, old[d]) /\ UpdateStatus(e, "stopped") /\ DoneWith(d, e)
  /\ UNCHANGED <<dockerImage, containerId, target, queueVars, unread, lock, dockerVars, req,
                 reapVars, faults, historyVars>>

\* The final UPDATE of the whole row. A rollback takes the commit from the row it
\* read before: without that row it panics, and asynq makes an error of the panic.
Promote(d) ==
  /\ pc[d] = "promote"
  /\ IF d \in unread \/ status[d] = "deleted"
     THEN UNCHANGED <<dbVars, promoted>>
     ELSE /\ status' = [status EXCEPT ![d] = "live"]
          /\ dockerImage' = [dockerImage EXCEPT ![d] = Image(d)]
          /\ containerId' = [containerId EXCEPT ![d] = TRUE]
          /\ promoted' = promoted \union {d}
  /\ Goto(d, IF d \in unread THEN "returnErr" ELSE "returnOk")
  /\ unread' = unread \ {d}
  /\ UNCHANGED <<target, queueVars, old, lock, dockerVars, req, reapVars, faults,
                 lockLost, listLost, superseded>>

\* The end of failDeployment, container and image already cleaned up.
MarkFailed(d) ==
  /\ pc[d] = "markFailed"
  /\ UpdateStatus(d, "failed")
  /\ Goto(d, "returnErr")
  /\ UNCHANGED <<dockerImage, containerId, target, queueVars, old, unread, lock, dockerVars, req,
                 reapVars, faults, historyVars>>

\* What asynq makes of the result of a handler.
Acknowledge(d) ==
  /\ pc[d] \in {"returnOk", "returnErr"}
  /\ IF pc[d] = "returnOk"
     THEN task' = [task EXCEPT ![d] = "done"] /\ UNCHANGED retried
     ELSE Retry(d)
  /\ Goto(d, "idle")

\* The deferred Del, whoever holds the lock by now.
Return(d) ==
  /\ Acknowledge(d)
  /\ lock' = [lock EXCEPT ![ProjectOf[d]] = NoDep]
  /\ UNCHANGED <<dbVars, target, old, unread, dockerVars, req, reapVars, faults, historyVars>>

\* Postgres refuses a write, or Redis the SetNX. Before the build and at the end the
\* handler returns the error and leaves the row as it is; after the build it cleans up.
WriteError(d) ==
  /\ Fault
  /\ \/ /\ pc[d] \in {"cloning", "clone", "promote", "markFailed"}
        /\ Goto(d, "returnErr")
        /\ UNCHANGED <<queueVars, images>>
     \/ /\ pc[d] = "running"
        /\ RemoveBuiltImage(d)
        /\ Goto(d, "markFailed")
        /\ UNCHANGED queueVars
     \/ /\ pc[d] \in {"rbStatus", "refused"} \/ (pc[d] = "lock" /\ ~IsRollback(d))
        /\ Retry(d)
        /\ Goto(d, "idle")
        /\ UNCHANGED images
     \/ /\ pc[d] = "lock" /\ IsRollback(d)
        /\ Goto(d, "refused")
        /\ UNCHANGED <<queueVars, images>>
  /\ unread' = unread \ {d}
  /\ UNCHANGED <<dbVars, target, old, lock, container, req, reapVars, historyVars>>

\* Postgres refuses a read. Without the env vars a deploy fails. Both checks for a
\* failed row let the handler go on, and the switch goes on without retiring anything.
ReadError(d) ==
  /\ Fault
  /\ \/ pc[d] = "check" /\ Goto(d, "capacity") /\ UNCHANGED <<unread, listLost>>
     \/ pc[d] = "build" /\ Goto(d, "markFailed") /\ UNCHANGED <<unread, listLost>>
     \/ /\ pc[d] = "safety"
        /\ Goto(d, "list")
        /\ unread' = IF IsRollback(d) THEN unread \union {d} ELSE unread
        /\ UNCHANGED listLost
     \/ /\ pc[d] = "list"
        /\ Goto(d, "promote")
        /\ listLost' = [listLost EXCEPT ![ProjectOf[d]] = TRUE]
        /\ UNCHANGED unread
  /\ UNCHANGED <<dbVars, target, queueVars, old, lock, dockerVars, req, reapVars,
                 lockLost, superseded, promoted>>

\* Docker refuses a call: the capacity is not known or counted too low, the container
\* to inspect counts as alive, and what should have been stopped or removed stays.
DockerError(d) ==
  /\ Fault
  /\ \/ pc[d] = "capacity"   /\ \E l \in {"cloning", "markFailed"} : Goto(d, l)
     \/ pc[d] = "rbCapacity" /\ \E l \in {"lock", "refused"} : Goto(d, l)
     \/ pc[d] = "probe"      /\ Goto(d, "safety")
     \/ pc[d] = "probe"      /\ container[d] = "exited" /\ Goto(d, "markFailed")
     \/ pc[d] = "safety"     /\ status[d] = "failed" /\ Goto(d, "returnOk")
     \/ pc[d] = "stop"       /\ Goto(d, "remove")
     \/ pc[d] = "remove"     /\ Goto(d, "stopRow")
  /\ UNCHANGED <<dbVars, target, queueVars, old, unread, lock, dockerVars, req, reapVars, historyVars>>

\* A refused write the handler does not look at: an old row stays live although its
\* container is gone, or the lock stays until its TTL.
IgnoredError(d) ==
  /\ Fault
  /\ \/ /\ pc[d] = "stopRow"
        /\ \E e \in old[d] : IsNewest(e, old[d]) /\ DoneWith(d, e)
        /\ listLost' = [listLost EXCEPT ![ProjectOf[d]] = TRUE]
        /\ UNCHANGED queueVars
     \/ /\ Acknowledge(d)
        /\ UNCHANGED <<old, listLost>>
  /\ UNCHANGED <<dbVars, target, unread, lock, dockerVars, req, reapVars,
                 lockLost, superseded, promoted>>

Handler(d) ==
  \/ AcquireLock(d) \/ DeployRefused(d) \/ FastPath(d) \/ DeployCapacity(d)
  \/ SetCloning(d) \/ Clone(d) \/ BuildImage(d) \/ SetRunning(d)
  \/ SetRollbackRunning(d) \/ RollbackCapacity(d) \/ RollbackRefused(d) \/ FailRefused(d)
  \/ RunContainer(d) \/ Probe(d) \/ SafetyNet(d) \/ ListLive(d)
  \/ StopOld(d) \/ RemoveOld(d) \/ StopOldRow(d) \/ Promote(d) \/ MarkFailed(d) \/ Return(d)

-----------------------------------------------------------------------------
(* The reaper (worker/reaper.go), a periodic task of the same worker.      *)

\* A row without a status change for 30 minutes. A handler's context ends after 30
\* minutes (the default of asynq), so the handler of a stuck row is gone.
IsStuck(d) == status[d] \in Stuck /\ pc[d] = "idle"

\* GetStuck hands a Go int to a parameter that the query concatenates as text. pgx
\* refuses to encode that, and the reaper returns, unless DATABASE_URL sets a
\* default_query_exec_mode that sends parameters as text: StuckQueryRuns.
ReapList ==
  /\ StuckQueryRuns
  /\ reapPc = "idle"
  /\ Busy < Concurrency
  /\ \E d \in Deployments : IsStuck(d)
  /\ reapTodo' = {d \in Deployments : IsStuck(d)}
  /\ reapPc' = "mark"
  /\ UNCHANGED <<dbVars, target, queueVars, pc, old, unread, lock, dockerVars, req, faults, historyVars>>

ReapMark ==
  /\ reapPc = "mark"
  /\ \E d \in reapTodo : IsNewest(d, reapTodo) /\ UpdateStatus(d, "failed")
  /\ reapPc' = "release"
  /\ UNCHANGED <<dockerImage, containerId, target, queueVars, pc, old, unread, lock, dockerVars, req,
                 reapTodo, faults, historyVars>>

\* "Release the project lock if it still exists", whoever holds it.
ReapRelease ==
  /\ reapPc = "release"
  /\ \E d \in reapTodo :
     /\ IsNewest(d, reapTodo)
     /\ lock' = [lock EXCEPT ![ProjectOf[d]] = NoDep]
     /\ lockLost' = [lockLost EXCEPT ![ProjectOf[d]] = @ \/ InsideOf(ProjectOf[d]) # {}]
     /\ reapTodo' = reapTodo \ {d}
  /\ reapPc' = IF reapTodo' = {} THEN "idle" ELSE "mark"
  /\ UNCHANGED <<dbVars, target, queueVars, pc, old, unread, dockerVars, req, faults,
                 listLost, superseded, promoted>>

Reaper == ReapList \/ ReapMark \/ ReapRelease

\* A refused write of the reaper: it goes on with the next row.
ReapError ==
  /\ reapPc # "idle"
  /\ Fault
  /\ \E d \in reapTodo : IsNewest(d, reapTodo) /\ reapTodo' = reapTodo \ {d}
  /\ reapPc' = IF reapTodo' = {} THEN "idle" ELSE "mark"
  /\ UNCHANGED <<dbVars, target, queueVars, pc, old, unread, lock, dockerVars, req, historyVars>>

-----------------------------------------------------------------------------

\* The program in a container ends by itself.
ContainerExit(d) ==
  /\ container[d] = "running"
  /\ container' = [container EXCEPT ![d] = "exited"]
  /\ UNCHANGED <<dbVars, target, queueVars, pc, old, unread, lock, images, req, reapVars, faults, historyVars>>

\* Nothing goes on: every request and task has ended, the reaper and the locks as well.
Quiescent ==
  /\ \A d \in Deployments : task[d] \in {"none", "done", "archived"} /\ pc[d] = "idle"
  /\ \A r \in Requests : req[r] = IdleRequest
  /\ reapPc = "idle"
  /\ \A p \in Projects : lock[p] = NoDep

Terminated == Quiescent /\ UNCHANGED vars

\* A step of a live program, or of its environment.
Step ==
  \/ \E r \in Requests : Request(r)
  \/ \E d \in Deployments : Dequeue(d) \/ Recover(d) \/ Handler(d) \/ WriteError(d)
                            \/ ReadError(d) \/ DockerError(d) \/ IgnoredError(d)
                            \/ ContainerExit(d)
  \/ \E p \in Projects : Expire(p)
  \/ Reaper
  \/ ReapError

Next == Step \/ Crash \/ Terminated

Spec == Init /\ [][Next]_vars

\* The worker runs, asynq polls, recovers leases and runs the scheduler, and Redis
\* expires keys. Requests are made, and containers exit, or not. (The reaper is fair
\* too, which says something only of instances with StuckQueryRuns.)
Fairness ==
  /\ \A d \in Deployments : WF_vars(Dequeue(d)) /\ WF_vars(Recover(d)) /\ WF_vars(Handler(d))
  /\ \A p \in Projects : WF_vars(Expire(p))
  /\ WF_vars(Reaper)
  /\ \A r \in Requests : WF_vars(Supersede(r) \/ Enqueue(r) \/ \E d \in Deployments : Create(r, d))

FairSpec == Spec /\ Fairness

-----------------------------------------------------------------------------
(* Properties.                                                             *)

\* As long as no lock vanished under a live handler (TTL, reaper), at most one
\* handler of a project is between its SetNX and its deferred Del.
MutualExclusion ==
  \A d, e \in Deployments :
    /\ pc[d] \in Inside /\ pc[e] \in Inside
    /\ ProjectOf[d] = ProjectOf[e]
    /\ ~lockLost[ProjectOf[d]]
    => d = e

\* A project has at most one live row: the switch retires the others first. Only a
\* lost lock or live rows it could not read, or not retire, can break this.
OneLive ==
  \A d, e \in Deployments :
    /\ status[d] = "live" /\ status[e] = "live"
    /\ ProjectOf[d] = ProjectOf[e]
    /\ ~lockLost[ProjectOf[d]] /\ ~listLost[ProjectOf[d]]
    => d = e

\* Why MutualExclusion holds: until a lock is lost, it names the handler inside.
LockNamesHolder ==
  \A d \in Deployments :
    pc[d] \in Inside /\ ~lockLost[ProjectOf[d]] => lock[ProjectOf[d]] = d

\* Why OneLive holds: a handler in its switch still has every other live row before
\* it, and finds none left when it goes live itself.
SwitchSeesLive ==
  \A d, e \in Deployments :
    /\ d # e /\ ProjectOf[d] = ProjectOf[e] /\ status[e] = "live"
    /\ ~lockLost[ProjectOf[d]] /\ ~listLost[ProjectOf[d]]
    => /\ pc[d] \in {"stop", "remove", "stopRow"} => e \in old[d]
       /\ pc[d] # "promote"

\* The inductive invariant of the proofs.
SafetyInv == TypeOK /\ LockNamesHolder /\ SwitchSeesLive /\ OneLive

\* What a project still relies on: no lock was lost, every live row could be retired.
Broken(p) == lockLost[p] \/ listLost[p]
LiveOf(p) == {d \in Deployments : status[d] = "live" /\ ProjectOf[d] = p}

Promise == INSTANCE ServingSlot WITH
             inside <- [p \in Projects |-> IF Broken(p) THEN {} ELSE InsideOf(p)],
             live   <- [p \in Projects |-> IF Broken(p) THEN {} ELSE LiveOf(p)],
             broken <- {p \in Projects : Broken(p)}

\* The pipeline keeps the promise of ServingSlot: whatever queue, retries, crashes, API
\* requests and reaper do, a deployment goes live only while it alone works on its
\* project, and only into a slot that is free.
ServesAsSlot == Promise!Spec

\* A handler that returned without an error left its row settled: no task is
\* acknowledged while its deployment still looks in progress.
FinishedIsSettled ==
  \A d \in Deployments : task[d] = "done" => status[d] \notin Active

\* Why FinishedIsSettled holds, and one handler runs per task: a task is enqueued once,
\* by the request that inserted its row, only an active one has a handler, and a handler
\* returns without an error only from a row that is settled and that no one reopens.
QueueInv ==
  /\ \A d \in Deployments : pc[d] # "idle" => task[d] = "active"
  /\ \A d \in Deployments : status[d] = "none" => task[d] = "none"
  /\ \A r \in Requests :
       req[r].pc = "enqueue" => task[req[r].dep] = "none" /\ status[req[r].dep] # "none"
  /\ \A r, s \in Requests : req[r].pc = "enqueue" /\ req[s] = req[r] => r = s
  /\ \A d \in Deployments : pc[d] = "returnOk" => status[d] \notin Active
  /\ FinishedIsSettled

\* Without faults, every running container is the one of a live row, or its handler
\* is still at work on it, or a request cancelled the deployment.
NoOrphan ==
  faults = 0 =>
    \A d \in Running :
      \/ status[d] = "live"
      \/ pc[d] \in {"probe", "safety", "list", "stop", "remove", "stopRow", "promote"}
      \/ d \in superseded

\* Without faults, a live row has its container (perhaps exited) and its image,
\* except between the two calls that retire it.
LiveIsServed ==
  faults = 0 =>
    \A d \in Deployments :
      status[d] = "live" =>
        \/ container[d] \in {"running", "exited"} /\ Image(d) \in images
        \/ \E e \in Deployments : pc[e] = "stopRow" /\ IsNewest(d, old[e])

\* Handlers check the capacity long before they start their container, so the
\* budget can be exceeded, but by no more than the other worker slots.
CapacityBound == faults = 0 => Cardinality(Running) <= Slots + Concurrency - 1

\* Deployments go live in the order their rows were inserted: none takes over from
\* a newer one. With manual triggers made one after the other, each cancels what is
\* active, so this holds as long as nothing fails and the lock holds.
NewestWins ==
  [][\A d \in Deployments :
       (promoted' \ promoted = {d} /\ faults = 0 /\ ~lockLost[ProjectOf[d]])
         => \A e \in promoted : ProjectOf[e] = ProjectOf[d] => e < d]_vars

\* A queued task ends: done with a settled row, or archived after its last retry.
EveryTaskEnds ==
  \A d \in Deployments : task[d] = "queued" ~> task[d] \in {"done", "archived"}

-----------------------------------------------------------------------------
(* What the comments and documents of the repository say, and the code does *)
(* not keep: each of these is refuted by a run.                            *)

\* rollback.go:84: the safety net catches a rollback superseded while it was waiting.
\* Refuted: the handler starts by setting the status to running, so the cancelled
\* rollback even replaces the newer deployment that cancelled it.
CancelledNeverTakesOver ==
  [][\A d \in superseded :
       promoted' \ promoted = {d}
         => \A e \in promoted : ProjectOf[e] = ProjectOf[d] => e < d]_vars

\* usecase/deployment.go:53: cancelling the deployments in progress keeps two containers
\* from fighting over the same routing rule. Refuted: the cancellation can hit a row
\* that has just gone live, and a failed row's container is never retired.
OneContainerPerRule ==
  Quiescent => \A d, e \in Running : ProjectOf[d] = ProjectOf[e] => d = e

\* reaper.go:12: ProcessReapStuckTask finds active deployments older than 30 minutes
\* and marks them as failed. Refuted with the connection the repository configures: its
\* query is refused, so a row whose handler died in its last attempt stays in progress.
StuckIsReaped == \A d \in Deployments : IsStuck(d) ~> ~IsStuck(d)

=============================================================================
