# Pontoon: a verification development

Pontoon turns a git repository into a running container: an API server takes
requests and webhooks, a worker clones, builds and starts containers, and
Postgres, Redis and the Docker host hold the state the two share. This directory
holds TLA+ modules of that system, configurations that check them with TLC, and
proofs that TLAPS checks. Paths are relative to the root of the repository.

## 1. The system

| Component | Where | State it keeps | Operations |
|---|---|---|---|
| deployment triggers | `internal/usecase/deployment.go`, `webhook.go` | none of its own: rows, tasks | TriggerDeployment, TriggerRollback, TriggerDeploymentFromWebhook, StopDeployment, DeleteDeployment |
| task queue | asynq; `internal/infrastructure/redis/asynq.go`, `internal/worker/processor.go`, `cmd/worker/main.go` | queued, active, retried, archived tasks | enqueue, dequeue into one of two slots, retry, archive, recover |
| deploy worker | `internal/worker/deploy_processor.go` | where each handler stands; the Redis key `deploy_lock:<project>` | ProcessDeployTask, failDeployment |
| rollback worker | `internal/worker/rollback.go` | the same | ProcessRollbackTask |
| capacity check | `internal/usecase/capacity.go` | none | sum of the memory limits of the running containers |
| deployment rows | `internal/infrastructure/postgres/deployment_repo.go` | status, image, container id | single statements, no transactions |
| Docker host | `internal/infrastructure/docker/*.go` | containers, image tags, networks | run, stop, remove, build, untag |
| reaper | `internal/worker/reaper.go` | its list | every 5 minutes: fail stuck rows, delete locks (its query fails, see section 3) |
| health monitor | `internal/worker/monitor.go` | its list, one row | every minute: mark live rows with an exited container as failed |
| image pruner | `internal/worker/pruner.go` | its list | every hour: untag images beyond the fifth row of a project |
| live logs | `builder.go` (PublishLog), `internal/delivery/handler/websocket.go` | a pub/sub channel and a history list per deployment | publish, replay, follow |
| build log | `builder.go` (buildWithNixpacks) | a process, two pipes, two goroutines | start, copy, scan, wait |
| projects | `internal/usecase/project.go`, `internal/delivery/handler/project.go` | rows, unique by owner and name, and by domain | create, update, delete |
| environment variables | `internal/usecase/envvar.go` | rows, unique by project and key | create, update, delete |
| GitHub webhooks | `project.go`, `internal/worker/webhook.go`, `internal/infrastructure/github/client.go`, `internal/delivery/handler/webhook.go` | the hooks of a repository at GitHub | register (a goroutine), delete (a task), a push |
| AI recovery | `internal/ai`, `internal/delivery/handler/ai.go` | `ai_pipelines` rows, a goroutine each | four agents with retries, approve, reject |
| login | `internal/usecase/auth.go`, `internal/delivery/handler/auth.go`, `user_repo.go` | states in a map of the process, tickets in Redis, user rows | login, callback, ticket |
| configuration, routing, migrations, frontend | `cmd`, `internal/config`, `internal/delivery/router.go`, `frontend` | none that matters here | wiring, presentation |

How they interact: requests write rows and enqueue tasks, and from then on only
look at rows. The worker takes tasks, holds the project lock for the length of a
handler, and works on rows, containers and tags. A newer request cancels an
older deployment by writing `failed` into its row; a handler finds that out by
reading the row at two places. Nothing runs in a transaction, so whatever two
calls of one actor belong together, a call of another may come between them.

What is hard here, and what must hold all the same:

* **Switching** a project to a new deployment while others of the project are
  requested, cancelled, rolled back, reaped or redelivered: at most one live row,
  which has its container and image; no container nobody accounts for.
* **Cancelling**: what a newer request cancelled does not replace the newer one.
* **The lock**: one handler of a project at a time, whatever crashes or expires.
* **Failures between two calls**: crash of the worker, retry, recovery, a refused
  call of Postgres, Redis or Docker. Tasks end, and what a task was acknowledged
  for is settled.
* **The memory budget** with two handlers at work.
* **Stale whole-row writes** of stop, monitor and pruner.
* **Shared tags**: a rollback runs the image of an older deployment.
* **Live logs** that come over two ways, a channel and a list, in separate calls, while
  requests write final statuses over the row of a handler that goes on.
* **A build** whose output goes through two pipes and two goroutines to a handler
  that waits for all of them, while a deadline may kill the process, but not what it
  has started.
* **Deleting a project** whose deployments are queued, at work or being requested,
  and whose webhook may still be on its way to GitHub.
* **Renaming** a project, or its owner at GitHub: rows, payloads of queued tasks and
  running containers each carry a domain of their own time.
* **Goroutines that outlive their request**: the AI pipeline, whose context ends with
  the answer, and the registration of a webhook.
* **What may be used once**: states, presented by two requests.
* **Two updates of a row** that each write back what they have read.

`PROJECT.json` lists every hazard with its line and the properties that cover it.

## 2. Modules

| Module | Content |
|---|---|
| `DeployPipeline` | requests, queue, lock, both handlers, Docker host, reaper; faults; properties |
| `DeploymentOps` | extends it with stop and delete requests, monitor and pruner, composed over the same rows, containers, tags and worker slots |
| `LogStream` | the log lines of one deployment from PublishLog to the viewers of StreamLogs, beside its handler, cancellation and stop |
| `ServingSlot` | the abstract specification: what the pipeline promises to a project |
| `DeployPipeline_refinement` | the proof that `DeployPipeline` implements it |
| `Projects` | projects, their domains and containers: create, update, delete and trigger requests and logins under a new name, beside reduced deployments |
| `Webhooks` | the webhook at GitHub: the goroutine that registers it, the task that deletes it |
| `EnvVars` | the rows of the environment variables and their requests |
| `AIPipeline` | the goroutine of an AI pipeline, its saved status, approval and rejection |
| `LoginState` | states, callbacks, user rows and sessions |
| `BuildLog` | the process of a Nixpacks build and the child it starts, the copier, the scanner and the handler |
| `Parsing` | `parseRepoURL`, `parseRedisURL` and `truncateLogs` as functions |
| `DeployPipeline_proofs`, `DeploymentOps_proofs`, `LogStream_proofs`, `Projects_proofs`, `LoginState_proofs` | theorems and proofs |
| `DeployPipeline_containers` | theorems about the containers, images and order of `DeployPipeline` |
| `Services_proofs` | theorems about `AIPipeline`, `EnvVars`, `BuildLog` and `Parsing` |
| `MCDeployPipeline`, `MCDeploymentOps`, `MCProjects`, `MCServices` | instances for TLC, one `.cfg` for each question; `MCServices` holds the log stream and the smaller services together |

### DeployPipeline and the code

Every handler is cut at its calls to Postgres, Redis and Docker: one action for
each call, with the code up to the next call. `pc[d]` says at which call the
handler of deployment `d` stands. The labels follow the code:

    deploy    lock -> check -> capacity -> cloning -> clone -> build -> running -> run
    rollback  rbStatus -> rbCapacity -> lock -> run
    both      run -> probe -> safety -> list -> (stop -> remove -> stopRow)* -> promote -> return

with `markFailed` (the end of `failDeployment`), `refused` (a rollback that fails
ahead of its lock), `returnOk` and `returnErr` (the deferred Del and the result)
on the side. `Inside` are the labels between SetNX and Del.

| State | Code |
|---|---|
| `status`, `dockerImage`, `containerId` | columns of `deployments` |
| `target` | `TargetImage` of the rollback payload |
| `task`, `retried` | the asynq task |
| `lock` | the value of `deploy_lock:<project>` |
| `container`, `images` | containers, by deployment, and tags, by the deployment that built them |
| `old` | the rows the loop of the switch has left |
| `unread` | rollbacks whose row could not be read at the safety net: `currentDep` is nil at `rollback.go:112` |
| `req`, `reapPc`, `reapTodo` | local state of requests and of the reaper |
| `lockLost`, `listLost`, `superseded`, `promoted` | history, read by properties only |

Ids are numbers in the order of their INSERT, which is the order of `created_at`
the lists are sorted by. Commits, logs, environment variables, domains and memory
figures other than the limit decide nothing here and are left out.

What is abstracted, and how:

* Clone, build and run may succeed or fail at will. A failed clean-up is a fault.
* `RunContainer` is one step with four outcomes: started, left as created (with
  its name taken), refused because name or image are not right, or just failed.
  A build may succeed without an image: an error in the stream of a docker build
  is only logged (`builder.go:74`).
* The memory sum is a count: every container is started with the same limit.
  `Slots` is the total divided by that limit.
* asynq is modelled from its use: two slots, retry with a bound, archive, and
  recovery of the tasks of a dead worker. Backoff times are not modelled: a
  queued task may be taken at any time.
* A stuck row is one whose handler is gone (`IsStuck`): the context of a handler
  ends after 30 minutes by default, the age the reaper asks for. A handler that
  ignores its context and runs beside its own redelivery is not modelled.
* The query that lists stuck rows concatenates its parameter as text and is given a
  Go int (`deployment_repo.go:115`, `:118`). pgx does not encode that in its default
  mode, so the query fails and the reaper returns: `StuckQueryRuns` is FALSE, and
  `ReapList` never happens. A `default_query_exec_mode` in `DATABASE_URL` that sends
  parameters as text would let it run; `faults` and `everything` set TRUE, so that
  their invariants, and all theorems, hold with a reaper and without one.
* A container created again under the same deployment is not told apart from the
  first one.

Faults are counted by `faults` and bounded by `MaxFaults`: a crash of the worker
(`Crash`), a request that ends early (`Abandon`), refused writes (`WriteError`,
`IgnoredError`, `SupersedeError`, `ReapError`), refused reads (`ReadError`) and
refused Docker calls (`DockerError`), each with what the code makes of it.

### DeploymentOps and the code

`ReadRow` and `UpdateRow` are `GetByID` and `Update`: the whole row is read, and
all its columns are written back later. `StopDeployment` is `BeginStop`,
`StopByRow`, `MarkStopped`; `DeleteDeployment` is `BeginDelete`, `DeleteStop`,
`DeleteRemove`, `DeleteRow`, with `RemoveDoomed` for the goroutine that removes
the image. The monitor is `MonitorList`, `MonitorRead`, `MonitorMark`; the pruner
`PruneList`, `PruneImage`, `PruneClear`. `OpsError` and `AbandonOp` are their
refused calls. Monitor and pruner take worker slots as handlers do (`BusySlots`).
One stop or delete request runs at a time, which is a bound, and the pruner
takes the projects in any order and one at a time; an untag succeeds if the tag is
there, since the code asks Docker to force it.

### LogStream and the code

`PublishLog` is `Publish`, `Push` and `Expire`, with `emit` saying which comes next.
The lines are numbers, over all attempts of the task; lists and channels are
sets of them, since nothing reorders them. `StreamLogs` is `Connect`, then either
`ReplayFinished` or `Subscribe`, `Replay`, and `Follow` and `CheckStatus` until the end;
`vpc[v]` says where it stands, and `Close` ends it. The ticket (one GETDEL) and the
check of the owner come before and are left out, as are pings. Redis gets the SUBSCRIBE before the LRANGE, as it is
sent; go-redis does not wait for the answer.

The handler is that of `DeployPipeline` reduced to the lines it prints and the
statuses it writes (a rollback prints none). Its environment are a request that cancels
it (`BeginCancel`, `Cancel`), `StopDeployment` (`Stop`), which writes `stopped` over a row
in any status, and what retires a live row (`Retire`: a later deployment or the monitor).
A cancelled or stopped handler goes on, prints and writes its next status over the
final one; the history variable `interrupted` records that this may happen. Nobody
reaps the row, since that query fails, and a deletion of the row, of which a viewer
learns by an error of its next read, is the `Leave` of that viewer. Faults are a
worker that dies (`Abort`), a refused call of PublishLog (`LogError`) or of StreamLogs
(`StreamError`); the history variables `lost` and `blind` record what they took away.

### ServingSlot and the pipeline

`ServingSlot` knows neither queue nor lock, rows or containers. For each project it
has the deployments at work on it (`inside`), those that hold its serving slot
(`live`), and whether the promise is broken. A deployment begins its work when nobody
else works on the project, and goes live only while it alone does and the slot is
free; a slot may become free at any time. `DeployPipeline` maps to it by

    inside[p] <- the handlers of p between SetNX and Del     (InsideOf)
    live[p]   <- the deployments of p whose row is live      (LiveOf)
    broken    <- projects that lost their lock or could not read or retire live rows

with `inside` and `live` empty once the promise to a project is broken. `ServesAsSlot`
is the abstract specification under this mapping.

### Projects and the code

| State | Code |
|---|---|
| `gitHubName` | `github_username` of the users, overwritten by every login |
| `project` | the rows of `projects`: owner, name, domain |
| `build` | a deployment and the payload of its task: queued, up (container started), over (switch done, or failed) |
| `liveRows` | deployments whose row names a running container |
| `upBuilds` | deployments whose container runs |
| `caller` | where a request stands, with the copy of the row it has read |

`CreateProject` is `ReadForCreate`, `InsertProject`; `UpdateProject` is `ReadForUpdate`,
`WriteProject`; `DeleteProject` is `ReadForDelete`,
`ListForDelete`, `StopForDelete` for each container, `DeleteRow`; a trigger is
`ReadForTrigger`, `InsertBuild`; a push `VerifyPush`, `ReadForPush`, `InsertBuild`. The worker
is `StartBuild` and `SwitchTo`, under the lock of the project. Names are sequences of parts
split at their dashes, since the domain joins name and GitHub name by one: "a" of
"b-c" and "a-b" of "c" share `a-b-c`. `Login` is what a login does to the name: rows keep
the domain they have, and later ones are made with the new name. The images a deletion untags in goroutines of
their own are left out, and so is everything else of a user.

### The smaller modules and the code

`Webhooks`: `OpenProject` and `RegisterHook` are the INSERT and the goroutine of
`CreateProject`; `BeginDeletion`, `EnqueueDeletion`, `DeleteProjectRow` the request; `DeleteHook` and
`HookError` the task, with asynq's attempts. `EnvVars`: each request is the read of the row and
the write, with the copy in between. `AIPipeline`: `aiPc` follows `RunPipeline`; an agent is
abstracted to the confidence it reports, within the 0..100 its prompt asks for, and
the verdict of SecOps; `HandlerReturns` ends the context, and every later call fails.
`LoginState`: `Validate` is `LookUp` and `Redeem`, its two critical sections. `BuildLog`: output
is pieces of lines and line ends; the OS pipe holds `PipeCapacity` of them, the
io.Pipe none, and the scanner takes lines of `MaxToken` pieces. nixpacks starts a `child`,
docker, which writes to the same OS pipe: the deadline kills the process only, since
neither WaitDelay nor a process group is set, and the copier reaches the end of the pipe
when both are gone. `Parsing` looks at what the functions look for. A repository URL is a
scheme and pieces of a path. A Redis URL is the sequence of its characters, as far as
they are separators or digits; `ParseRedisURL` follows the code to the digit (`ParseInt`),
`GoRedisURL` is what go-redis reads out of the same parts. A log is a sequence of line
ends and other bytes, with the header `truncateLogs` puts in front as a line of its own.

## 3. Runs

The bounds are small on purpose, and chosen so that what a run asks about can
happen: two deployments of one project are enough for a switch, a cancellation,
a rollback and a lock held by the other; a third is needed where one of them has
to be beyond retention; two projects where the budget is shared or where one may
take the domain of the other; two requests where one may come between two calls of
the other.

| Run | Instance | Question |
|---|---|---|
| `serial` | four manual triggers one after the other, two projects, budget of one container | `NewestWins`: those of a project go live in the order of their rows; `CapacityBound`: the budget is exceeded by no more than the other slot |
| `concurrent` | two request handlers, every kind, one fault, budget of one container, fairness | `OneLive`, `NoOrphan`, `LiveIsServed`, `EveryTaskEnds` |
| `faults` | two faults, slow handlers, manual triggers and rollbacks, a reaper that runs | `SafetyInv` (the invariant of the proofs), `MutualExclusion`, `FinishedIsSettled`, `ServesAsSlot` (the refinement) |
| `everything` | stop, delete, monitor, pruner and a reaper that runs, every kind, one fault | `OpsSafetyInv` (the invariant of the proofs), `AccountedFor` |
| `housekeeping` | monitor and pruner, three deployments, one image kept, fairness | `LiveIsServed`, `RollbackTargetsExist`, `MonitorSparesRunning`, `CrashIsNoticed` |
| `projects` | two users, two projects, two deployments, two requests at a time, one refused call, restart or login under a new GitHub name | `DeletedLeavesNothing`, `NoRouteClash` |
| `services` | the log stream and the smaller services, with fairness | see below |

`services` checks six modules and the parsers in one run. They share no state and no
property relates two of them, so a behaviour runs one, chosen in the initial state,
and leaves the others as they are: interleaving them would multiply states and show
nothing more. No fair action of a service is enabled in its initial state but the
handler's of the log stream, whose fairness is asked for where the stream runs; so the
fairness of services that do not run asks nothing.

| Service | Instance | Properties |
|---|---|---|
| build | seven pieces of output, a pipe of two, lines of up to two pieces, one child | `LogIsComplete`: every line is in the log that is returned, also of a killed process and of the child that survives it; `BuildReturns`: a build ends, unless a line was too long or a child outlives the process for good |
| stream | one viewer, two lines, two attempts, a cancellation, stops, one fault | `StreamInv` (the invariant of the proofs), `AtMostOneMissed`, `LateViewerSeesAll`; `ToldIsFinal`, `ViewerIsReleased` |
| login | two states, callbacks and accounts, restarts | `SessionNamesRow`, `StateUsedOnce`; `StatesAreForgotten` |
| ai | one pipeline (they share nothing but the process), confidences below, at the edge of and above what is asked for, one refused save | `ApprovalIsEarned`, `DecisionStands`, `RunningMeansWorking`; `PipelineEnds` |
| env | a project, two ids, two keys, two editors, of whom one may change the key and one the value | `UpdatesLand` |
| hooks | one project (they share nothing but the process), two delete requests, two attempts, two faults | `HookFollowsProject` |
| parsing | repository URLs with and without `.git` and empty parts; Redis URLs with and without each part, databases of one and two digits and one that is no number; logs of up to eight bytes with limits of three lines and five bytes | `RepoURLRoundTrip`, `RedisURLsAgree`, `TruncationKeepsTail` |

The largest run is `projects`, with 3.4 million distinct states.

The other runs each refute one statement of a comment, and `PROJECT.json` quotes it
under "findings":

| Run | Refuted | Shortest story |
|---|---|---|
| `rollback_order` | `CancelledNeverTakesOver` | a cancelled rollback forgets that it was, and replaces the newer deployment |
| `two_containers` | `OneContainerPerRule` | a cancellation hits a row that has just gone live |
| `pruned_live` | `PrunedIsNotLive` | the image of a live rollback is pruned with the older row |
| `reaper_idle` | `StuckIsReaped` | the worker dies twice under a deployment, its task is archived, and the reaper, whose query fails, leaves the row in progress |
| `build_hangs` | `BuildAlwaysReturns` | a line longer than the scanner takes: copier and handler wait for ever |

Where the positive properties exclude something, the runs above show why:
`NewestWins` speaks of manual triggers made one after the other, `NoOrphan` lets
out deployments a request cancelled, `AccountedFor` those a stop or delete read
too early and two kinds of rollbacks (see below), and `OneLive` and `MutualExclusion` end with the loss of the lock,
which `lockLost` records, or with live rows a handler could not read or retire
(`listLost`). `housekeeping` has no rollbacks because of `pruned_live`. The properties of
the smaller services name in the same way what the code lets happen: updates of a
variable that overlap, a state two callbacks have looked up, a deployment under way
when its project is deleted, a webhook registered after the task that deletes it,
a pipeline whose context has ended, a deployment that was cancelled or stopped in progress
while viewers follow it.

Viewers do not influence each other, so one is enough.

More statements do not hold as they are worded, and the properties are
stated around them. The lock does not prevent concurrent deployments
(`rollback.go:32`) of handlers that outlive its TTL: `lockLost` is reachable in
`faults`. The budget is not a hard limit (`README.md:191`): `CapacityBound` allows
for the other slot, which passed its check before this one started its container.
And the safety net (`deploy_processor.go:193`) does not see every cancellation: the
next status update of the handler may have overwritten it. The deployment then goes
live, and with manual triggers the newer one replaces it later (`NewestWins`). Nor would a reaper whose query works find
every active deployment (`reaper.go:12`): `GetStuck` leaves out `pending`, so a row whose task
was never enqueued stays as it is, and is reachable through `Abandon`. A live row whose
container has exited has not always crashed (`monitor.go:46`): a switch stops the old
container before it retires the row; and a rollback whose first attempt failed may go live
on a retry after the monitor has listed the exited container of the first one, and is then
marked failed while its container runs (with two deployments, one retry and no fault). The
pruner does not only see finished rows (`pruner.go:40`): a rollback has an image from its
INSERT on, so one in progress beyond the retained rows is listed, and its old status is
written back over "live". `AccountedFor` leaves out these two cases (`OldRollback`), and
`MonitorSparesRunning` is about runs without rollbacks and requests. A viewer may miss a line
(`websocket.go:106`): one who subscribes after its PUBLISH and reads the history before
its RPUSH; `AtMostOneMissed` allows for that one. A viewer who is told STOPPED or FAILED may
see the deployment go live: `StopDeployment` (`deployment.go:202`) and the cancellation of a
newer request write a final status over a row whose handler goes on to write its own;
`LateViewerSeesAll` and `ToldIsFinal` end with that, which `interrupted` records.

Three statements are about the parsers. SSH URLs are not handled (`project.go:250`): the
code compares 19 characters with a literal of 15, and 15 with the 18 of the `http` one, so
both comparisons are always false (`Handled`), and `RepoURLRoundTrip` is about https URLs.
In the documented `redis://:password@host` (`asynq.go:49`) the colon becomes part of the
password the queue logs in with (`asynq.go:63`), while go-redis leaves it out; and IPv6
addresses, a missing host, and a database that is no number or too large for an int are
read in two ways.
`RedisURLsAgree` is about URLs of the documented format with a host and a number, and about
address and database; about the password only where there is none. And what
`truncateLogs` stores exceeds the limits it prints (`deploy_processor.go:304`): they are
applied before the header is put in front, as `TruncationKeepsTail` says.

Every passing property has a mutant: a change of one definition, such as a
dropped guard, that makes TLC find it violated under the same configuration. The
mutated forms stand before the definitions they mutate.

Deadlock is checked in the runs of the pipeline: `Terminated` and `OpsQuiescent` are the
states in which the system may stop, with no task, request or lock left. In `projects` and
`services` every bound is an end (all ids used, all
requests made), so it is not checked there; that services finish is stated by
`BuildReturns`, `PipelineEnds`, `StatesAreForgotten`, `ViewerIsReleased` and
`HookFollowsProject`.

### Fairness

`FairSpec` assumes that the worker runs and goes on with a handler it has started
(weak fairness of `Handler(d)`), that asynq polls and recovers leases (`Dequeue`,
`Recover`), that Redis expires keys (`Expire`), that the scheduler runs the reaper
(which asks nothing where its query fails, as in every run with fairness), and that the API goes on with a request it has begun. Nothing makes a request
begin, a container exit or a fault happen. Weak fairness is enough and is
what the code gives: no step of a handler is disabled by another actor for good,
and a task that meets the lock goes back to the queue and uses up a retry.
`OpsFairSpec` only needs the monitor, which is scheduled every minute, and handlers
that go on.

In `MCServices` the handler of the log stream and the stream handlers with their status
ticker (`ViewersAreServed`) go on, and nobody has to connect or print; the goroutines of a
build run and its process ends, by itself or with the deadline of its task, while nothing
ends the child it has started; time passes and timers run; the goroutine of a pipeline goes
on, since a call to the model ends in an answer or an error; and asynq hands
deletion tasks to a worker. Restarts, refused calls and decisions are never fair.
Strong fairness is nowhere needed.

## 4. Proofs

TLAPS proves for every number of deployments, projects, request handlers, slots,
retries and faults, viewers and lines, users, names, pipelines and states,
every output of a build and every input of the parsers (of the form the statement names), assuming only the named
assumptions of the modules, which are the types of the constants (and at least one
worker slot, and one line of log). Every invariant a passing run checks is a theorem:

| Theorem | Statement |
|---|---|
| `TypeCorrect`, `SafetyInvHolds` | `Spec => []TypeOK`, `[]SafetyInv` |
| `MutualExclusionHolds`, `OneLiveHolds` | `Spec => []MutualExclusion`, `[]OneLive` |
| `QueueInvHolds`, `FinishedIsSettledHolds` | `Spec => []FinishedIsSettled` |
| `ServesAsSlotHolds` | `Spec => ServesAsSlot`, the refinement |
| `NoOrphanHolds`, `LiveIsServedHolds`, `CapacityBoundHolds` | `Spec => []...` |
| `NewestWinsHolds` | `Spec => NewestWins`, for one requester and manual triggers |
| `OpsSafetyInvHolds`, `OpsOneLiveHolds` | `OpsSpec => []OpsSafetyInv`, `[]OneLive` |
| `AccountedForHolds` | `OpsSpec => []AccountedFor`, without rollbacks |
| `OpsLiveIsServedHolds` | `OpsSpec => []LiveIsServed`, without rollbacks and delete requests |
| `MonitorSparesRunningHolds` | `OpsSpec => MonitorSparesRunning`, without rollbacks, stop and delete requests |
| `RollbackTargetsExistHolds` | `OpsSpec => []RollbackTargetsExist`, the same, with two slots |
| `StreamInvHolds`, `AtMostOneMissedHolds`, `LateViewerSeesAllHolds`, `ToldIsFinalHolds` | `LogStream`: `Spec => ...` |
| `DeletedLeavesNothingHolds`, `NoRouteClashHolds` | `ProjectsSpec => []...` |
| `ApprovalIsEarnedHolds`, `DecisionStandsHolds`, `RunningMeansWorkingHolds` | `AiSpec => []...` |
| `UpdatesLandHolds` | `EnvSpec => []UpdatesLand` |
| `LogIsCompleteHolds` | `BuildLogSpec => []LogIsComplete` |
| `SessionNamesRowHolds`, `StateUsedOnceHolds` | `LoginSpec => []...` |
| `TruncationKeepsTailHolds` | for every log |
| `RepoURLRoundTripHolds` | for owners and names of any pieces that have no slash and no `.git` at the end |
| `RedisURLsAgreeHolds` | for every login, host, port and number whose text has no separator of its own, the host not empty |

The hypotheses on `Kinds`, `Ops` and `Concurrency` are those of the runs that check the
properties (`serial`, `housekeeping`), or wider; without them the statements are false,
as the end of section 3 says, `AccountedFor` excepted: it holds with rollbacks in every
run, and only its proof leaves them out.

### Lock, switch and queue

`MutualExclusion` is not inductive: two handlers can only be kept apart by what the
lock says, so `LockNamesHolder` states that the key holds the id of the handler
inside until it is lost. SetNX succeeds on a free key only, hence not while
anybody else is inside; the Del of a handler frees its own key; and TTL and
reaper record in `lockLost` what they take away.

`OneLive` is not inductive either: between listing the live rows and going live
itself a handler makes several calls. `SwitchSeesLive` states that a handler in
its switch has every other live row of the project still in its list, and finds
none when it goes live. It needs `LockNamesHolder`: no other handler of the project
is in its switch, so no row goes live in between. `SafetyInv` is the
conjunction with the types.

The steps that neither take nor release a lock share the lemma `LockFrameKeeps`,
those that make no row live and take nobody into a switch share
`SwitchFrameKeeps`. With `PipelineFrameKeeps` the second module reuses both: its
tasks leave handlers and lock alone, and no whole-row write of theirs makes a row
live. For the pruner that needs an invariant of its own: it writes back the
status it listed, and lists no live row (`PrunerHoldsNoLive`).

`FinishedIsSettled` needs to know where an acknowledged task comes from. `QueueInv`
states that only an active task has a handler, that a task is enqueued once, by the
request that inserted its row, and that a handler returns without an error only from
a settled row. No one makes a settled row active again without a handler: requests
and reaper write `failed`, a switch writes `stopped`.

The refinement rests on `SafetyInv`, step by step. Steps that neither enter nor leave a
handler and make no row live free slots at most (`SlotFrameStep`). SetNX maps to
`Enter`, since `LockNamesHolder` says nobody is inside while the key is free. The end of a
handler maps to `Leave`. `Promote` maps to `GoLive`, since `SwitchSeesLive` says no
other row of the project is live by then. A crash is a `Leave` of every project at
once. A lost lock, and live rows that cannot be read or retired, map to
`Break`; what happens to a broken project afterwards is a stutter. `QueueInv` is needed as
well: a task that is queued has no handler, so taking it begins no work inside.

### Runs without faults

The other properties of the pipeline are about runs in which nothing has failed so far.
Faults are never taken back (`FaultEndsCalm`), so an invariant of the form
`faults = 0 => ...` only has to survive the steps that add none, and `CalmSteps` lists
these once for all proofs.

* `AtRestInv`: a row that is live, or that a switch is about to retire, belongs to a task
  that is over, so nobody works on it any more; and no row is stuck, so the reaper has
  nothing to do. This is what keeps a container from being started a second time.
* `HeldInv` and with it `ContainerInv`: a running container has its handler behind
  RunContainer, or a task that is over. `NoOrphan` follows step by step: every path on which
  such a handler gives up removes its container first.
* `ImageInv`: what a rollback runs was built by a deployment whose task is over, so no
  failing handler takes the image away under it (`failDeployment` untags what the handler
  has built). `LiveIsServed` is its last part.
* `CapInv`: the running containers and the handlers that passed their check together exceed
  the budget by no more than the other slots. The check leaves room for one; all later
  starts are of handlers counted before; and `BusyInv` bounds these by the slots. It is the
  only proof that counts, with the theorems on cardinalities.
* `OrderInv`: an older row is either cancelled, or still on the list of the request that will
  cancel it, or its handler is at work under the lock. So whoever goes live after a newer one
  would have to start with a cancelled row, which the fast path forbids, or work beside it,
  which the lock forbids.

Beside stop and delete requests, monitor and pruner the same argument needs to know how old
their copies may be. `OpsCalmInv` states that a copy names no image and no container but the
row's own, and these only if the row's handler has ended (`TrueCopy`); that what the monitor
holds are deployments whose container does not run and that no handler will start again, or
that a request interrupted (`Spent`); that the pruner's rows are settled and not live; and
that a request that goes on to write or delete a row whose handler is still at work has
recorded that in `interrupted`. Without rollbacks all these rows
are settled for good (`TouchesSettledKeeps`); a rollback can come to life again under
them, which is why the theorems exclude it.

`RollbackTargetsExist` needs more: the monitor may write back the image of a row the pruner has
just cleared. It does so only with status `failed`, which the property is not about; but a
handler that still has this row on its list would then write `stopped`. Two worker
slots exclude that: while monitor and pruner are at work, no handler is
(`NoHandlerBesideBoth`). With `Concurrency = 3` TLC finds the violation, so the property
depends on a number in `cmd/worker/main.go`, which says nothing of it.

### The smaller modules

`AtMostOneMissed` needs to know at the moment of the replay that nothing is missing in
the list: `ListIsComplete` states that it lacks the line between PUBLISH and RPUSH at
most. From then on a viewer gets every line over the channel, and `Missed` does not grow.
`LateViewerSeesAll` and `ToldIsFinal` share `EndInv`: as long as nothing has failed and no
request has cancelled or stopped the deployment in progress, the row looks finished only
when the handler has nothing more to print. Such trouble is never forgotten (`TroubleStays`),
so the invariant need not survive it; a stop of a deployment that is over does no harm.

`DeletedLeavesNothing` is inductive with two facts: a container whose switch is over has
a live row, so the list of a deletion finds it (`UpIsListed`), and between the list and
the DELETE every running container of the project is either still to be stopped or one
the deletion has missed (`DeletionCovers`). `NoRouteClash` follows from `DistinctDomains`,
the unique index, and from `CarriesDomain`: until the domain of its project changes, payload
and container carry the domain of its row, whatever the owner is called at GitHub by now. Ids are never used again (`OnlyCreated`), or a
deployment of a deleted project could pass for one of a new one.

`ApprovalIsEarned` and `DecisionStands` share `AiInv`: past the check of SecOps' answer
enough confidence implies the verdict "safe", and a pipeline a user has decided on while
it waited has nothing left to save. `RunningMeansWorking` follows from what the last save of
each way out has written. In `EnvInv` a copy an editor holds is that of the row, until an
overlapping update has written, and ids are used once. In `LoginInv` the id about to
be issued is the row's, and a state that let a callback through is not in the map, unless
two had looked it up.

`LogIsComplete` compares with a recursive definition, `LinesOf`. `BuildInv` states that what is
logged, and the line under way, are the lines of exactly what the scanner has taken
(`ScannerInv`), that the two pipes hold the rest in order (`PipesInv`), and that whoever closes
the pipe knows they are empty (`OrderInv`). The provers have no induction to offer here, since
the library's theorems on it take an operator as parameter. But a set of numbers has a least
element (`LeastElement`, from the library's theorem that strict inclusion of finite sets is
well-founded), so a statement about `LinesUpTo` that fails somewhere fails at a least place,
and holds just before it. In this way the recursive function is shown to exist and to be typed
(`ScanExists`, `LinesUpToDef`, `LinesUpToType`), and not to change on what was there when more is
written (`LinesUpToPrefix`).

`TruncationKeepsTail` first shows that the line limit keeps the log from the first
line start on that leaves few enough lines (`LimitLinesIsTail`; the line ends of a tail are
counted through a bijection, `CountFrom`), then compares the byte limit with the longest
fitting run of lines. `RepoURLRoundTrip` rests on `PathWithoutSuffix`.
`RedisURLsAgree` takes the URL apart where its first `@`, the first slash behind it and a
colon are (`AroundSeparator`, `NoSeparator`: a separator splits a sequence at its first
occurrence, `LoginIsCut`, `DatabaseIsCut`, `PortIsAdded`); the queue's
way of reading a number and go-redis's are the same equation for digits
(`ParseIntIsAtoi`).

### What is only model-checked

The liveness properties (`EveryTaskEnds`, `CrashIsNoticed`, `ViewerIsReleased`, `BuildReturns`,
`PipelineEnds`, `StatesAreForgotten`, `HookFollowsProject`): fairness and `ENABLED` are out of
the prover's reach. `AccountedFor` with rollbacks is checked by `everything`. That the
violated properties are violated is shown by TLC's counterexamples.

## 5. Not modelled

* `Projects` and `DeployPipeline` are not composed: `Projects` has the handler of a
  deployment in three stages, and faults of the worker are in `DeployPipeline` only.
* The untagging of images by the deletion of a project; the JSON stream of a docker
  build (its outcome is in `DeployPipeline`); a handler that goes on after its deadline.
* Tickets of log streams: one GETDEL reads and deletes a ticket, so there is nothing to
  interleave.
* What follows when the API stops between the enqueue of a webhook deletion and the
  DELETE of the project (`project.go:238`): the webhook of a project that lives on is
  removed. It is reachable in `Webhooks`; `HookFollowsProject` is about deleted projects.
* `ProjectRepo.GetByRepo`, `LogPublisher` and other code nobody calls, and requests that
  only read (lists, runtime logs, `GetPipeline`).
* Viewers of a deployment that is deleted meanwhile: they leave by an error.
* Signatures, tokens and encryption: cryptography. The end of a session after a day.
* What the language model answers, what git and docker do inside.
* Formatting, routing, configuration, the frontend: no state that others depend on.

## 6. Plan

Done, in this order: `DeployPipeline`, its runs and first theorems; `DeploymentOps` on top
of it; `LogStream`; `ServingSlot` and the refinement; `Projects`, `Webhooks`, `EnvVars`,
`AIPipeline`, `LoginState`, `BuildLog`, `Parsing` and their theorems.
What could come next:

1. `Lifecycle`, the transitions of one row, as an abstract specification of all writers of a
   status, and `Projects` composed with the full handler.
2. Theorems: `AccountedFor` with rollbacks (`OpsCalmInv` for the deployments that are none,
   and for rollbacks that are the newest and not retried); a refinement for `DeploymentOps`;
   what `HookFollowsProject` needs of a deletion task that fails.
