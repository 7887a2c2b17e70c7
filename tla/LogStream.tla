------------------------------ MODULE LogStream ------------------------------
(***************************************************************************)
(* The live logs of one deployment: its handler in the worker publishes    *)
(* lines to a Redis channel and keeps them in a list, viewers follow them  *)
(* over a WebSocket of the API, and learn from the row how it ended.       *)
(*                                                                         *)
(* Lines are numbers in the order of their publication, over all attempts. *)
(* The handler is the one of DeployPipeline, cut down to what a viewer can *)
(* tell apart: its lines and its writes of the status. Nobody reaps its row *)
(* (see GetStuck there).                                                   *)
(***************************************************************************)
EXTENDS Integers

CONSTANTS
  Viewers,
  MaxLines,   \* bound: lines published
  MaxRetry,   \* bound: asynq retries of the task
  MaxFaults   \* bound: crashes, refused or lost calls

ASSUME StreamAssumption ==
  /\ MaxLines \in Nat
  /\ MaxRetry \in Nat
  /\ MaxFaults \in Nat

VARIABLES
  status,     \* deployments.status
  cancelling, \* a request has listed the row as active and is about to cancel it
  pc,         \* where the handler stands
  retried,    \* how often asynq has retried the task
  n,          \* lines published so far
  emit,       \* where PublishLog stands: at its RPush, at its Expire
  history,    \* the list deployment:<id>:log_history
  ttl,        \* does the list have a TTL?
  vpc,        \* where the StreamLogs of a viewer stands
  inbox,      \* lines Redis has sent the viewer and the handler has not read
  replayed,   \* lines the viewer got from the list
  followed,   \* lines the viewer got from the channel
  told,       \* the final status the viewer was told
  faults,
  \* history variables
  lost,       \* lines a refused or lost call, or the TTL, took away
  blind,      \* viewers whose calls to Redis failed
  interrupted \* a request ended the row while its task was not over

rowVars    == <<status, cancelling, interrupted>>
workerVars == <<pc, retried>>
logVars    == <<n, emit, history, ttl, lost>>
viewerVars == <<vpc, inbox, replayed, followed, told, blind>>
streamVars == <<rowVars, workerVars, logVars, viewerVars, faults>>

Active   == {"pending", "cloning", "building", "running"}
Statuses == Active \union {"live", "failed", "stopped"}
Lines    == 1..n

IsTerminalWithoutStopped(s) == s \in {"live", "failed"}

IsTerminal(s) == s \in {"live", "failed", "stopped"}

StreamTypeOK ==
  /\ status \in Statuses
  /\ cancelling \in BOOLEAN
  /\ pc \in {"check", "cloning", "clone", "build", "running", "safety", "promote", "markFailed",
             "ack", "end"}
  /\ retried \in 0..MaxRetry
  /\ n \in 0..MaxLines
  /\ emit \in {"idle", "push", "expire"}
  /\ emit # "idle" => n > 0
  /\ history \subseteq Lines
  /\ ttl \in BOOLEAN
  /\ vpc \in [Viewers -> {"idle", "subscribe", "replay", "follow", "final", "told", "closed"}]
  /\ inbox    \in [Viewers -> SUBSET Lines]
  /\ replayed \in [Viewers -> SUBSET Lines]
  /\ followed \in [Viewers -> SUBSET Lines]
  /\ told \in [Viewers -> {"none", "live", "failed", "stopped"}]
  /\ faults \in 0..MaxFaults
  /\ lost \subseteq Lines
  /\ blind \subseteq Viewers
  /\ interrupted \in BOOLEAN

StreamInit ==
  /\ status = "pending"
  /\ cancelling = FALSE
  /\ pc = "check"
  /\ retried = 0
  /\ n = 0
  /\ emit = "idle"
  /\ history = {}
  /\ ttl = FALSE
  /\ vpc      = [v \in Viewers |-> "idle"]
  /\ inbox    = [v \in Viewers |-> {}]
  /\ replayed = [v \in Viewers |-> {}]
  /\ followed = [v \in Viewers |-> {}]
  /\ told     = [v \in Viewers |-> "none"]
  /\ faults = 0
  /\ lost = {}
  /\ blind = {}
  /\ interrupted = FALSE

Fault == faults < MaxFaults /\ faults' = faults + 1

-----------------------------------------------------------------------------
(* PublishLog: PUBLISH, then RPUSH, then EXPIRE. Nobody looks at the errors. *)

\* The subscribers of the channel.
Listening(v) == vpc[v] \in {"replay", "follow"}

CanPublish == pc \in {"clone", "build"} /\ emit = "idle" /\ n < MaxLines

Publish ==
  /\ CanPublish
  /\ n' = n + 1
  /\ emit' = "push"
  /\ inbox' = [v \in Viewers |-> IF Listening(v) THEN inbox[v] \union {n + 1} ELSE inbox[v]]
  /\ UNCHANGED <<rowVars, workerVars, history, ttl, lost, vpc, replayed, followed, told, blind, faults>>

PushKeepsLatest ==
  /\ emit = "push"
  /\ history' = {n}
  /\ emit' = "expire"
  /\ UNCHANGED <<rowVars, workerVars, n, ttl, lost, viewerVars, faults>>

Push ==
  /\ emit = "push"
  /\ history' = history \union {n}
  /\ emit' = "expire"
  /\ UNCHANGED <<rowVars, workerVars, n, ttl, lost, viewerVars, faults>>

Expire ==
  /\ emit = "expire"
  /\ ttl' = TRUE
  /\ emit' = "idle"
  /\ UNCHANGED <<rowVars, workerVars, n, history, lost, viewerVars, faults>>

\* A refused call is not repeated: the next one follows.
LogError ==
  /\ Fault
  /\ \/ CanPublish /\ n' = n + 1 /\ emit' = "push" /\ lost' = lost \union {n + 1}
     \/ emit = "push" /\ emit' = "expire" /\ lost' = lost \union {n} /\ UNCHANGED n
     \/ emit = "expire" /\ emit' = "idle" /\ UNCHANGED <<n, lost>>
  /\ UNCHANGED <<rowVars, workerVars, history, ttl, viewerVars>>

\* An hour after the last line: of a task that is over, that waits for its next attempt,
\* or whose handler hangs in a build.
HistoryExpires ==
  /\ ttl
  /\ emit = "idle"
  /\ lost' = lost \union history
  /\ history' = {}
  /\ ttl' = FALSE
  /\ UNCHANGED <<rowVars, workerVars, n, emit, viewerVars, faults>>

-----------------------------------------------------------------------------
(* The handler, as far as viewers can tell.                                *)

Step(from, to) == pc = from /\ emit = "idle" /\ pc' = to

UpdateStatus(s) == status' = s /\ UNCHANGED <<cancelling, interrupted>>

\* asynq runs the task again, until its last retry.
Again ==
  IF retried < MaxRetry
  THEN pc' = "check" /\ retried' = retried + 1
  ELSE pc' = "end" /\ UNCHANGED retried

\* Another handler has the lock of the project.
LockRefused ==
  /\ pc = "check"
  /\ Again
  /\ UNCHANGED <<rowVars, logVars, viewerVars, faults>>

FastPathWithoutAbort ==
  /\ Step("check", "cloning")
  /\ UNCHANGED <<rowVars, retried, logVars, viewerVars, faults>>

FastPath ==
  /\ Step("check", IF status = "failed" THEN "ack" ELSE "cloning")
  /\ UNCHANGED <<rowVars, retried, logVars, viewerVars, faults>>

SetStatus ==
  /\ \/ Step("cloning", "clone") /\ UpdateStatus("cloning")
     \/ Step("clone", "build") /\ UpdateStatus("building")
     \/ Step("running", "safety") /\ UpdateStatus("running")
  /\ UNCHANGED <<retried, logVars, viewerVars, faults>>

\* The build ends well; or what may fail fails: capacity, clone, build or container;
\* then the safety net, and the end of the task.
Proceed ==
  /\ \/ Step("build", "running")
     \/ \E l \in {"cloning", "clone", "build", "running", "safety"} : Step(l, "markFailed")
     \/ Step("safety", IF status = "failed" THEN "ack" ELSE "promote")
     \/ Step("ack", "end")
  /\ UNCHANGED <<rowVars, retried, logVars, viewerVars, faults>>

Promote ==
  /\ Step("promote", "ack")
  /\ UpdateStatus("live")
  /\ UNCHANGED <<retried, logVars, viewerVars, faults>>

MarkFailedThenLog ==
  /\ pc = "markFailed"
  /\ emit = "idle"
  /\ n < MaxLines
  /\ UpdateStatus("failed")
  /\ Again
  /\ n' = n + 1
  /\ emit' = "push"
  /\ inbox' = [v \in Viewers |-> IF Listening(v) THEN inbox[v] \union {n + 1} ELSE inbox[v]]
  /\ UNCHANGED <<history, ttl, lost, vpc, replayed, followed, told, blind, faults>>

\* failDeployment, whose error makes asynq run the task again.
MarkFailed ==
  /\ pc = "markFailed"
  /\ emit = "idle"
  /\ UpdateStatus("failed")
  /\ Again
  /\ UNCHANGED <<logVars, viewerVars, faults>>

\* The worker dies, between the calls of PublishLog too, or Postgres refuses a status.
Abort ==
  /\ pc # "end"
  /\ Fault
  /\ Again
  /\ emit' = "idle"
  /\ lost' = IF emit = "push" THEN lost \union {n} ELSE lost
  /\ UNCHANGED <<rowVars, n, history, ttl, viewerVars>>

\* A newer request lists the row as active, and later writes its status.
BeginCancel ==
  /\ status \in Active
  /\ cancelling' = TRUE
  /\ UNCHANGED <<status, interrupted, workerVars, logVars, viewerVars, faults>>

Cancel ==
  /\ cancelling
  /\ status' = "failed"
  /\ cancelling' = FALSE
  /\ interrupted' = TRUE
  /\ UNCHANGED <<workerVars, logVars, viewerVars, faults>>

\* StopDeployment of the API asks for no status: the row of a deployment in progress, or
\* of one whose next attempt is pending, is stopped as well, and the handler goes on.
Stop ==
  /\ status' = "stopped"
  /\ interrupted' = (interrupted \/ pc \notin {"ack", "end"})
  /\ UNCHANGED <<cancelling, workerVars, logVars, viewerVars, faults>>

\* A live row is stopped by a later deployment, or failed by the health monitor.
Retire ==
  /\ status = "live"
  /\ \E s \in {"stopped", "failed"} : UpdateStatus(s)
  /\ UNCHANGED <<workerVars, logVars, viewerVars, faults>>

-----------------------------------------------------------------------------
(* StreamLogs, past its ticket and the check of the owner.                 *)

Goto(v, label) == vpc' = [vpc EXCEPT ![v] = label]

\* The handler returns, and what it kept of the stream goes with it.
Close(v) ==
  /\ Goto(v, "closed")
  /\ inbox'    = [inbox    EXCEPT ![v] = {}]
  /\ replayed' = [replayed EXCEPT ![v] = {}]
  /\ followed' = [followed EXCEPT ![v] = {}]

\* GetDeployment, and the upgrade of the connection.
Connect(v) ==
  /\ vpc[v] = "idle"
  /\ IF IsTerminal(status)
     THEN Goto(v, "final") /\ told' = [told EXCEPT ![v] = status]
     ELSE Goto(v, "subscribe") /\ UNCHANGED told
  /\ UNCHANGED <<rowVars, workerVars, logVars, inbox, replayed, followed, blind, faults>>

\* A deployment that is over: the stored lines, then the final message.
ReplayFinished(v) ==
  /\ vpc[v] = "final"
  /\ replayed' = [replayed EXCEPT ![v] = history]
  /\ Goto(v, "told")
  /\ UNCHANGED <<rowVars, workerVars, logVars, inbox, followed, told, blind, faults>>

ReplayBeforeSubscribe(v) ==
  /\ vpc[v] = "subscribe"
  /\ \/ replayed[v] = {} /\ replayed' = [replayed EXCEPT ![v] = history] /\ UNCHANGED vpc
     \/ Goto(v, "follow") /\ UNCHANGED replayed
  /\ UNCHANGED <<rowVars, workerVars, logVars, inbox, followed, told, blind, faults>>

\* SUBSCRIBE, which Redis gets before the LRANGE that is sent after it.
Subscribe(v) ==
  /\ vpc[v] = "subscribe"
  /\ Goto(v, "replay")
  /\ UNCHANGED <<rowVars, workerVars, logVars, inbox, replayed, followed, told, blind, faults>>

Replay(v) ==
  /\ vpc[v] = "replay"
  /\ replayed' = [replayed EXCEPT ![v] = history]
  /\ Goto(v, "follow")
  /\ UNCHANGED <<rowVars, workerVars, logVars, inbox, followed, told, blind, faults>>

\* One message of the channel, in the order of their publication.
Follow(v) ==
  /\ vpc[v] = "follow"
  /\ \E line \in inbox[v] :
     /\ \A other \in inbox[v] : line <= other
     /\ inbox' = [inbox EXCEPT ![v] = @ \ {line}]
     /\ followed' = [followed EXCEPT ![v] = @ \union {line}]
  /\ UNCHANGED <<rowVars, workerVars, logVars, vpc, replayed, told, blind, faults>>

\* Every five seconds; select takes it also while messages are waiting.
CheckStatus(v) ==
  /\ vpc[v] = "follow"
  /\ IsTerminal(status)
  /\ told' = [told EXCEPT ![v] = status]
  /\ Close(v)
  /\ UNCHANGED <<rowVars, workerVars, logVars, blind, faults>>

\* Redis refuses the LRANGE, and the stream goes on without the list; or the connection
\* of the subscription breaks, which go-redis renews, and what was on it is lost.
StreamError(v) ==
  /\ Fault
  /\ \/ vpc[v] = "final"  /\ Goto(v, "told")   /\ UNCHANGED inbox
     \/ vpc[v] = "replay" /\ Goto(v, "follow") /\ UNCHANGED inbox
     \/ vpc[v] = "follow" /\ UNCHANGED vpc     /\ inbox' = [inbox EXCEPT ![v] = {}]
  /\ blind' = blind \union {v}
  /\ UNCHANGED <<rowVars, workerVars, logVars, replayed, followed, told>>

\* The browser leaves, or a write to it or a read of the row fails.
Leave(v) ==
  /\ vpc[v] \in {"subscribe", "replay", "follow", "final"}
  /\ Close(v)
  /\ UNCHANGED <<rowVars, workerVars, logVars, told, blind, faults>>

-----------------------------------------------------------------------------

Handler ==
  \/ Publish \/ Push \/ Expire
  \/ LockRefused \/ FastPath \/ SetStatus \/ Proceed \/ Promote \/ MarkFailed

Stream(v) == Subscribe(v) \/ Replay(v) \/ ReplayFinished(v)

StreamNext ==
  \/ Handler \/ LogError \/ HistoryExpires \/ Abort
  \/ BeginCancel \/ Cancel \/ Stop \/ Retire
  \/ \E v \in Viewers : Connect(v) \/ Stream(v) \/ Follow(v) \/ CheckStatus(v)
                          \/ StreamError(v) \/ Leave(v)

StreamSpec == StreamInit /\ [][StreamNext]_streamVars

\* The stream handlers go on; a viewer connects, or not. (The worker goes on as well, see
\* MCServices; lines are printed, and a cancellation that has begun is written, or not.)
ViewersAreServed ==
  \A v \in Viewers : WF_streamVars(Stream(v)) /\ WF_streamVars(CheckStatus(v))

-----------------------------------------------------------------------------
(* Properties.                                                             *)

Missed(v) == Lines \ (replayed[v] \union followed[v] \union inbox[v] \union lost)

\* websocket.go subscribes before it replays the list, so a viewer who follows the
\* stream misses one line at most: the one PublishLog has published already and not
\* yet pushed. Failed calls excepted.
AtMostOneMissed ==
  \A v \in Viewers \ blind : vpc[v] = "follow" => \A i, j \in Missed(v) : i = j

\* Why: the list lacks no line but the one between its PUBLISH and its RPUSH.
ListIsComplete ==
  \A i \in Lines : i \in history \union lost \/ (emit = "push" /\ i = n)

\* The inductive invariant of the proofs.
StreamInv == StreamTypeOK /\ ListIsComplete /\ AtMostOneMissed

\* Who comes when the deployment is over gets all its lines from the list. A row can look
\* finished while its handler still publishes, or will: when a request has cancelled or
\* stopped it before its task was over, or a call has failed or a worker died.
LateViewerSeesAll ==
  faults = 0 /\ ~interrupted =>
    \A v \in Viewers : vpc[v] = "told" => Lines \subseteq replayed[v] \union lost

\* Once a viewer was told how the deployment ended, it has ended: no retry makes the row
\* active again, unless a request has cancelled or stopped it before its task was over.
\* (The task of a worker that dies before it has acknowledged a live deployment is run
\* again from the start.)
ToldIsFinal ==
  [][faults = 0 /\ ~interrupted /\ (\E v \in Viewers : told[v] # "none") => status' \notin Active]_streamVars

\* A stream is closed in the end, by a browser that leaves or by the end of the
\* deployment, unless its task was given up with the row still in progress.
ViewerIsReleased ==
  \A v \in Viewers :
    vpc[v] = "follow" ~> (vpc[v] = "closed" \/ (pc = "end" /\ status \in Active))

=============================================================================
