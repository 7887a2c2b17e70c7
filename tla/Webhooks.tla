------------------------------ MODULE Webhooks ------------------------------
(***************************************************************************)
(* The webhook GitHub keeps for a project: a goroutine that outlives the   *)
(* request registers it after the INSERT of the project, and a task of the *)
(* worker deletes it, which the deletion of the project enqueues before it *)
(* deletes the row. Requests, goroutine and task interleave.               *)
(***************************************************************************)
EXTENDS Integers

CONSTANTS
  HookProjects,
  Deletions,      \* delete requests running at the same time
  MaxAttempts,    \* bound: asynq attempts of a deletion task
  MaxHookFaults   \* bound: refused calls and API restarts

ASSUME WebhooksAssumption == MaxAttempts \in Nat \ {0} /\ MaxHookFaults \in Nat

VARIABLES
  hookRow,      \* the project's row: "none", "open" or "deleted"
  register,     \* the goroutine that registers the webhook
  hooks,        \* projects with a webhook at GitHub
  deletion,     \* where a delete request stands, and for which project
  hookTasks,    \* the deletion tasks of the queue
  hookFaults,
  \* history variables
  cleaned,      \* projects a deletion task is done for
  lateHooks,    \* webhooks registered after such a task
  lostTasks     \* projects with a task that was not enqueued, or archived

hookVars == <<hookRow, register, hooks, deletion, hookTasks, hookFaults, cleaned, lateHooks, lostTasks>>

NoDeletion == [pc |-> "idle"]

HooksInit ==
  /\ hookRow   = [p \in HookProjects |-> "none"]
  /\ register  = [p \in HookProjects |-> "none"]
  /\ hooks     = {}
  /\ deletion  = [r \in Deletions |-> NoDeletion]
  /\ hookTasks = {}
  /\ hookFaults = 0
  /\ cleaned   = {}
  /\ lateHooks = {}
  /\ lostTasks = {}

HookFault == hookFaults < MaxHookFaults /\ hookFaults' = hookFaults + 1

\* The two calls to GitHub. To delete a webhook is to list those of the repository and
\* delete the one with the project's URL; to find none is no error.
CreateWebhook(p) == hooks' = hooks \union {p}
DeleteWebhook(p) == hooks' = hooks \ {p}

\* The INSERT of the project, then `go`.
OpenProject(p) ==
  /\ hookRow[p] = "none"
  /\ hookRow' = [hookRow EXCEPT ![p] = "open"]
  /\ register' = [register EXCEPT ![p] = "running"]
  /\ UNCHANGED <<hooks, deletion, hookTasks, hookFaults, cleaned, lateHooks, lostTasks>>

\* CreateWebhook succeeds, or there is no token, or GitHub refuses: a warning is logged.
RegisterHook(p) ==
  /\ register[p] = "running"
  /\ register' = [register EXCEPT ![p] = "over"]
  /\ \/ /\ CreateWebhook(p)
        /\ lateHooks' = IF p \in cleaned THEN lateHooks \union {p} ELSE lateHooks
     \/ UNCHANGED <<hooks, lateHooks>>
  /\ UNCHANGED <<hookRow, deletion, hookTasks, hookFaults, cleaned, lostTasks>>

BeginDeletion(r, p) ==
  /\ deletion[r] = NoDeletion
  /\ hookRow[p] = "open"
  /\ deletion' = [deletion EXCEPT ![r] = [pc |-> "enqueue", project |-> p]]
  /\ UNCHANGED <<hookRow, register, hooks, hookTasks, hookFaults, cleaned, lateHooks, lostTasks>>

\* A refused Enqueue is logged: the project is deleted all the same.
EnqueueDeletion(r) ==
  /\ deletion[r].pc = "enqueue"
  /\ LET p == deletion[r].project IN
     /\ deletion' = [deletion EXCEPT ![r] = [pc |-> "delete", project |-> p]]
     /\ \/ /\ hookTasks' = hookTasks \union {[project |-> p, by |-> r, attempt |-> 1]}
           /\ UNCHANGED <<lostTasks, hookFaults>>
        \/ HookFault /\ lostTasks' = lostTasks \union {p} /\ UNCHANGED hookTasks
  /\ UNCHANGED <<hookRow, register, hooks, cleaned, lateHooks>>

DeleteProjectRow(r) ==
  /\ deletion[r].pc = "delete"
  /\ hookRow' = [hookRow EXCEPT ![deletion[r].project] = "deleted"]
  /\ deletion' = [deletion EXCEPT ![r] = NoDeletion]
  /\ UNCHANGED <<register, hooks, hookTasks, hookFaults, cleaned, lateHooks, lostTasks>>

\* The task of the worker. A user without a token has no webhook either.
DeleteHook(p) ==
  \E t \in hookTasks :
    /\ t.project = p
    /\ DeleteWebhook(p)
    /\ hookTasks' = hookTasks \ {t}
    /\ cleaned' = cleaned \union {p}
    /\ UNCHANGED <<hookRow, register, deletion, hookFaults, lateHooks, lostTasks>>

HookErrorForgotten(p) ==
  \E t \in hookTasks :
    /\ t.project = p
    /\ HookFault
    /\ hookTasks' = hookTasks \ {t}
    /\ UNCHANGED <<hookRow, register, hooks, deletion, cleaned, lateHooks, lostTasks>>

\* Postgres or GitHub refuses: the handler returns the error, asynq tries again.
HookError(p) ==
  \E t \in hookTasks :
    /\ t.project = p
    /\ HookFault
    /\ IF t.attempt < MaxAttempts
       THEN /\ hookTasks' = (hookTasks \ {t}) \union {[t EXCEPT !.attempt = @ + 1]}
            /\ UNCHANGED lostTasks
       ELSE hookTasks' = hookTasks \ {t} /\ lostTasks' = lostTasks \union {p}
    /\ UNCHANGED <<hookRow, register, hooks, deletion, cleaned, lateHooks>>

\* The API process restarts: goroutines and requests end where they stand.
RestartHooks ==
  /\ HookFault
  /\ register' = [p \in HookProjects |-> IF register[p] = "running" THEN "over" ELSE register[p]]
  /\ deletion' = [r \in Deletions |-> NoDeletion]
  /\ UNCHANGED <<hookRow, hooks, hookTasks, cleaned, lateHooks, lostTasks>>

HooksNext ==
  \/ \E p \in HookProjects : OpenProject(p) \/ RegisterHook(p) \/ DeleteHook(p) \/ HookError(p)
  \/ \E r \in Deletions : \/ \E p \in HookProjects : BeginDeletion(r, p)
                          \/ EnqueueDeletion(r) \/ DeleteProjectRow(r)
  \/ RestartHooks

HooksSpec == HooksInit /\ [][HooksNext]_hookVars

\* asynq hands the tasks of the queue to a worker.
HooksFairness == \A p \in HookProjects : WF_hookVars(DeleteHook(p))

\* The webhook of a deleted project goes, unless the goroutine that registers it came
\* after the task (project.go:108), or the task was never enqueued or was archived.
HookFollowsProject ==
  \A p \in HookProjects :
    (hookRow[p] = "deleted" /\ p \in hooks)
      ~> (p \notin hooks \/ p \in lateHooks \union lostTasks)

=============================================================================
