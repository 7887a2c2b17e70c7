------------------------------ MODULE EnvVars ------------------------------
(***************************************************************************)
(* Environment variables: the rows of env_vars, the requests that create,  *)
(* update and delete them, each a read of the row and a write by id, and   *)
(* the creation and deletion of their project around them.                 *)
(***************************************************************************)
EXTENDS Integers

CONSTANTS
  EnvProjects,
  EnvIds,         \* bound: ids for the variables ever inserted
  Keys, Values,
  Inserts,        \* the keys and values create requests ask for
  Updates,        \* the keys and values update requests ask for
  PortKey,        \* the key a new project starts with
  DefaultPort,
  Editors         \* requests running at the same time

Keep == "keep"     \* an empty key or value of an update: the field stays

ASSUME EnvVarsAssumption ==
  /\ PortKey \in Keys /\ DefaultPort \in Values
  /\ Inserts \subseteq Keys \X Values
  /\ Updates \subseteq (Keys \union {Keep}) \X (Values \union {Keep})

VARIABLES
  env,          \* the rows of the table env_vars
  usedIds,      \* ids ever inserted
  envProject,   \* the project's row: none, inserted (PORT still to come), open, deleted
  editor,       \* what each request is doing
  \* history variables
  asked,        \* what the acknowledged requests asked of a row
  overlapped    \* rows that an update has written while another update was under way

envVars == <<env, usedIds, envProject, editor, asked, overlapped>>

NoVar == [project |-> "none"]
IdleEditor == [pc |-> "idle"]

EnvInit ==
  /\ env        = [i \in EnvIds |-> NoVar]
  /\ usedIds    = {}
  /\ envProject = [p \in EnvProjects |-> "none"]
  /\ editor     = [e \in Editors |-> IdleEditor]
  /\ asked      = [i \in EnvIds |-> NoVar]
  /\ overlapped = {}

HasRow(p) == envProject[p] \in {"inserted", "open"}
HasVar(i) == env[i] # NoVar
VarsOf(p) == {i \in EnvIds : HasVar(i) /\ env[i].project = p}

\* UNIQUE(project_id, key)
KeyTaken(i, p, k) == \E j \in VarsOf(p) \ {i} : env[j].key = k

InsertVar(i, p, k, v) ==
  /\ i \notin usedIds
  /\ usedIds' = usedIds \union {i}
  /\ env' = [env EXCEPT ![i] = [project |-> p, key |-> k, value |-> v]]
  /\ asked' = [asked EXCEPT ![i] = [project |-> p, key |-> k, value |-> v]]

\* CreateProject inserts the project and then its PORT; that error is ignored.
InsertProject(p) ==
  /\ envProject[p] = "none"
  /\ envProject' = [envProject EXCEPT ![p] = "inserted"]
  /\ UNCHANGED <<env, usedIds, editor, asked, overlapped>>

InsertPort(p) ==
  /\ envProject[p] = "inserted"
  /\ envProject' = [envProject EXCEPT ![p] = "open"]
  /\ \/ /\ ~\E i \in VarsOf(p) : env[i].key = PortKey
        /\ \E i \in EnvIds : InsertVar(i, p, PortKey, DefaultPort)
     \/ UNCHANGED <<env, usedIds, asked>>
  /\ UNCHANGED <<editor, overlapped>>

\* DELETE of the project takes its variables along.
DropProject(p) ==
  /\ HasRow(p)
  /\ envProject' = [envProject EXCEPT ![p] = "deleted"]
  /\ env' = [i \in EnvIds |-> IF i \in VarsOf(p) THEN NoVar ELSE env[i]]
  /\ UNCHANGED <<usedIds, editor, asked, overlapped>>

\* CreateEnvVar: the project is read, then the row inserted. Without the project, or
\* with the key taken, the INSERT fails (and the answer is 500, never 409).
BeginCreateVar(e, p, k, v) ==
  /\ editor[e] = IdleEditor
  /\ HasRow(p)
  /\ editor' = [editor EXCEPT ![e] = [pc |-> "insert", project |-> p, key |-> k, value |-> v]]
  /\ UNCHANGED <<env, usedIds, envProject, asked, overlapped>>

CreateVar(e) ==
  /\ editor[e].pc = "insert"
  /\ LET p == editor[e].project
         k == editor[e].key
     IN IF HasRow(p) /\ \A j \in VarsOf(p) : env[j].key # k
        THEN \E i \in EnvIds : InsertVar(i, p, k, editor[e].value)
        ELSE UNCHANGED <<env, usedIds, asked>>
  /\ editor' = [editor EXCEPT ![e] = IdleEditor]
  /\ UNCHANGED <<envProject, overlapped>>

AsAsked(new, now) == new

\* An empty field of an update keeps what is there.
OrKept(new, now) == IF new = Keep THEN now ELSE new

\* The row with the fields an update may change.
WithFields(var, k, v) == [project |-> var.project, key |-> k, value |-> v]

\* UpdateEnvVar reads the project and the row and changes the copy.
ReadVar(e, i, k, v) ==
  /\ editor[e] = IdleEditor
  /\ HasVar(i)
  /\ editor' = [editor EXCEPT ![e] =
       [pc |-> "write", id |-> i, newKey |-> k, newValue |-> v,
        row |-> WithFields(env[i], OrKept(k, env[i].key), OrKept(v, env[i].value))]]
  /\ UNCHANGED <<env, usedIds, envProject, asked, overlapped>>

\* The whole copy is written back: 404 when the row has gone, 500 when the key is taken.
WriteVar(e) ==
  /\ editor[e].pc = "write"
  /\ LET i == editor[e].id
         r == editor[e].row
     IN IF HasVar(i) /\ ~KeyTaken(i, r.project, r.key)
        THEN /\ env' = [env EXCEPT ![i] = r]
             /\ asked' = [asked EXCEPT ![i] =
                  WithFields(@, IF editor[e].newKey = Keep THEN @.key ELSE editor[e].newKey,
                                IF editor[e].newValue = Keep THEN @.value ELSE editor[e].newValue)]
             /\ overlapped' = IF \E f \in Editors \ {e} : editor[f].pc = "write" /\ editor[f].id = i
                              THEN overlapped \union {i} ELSE overlapped
        ELSE UNCHANGED <<env, asked, overlapped>>
  /\ editor' = [editor EXCEPT ![e] = IdleEditor]
  /\ UNCHANGED <<usedIds, envProject>>

\* DeleteEnvVar reads project and row, then deletes by id; that it is gone is no error.
BeginDeleteVar(e, i) ==
  /\ editor[e] = IdleEditor
  /\ HasVar(i)
  /\ editor' = [editor EXCEPT ![e] = [pc |-> "delete", id |-> i]]
  /\ UNCHANGED <<env, usedIds, envProject, asked, overlapped>>

DeleteVar(e) ==
  /\ editor[e].pc = "delete"
  /\ env' = [env EXCEPT ![editor[e].id] = NoVar]
  /\ editor' = [editor EXCEPT ![e] = IdleEditor]
  /\ UNCHANGED <<usedIds, envProject, asked, overlapped>>

CreateVarRequest(e) ==
  CreateVar(e) \/ \E p \in EnvProjects, x \in Inserts : BeginCreateVar(e, p, x[1], x[2])

UpdateVarRequest(e) ==
  WriteVar(e) \/ \E i \in EnvIds, x \in Updates : ReadVar(e, i, x[1], x[2])

DeleteVarRequest(e) == DeleteVar(e) \/ \E i \in EnvIds : BeginDeleteVar(e, i)

EnvNext ==
  \/ \E p \in EnvProjects : InsertProject(p) \/ InsertPort(p) \/ DropProject(p)
  \/ \E e \in Editors : CreateVarRequest(e) \/ UpdateVarRequest(e) \/ DeleteVarRequest(e)

EnvSpec == EnvInit /\ [][EnvNext]_envVars

\* A row carries what the acknowledged requests asked for, field by field, unless two
\* updates of it overlapped: then the later write restores fields it had read before
\* (usecase/envvar.go:118).
UpdatesLand ==
  \A i \in EnvIds : HasVar(i) /\ i \notin overlapped => env[i] = asked[i]

=============================================================================
