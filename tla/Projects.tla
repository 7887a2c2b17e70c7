------------------------------ MODULE Projects ------------------------------
(***************************************************************************)
(* Projects: their rows and the domains their containers are routed under, *)
(* the API requests that create, update and delete them, the manual and    *)
(* push requests that trigger a deployment. A request is cut at its        *)
(* database and Docker calls. The webhook that a creation registers and a  *)
(* deletion removes is in the module Webhooks, the PORT variable of a new  *)
(* project in EnvVars: their errors are logged or ignored here.            *)
(*                                                                         *)
(* A deployment is reduced to what a project tells apart: it is queued,    *)
(* its container is up, its switch is over. The module DeployPipeline has  *)
(* the handler in full.                                                    *)
(***************************************************************************)
EXTENDS Integers, Sequences

CONSTANTS
  Users,
  GitHubName,     \* a user's GitHub name in lower case, split at its dashes
  LaterNames,     \* names a user may give himself at GitHub later on
  NamesOf,        \* names a user may ask for, split at their dashes
  MaxProjects,    \* bound: project rows ever inserted
  MaxBuilds,      \* bound: deployments ever inserted
  Callers,        \* API request handlers running at the same time
  MaxMishaps      \* bound: refused calls, API restarts, logins under a new GitHub name

ProjectIds == 1..MaxProjects
BuildIds == 1..MaxBuilds
NoName == <<>>
AllNames == UNION {NamesOf[u] : u \in Users}
AllGitHubNames == UNION {{GitHubName[u]} \union LaterNames[u] : u \in Users}

ASSUME ProjectsAssumption ==
  /\ GitHubName \in [Users -> Seq(STRING)]
  /\ LaterNames \in [Users -> SUBSET Seq(STRING)]
  /\ NamesOf \in [Users -> SUBSET (Seq(STRING) \ {NoName})]
  /\ MaxProjects \in Nat /\ MaxBuilds \in Nat
  /\ MaxMishaps \in Nat

VARIABLES
  gitHubName,  \* the column github_username of the users
  project,     \* the rows of the table projects
  created,     \* ids ever inserted
  build,       \* the deployments and the payloads of their tasks
  liveRows,    \* deployments whose row is live and carries a container id
  upBuilds,    \* deployments whose container runs
  caller,      \* what each request handler is doing
  mishaps,
  \* history variables: nothing the program does depends on them
  renamed,     \* projects whose domain has changed
  missed       \* deployments the deletion of their project could not stop

projectVars == <<gitHubName, project, created, build, liveRows, upBuilds, caller, mishaps, renamed, missed>>
tableVars  == <<gitHubName, project, created, renamed>>
buildVars  == <<build, liveRows, upBuilds, missed>>

NoRow == [user |-> NoName]
IdleCaller == [op |-> "idle"]
NoBuild == [stage |-> "none"]

ProjectsInit ==
  /\ gitHubName = GitHubName
  /\ project   = [p \in ProjectIds |-> NoRow]
  /\ created   = {}
  /\ build     = [d \in BuildIds |-> NoBuild]
  /\ liveRows  = {}
  /\ upBuilds  = {}
  /\ caller    = [c \in Callers |-> IdleCaller]
  /\ mishaps   = 0
  /\ renamed   = {}
  /\ missed    = {}

ProjectExists(p) == project[p] # NoRow

\* name-username.domain, with a dash in between: what was split where is lost. The
\* username is the one of the moment; a row keeps the domain it was given.
DomainOf(n, u) == n \o gitHubName[u]
RowOf(u, n) == [user |-> u, name |-> n, domain |-> DomainOf(n, u)]

SameOwnerAndName(p, r) ==
  \A q \in ProjectIds \ {p} : ProjectExists(q) => <<project[q].user, project[q].name>> # <<r.user, r.name>>

\* UNIQUE(user_id, name), and UNIQUE(domain) of the third migration.
Unique(p, r) ==
  /\ SameOwnerAndName(p, r)
  /\ \A q \in ProjectIds \ {p} : ProjectExists(q) => project[q].domain # r.domain

Become(c, r) == caller' = [caller EXCEPT ![c] = r]
Mishap == mishaps < MaxMishaps /\ mishaps' = mishaps + 1

-----------------------------------------------------------------------------
(* Create and update.                                                      *)

\* A login overwrites the user's name with the one GitHub gives at that moment.
Login(u) ==
  /\ Mishap
  /\ \E g \in LaterNames[u] : gitHubName' = [gitHubName EXCEPT ![u] = g]
  /\ UNCHANGED <<project, created, renamed, buildVars, caller>>

\* CreateProject reads the user, whose name makes the domain ...
ReadForCreate(c, u, n) ==
  /\ caller[c] = IdleCaller
  /\ created # ProjectIds
  /\ Become(c, [op |-> "create", row |-> RowOf(u, n)])
  /\ UNCHANGED <<tableVars, buildVars, mishaps>>

\* ... and inserts the row; a name or domain that is taken is refused.
InsertProject(c) ==
  /\ caller[c].op = "create"
  /\ \/ \E p \in ProjectIds \ created :
          /\ \A q \in ProjectIds : q < p => q \in created
          /\ Unique(p, caller[c].row)
          /\ project' = [project EXCEPT ![p] = caller[c].row]
          /\ created' = created \union {p}
     \/ UNCHANGED <<project, created>>
  /\ Become(c, IdleCaller)
  /\ UNCHANGED <<gitHubName, renamed, buildVars, mishaps>>

\* UpdateProject reads the row and the user and changes the copy; NoName: only the branch
\* changes.
ReadForUpdate(c, p, n) ==
  /\ caller[c] = IdleCaller
  /\ ProjectExists(p)
  /\ n \in NamesOf[project[p].user] \union {NoName}
  /\ Become(c, [op |-> "write", project |-> p,
                row |-> IF n = NoName THEN project[p] ELSE RowOf(project[p].user, n)])
  /\ UNCHANGED <<tableVars, buildVars, mishaps>>

\* The whole copy is written back. A name or domain that is taken is refused; the
\* UPDATE of a project deleted meanwhile changes nothing, and is no error.
WriteProject(c) ==
  /\ caller[c].op = "write"
  /\ LET p == caller[c].project
         r == caller[c].row
     IN IF ProjectExists(p) /\ Unique(p, r)
        THEN /\ project' = [project EXCEPT ![p] = r]
             /\ renamed' = IF r.domain # project[p].domain THEN renamed \union {p} ELSE renamed
        ELSE UNCHANGED <<project, renamed>>
  /\ Become(c, IdleCaller)
  /\ UNCHANGED <<gitHubName, created, buildVars, mishaps>>

-----------------------------------------------------------------------------
(* Delete.                                                                 *)

ReadForDelete(c, p) ==
  /\ caller[c] = IdleCaller
  /\ ProjectExists(p)
  /\ Become(c, [op |-> "list", project |-> p])
  /\ UNCHANGED <<tableVars, buildVars, mishaps>>

BuildsOf(p) == {d \in BuildIds : build[d] # NoBuild /\ build[d].project = p}
UnderWay(p) == {d \in BuildsOf(p) : build[d].stage # "over"}
NewestOf(S) == {d \in S : \A e \in S : e <= d}

ListNewestForDelete(c) ==
  /\ caller[c].op = "list"
  /\ LET p == caller[c].project IN
     /\ Become(c, [op |-> "stop", project |-> p, todo |-> NewestOf(BuildsOf(p)) \intersect liveRows])
     /\ missed' = missed \union UnderWay(p)
  /\ UNCHANGED <<tableVars, build, liveRows, upBuilds, mishaps>>

\* The rows with a container id. The id is stored by the last UPDATE of a deployment
\* and its container is gone again once the row is retired.
ListForDelete(c) ==
  /\ caller[c].op = "list"
  /\ LET p == caller[c].project IN
     /\ Become(c, [op |-> "stop", project |-> p, todo |-> BuildsOf(p) \intersect liveRows])
     /\ missed' = missed \union UnderWay(p)
  /\ UNCHANGED <<tableVars, build, liveRows, upBuilds, mishaps>>

\* Stop and remove the next container; what Docker refuses is logged and left.
StopForDelete(c) ==
  /\ caller[c].op = "stop"
  /\ \E d \in NewestOf(caller[c].todo) :
     /\ Become(c, [caller[c] EXCEPT !.todo = @ \ {d}])
     /\ \/ upBuilds' = upBuilds \ {d} /\ UNCHANGED <<missed, mishaps>>
        \/ Mishap /\ missed' = missed \union {d} /\ UNCHANGED upBuilds
  /\ UNCHANGED <<tableVars, build, liveRows>>

\* DELETE of the project: its deployments go with it.
DeleteRow(c) ==
  /\ caller[c].op = "stop"
  /\ caller[c].todo = {}
  /\ LET p == caller[c].project IN
     /\ project' = [project EXCEPT ![p] = NoRow]
     /\ liveRows' = liveRows \ BuildsOf(p)
  /\ Become(c, IdleCaller)
  /\ UNCHANGED <<gitHubName, created, renamed, build, upBuilds, missed, mishaps>>

-----------------------------------------------------------------------------
(* Deployments.                                                            *)

\* TriggerDeployment reads the project: the payload carries the domain of that moment.
ReadForTrigger(c, p) ==
  /\ caller[c] = IdleCaller
  /\ ProjectExists(p)
  /\ Become(c, [op |-> "insert", project |-> p, domain |-> project[p].domain])
  /\ UNCHANGED <<tableVars, buildVars, mishaps>>

\* The push endpoint reads the project a first time for its secret ...
VerifyPush(c, p) ==
  /\ caller[c] = IdleCaller
  /\ ProjectExists(p)
  /\ Become(c, [op |-> "push", project |-> p])
  /\ UNCHANGED <<tableVars, buildVars, mishaps>>

\* ... and a second time for branch and domain: it answers 200 when the project is gone
\* by now, 500 when the push is to another branch.
ReadForPush(c) ==
  /\ caller[c].op = "push"
  /\ LET p == caller[c].project IN
     \/ ProjectExists(p) /\ Become(c, [op |-> "insert", project |-> p, domain |-> project[p].domain])
     \/ Become(c, IdleCaller)
  /\ UNCHANGED <<tableVars, buildVars, mishaps>>

Listed(p) == \E c \in Callers : caller[c].op = "stop" /\ caller[c].project = p

\* INSERT of the deployment and Enqueue; without the project's row the INSERT fails.
InsertBuild(c, d) ==
  /\ caller[c].op = "insert"
  /\ build[d] = NoBuild
  /\ \A e \in BuildIds : e < d => build[e] # NoBuild
  /\ LET p == caller[c].project IN
     IF ProjectExists(p)
     THEN /\ build' = [build EXCEPT ![d] = [stage |-> "queued", project |-> p, domain |-> caller[c].domain]]
          /\ missed' = IF Listed(p) THEN missed \union {d} ELSE missed
     ELSE UNCHANGED <<build, missed>>
  /\ Become(c, IdleCaller)
  /\ UNCHANGED <<tableVars, liveRows, upBuilds, mishaps>>

Advance(d, s) == build' = [build EXCEPT ![d].stage = s]

\* The handler, under the project's lock, reads the project after its build, and starts
\* the container under the domain of the payload. Without a project, or when it does not
\* start, the deployment has failed. (A container that starts after the project it has
\* read is gone is the same as one that was up by then.)
StartBuild(d) ==
  /\ build[d].stage = "queued"
  /\ \A e \in UnderWay(build[d].project) : build[e].stage # "up"
  /\ \/ ProjectExists(build[d].project) /\ Advance(d, "up") /\ upBuilds' = upBuilds \union {d}
     \/ Advance(d, "over") /\ UNCHANGED upBuilds
  /\ UNCHANGED <<tableVars, liveRows, missed, caller, mishaps>>

\* The switch: the other live rows are retired with their containers, this one goes
\* live. Of a deleted project there are no rows: nothing is listed, nothing updated.
SwitchTo(d) ==
  /\ build[d].stage = "up"
  /\ LET p == build[d].project
         old == liveRows \intersect BuildsOf(p)
     IN /\ upBuilds' = upBuilds \ old
        /\ liveRows' = (liveRows \ old) \union (IF ProjectExists(p) THEN {d} ELSE {})
  /\ Advance(d, "over")
  /\ UNCHANGED <<tableVars, missed, caller, mishaps>>

\* The API process restarts: requests end where they stand.
RestartApi ==
  /\ Mishap
  /\ caller' = [c \in Callers |-> IdleCaller]
  /\ UNCHANGED <<tableVars, buildVars>>

-----------------------------------------------------------------------------

\* The handlers of the API; what they refuse at once changes nothing.
CreateRequest(c) == InsertProject(c) \/ \E u \in Users : \E n \in NamesOf[u] : ReadForCreate(c, u, n)

UpdateRequest(c) ==
  \/ \E p \in ProjectIds, n \in AllNames \union {NoName} : ReadForUpdate(c, p, n)
  \/ WriteProject(c)

DeleteRequest(c) ==
  \/ \E p \in ProjectIds : ReadForDelete(c, p)
  \/ ListForDelete(c) \/ StopForDelete(c) \/ DeleteRow(c)

TriggerRequest(c) == \E p \in ProjectIds : ReadForTrigger(c, p)
PushRequest(c) == ReadForPush(c) \/ \E p \in ProjectIds : VerifyPush(c, p)

ProjectsNext ==
  \/ \E u \in Users : Login(u)
  \/ \E c \in Callers : \/ CreateRequest(c) \/ UpdateRequest(c) \/ DeleteRequest(c)
                        \/ TriggerRequest(c) \/ PushRequest(c)
                        \/ \E d \in BuildIds : InsertBuild(c, d)
  \/ \E d \in BuildIds : StartBuild(d) \/ SwitchTo(d)
  \/ RestartApi

ProjectsSpec == ProjectsInit /\ [][ProjectsNext]_projectVars

-----------------------------------------------------------------------------
(* Properties.                                                             *)

\* A container of a deleted project still runs only if its deployment was under way
\* when the deletion read the deployments (project.go:202), or Docker refused.
DeletedLeavesNothing ==
  \A d \in upBuilds : ProjectExists(build[d].project) \/ d \in missed

Excused(d) == d \in missed \/ build[d].project \in renamed

\* Containers of two projects answer for one domain only if one of the projects has
\* been renamed since (its container keeps the old rule) or was deleted around it.
NoRouteClash ==
  \A d, e \in upBuilds :
    build[d].project # build[e].project /\ build[d].domain = build[e].domain
      => Excused(d) \/ Excused(e)

-----------------------------------------------------------------------------
(* The inductive invariant of the proofs.                                  *)

Domains == {n \o g : n \in AllNames, g \in AllGitHubNames}
Rows == [user : Users, name : AllNames, domain : Domains]
Builds == [stage : {"queued", "up", "over"}, project : ProjectIds, domain : Domains]
CallerStates ==
  {IdleCaller} \union [op : {"create"}, row : Rows]
    \union [op : {"write"}, project : ProjectIds, row : Rows]
    \union [op : {"list", "push"}, project : ProjectIds]
    \union [op : {"stop"}, project : ProjectIds, todo : SUBSET BuildIds]
    \union [op : {"insert"}, project : ProjectIds, domain : Domains]

ProjectsTypeOK ==
  /\ gitHubName \in [Users -> AllGitHubNames]
  /\ project  \in [ProjectIds -> Rows \union {NoRow}]
  /\ created  \in SUBSET ProjectIds
  /\ build    \in [BuildIds -> Builds \union {NoBuild}]
  /\ liveRows \in SUBSET BuildIds /\ upBuilds \in SUBSET BuildIds
  /\ caller   \in [Callers -> CallerStates]
  /\ renamed  \in SUBSET ProjectIds /\ missed \in SUBSET BuildIds

\* Ids are not used again: rows, deployments and requests are about ids that were inserted.
OnlyCreated ==
  /\ \A p \in ProjectIds : ProjectExists(p) => p \in created
  /\ \A d \in BuildIds : build[d] # NoBuild => build[d].project \in created
  /\ \A c \in Callers : caller[c].op \notin {"idle", "create"} => caller[c].project \in created

\* Why no two projects share a domain: the index.
DistinctDomains ==
  \A p, q \in ProjectIds :
    ProjectExists(p) /\ ProjectExists(q) /\ p # q => project[p].domain # project[q].domain

\* Until its project is renamed, a deployment carries the domain its project has.
CarriesDomain ==
  /\ \A d \in BuildIds :
       build[d] # NoBuild /\ ProjectExists(build[d].project) /\ build[d].project \notin renamed
         => build[d].domain = project[build[d].project].domain
  /\ \A c \in Callers :
       caller[c].op = "insert" /\ ProjectExists(caller[c].project) /\ caller[c].project \notin renamed
         => caller[c].domain = project[caller[c].project].domain

\* What a deletion finds by its list: a container whose switch is over has a live row.
UpIsListed ==
  \A d \in upBuilds :
    /\ build[d] # NoBuild /\ build[d].stage # "queued"
    /\ build[d].stage = "over" /\ ProjectExists(build[d].project) => d \in liveRows

\* What a deletion past its list will stop, and what it has missed.
DeletionCovers ==
  \A c \in Callers : caller[c].op = "stop" =>
    /\ UnderWay(caller[c].project) \subseteq missed
    /\ BuildsOf(caller[c].project) \intersect upBuilds \subseteq caller[c].todo \union missed

ProjectsInv ==
  /\ ProjectsTypeOK /\ OnlyCreated /\ DistinctDomains /\ CarriesDomain
  /\ UpIsListed /\ DeletionCovers /\ DeletedLeavesNothing

=============================================================================
