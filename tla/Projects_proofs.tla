--------------------------- MODULE Projects_proofs ---------------------------
(***************************************************************************)
(* Theorems about Projects, for every set of users and names and every     *)
(* number of projects, deployments, requests and mishaps.                  *)
(***************************************************************************)
EXTENDS Projects, TLAPS

\* A row is not the absence of one.
LEMMA RowIsNoNoRow == NoRow \notin Rows
<1> SUFFICES ASSUME NEW r \in Rows PROVE r # NoRow
  OBVIOUS
<1>1. DOMAIN r # DOMAIN NoRow
  BY DEF Rows, NoRow
<1> QED
  BY <1>1

\* A row is made of a name, its user and the user's name at GitHub.
LEMMA RowIsARow ==
  ASSUME ProjectsTypeOK, NEW u \in Users, NEW n \in AllNames
  PROVE  RowOf(u, n) \in Rows
<1>1. gitHubName[u] \in AllGitHubNames
  BY DEF ProjectsTypeOK
<1>2. DomainOf(n, u) \in Domains
  BY <1>1 DEF DomainOf, Domains
<1> QED
  BY <1>2 DEF RowOf, Rows

\* A deployment is not the absence of one.
LEMMA BuildIsNoNoBuild == NoBuild \notin Builds /\ \A b \in Builds : b.stage # "none"
  BY DEF Builds, NoBuild

\* A request that moves on is at its new place, and the others where they were.
LEMMA CallerMoves ==
  ASSUME ProjectsTypeOK, NEW c \in Callers, NEW r \in CallerStates, Become(c, r)
  PROVE  /\ caller' \in [Callers -> CallerStates]
         /\ caller'[c] = r
         /\ \A e \in Callers \ {c} : caller'[e] = caller[e]
  BY DEF Become, ProjectsTypeOK

-----------------------------------------------------------------------------
(* Requests that only read.                                                *)

\* A request that has read a project, or that ends, changes nothing of the rest.
LEMMA ReadKeeps ==
  ASSUME ProjectsInv, NEW c \in Callers, NEW r \in CallerStates, Become(c, r),
         r.op # "stop",
         r.op \notin {"idle", "create"} => r.project \in created,
         r.op = "insert" /\ ProjectExists(r.project) /\ r.project \notin renamed
           => r.domain = project[r.project].domain,
         UNCHANGED <<tableVars, buildVars>>
  PROVE  ProjectsInv'
<1> USE DEF ProjectsInv, tableVars, buildVars
<1>1. /\ caller' \in [Callers -> CallerStates]
      /\ caller'[c] = r
      /\ \A e \in Callers \ {c} : caller'[e] = caller[e]
  BY CallerMoves
<1>2. ProjectsTypeOK'
  BY <1>1 DEF ProjectsTypeOK
<1>3. OnlyCreated'
  BY <1>1 DEF OnlyCreated, ProjectExists
<1>4. DistinctDomains'
  BY DEF DistinctDomains, ProjectExists
<1>5. CarriesDomain'
  BY <1>1 DEF CarriesDomain, ProjectExists
<1>6. UpIsListed' /\ DeletedLeavesNothing'
  BY DEF UpIsListed, DeletedLeavesNothing, ProjectExists
<1>7. DeletionCovers'
  BY <1>1 DEF DeletionCovers, UnderWay, BuildsOf
<1> QED
  BY <1>2, <1>3, <1>4, <1>5, <1>6, <1>7

LEMMA ReadStep ==
  ASSUME ProjectsInv, NEW c \in Callers, NEW p \in ProjectIds,
         \/ \E n \in AllNames \union {NoName} : ReadForUpdate(c, p, n)
         \/ ReadForDelete(c, p) \/ ReadForTrigger(c, p) \/ VerifyPush(c, p)
  PROVE  ProjectsInv'
<1> USE DEF ProjectsInv
<1>1. ProjectExists(p) /\ UNCHANGED <<tableVars, buildVars>>
  BY DEF ReadForUpdate, ReadForDelete, ReadForTrigger, VerifyPush
<1>2. p \in created /\ project[p] \in Rows
  BY <1>1 DEF OnlyCreated, ProjectsTypeOK, ProjectExists
<1>3. project[p].user \in Users /\ project[p].domain \in Domains
  BY <1>2 DEF Rows
<1>4. ASSUME NEW n \in AllNames \union {NoName}, ReadForUpdate(c, p, n) PROVE ProjectsInv'
  <2> DEFINE r == [op |-> "write", project |-> p,
                   row |-> IF n = NoName THEN project[p] ELSE RowOf(project[p].user, n)]
  <2>1. n # NoName => RowOf(project[p].user, n) \in Rows
    BY <1>3, RowIsARow
  <2>2. r \in CallerStates
    BY <1>2, <2>1 DEF CallerStates
  <2>3. Become(c, r)
    BY <1>4 DEF ReadForUpdate
  <2> QED
    BY <1>1, <1>2, <2>2, <2>3, ReadKeeps
<1>5. ASSUME NEW o \in {"list", "push"}, Become(c, [op |-> o, project |-> p]) PROVE ProjectsInv'
  <2>1. [op |-> o, project |-> p] \in CallerStates
    BY DEF CallerStates
  <2> QED
    BY <1>1, <1>2, <1>5, <2>1, ReadKeeps
<1>6. CASE ReadForTrigger(c, p)
  <2>1. [op |-> "insert", project |-> p, domain |-> project[p].domain] \in CallerStates
    BY <1>3 DEF CallerStates
  <2> QED
    BY <1>1, <1>2, <1>6, <2>1, ReadKeeps DEF ReadForTrigger
<1> QED
  BY <1>4, <1>5, <1>6 DEF ReadForDelete, VerifyPush

LEMMA ReadForPushStep ==
  ASSUME ProjectsInv, NEW c \in Callers, ReadForPush(c)
  PROVE  ProjectsInv'
<1> DEFINE p == caller[c].project
<1> USE DEF ProjectsInv
<1>1. caller[c].op = "push" /\ UNCHANGED <<tableVars, buildVars>>
  BY DEF ReadForPush
<1>2. p \in ProjectIds /\ p \in created
  BY <1>1 DEF ProjectsTypeOK, CallerStates, IdleCaller, OnlyCreated
<1>3. CASE ProjectExists(p) /\ Become(c, [op |-> "insert", project |-> p, domain |-> project[p].domain])
  <2>1. project[p].domain \in Domains
    BY <1>2, <1>3 DEF ProjectsTypeOK, ProjectExists, Rows
  <2>2. [op |-> "insert", project |-> p, domain |-> project[p].domain] \in CallerStates
    BY <1>2, <2>1 DEF CallerStates
  <2> QED
    BY <1>1, <1>2, <1>3, <2>2, ReadKeeps
<1>4. CASE Become(c, IdleCaller)
  <2>1. IdleCaller \in CallerStates /\ IdleCaller.op = "idle"
    BY DEF CallerStates, IdleCaller
  <2> QED
    BY <1>1, <1>4, <2>1, ReadKeeps
<1> QED
  BY <1>3, <1>4 DEF ReadForPush

-----------------------------------------------------------------------------
(* Requests that write the table of projects.                              *)

\* A new name at GitHub changes no row.
LEMMA LoginStep ==
  ASSUME ProjectsInv, NEW u \in Users, Login(u)
  PROVE  ProjectsInv'
<1> USE DEF ProjectsInv, buildVars
<1>1. PICK g \in LaterNames[u] : gitHubName' = [gitHubName EXCEPT ![u] = g]
  BY DEF Login
<1>2. UNCHANGED <<project, created, renamed, buildVars, caller>>
  BY DEF Login
<1>3. g \in AllGitHubNames
  BY DEF AllGitHubNames
<1>4. ProjectsTypeOK'
  BY <1>1, <1>2, <1>3 DEF ProjectsTypeOK
<1>5. OnlyCreated' /\ DistinctDomains' /\ CarriesDomain'
  BY <1>2 DEF OnlyCreated, DistinctDomains, CarriesDomain, ProjectExists
<1>6. UpIsListed' /\ DeletedLeavesNothing' /\ DeletionCovers'
  BY <1>2 DEF UpIsListed, DeletedLeavesNothing, DeletionCovers, ProjectExists, UnderWay, BuildsOf
<1> QED
  BY <1>4, <1>5, <1>6

LEMMA ReadForCreateStep ==
  ASSUME ProjectsInv, NEW c \in Callers, NEW u \in Users, NEW n \in AllNames, ReadForCreate(c, u, n)
  PROVE  ProjectsInv'
<1> DEFINE r == [op |-> "create", row |-> RowOf(u, n)]
<1>1. RowOf(u, n) \in Rows
  BY RowIsARow DEF ProjectsInv
<1>2. r \in CallerStates
  BY <1>1 DEF CallerStates
<1> QED
  BY <1>2, ReadKeeps DEF ReadForCreate

\* A new project has an id nothing refers to, and a domain nobody has.
LEMMA InsertStep ==
  ASSUME ProjectsInv, NEW c \in Callers, InsertProject(c)
  PROVE  ProjectsInv'
<1> DEFINE r == caller[c].row
<1> USE DEF ProjectsInv, buildVars
<1>1. /\ caller[c].op = "create" /\ Become(c, IdleCaller)
      /\ UNCHANGED <<gitHubName, renamed, build, liveRows, upBuilds, missed>>
  BY DEF InsertProject
<1>2. r \in Rows /\ r # NoRow
  BY <1>1, RowIsNoNoRow DEF ProjectsTypeOK, CallerStates, IdleCaller
<1>3. IdleCaller \in CallerStates /\ IdleCaller.op = "idle"
  BY DEF CallerStates, IdleCaller
<1>4. /\ caller' \in [Callers -> CallerStates]
      /\ caller'[c] = IdleCaller
      /\ \A e \in Callers \ {c} : caller'[e] = caller[e]
  BY <1>1, <1>3, CallerMoves
<1>5. ASSUME NEW p \in ProjectIds \ created, Unique(p, r),
             project' = [project EXCEPT ![p] = r], created' = created \union {p}
      PROVE  ProjectsInv'
  <2>1. ~ProjectExists(p) /\ project'[p] = r /\ \A q \in ProjectIds \ {p} : project'[q] = project[q]
    BY <1>5 DEF OnlyCreated, ProjectsTypeOK
  <2>2. ProjectsTypeOK'
    BY <1>1, <1>2, <1>4, <1>5 DEF ProjectsTypeOK
  <2>3. OnlyCreated'
    BY <1>1, <1>3, <1>4, <1>5, <2>1 DEF OnlyCreated, ProjectExists
  <2>4. DistinctDomains'
    BY <1>5, <2>1 DEF DistinctDomains, ProjectExists, Unique
  <2>5. \A d \in BuildIds : build[d] # NoBuild => build[d].project \in ProjectIds \ {p}
    BY <1>5 DEF OnlyCreated, ProjectsTypeOK
  <2>6. \A e \in Callers : caller[e].op = "insert" => caller[e].project \in ProjectIds \ {p}
    BY <1>5 DEF OnlyCreated, ProjectsTypeOK, IdleCaller
  <2>7. CarriesDomain'
    BY <1>1, <1>3, <1>4, <2>1, <2>5, <2>6 DEF CarriesDomain, ProjectExists
  <2>8. UpIsListed' /\ DeletedLeavesNothing'
    BY <1>1, <2>1, <2>5 DEF UpIsListed, DeletedLeavesNothing, ProjectExists, ProjectsTypeOK
  <2>9. DeletionCovers'
    BY <1>1, <1>3, <1>4 DEF DeletionCovers, UnderWay, BuildsOf
  <2> QED
    BY <2>2, <2>3, <2>4, <2>7, <2>8, <2>9
<1>6. CASE UNCHANGED <<project, created>>
  <2>1. UNCHANGED <<tableVars, buildVars>>
    BY <1>1, <1>6 DEF tableVars
  <2> QED
    BY <1>1, <1>3, <2>1, ReadKeeps
<1> QED
  BY <1>5, <1>6 DEF InsertProject

\* A copy that is written back has a domain that nobody else has.
LEMMA WriteStep ==
  ASSUME ProjectsInv, NEW c \in Callers, WriteProject(c)
  PROVE  ProjectsInv'
<1> DEFINE p == caller[c].project
           r == caller[c].row
<1> USE DEF ProjectsInv, buildVars
<1>1. /\ caller[c].op = "write" /\ Become(c, IdleCaller)
      /\ UNCHANGED <<gitHubName, created, build, liveRows, upBuilds, missed>>
  BY DEF WriteProject
<1>2. p \in ProjectIds /\ r \in Rows /\ p \in created
  BY <1>1 DEF ProjectsTypeOK, CallerStates, IdleCaller, OnlyCreated
<1>3. IdleCaller \in CallerStates /\ IdleCaller.op = "idle"
  BY DEF CallerStates, IdleCaller
<1>4. CASE ProjectExists(p) /\ Unique(p, r)
  <2>1. /\ project' = [project EXCEPT ![p] = r]
        /\ renamed' = IF r.domain # project[p].domain THEN renamed \union {p} ELSE renamed
    BY <1>4 DEF WriteProject
  <2>2. project'[p] = r /\ r # NoRow /\ \A q \in ProjectIds \ {p} : project'[q] = project[q]
    BY <1>2, <2>1, RowIsNoNoRow DEF ProjectsTypeOK
  <2>3. \A q \in ProjectIds : ProjectExists(q)' <=> ProjectExists(q)
    BY <1>4, <2>2 DEF ProjectExists
  <2>4. /\ caller' \in [Callers -> CallerStates]
        /\ caller'[c] = IdleCaller
        /\ \A e \in Callers \ {c} : caller'[e] = caller[e]
    BY <1>1, <1>3, CallerMoves
  <2>5. ProjectsTypeOK'
    BY <1>1, <1>2, <2>1, <2>4 DEF ProjectsTypeOK
  <2>6. OnlyCreated'
    BY <1>1, <1>3, <2>3, <2>4 DEF OnlyCreated
  <2>7. DistinctDomains'
    BY <1>4, <2>2, <2>3 DEF DistinctDomains, Unique
  <2>8. \A q \in ProjectIds : q \notin renamed' => q \notin renamed /\ project'[q].domain = project[q].domain
    BY <2>1, <2>2
  <2>9. \A d \in BuildIds : build[d] # NoBuild => build[d].project \in ProjectIds
    BY DEF ProjectsTypeOK, Builds
  <2>10. \A e \in Callers : caller[e].op = "insert" => caller[e].project \in ProjectIds
    BY DEF ProjectsTypeOK, CallerStates, IdleCaller
  <2>11. CarriesDomain'
    BY <1>1, <1>3, <2>3, <2>4, <2>8, <2>9, <2>10 DEF CarriesDomain
  <2>12. UpIsListed' /\ DeletedLeavesNothing'
    BY <1>1, <2>3, <2>9 DEF UpIsListed, DeletedLeavesNothing, ProjectsTypeOK
  <2>13. DeletionCovers'
    BY <1>1, <1>3, <2>4 DEF DeletionCovers, UnderWay, BuildsOf
  <2> QED
    BY <2>5, <2>6, <2>7, <2>11, <2>12, <2>13
<1>5. CASE ~(ProjectExists(p) /\ Unique(p, r))
  <2>1. UNCHANGED <<tableVars, buildVars>>
    BY <1>1, <1>5 DEF WriteProject, tableVars
  <2> QED
    BY <1>1, <1>3, <2>1, ReadKeeps
<1> QED
  BY <1>4, <1>5

-----------------------------------------------------------------------------
(* The deletion.                                                           *)

\* What a step leaves as it is when it moves one request and touches neither rows nor builds.
LEMMA DeletionKeeps ==
  ASSUME ProjectsInv, NEW c \in Callers, NEW r \in CallerStates, Become(c, r),
         caller[c].op \in {"list", "stop"}, r.op = "stop", r.project = caller[c].project,
         UNCHANGED <<tableVars, build, liveRows>>,
         upBuilds' \in SUBSET upBuilds, missed' \in SUBSET BuildIds, missed \subseteq missed',
         UnderWay(r.project) \subseteq missed',
         BuildsOf(r.project) \intersect upBuilds' \subseteq r.todo \union missed'
  PROVE  ProjectsInv'
<1> USE DEF ProjectsInv, tableVars
<1>1. /\ caller' \in [Callers -> CallerStates]
      /\ caller'[c] = r
      /\ \A e \in Callers \ {c} : caller'[e] = caller[e]
  BY CallerMoves
<1>2. ProjectsTypeOK'
  BY <1>1 DEF ProjectsTypeOK
<1>3. OnlyCreated'
  BY <1>1 DEF OnlyCreated, ProjectExists, IdleCaller
<1>4. DistinctDomains'
  BY DEF DistinctDomains, ProjectExists
<1>5. CarriesDomain'
  BY <1>1 DEF CarriesDomain, ProjectExists
<1>6. UpIsListed' /\ DeletedLeavesNothing'
  BY DEF UpIsListed, DeletedLeavesNothing, ProjectExists
<1>7. DeletionCovers'
  BY <1>1 DEF DeletionCovers, UnderWay, BuildsOf
<1> QED
  BY <1>2, <1>3, <1>4, <1>5, <1>6, <1>7

\* A container that runs is under way, and counted as missed, or over, and listed.
LEMMA ListForDeleteStep ==
  ASSUME ProjectsInv, NEW c \in Callers, ListForDelete(c)
  PROVE  ProjectsInv'
<1> DEFINE p == caller[c].project
           r == [op |-> "stop", project |-> p, todo |-> BuildsOf(p) \intersect liveRows]
<1> USE DEF ProjectsInv
<1>1. /\ caller[c].op = "list" /\ Become(c, r)
      /\ missed' = missed \union UnderWay(p)
      /\ UNCHANGED <<tableVars, build, liveRows, upBuilds>>
  BY DEF ListForDelete
<1>2. p \in ProjectIds
  BY <1>1 DEF ProjectsTypeOK, CallerStates, IdleCaller
<1>3. UnderWay(p) \subseteq BuildIds /\ r \in CallerStates
  BY <1>2 DEF UnderWay, BuildsOf, CallerStates
<1>4. missed \subseteq BuildIds
  BY DEF ProjectsTypeOK
<1>5. ASSUME NEW d \in BuildsOf(p) \intersect upBuilds PROVE d \in r.todo \union missed'
  <2>1. build[d].project = p /\ d \in BuildIds
    BY DEF BuildsOf
  <2>2. CASE build[d].stage = "over"
    BY <1>1, <2>1, <2>2 DEF UpIsListed, DeletedLeavesNothing
  <2>3. CASE build[d].stage # "over"
    BY <1>1, <2>3 DEF UnderWay
  <2> QED
    BY <2>2, <2>3
<1> QED
  BY <1>1, <1>3, <1>4, <1>5, DeletionKeeps

LEMMA StopForDeleteStep ==
  ASSUME ProjectsInv, NEW c \in Callers, StopForDelete(c)
  PROVE  ProjectsInv'
<1> DEFINE p == caller[c].project
<1> USE DEF ProjectsInv
<1>1. PICK d \in NewestOf(caller[c].todo) :
        /\ Become(c, [caller[c] EXCEPT !.todo = @ \ {d}])
        /\ \/ upBuilds' = upBuilds \ {d} /\ UNCHANGED missed
           \/ missed' = missed \union {d} /\ UNCHANGED upBuilds
  BY DEF StopForDelete
<1>2. caller[c].op = "stop" /\ UNCHANGED <<tableVars, build, liveRows>>
  BY DEF StopForDelete
<1>3. caller[c] \in [op : {"stop"}, project : ProjectIds, todo : SUBSET BuildIds]
  BY <1>2 DEF ProjectsTypeOK, CallerStates, IdleCaller
<1>4. d \in BuildIds
  BY <1>1, <1>3 DEF NewestOf
<1> DEFINE r == [caller[c] EXCEPT !.todo = @ \ {d}]
<1>5. /\ r \in CallerStates /\ r.op = "stop" /\ r.project = p /\ r.todo = caller[c].todo \ {d}
  BY <1>3 DEF CallerStates
<1>6. /\ UnderWay(p) \subseteq missed
      /\ BuildsOf(p) \intersect upBuilds \subseteq caller[c].todo \union missed
  BY <1>2 DEF DeletionCovers
<1>7. missed \subseteq BuildIds /\ missed \subseteq missed' /\ missed' \subseteq BuildIds
      /\ upBuilds' \subseteq upBuilds
  BY <1>1, <1>4 DEF ProjectsTypeOK
<1>8. BuildsOf(p) \intersect upBuilds' \subseteq r.todo \union missed'
  BY <1>1, <1>5, <1>6
<1> HIDE DEF r
<1> QED
  BY <1>1, <1>2, <1>5, <1>6, <1>7, <1>8, DeletionKeeps DEF r

\* With nothing left to stop, what still runs has been missed.
LEMMA DeleteRowStep ==
  ASSUME ProjectsInv, NEW c \in Callers, DeleteRow(c)
  PROVE  ProjectsInv'
<1> DEFINE p == caller[c].project
<1> USE DEF ProjectsInv
<1>1. /\ caller[c].op = "stop" /\ caller[c].todo = {} /\ Become(c, IdleCaller)
      /\ project' = [project EXCEPT ![p] = NoRow]
      /\ liveRows' = liveRows \ BuildsOf(p)
      /\ UNCHANGED <<gitHubName, created, renamed, build, upBuilds, missed>>
  BY DEF DeleteRow
<1>2. p \in ProjectIds
  BY <1>1 DEF ProjectsTypeOK, CallerStates, IdleCaller
<1>3. IdleCaller \in CallerStates /\ IdleCaller.op = "idle"
  BY DEF CallerStates, IdleCaller
<1>4. /\ caller' \in [Callers -> CallerStates]
      /\ caller'[c] = IdleCaller
      /\ \A e \in Callers \ {c} : caller'[e] = caller[e]
  BY <1>1, <1>3, CallerMoves
<1>5. project'[p] = NoRow /\ \A q \in ProjectIds \ {p} : project'[q] = project[q]
  BY <1>1, <1>2 DEF ProjectsTypeOK
<1>6. \A q \in ProjectIds : ProjectExists(q)' => ProjectExists(q) /\ q # p /\ project'[q] = project[q]
  BY <1>5 DEF ProjectExists
<1>7. ProjectsTypeOK'
  BY <1>1, <1>4 DEF ProjectsTypeOK
<1>8. OnlyCreated'
  BY <1>1, <1>3, <1>4, <1>6 DEF OnlyCreated
<1>9. DistinctDomains'
  BY <1>6 DEF DistinctDomains
<1>10. \A d \in BuildIds : build[d] # NoBuild => build[d].project \in ProjectIds
  BY DEF ProjectsTypeOK, Builds
<1>11. \A e \in Callers : caller[e].op = "insert" => caller[e].project \in ProjectIds
  BY DEF ProjectsTypeOK, CallerStates, IdleCaller
<1>12. CarriesDomain'
  BY <1>1, <1>3, <1>4, <1>6, <1>10, <1>11 DEF CarriesDomain
<1>13. upBuilds \subseteq BuildIds
  BY DEF ProjectsTypeOK
<1>14. UpIsListed'
  BY <1>1, <1>6, <1>10, <1>13 DEF UpIsListed, BuildsOf
<1>15. DeletedLeavesNothing'
  <2>1. BuildsOf(p) \intersect upBuilds \subseteq missed
    BY <1>1 DEF DeletionCovers
  <2> SUFFICES ASSUME NEW d \in upBuilds, d \notin missed PROVE ProjectExists(build[d].project)'
    BY <1>1 DEF DeletedLeavesNothing
  <2>2. build[d] # NoBuild /\ d \in BuildIds
    BY <1>13 DEF UpIsListed
  <2>3. build[d].project # p
    BY <2>1, <2>2 DEF BuildsOf
  <2> QED
    BY <1>1, <1>5, <1>10, <2>2, <2>3 DEF DeletedLeavesNothing, ProjectExists
<1>16. DeletionCovers'
  BY <1>1, <1>3, <1>4 DEF DeletionCovers, UnderWay, BuildsOf
<1> QED
  BY <1>7, <1>8, <1>9, <1>12, <1>14, <1>15, <1>16

-----------------------------------------------------------------------------
(* The deployments.                                                        *)

\* A new deployment carries the domain its request has read; a deletion past its list
\* has missed it.
LEMMA InsertBuildStep ==
  ASSUME ProjectsInv, NEW c \in Callers, NEW d \in BuildIds, InsertBuild(c, d)
  PROVE  ProjectsInv'
<1> DEFINE p == caller[c].project
           b == [stage |-> "queued", project |-> p, domain |-> caller[c].domain]
<1> USE DEF ProjectsInv, tableVars
<1>1. /\ caller[c].op = "insert" /\ build[d] = NoBuild /\ Become(c, IdleCaller)
      /\ UNCHANGED <<tableVars, liveRows, upBuilds>>
  BY DEF InsertBuild
<1>2. IdleCaller \in CallerStates /\ IdleCaller.op = "idle"
  BY DEF CallerStates, IdleCaller
<1>3. CASE ~ProjectExists(p)
  <2>1. UNCHANGED <<tableVars, buildVars>>
    BY <1>1, <1>3 DEF InsertBuild, buildVars
  <2> QED
    BY <1>1, <1>2, <2>1, ReadKeeps
<1>4. CASE ProjectExists(p)
  <2>1. /\ build' = [build EXCEPT ![d] = b]
        /\ missed' = IF Listed(p) THEN missed \union {d} ELSE missed
    BY <1>4 DEF InsertBuild
  <2>2. p \in ProjectIds /\ caller[c].domain \in Domains
    BY <1>1 DEF ProjectsTypeOK, CallerStates, IdleCaller
  <2>3. b \in Builds /\ b # NoBuild
    BY <2>2, BuildIsNoNoBuild DEF Builds
  <2>4. build'[d] = b /\ \A e \in BuildIds \ {d} : build'[e] = build[e]
    BY <2>1 DEF ProjectsTypeOK
  <2>5. /\ caller' \in [Callers -> CallerStates]
        /\ caller'[c] = IdleCaller
        /\ \A e \in Callers \ {c} : caller'[e] = caller[e]
    BY <1>1, <1>2, CallerMoves
  <2>6. d \notin upBuilds /\ upBuilds \subseteq BuildIds
    BY <1>1 DEF UpIsListed, ProjectsTypeOK
  <2>7. ProjectsTypeOK'
    BY <1>1, <2>1, <2>3, <2>5 DEF ProjectsTypeOK
  <2>8. OnlyCreated'
    BY <1>1, <1>2, <1>4, <2>2, <2>4, <2>5 DEF OnlyCreated, ProjectExists
  <2>9. DistinctDomains'
    BY <1>1 DEF DistinctDomains, ProjectExists
  <2>10. CarriesDomain'
    BY <1>1, <1>2, <1>4, <2>4, <2>5 DEF CarriesDomain, ProjectExists
  <2>11. \A e \in upBuilds : build'[e] = build[e]
    BY <2>4, <2>6
  <2>12. UpIsListed' /\ DeletedLeavesNothing'
    BY <1>1, <2>1, <2>11 DEF UpIsListed, DeletedLeavesNothing, ProjectExists
  <2>13. DeletionCovers'
    <3> SUFFICES ASSUME NEW e \in Callers, caller'[e].op = "stop"
                 PROVE  /\ UnderWay(caller[e].project)' \subseteq missed'
                        /\ BuildsOf(caller[e].project)' \intersect upBuilds \subseteq caller[e].todo \union missed'
      BY <1>1, <1>2, <2>5 DEF DeletionCovers, UnderWay, BuildsOf
    <3>1. caller'[e] = caller[e]
      BY <1>2, <2>5
    <3>2. /\ UnderWay(caller[e].project) \subseteq missed
          /\ BuildsOf(caller[e].project) \intersect upBuilds \subseteq caller[e].todo \union missed
      BY <3>1 DEF DeletionCovers
    <3>3. missed \subseteq missed' /\ (p = caller[e].project => d \in missed')
      BY <2>1, <3>1 DEF Listed
    <3>4. UnderWay(caller[e].project)' \subseteq UnderWay(caller[e].project) \union {x \in {d} : p = caller[e].project}
      BY <2>4, <3>1 DEF UnderWay, BuildsOf
    <3>5. BuildsOf(caller[e].project)' \intersect upBuilds \subseteq BuildsOf(caller[e].project)
      BY <2>11, <2>6, <3>1 DEF BuildsOf
    <3> QED
      BY <3>2, <3>3, <3>4, <3>5
  <2> QED
    BY <2>7, <2>8, <2>9, <2>10, <2>12, <2>13
<1> QED
  BY <1>3, <1>4

\* What a deployment that only advances leaves as it is.
LEMMA AdvanceKeeps ==
  ASSUME ProjectsInv, NEW d \in BuildIds, build[d] # NoBuild, NEW s \in {"up", "over"}, Advance(d, s),
         UNCHANGED <<tableVars, missed, caller>>
  PROVE  /\ build' \in [BuildIds -> Builds \union {NoBuild}]
         /\ build'[d].stage = s /\ build'[d].project = build[d].project /\ build'[d] # NoBuild
         /\ \A e \in BuildIds \ {d} : build'[e] = build[e]
         /\ \A p \in ProjectIds : BuildsOf(p)' = BuildsOf(p)
         /\ OnlyCreated' /\ DistinctDomains' /\ CarriesDomain'
<1> USE DEF ProjectsInv, tableVars
<1>1. build[d] \in Builds
  BY DEF ProjectsTypeOK
<1>2. /\ build'[d] = [build[d] EXCEPT !.stage = s]
      /\ \A e \in BuildIds \ {d} : build'[e] = build[e]
  BY DEF Advance, ProjectsTypeOK
<1>3. /\ build'[d] \in Builds /\ build'[d].stage = s
      /\ build'[d].project = build[d].project /\ build'[d].domain = build[d].domain
  BY <1>1, <1>2 DEF Builds
<1>4. build'[d] # NoBuild
  BY <1>3, BuildIsNoNoBuild
<1>5. build' \in [BuildIds -> Builds \union {NoBuild}]
  BY <1>3 DEF Advance, ProjectsTypeOK
<1>6. \A e \in BuildIds : /\ build'[e] # NoBuild <=> build[e] # NoBuild
                          /\ build'[e].project = build[e].project /\ build'[e].domain = build[e].domain
  BY <1>2, <1>3, <1>4
<1>7. \A p \in ProjectIds : BuildsOf(p)' = BuildsOf(p)
  BY <1>6 DEF BuildsOf
<1>8. OnlyCreated'
  BY <1>6 DEF OnlyCreated, ProjectExists
<1>9. DistinctDomains'
  BY DEF DistinctDomains, ProjectExists
<1>10. CarriesDomain'
  BY <1>6 DEF CarriesDomain, ProjectExists
<1> QED
  BY <1>2, <1>3, <1>4, <1>5, <1>7, <1>8, <1>9, <1>10

\* A container is only started for a project that is there, or for nobody; a deletion past
\* its list has missed the deployment already.
LEMMA StartBuildStep ==
  ASSUME ProjectsInv, NEW d \in BuildIds, StartBuild(d)
  PROVE  ProjectsInv'
<1> USE DEF ProjectsInv, tableVars
<1>1. /\ build[d].stage = "queued" /\ UNCHANGED <<tableVars, liveRows, missed, caller>>
      /\ \/ ProjectExists(build[d].project) /\ Advance(d, "up") /\ upBuilds' = upBuilds \union {d}
         \/ Advance(d, "over") /\ UNCHANGED upBuilds
  BY DEF StartBuild
<1>2. build[d] # NoBuild
  BY <1>1 DEF NoBuild
<1>3. PICK s \in {"up", "over"} : Advance(d, s) /\ (s = "over" => upBuilds' = upBuilds)
  BY <1>1
<1>4. /\ build' \in [BuildIds -> Builds \union {NoBuild}]
      /\ build'[d].stage = s /\ build'[d].project = build[d].project /\ build'[d] # NoBuild
      /\ \A e \in BuildIds \ {d} : build'[e] = build[e]
      /\ \A p \in ProjectIds : BuildsOf(p)' = BuildsOf(p)
      /\ OnlyCreated' /\ DistinctDomains' /\ CarriesDomain'
  BY <1>1, <1>2, <1>3, AdvanceKeeps
<1>5. build[d].project \in ProjectIds
  BY <1>2 DEF ProjectsTypeOK, Builds
<1>6. upBuilds' \subseteq upBuilds \union {d} /\ (d \in upBuilds' /\ d \notin upBuilds => ProjectExists(build[d].project) /\ build'[d].stage = "up")
  <2>1. CASE upBuilds' = upBuilds
    BY <2>1
  <2>2. CASE ProjectExists(build[d].project) /\ Advance(d, "up") /\ upBuilds' = upBuilds \union {d}
    <3>1. build'[d].stage = "up"
      BY <1>2, <2>2, <1>1, AdvanceKeeps
    <3> QED
      BY <2>2, <3>1
  <2> QED
    BY <1>1, <2>1, <2>2
<1>7. ProjectsTypeOK'
  BY <1>1, <1>4, <1>6 DEF ProjectsTypeOK
<1>8. UpIsListed'
  BY <1>1, <1>2, <1>3, <1>4, <1>6 DEF UpIsListed, ProjectExists, ProjectsTypeOK
<1>9. DeletedLeavesNothing'
  BY <1>1, <1>4, <1>6 DEF DeletedLeavesNothing, ProjectExists, ProjectsTypeOK
<1>10. DeletionCovers'
  <2> SUFFICES ASSUME NEW c \in Callers, caller[c].op = "stop"
               PROVE  /\ UnderWay(caller[c].project)' \subseteq missed
                      /\ BuildsOf(caller[c].project)' \intersect upBuilds' \subseteq caller[c].todo \union missed
    BY <1>1 DEF DeletionCovers, UnderWay, BuildsOf
  <2> DEFINE p == caller[c].project
  <2>1. p \in ProjectIds
    BY DEF ProjectsTypeOK, CallerStates, IdleCaller
  <2>2. UnderWay(p) \subseteq missed /\ BuildsOf(p) \intersect upBuilds \subseteq caller[c].todo \union missed
    BY DEF DeletionCovers
  <2>3. BuildsOf(p)' = BuildsOf(p) /\ (d \in BuildsOf(p) => d \in UnderWay(p))
    BY <1>1, <1>4, <2>1 DEF UnderWay
  <2>4. UnderWay(p)' \subseteq UnderWay(p)
    BY <1>1, <1>4, <2>3 DEF UnderWay, BuildsOf
  <2> QED
    BY <1>1, <1>6, <2>2, <2>3, <2>4
<1> QED
  BY <1>4, <1>7, <1>8, <1>9, <1>10

\* The deployment that goes live is the one row a later deletion has to find.
LEMMA SwitchToStep ==
  ASSUME ProjectsInv, NEW d \in BuildIds, SwitchTo(d)
  PROVE  ProjectsInv'
<1> DEFINE old == liveRows \intersect BuildsOf(build[d].project)
<1> USE DEF ProjectsInv, tableVars
<1>1. /\ build[d].stage = "up" /\ Advance(d, "over")
      /\ upBuilds' = upBuilds \ old
      /\ liveRows' = (liveRows \ old) \union (IF ProjectExists(build[d].project) THEN {d} ELSE {})
      /\ UNCHANGED <<tableVars, missed, caller>>
  BY DEF SwitchTo
<1>2. build[d] # NoBuild
  BY <1>1 DEF NoBuild
<1>3. /\ build' \in [BuildIds -> Builds \union {NoBuild}]
      /\ build'[d].stage = "over" /\ build'[d].project = build[d].project /\ build'[d] # NoBuild
      /\ \A e \in BuildIds \ {d} : build'[e] = build[e]
      /\ \A p \in ProjectIds : BuildsOf(p)' = BuildsOf(p)
      /\ OnlyCreated' /\ DistinctDomains' /\ CarriesDomain'
  BY <1>1, <1>2, AdvanceKeeps
<1> HIDE DEF old
<1>4. ProjectsTypeOK'
  BY <1>1, <1>3 DEF ProjectsTypeOK
<1>5. UpIsListed'
  BY <1>1, <1>3 DEF UpIsListed, ProjectExists, ProjectsTypeOK
<1>6. DeletedLeavesNothing'
  BY <1>1, <1>3 DEF DeletedLeavesNothing, ProjectExists, ProjectsTypeOK
<1>7. DeletionCovers'
  <2> SUFFICES ASSUME NEW c \in Callers, caller[c].op = "stop"
               PROVE  /\ UnderWay(caller[c].project)' \subseteq missed
                      /\ BuildsOf(caller[c].project)' \intersect upBuilds' \subseteq caller[c].todo \union missed
    BY <1>1 DEF DeletionCovers, UnderWay, BuildsOf
  <2> DEFINE p == caller[c].project
  <2>1. p \in ProjectIds
    BY DEF ProjectsTypeOK, CallerStates, IdleCaller
  <2>2. UnderWay(p) \subseteq missed /\ BuildsOf(p) \intersect upBuilds \subseteq caller[c].todo \union missed
    BY DEF DeletionCovers
  <2>3. BuildsOf(p)' = BuildsOf(p)
    BY <1>1, <1>3, <2>1
  <2>4. UnderWay(p)' \subseteq UnderWay(p)
    BY <1>3, <2>3 DEF UnderWay, BuildsOf
  <2> QED
    BY <1>1, <2>2, <2>3, <2>4
<1> QED
  BY <1>3, <1>4, <1>5, <1>6, <1>7

\* The requests of an API process that restarts end where they stand.
LEMMA RestartApiStep ==
  ASSUME ProjectsInv, RestartApi
  PROVE  ProjectsInv'
<1> USE DEF ProjectsInv, tableVars, buildVars
<1>1. caller' = [c \in Callers |-> IdleCaller] /\ UNCHANGED <<tableVars, buildVars>>
  BY DEF RestartApi
<1>2. IdleCaller \in CallerStates /\ IdleCaller.op = "idle"
  BY DEF CallerStates, IdleCaller
<1>3. ProjectsTypeOK'
  BY <1>1, <1>2 DEF ProjectsTypeOK
<1>4. OnlyCreated'
  BY <1>1, <1>2 DEF OnlyCreated, ProjectExists
<1>5. DistinctDomains' /\ UpIsListed' /\ DeletedLeavesNothing'
  BY <1>1 DEF DistinctDomains, UpIsListed, DeletedLeavesNothing, ProjectExists
<1>6. CarriesDomain'
  BY <1>1, <1>2 DEF CarriesDomain, ProjectExists
<1>7. DeletionCovers'
  BY <1>1, <1>2 DEF DeletionCovers
<1> QED
  BY <1>3, <1>4, <1>5, <1>6, <1>7

-----------------------------------------------------------------------------
(* The theorems.                                                           *)

LEMMA ProjectsInvInit == ProjectsInit => ProjectsInv
<1> SUFFICES ASSUME ProjectsInit PROVE ProjectsInv
  OBVIOUS
<1> USE DEF ProjectsInit, ProjectsInv
<1>1. IdleCaller \in CallerStates /\ IdleCaller.op = "idle"
  BY DEF CallerStates, IdleCaller
<1>2. ProjectsTypeOK
  <2>1. gitHubName \in [Users -> AllGitHubNames]
    BY ProjectsAssumption DEF AllGitHubNames
  <2> QED
    BY <1>1, <2>1 DEF ProjectsTypeOK
<1>3. OnlyCreated /\ DistinctDomains /\ CarriesDomain
  BY <1>1 DEF OnlyCreated, DistinctDomains, CarriesDomain, ProjectExists
<1>4. UpIsListed /\ DeletionCovers /\ DeletedLeavesNothing
  BY <1>1 DEF UpIsListed, DeletionCovers, DeletedLeavesNothing
<1> QED
  BY <1>2, <1>3, <1>4

LEMMA ProjectsInvStep == ProjectsInv /\ [ProjectsNext]_projectVars => ProjectsInv'
<1> SUFFICES ASSUME ProjectsInv, [ProjectsNext]_projectVars PROVE ProjectsInv'
  OBVIOUS
<1>1. ASSUME NEW u \in Users, Login(u) PROVE ProjectsInv'
  BY <1>1, LoginStep
<1>2. ASSUME NEW c \in Callers,
             \/ CreateRequest(c) \/ UpdateRequest(c) \/ DeleteRequest(c) \/ TriggerRequest(c) \/ PushRequest(c)
             \/ \E d \in BuildIds : InsertBuild(c, d)
      PROVE  ProjectsInv'
  <2>1. ASSUME NEW p \in ProjectIds,
               \/ \E n \in AllNames \union {NoName} : ReadForUpdate(c, p, n)
               \/ ReadForDelete(c, p) \/ ReadForTrigger(c, p) \/ VerifyPush(c, p)
        PROVE  ProjectsInv'
    BY <2>1, ReadStep
  <2>2. CASE WriteProject(c)
    BY <2>2, WriteStep
  <2>3. CASE ListForDelete(c)
    BY <2>3, ListForDeleteStep
  <2>4. CASE StopForDelete(c)
    BY <2>4, StopForDeleteStep
  <2>5. CASE DeleteRow(c)
    BY <2>5, DeleteRowStep
  <2>6. CASE ReadForPush(c)
    BY <2>6, ReadForPushStep
  <2>7. ASSUME NEW d \in BuildIds, InsertBuild(c, d) PROVE ProjectsInv'
    BY <2>7, InsertBuildStep
  <2>8. ASSUME NEW u \in Users, NEW n \in AllNames, ReadForCreate(c, u, n) PROVE ProjectsInv'
    BY <2>8, ReadForCreateStep
  <2>9. CASE InsertProject(c)
    BY <2>9, InsertStep
  <2>10. CASE CreateRequest(c)
    BY <2>8, <2>9, <2>10 DEF CreateRequest, AllNames
  <2> QED
    BY <1>2, <2>1, <2>2, <2>3, <2>4, <2>5, <2>6, <2>7, <2>10
       DEF UpdateRequest, DeleteRequest, TriggerRequest, PushRequest
<1>3. ASSUME NEW d \in BuildIds, StartBuild(d) PROVE ProjectsInv'
  BY <1>3, StartBuildStep
<1>4. ASSUME NEW d \in BuildIds, SwitchTo(d) PROVE ProjectsInv'
  BY <1>4, SwitchToStep
<1>5. CASE RestartApi
  BY <1>5, RestartApiStep
<1>6. CASE UNCHANGED projectVars
  <2> USE <1>6 DEF projectVars, ProjectsInv
  <2>1. ProjectsTypeOK' /\ OnlyCreated'
    BY DEF ProjectsTypeOK, OnlyCreated, ProjectExists
  <2>2. DistinctDomains' /\ CarriesDomain'
    BY DEF DistinctDomains, CarriesDomain, ProjectExists
  <2>3. UpIsListed' /\ DeletionCovers' /\ DeletedLeavesNothing'
    BY DEF UpIsListed, DeletionCovers, DeletedLeavesNothing, ProjectExists, UnderWay, BuildsOf
  <2> QED
    BY <2>1, <2>2, <2>3
<1> QED
  BY <1>1, <1>2, <1>3, <1>4, <1>5, <1>6 DEF ProjectsNext

\* The invariant of the projects, whatever requests, deployments and restarts overlap.
THEOREM ProjectsInvHolds == ProjectsSpec => []ProjectsInv
  BY ProjectsInvInit, ProjectsInvStep, PTL DEF ProjectsSpec

\* What a deleted project leaves running was under way when the deletion read the
\* deployments (project.go:202), was inserted after, or Docker refused to stop it.
THEOREM DeletedLeavesNothingHolds == ProjectsSpec => []DeletedLeavesNothing
<1>1. ProjectsInv => DeletedLeavesNothing
  BY DEF ProjectsInv
<1> QED
  BY <1>1, ProjectsInvHolds, PTL

\* Two containers that answer for one domain: both projects are there and unchanged only
\* if the containers carry their domains, which the index keeps apart.
THEOREM NoRouteClashHolds == ProjectsSpec => []NoRouteClash
<1>1. ProjectsInv => NoRouteClash
  <2> SUFFICES ASSUME ProjectsInv, NEW d \in upBuilds, NEW e \in upBuilds,
                      build[d].project # build[e].project, build[d].domain = build[e].domain,
                      ~Excused(d), ~Excused(e)
               PROVE  FALSE
    BY DEF NoRouteClash
  <2>1. ASSUME NEW x \in upBuilds, ~Excused(x)
        PROVE  /\ build[x].project \in ProjectIds /\ ProjectExists(build[x].project)
               /\ build[x].domain = project[build[x].project].domain
    <3>1. x \in BuildIds /\ build[x] # NoBuild
      BY DEF ProjectsInv, ProjectsTypeOK, UpIsListed
    <3>2. build[x].project \in ProjectIds
      BY <3>1 DEF ProjectsInv, ProjectsTypeOK, Builds
    <3> QED
      BY <2>1, <3>1, <3>2 DEF ProjectsInv, DeletedLeavesNothing, CarriesDomain, Excused
  <2> QED
    BY <2>1 DEF ProjectsInv, DistinctDomains
<1> QED
  BY <1>1, ProjectsInvHolds, PTL

=============================================================================
