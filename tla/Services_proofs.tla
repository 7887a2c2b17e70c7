-------------------------- MODULE Services_proofs ---------------------------
(***************************************************************************)
(* Theorems about AIPipeline, EnvVars, BuildLog and Parsing, for every set *)
(* of pipelines, scores, projects, rows and requests, every number of      *)
(* refusals, every output of a build and every input of the parsers.       *)
(***************************************************************************)
EXTENDS AIPipeline, EnvVars, BuildLog, Parsing, SequenceTheorems, FiniteSetTheorems, TLAPS

\* The average of two scores is a score.
LEMMA AggregateIsScore ==
  ASSUME AiTypeOK, NEW x \in Pipelines, NEW s \in Scores
  PROVE  Aggregate(x, s) \in -1..100
<1>1. s \in 0..100 /\ score[x] \in -1..100
  BY AIAssumption DEF AIAssumption, AiTypeOK
<1>2. CASE score[x] = -1
  BY <1>1, <1>2 DEF Aggregate
<1>3. CASE score[x] # -1
  <2>1. score[x] + s \in 0..200
    BY <1>1, <1>3, SMTT(40)
  <2>2. (score[x] + s) \div 2 \in 0..100
    BY <2>1
  <2> QED
    BY <1>3, <2>2 DEF Aggregate
<1> QED
  BY <1>2, <1>3

\* A save writes the status it is called with or nothing, within the bound of refusals.
LEMMA SaveType ==
  ASSUME AiTypeOK, NEW x \in Pipelines, NEW s \in AiStatuses, Save(x, s) \/ SaveRefused(x)
  PROVE  /\ aiRow' \in [Pipelines -> AiStatuses \union {"none"}]
         /\ refusals' \in 0..MaxRefusals
         /\ \A y \in Pipelines \ {x} : aiRow'[y] = aiRow[y]
         /\ aiRow'[x] \in {aiRow[x], s}
  BY AIAssumption DEF AIAssumption, AiTypeOK, Save, SaveRefused

\* The goroutine of one pipeline keeps what AiInv says of all.
LEMMA GoroutineStep ==
  ASSUME AiInv, NEW x \in Pipelines, Goroutine(x)
  PROVE  AiInv'
<1> USE DEF AiInv, AiTypeOK, ApprovalIsEarned, AiGoto, Working, Decisions, Agents, Attempts, MinConfidence
<1>1. CASE CreatePipeline(x)
  <2>1. /\ aiRow' \in [Pipelines -> AiStatuses \union {"none"}] /\ refusals' \in 0..MaxRefusals
        /\ \A y \in Pipelines \ {x} : aiRow'[y] = aiRow[y]
        /\ aiRow'[x] \in {aiRow[x], "running"}
    BY <1>1, SaveType DEF CreatePipeline, AiStatuses
  <2>2. aiPc[x] = "create" /\ aiPc' \in {[aiPc EXCEPT ![x] = "call"], [aiPc EXCEPT ![x] = "over"]}
    BY <1>1 DEF CreatePipeline
  <2>3. UNCHANGED <<agent, attempt, score, passed, ctxDone, cutOff, settled>>
    BY <1>1 DEF CreatePipeline
  <2>4. x \notin settled /\ aiRow[x] # "waiting_approval"
    BY <2>2
  <2> QED
    BY <2>1, <2>2, <2>3, <2>4
<1>2. CASE AgentAnswers(x)
  <2>1. PICK s \in Scores, safe \in BOOLEAN :
          IF agent[x] < Agents
          THEN score' = [score EXCEPT ![x] = Aggregate(x, s)] /\ UNCHANGED passed
          ELSE /\ passed' = [passed EXCEPT ![x] = safe]
               /\ score' = [score EXCEPT ![x] = IF safe THEN Aggregate(x, s) ELSE 0]
    <3>1. CASE ProposalScored(x)
      <4>1. PICK s \in Scores : score' = [score EXCEPT ![x] = Aggregate(x, s)]
        BY <3>1 DEF ProposalScored
      <4> WITNESS s \in Scores, TRUE \in BOOLEAN
      <4> QED
        BY <3>1, <4>1 DEF ProposalScored
    <3>2. CASE PatchJudged(x)
      <4>1. PICK s \in Scores, safe \in BOOLEAN :
              /\ agent[x] = Agents
              /\ passed' = [passed EXCEPT ![x] = safe]
              /\ score' = [score EXCEPT ![x] = IF safe THEN Aggregate(x, s) ELSE 0]
        BY <3>2, ZenonT(60) DEF PatchJudged
      <4> WITNESS s \in Scores, safe \in BOOLEAN
      <4> QED
        BY <4>1
    <3> QED
      BY <1>2, <3>1, <3>2 DEF AgentAnswers
  <2>2. Aggregate(x, s) \in -1..100
    BY AggregateIsScore
  <2>3. /\ aiPc[x] = "call" /\ aiPc' = [aiPc EXCEPT ![x] = "check"]
        /\ UNCHANGED <<aiRow, agent, attempt, ctxDone, refusals, cutOff, settled>>
    BY <1>2 DEF AgentAnswers
  <2>4. x \notin settled /\ aiRow[x] # "waiting_approval"
    BY <2>3
  <2>5. score' \in [Pipelines -> -1..100] /\ passed' \in [Pipelines -> BOOLEAN]
    BY <2>1, <2>2
  <2>6. agent[x] = Agents /\ score'[x] >= MinConfidence => passed'[x]
    BY <2>1
  <2>7. \A y \in Pipelines \ {x} : score'[y] = score[y] /\ passed'[y] = passed[y] /\ aiPc'[y] = aiPc[y]
    BY <2>1, <2>3
  <2> QED
    BY <2>3, <2>4, <2>5, <2>6, <2>7, ZenonT(60)
<1>3. CASE AgentFails(x)
  <2>1. aiPc[x] = "call" /\ (aiPc' = aiPc \/ aiPc' = [aiPc EXCEPT ![x] = "abort"])
    BY <1>3 DEF AgentFails
  <2>2. attempt' \in [Pipelines -> 1..Attempts]
    BY <1>3 DEF AgentFails
  <2>3. UNCHANGED <<aiRow, agent, score, passed, ctxDone, refusals, cutOff, settled>>
    BY <1>3 DEF AgentFails
  <2> QED
    BY <2>1, <2>2, <2>3
<1>4. CASE AgentPanics(x)
  BY <1>4 DEF AgentPanics
<1>5. CASE CheckConfidence(x)
  BY <1>5 DEF CheckConfidence
<1>6. CASE SaveProgress(x)
  <2>1. /\ aiRow' \in [Pipelines -> AiStatuses \union {"none"}] /\ refusals' \in 0..MaxRefusals
        /\ \A y \in Pipelines \ {x} : aiRow'[y] = aiRow[y]
        /\ aiRow'[x] \in {aiRow[x], "running"}
    BY <1>6, SaveType DEF SaveProgress, AiStatuses
  <2>2. aiPc[x] = "save" /\ x \notin settled /\ aiRow[x] # "waiting_approval"
    BY <1>6 DEF SaveProgress
  <2>3. UNCHANGED <<score, passed, ctxDone, cutOff, settled>>
    BY <1>6 DEF SaveProgress
  <2>4. CASE agent[x] = Agents /\ aiPc' = [aiPc EXCEPT ![x] = "finish"] /\ UNCHANGED <<agent, attempt>>
    BY <2>1, <2>2, <2>3, <2>4
  <2>5. CASE /\ agent[x] # Agents /\ aiPc' = [aiPc EXCEPT ![x] = "call"]
             /\ agent' = [agent EXCEPT ![x] = @ + 1] /\ attempt' = [attempt EXCEPT ![x] = 1]
    BY <2>1, <2>2, <2>3, <2>5
  <2>6. CASE aiPc' = [aiPc EXCEPT ![x] = "over"] /\ UNCHANGED <<agent, attempt>>
    BY <2>1, <2>2, <2>3, <2>6
  <2> QED
    BY <1>6, <2>4, <2>5, <2>6 DEF SaveProgress
<1>7. CASE Finish(x)
  <2>1. /\ aiRow' \in [Pipelines -> AiStatuses \union {"none"}] /\ refusals' \in 0..MaxRefusals
        /\ \A y \in Pipelines \ {x} : aiRow'[y] = aiRow[y]
        /\ aiRow'[x] \in {aiRow[x], "waiting_approval"}
    BY <1>7, SaveType DEF Finish, AiStatuses
  <2>2. /\ aiPc[x] = "finish" /\ x \notin settled
        /\ aiPc' = [aiPc EXCEPT ![x] = "over"]
        /\ UNCHANGED <<agent, attempt, score, passed, ctxDone, cutOff, settled>>
    BY <1>7 DEF Finish
  <2>3. agent[x] = Agents /\ score[x] >= MinConfidence /\ passed[x]
    BY <2>2
  <2> QED
    BY <2>1, <2>2, <2>3
<1>8. CASE AbortPipeline(x)
  <2>1. /\ aiRow' \in [Pipelines -> AiStatuses \union {"none"}] /\ refusals' \in 0..MaxRefusals
        /\ \A y \in Pipelines \ {x} : aiRow'[y] = aiRow[y]
        /\ aiRow'[x] \in {aiRow[x], "failed"}
    BY <1>8, SaveType DEF AbortPipeline, AiStatuses
  <2>2. /\ aiPc[x] = "abort" /\ x \notin settled /\ aiRow[x] # "waiting_approval"
        /\ aiPc' = [aiPc EXCEPT ![x] = "over"]
        /\ UNCHANGED <<agent, attempt, score, passed, ctxDone, cutOff, settled>>
    BY <1>8 DEF AbortPipeline
  <2> QED
    BY <2>1, <2>2
<1> QED
  BY <1>1, <1>2, <1>3, <1>4, <1>5, <1>6, <1>7, <1>8 DEF Goroutine

\* The inductive invariant: every step keeps all its parts.
LEMMA AiStep == AiInv /\ [AiNext]_aiVars => AiInv'
<1> SUFFICES ASSUME AiInv, [AiNext]_aiVars PROVE AiInv'
  OBVIOUS
<1>1. ASSUME NEW x \in Pipelines, Goroutine(x) PROVE AiInv'
  BY <1>1, GoroutineStep
<1> USE DEF AiInv, AiTypeOK, ApprovalIsEarned, AiGoto, Working, Decisions, Agents
<1>2. ASSUME NEW x \in Pipelines, RecoverBuild(x) PROVE AiInv'
  BY <1>2 DEF RecoverBuild
<1>3. ASSUME NEW x \in Pipelines, HandlerReturns(x) PROVE AiInv'
  BY <1>3 DEF HandlerReturns
<1>4. ASSUME NEW x \in Pipelines, NEW s \in Decisions, Decide(x, s) PROVE AiInv'
  BY <1>4 DEF Decide, AiStatuses
<1>5. CASE UNCHANGED aiVars
  BY <1>5 DEF aiVars
<1> QED
  BY <1>1, <1>2, <1>3, <1>4, <1>5 DEF AiNext

\* In every reachable state: types, and a pipeline that waits for approval has earned it
\* (all four agents, a patch found safe, the confidence asked of every stage).
THEOREM AiInvHolds == AiSpec => []AiInv
<1>1. AiInit => AiInv
  BY AIAssumption
     DEF AIAssumption, AiInit, AiInv, AiTypeOK, ApprovalIsEarned, AiStatuses, Working, Agents, Attempts
<1> QED
  BY <1>1, AiStep, PTL DEF AiSpec

\* A row that asks for an approval has been through all four agents, with a patch found
\* safe and the confidence asked of every stage (orchestrator.go:58).
THEOREM ApprovalIsEarnedHolds == AiSpec => []ApprovalIsEarned
<1>1. AiInv => ApprovalIsEarned
  BY DEF AiInv
<1> QED
  BY <1>1, AiInvHolds, PTL

\* A decision on a waiting pipeline stands, for every number of pipelines and refusals.
THEOREM DecisionStandsHolds == AiSpec => []DecisionStands
<1>1. AiInv => DecisionStands
  BY DEF AiInv, DecisionStands
<1> QED
  BY <1>1, AiInvHolds, PTL

-----------------------------------------------------------------------------
(* A row that says running.                                                *)

\* A goroutine that ends by a step of its own leaves a row that is not running, or was
\* refused its last save.
LEMMA EndOfGoroutine ==
  ASSUME AiTypeOK, RunningMeansWorking, NEW x \in Pipelines, Goroutine(x)
  PROVE  RunningMeansWorking'
<1> USE DEF AiTypeOK, RunningMeansWorking, AiGoto
<1>1. refusals' >= refusals /\ refusals \in Nat
  BY AIAssumption, SaveType
     DEF AIAssumption, Goroutine, CreatePipeline, AgentAnswers, AgentFails, AgentPanics, CheckConfidence,
         SaveProgress, Finish, AbortPipeline, Save, SaveRefused
<1>2. ASSUME SaveRefused(x) PROVE x \in ctxDone \/ refusals' > 0
  BY <1>1, <1>2 DEF SaveRefused
<1>3. CASE CreatePipeline(x)
  BY <1>1, <1>2, <1>3 DEF CreatePipeline, Save, SaveRefused
<1>4. CASE AgentAnswers(x)
  BY <1>4 DEF AgentAnswers
<1>5. CASE AgentFails(x)
  BY <1>5 DEF AgentFails
<1>6. CASE AgentPanics(x)
  BY <1>6 DEF AgentPanics
<1>7. CASE CheckConfidence(x)
  BY <1>7 DEF CheckConfidence
<1>8. CASE SaveProgress(x)
  BY <1>1, <1>2, <1>8 DEF SaveProgress, Save, SaveRefused
<1>9. CASE Finish(x)
  BY <1>1, <1>2, <1>9 DEF Finish, Save, SaveRefused
<1>10. CASE AbortPipeline(x)
  BY <1>1, <1>2, <1>10 DEF AbortPipeline, Save, SaveRefused
<1> QED
  BY <1>3, <1>4, <1>5, <1>6, <1>7, <1>8, <1>9, <1>10 DEF Goroutine

\* For every number of pipelines and refusals: a row that says running has a goroutine at
\* work, or its request's context ended, a panic took it, or a save was refused.
THEOREM RunningMeansWorkingHolds == AiSpec => []RunningMeansWorking
<1>1. AiInit => RunningMeansWorking
  BY DEF AiInit, RunningMeansWorking
<1>2. AiInv /\ RunningMeansWorking /\ [AiNext]_aiVars => RunningMeansWorking'
  <2> SUFFICES ASSUME AiInv, RunningMeansWorking, [AiNext]_aiVars PROVE RunningMeansWorking'
    OBVIOUS
  <2>1. ASSUME NEW x \in Pipelines, Goroutine(x) PROVE RunningMeansWorking'
    BY <2>1, EndOfGoroutine DEF AiInv
  <2>2. ASSUME NEW x \in Pipelines, RecoverBuild(x) \/ HandlerReturns(x) PROVE RunningMeansWorking'
    BY <2>2 DEF RecoverBuild, HandlerReturns, AiGoto, RunningMeansWorking, AiInv, AiTypeOK
  <2>3. ASSUME NEW x \in Pipelines, NEW s \in Decisions, Decide(x, s) PROVE RunningMeansWorking'
    BY <2>3 DEF Decide, Decisions, RunningMeansWorking, AiInv, AiTypeOK
  <2>4. CASE UNCHANGED aiVars
    BY <2>4 DEF aiVars, RunningMeansWorking
  <2> QED
    BY <2>1, <2>2, <2>3, <2>4 DEF AiNext
<1> QED
  BY <1>1, <1>2, AiInvHolds, PTL DEF AiSpec

-----------------------------------------------------------------------------
(* Environment variables.                                                  *)

Var == [project : EnvProjects, key : Keys, value : Values]
Inserting == [pc : {"insert"}, project : EnvProjects, key : Keys, value : Values]
Writing == [pc : {"write"}, id : EnvIds, newKey : Keys \union {Keep}, newValue : Values \union {Keep}, row : Var]
Deleting == [pc : {"delete"}, id : EnvIds]

EnvTypeOK ==
  /\ env        \in [EnvIds -> Var \union {NoVar}]
  /\ usedIds    \in SUBSET EnvIds
  /\ envProject \in [EnvProjects -> {"none", "inserted", "open", "deleted"}]
  /\ editor     \in [Editors -> {IdleEditor} \union Inserting \union Writing \union Deleting]
  /\ asked      \in [EnvIds -> Var \union {NoVar}]
  /\ overlapped \in SUBSET EnvIds

\* What an update of var to the key k and the value v makes of it.
Updated(var, k, v) == WithFields(var, OrKept(k, var.key), OrKept(v, var.value))

\* An id is used once: before that there is no row of it and no update under way.
IdsUsedOnce ==
  /\ \A i \in EnvIds : HasVar(i) => i \in usedIds
  /\ \A i \in usedIds : asked[i] \in Var
  /\ \A e \in Editors : editor[e].pc = "write" => editor[e].id \in usedIds

\* The copy an update will write back differs from the row in what it was asked to
\* change only, until an overlapping update has written the row.
CopiesAreFresh ==
  \A e \in Editors :
    editor[e].pc = "write" /\ HasVar(editor[e].id) /\ editor[e].id \notin overlapped
      => editor[e].row = Updated(env[editor[e].id], editor[e].newKey, editor[e].newValue)

\* The inductive invariant. UpdatesLand alone is none: a write of a stale copy breaks it.
EnvInv == EnvTypeOK /\ IdsUsedOnce /\ CopiesAreFresh /\ UpdatesLand

\* An updated row is a row.
LEMMA UpdatedType ==
  ASSUME NEW var \in Var, NEW k \in Keys \union {Keep}, NEW v \in Values \union {Keep}
  PROVE  Updated(var, k, v) \in Var
  BY DEF Updated, WithFields, Var, OrKept

\* A request that moves on leaves the others where they were.
LEMMA EditorMoves ==
  ASSUME EnvTypeOK, NEW e \in Editors, NEW r,
         r \in {IdleEditor} \union Inserting \union Writing \union Deleting,
         editor' = [editor EXCEPT ![e] = r]
  PROVE  /\ editor' \in [Editors -> {IdleEditor} \union Inserting \union Writing \union Deleting]
         /\ editor'[e] = r
         /\ \A f \in Editors \ {e} : editor'[f] = editor[f]
  BY DEF EnvTypeOK

\* A row that goes in has a new id, so no update is under way on it.
LEMMA InsertKeeps ==
  ASSUME EnvInv, NEW i \in EnvIds, NEW p \in EnvProjects, NEW k \in Keys, NEW v \in Values,
         InsertVar(i, p, k, v), UNCHANGED overlapped,
         editor' \in [Editors -> {IdleEditor} \union Inserting \union Writing \union Deleting],
         envProject' \in [EnvProjects -> {"none", "inserted", "open", "deleted"}],
         \A e \in Editors : editor'[e].pc = "write" => editor'[e] = editor[e]
  PROVE  EnvInv'
<1> DEFINE new == [project |-> p, key |-> k, value |-> v]
<1>1. new \in Var
  BY DEF Var
<1>2. /\ i \notin usedIds /\ usedIds' = usedIds \union {i}
      /\ env' \in [EnvIds -> Var \union {NoVar}] /\ asked' \in [EnvIds -> Var \union {NoVar}]
      /\ env'[i] = new /\ asked'[i] = new
      /\ \A j \in EnvIds \ {i} : env'[j] = env[j] /\ asked'[j] = asked[j]
  BY <1>1 DEF InsertVar, EnvInv, EnvTypeOK
<1> HIDE DEF new
<1>3. EnvTypeOK'
  BY <1>2 DEF EnvInv, EnvTypeOK
<1>4. IdsUsedOnce'
  BY <1>1, <1>2 DEF EnvInv, EnvTypeOK, IdsUsedOnce, HasVar
<1>5. UpdatesLand'
  BY <1>2 DEF EnvInv, UpdatesLand, HasVar
<1>6. CopiesAreFresh'
  <2> SUFFICES ASSUME NEW e \in Editors, editor'[e].pc = "write", env'[editor'[e].id] # NoVar, editor'[e].id \notin overlapped
               PROVE  editor'[e].row = Updated(env'[editor'[e].id], editor'[e].newKey, editor'[e].newValue)
    BY DEF CopiesAreFresh, Updated, WithFields, OrKept, HasVar
  <2>1. editor'[e] = editor[e] /\ editor[e].id \in usedIds
    BY DEF EnvInv, IdsUsedOnce
  <2>2. editor[e].id \in EnvIds \ {i}
    BY <1>2, <2>1 DEF EnvInv, EnvTypeOK
  <2>3. HasVar(editor[e].id) /\ env'[editor[e].id] = env[editor[e].id]
    BY <1>2, <2>1, <2>2 DEF HasVar
  <2> QED
    BY <2>1, <2>3 DEF EnvInv, CopiesAreFresh
<1> QED
  BY <1>3, <1>4, <1>5, <1>6 DEF EnvInv

\* Rows may go at any time: what is said of a row is said of one that is there.
LEMMA RemovalKeeps ==
  ASSUME EnvInv, UNCHANGED <<usedIds, asked, overlapped>>,
         env' \in [EnvIds -> Var \union {NoVar}],
         \A i \in EnvIds : env'[i] \in {env[i], NoVar},
         editor' \in [Editors -> {IdleEditor} \union Inserting \union Writing \union Deleting],
         envProject' \in [EnvProjects -> {"none", "inserted", "open", "deleted"}],
         \A e \in Editors : editor'[e].pc = "write" => editor'[e] = editor[e]
  PROVE  EnvInv'
<1>1. \A i \in EnvIds : HasVar(i)' => HasVar(i) /\ env'[i] = env[i]
  BY DEF HasVar
<1>2. EnvTypeOK'
  BY DEF EnvInv, EnvTypeOK
<1>3. IdsUsedOnce' /\ UpdatesLand'
  BY <1>1 DEF EnvInv, IdsUsedOnce, UpdatesLand
<1>4. CopiesAreFresh'
  <2> SUFFICES ASSUME NEW e \in Editors, editor'[e].pc = "write", env'[editor'[e].id] # NoVar, editor'[e].id \notin overlapped
               PROVE  editor'[e].row = Updated(env'[editor'[e].id], editor'[e].newKey, editor'[e].newValue)
    BY DEF CopiesAreFresh, Updated, WithFields, OrKept, HasVar
  <2>1. editor'[e] = editor[e] /\ editor[e].id \in EnvIds
    BY DEF EnvInv, EnvTypeOK, IdsUsedOnce
  <2> QED
    BY <1>1, <2>1 DEF EnvInv, CopiesAreFresh, HasVar
<1> QED
  BY <1>2, <1>3, <1>4 DEF EnvInv

LEMMA ProjectStep ==
  ASSUME EnvInv, NEW p \in EnvProjects, InsertProject(p) \/ InsertPort(p) \/ DropProject(p)
  PROVE  EnvInv'
<1> USE DEF EnvInv, EnvTypeOK
<1>1. CASE InsertProject(p)
  BY <1>1, RemovalKeeps DEF InsertProject
<1>2. CASE InsertPort(p)
  <2>1. /\ envProject' \in [EnvProjects -> {"none", "inserted", "open", "deleted"}]
        /\ UNCHANGED <<editor, overlapped>>
    BY <1>2 DEF InsertPort
  <2>2. ASSUME NEW i \in EnvIds, InsertVar(i, p, PortKey, DefaultPort) PROVE EnvInv'
    BY <2>1, <2>2, InsertKeeps, EnvVarsAssumption DEF EnvVarsAssumption
  <2>3. CASE UNCHANGED <<env, usedIds, asked>>
    BY <2>1, <2>3, RemovalKeeps
  <2> QED
    BY <1>2, <2>2, <2>3 DEF InsertPort
<1>3. CASE DropProject(p)
  BY <1>3, RemovalKeeps DEF DropProject
<1> QED
  BY <1>1, <1>2, <1>3

LEMMA CreateStep ==
  ASSUME EnvInv, NEW e \in Editors, CreateVarRequest(e)
  PROVE  EnvInv'
<1> USE DEF EnvInv
<1>1. CASE CreateVar(e)
  <2>1. /\ editor[e] \in Inserting
        /\ editor' = [editor EXCEPT ![e] = IdleEditor]
        /\ UNCHANGED <<envProject, overlapped>>
    BY <1>1 DEF CreateVar, EnvTypeOK, IdleEditor, Writing, Deleting
  <2>2. /\ editor' \in [Editors -> {IdleEditor} \union Inserting \union Writing \union Deleting]
        /\ \A f \in Editors : editor'[f].pc = "write" => editor'[f] = editor[f]
    BY <2>1, EditorMoves DEF IdleEditor
  <2>3. editor[e].project \in EnvProjects /\ editor[e].key \in Keys /\ editor[e].value \in Values
    BY <2>1 DEF Inserting
  <2>4. ASSUME NEW i \in EnvIds, InsertVar(i, editor[e].project, editor[e].key, editor[e].value) PROVE EnvInv'
    BY <2>1, <2>2, <2>3, <2>4, InsertKeeps DEF EnvTypeOK
  <2>5. CASE UNCHANGED <<env, usedIds, asked>>
    BY <2>1, <2>2, <2>5, RemovalKeeps DEF EnvTypeOK
  <2> QED
    BY <1>1, <2>4, <2>5 DEF CreateVar
<1>2. ASSUME NEW p \in EnvProjects, NEW x \in Inserts, BeginCreateVar(e, p, x[1], x[2]) PROVE EnvInv'
  <2> DEFINE r == [pc |-> "insert", project |-> p, key |-> x[1], value |-> x[2]]
  <2>1. r \in Inserting
    BY EnvVarsAssumption DEF EnvVarsAssumption, Inserting
  <2>2. /\ editor' = [editor EXCEPT ![e] = r]
        /\ UNCHANGED <<env, usedIds, envProject, asked, overlapped>>
    BY <1>2 DEF BeginCreateVar
  <2>3. /\ editor' \in [Editors -> {IdleEditor} \union Inserting \union Writing \union Deleting]
        /\ \A f \in Editors : editor'[f].pc = "write" => editor'[f] = editor[f]
    BY <2>1, <2>2, EditorMoves
  <2> QED
    BY <2>2, <2>3, RemovalKeeps DEF EnvTypeOK
<1> QED
  BY <1>1, <1>2 DEF CreateVarRequest

LEMMA DeleteStep ==
  ASSUME EnvInv, NEW e \in Editors, DeleteVarRequest(e)
  PROVE  EnvInv'
<1> USE DEF EnvInv
<1>1. CASE DeleteVar(e)
  <2>1. /\ editor' \in [Editors -> {IdleEditor} \union Inserting \union Writing \union Deleting]
        /\ \A f \in Editors : editor'[f].pc = "write" => editor'[f] = editor[f]
    BY <1>1, EditorMoves DEF DeleteVar, IdleEditor
  <2> QED
    BY <1>1, <2>1, RemovalKeeps DEF DeleteVar, EnvTypeOK
<1>2. ASSUME NEW i \in EnvIds, BeginDeleteVar(e, i) PROVE EnvInv'
  <2> DEFINE r == [pc |-> "delete", id |-> i]
  <2>1. r \in Deleting
    BY DEF Deleting
  <2>2. /\ editor' \in [Editors -> {IdleEditor} \union Inserting \union Writing \union Deleting]
        /\ \A f \in Editors : editor'[f].pc = "write" => editor'[f] = editor[f]
    BY <1>2, <2>1, EditorMoves DEF BeginDeleteVar
  <2> QED
    BY <1>2, <2>2, RemovalKeeps DEF BeginDeleteVar, EnvTypeOK
<1> QED
  BY <1>1, <1>2 DEF DeleteVarRequest

\* An update takes a copy of the row and changes it.
LEMMA ReadStep ==
  ASSUME EnvInv, NEW e \in Editors, NEW i \in EnvIds, NEW x \in Updates, ReadVar(e, i, x[1], x[2])
  PROVE  EnvInv'
<1> DEFINE r == [pc |-> "write", id |-> i, newKey |-> x[1], newValue |-> x[2], row |-> Updated(env[i], x[1], x[2])]
<1> USE DEF EnvInv
<1>1. HasVar(i) /\ UNCHANGED <<env, usedIds, envProject, asked, overlapped>>
  BY DEF ReadVar
<1>2. x[1] \in Keys \union {Keep} /\ x[2] \in Values \union {Keep}
  BY EnvVarsAssumption DEF EnvVarsAssumption
<1>3. env[i] \in Var
  BY <1>1 DEF HasVar, EnvTypeOK
<1>4. editor' = [editor EXCEPT ![e] = r]
  BY DEF ReadVar, Updated
<1>5. r \in Writing
  BY <1>2, <1>3, UpdatedType DEF Writing
<1>6. /\ editor' \in [Editors -> {IdleEditor} \union Inserting \union Writing \union Deleting]
      /\ editor'[e] = r
      /\ \A f \in Editors \ {e} : editor'[f] = editor[f]
  BY <1>5, <1>4, EditorMoves
<1>7. EnvTypeOK' /\ UpdatesLand'
  BY <1>1, <1>6 DEF EnvTypeOK, UpdatesLand, HasVar
<1>8. IdsUsedOnce'
  BY <1>1, <1>6 DEF IdsUsedOnce, HasVar
<1>9. CopiesAreFresh'
  <2> SUFFICES ASSUME NEW f \in Editors, editor'[f].pc = "write", env[editor'[f].id] # NoVar, editor'[f].id \notin overlapped
               PROVE  editor'[f].row = Updated(env[editor'[f].id], editor'[f].newKey, editor'[f].newValue)
    BY <1>1 DEF CopiesAreFresh, Updated, WithFields, OrKept, HasVar
  <2> QED
    BY <1>6 DEF CopiesAreFresh, HasVar
<1> QED
  BY <1>7, <1>8, <1>9

\* The copy is written back: without an overlapping update it is the row with what was
\* asked, and with one the row counts as overlapped.
LEMMA WriteStep ==
  ASSUME EnvInv, NEW e \in Editors, WriteVar(e)
  PROVE  EnvInv'
<1> DEFINE i == editor[e].id
           r == editor[e].row
<1> USE DEF EnvInv
<1>1. editor[e] \in Writing /\ editor[e].pc = "write"
  BY DEF WriteVar, EnvTypeOK, IdleEditor, Inserting, Deleting
<1>2. i \in EnvIds /\ r \in Var /\ i \in usedIds /\ asked[i] \in Var
  BY <1>1 DEF Writing, IdsUsedOnce
<1>3. /\ editor' \in [Editors -> {IdleEditor} \union Inserting \union Writing \union Deleting]
      /\ editor'[e] = IdleEditor
      /\ \A f \in Editors \ {e} : editor'[f] = editor[f]
  BY EditorMoves DEF WriteVar
<1>4. \A f \in Editors : editor'[f].pc = "write" => f # e /\ editor'[f] = editor[f]
  BY <1>3 DEF IdleEditor
<1>5. CASE UNCHANGED <<env, asked, overlapped>>
  BY <1>3, <1>4, <1>5, RemovalKeeps DEF WriteVar, EnvTypeOK
<1>6. CASE ~ UNCHANGED <<env, asked, overlapped>>
  <2> DEFINE now == Updated(asked[i], editor[e].newKey, editor[e].newValue)
  <2>1. /\ HasVar(i) /\ UNCHANGED <<usedIds, envProject>>
        /\ env' = [env EXCEPT ![i] = r]
        /\ asked' = [asked EXCEPT ![i] = now]
        /\ overlapped' = IF \E f \in Editors \ {e} : editor[f].pc = "write" /\ editor[f].id = i
                         THEN overlapped \union {i} ELSE overlapped
    BY <1>6 DEF WriteVar, Updated, OrKept
  <2>2. now \in Var
    BY <1>1, <1>2, UpdatedType DEF Writing
  <2>3. /\ env'[i] = r /\ asked'[i] = now
        /\ \A j \in EnvIds \ {i} : env'[j] = env[j] /\ asked'[j] = asked[j]
    BY <1>2, <2>1 DEF EnvTypeOK
  <2>4. i \notin overlapped => r = now
    <3> SUFFICES ASSUME i \notin overlapped PROVE r = now
      OBVIOUS
    <3>1. r = Updated(env[i], editor[e].newKey, editor[e].newValue)
      BY <1>1, <2>1 DEF CopiesAreFresh
    <3>2. env[i] = asked[i]
      BY <1>2, <2>1 DEF UpdatesLand
    <3> QED
      BY <3>1, <3>2
  <2> HIDE DEF now
  <2>5. EnvTypeOK'
    BY <1>2, <1>3, <2>1, <2>2 DEF EnvTypeOK
  <2>6. IdsUsedOnce'
    BY <1>2, <1>4, <2>1, <2>2, <2>3 DEF IdsUsedOnce, HasVar, EnvTypeOK
  <2>7. UpdatesLand'
    BY <2>1, <2>3, <2>4 DEF UpdatesLand, HasVar
  <2>8. CopiesAreFresh'
    <3> SUFFICES ASSUME NEW f \in Editors, editor'[f].pc = "write", env'[editor'[f].id] # NoVar, editor'[f].id \notin overlapped'
                 PROVE  editor'[f].row = Updated(env'[editor'[f].id], editor'[f].newKey, editor'[f].newValue)
      BY DEF CopiesAreFresh, Updated, WithFields, OrKept, HasVar
    <3>1. f # e /\ editor'[f] = editor[f]
      BY <1>4
    <3>2. editor[f].id # i
      BY <2>1, <3>1
    <3>3. editor[f].id \in EnvIds /\ editor[f].id \notin overlapped
      BY <2>1, <3>1 DEF IdsUsedOnce, EnvTypeOK
    <3>4. env'[editor[f].id] = env[editor[f].id] /\ HasVar(editor[f].id)
      BY <2>3, <3>1, <3>2, <3>3 DEF HasVar
    <3> QED
      BY <3>1, <3>3, <3>4 DEF CopiesAreFresh
  <2> QED
    BY <2>5, <2>6, <2>7, <2>8
<1> QED
  BY <1>5, <1>6

\* In every reachable state: types, ids that are used once, and copies that are fresh
\* until an overlapping update has written.
THEOREM EnvInvHolds == EnvSpec => []EnvInv
<1>1. EnvInit => EnvInv
  BY DEF EnvInit, EnvInv, EnvTypeOK, IdsUsedOnce, CopiesAreFresh, UpdatesLand, HasVar, IdleEditor
<1>2. EnvInv /\ [EnvNext]_envVars => EnvInv'
  <2> SUFFICES ASSUME EnvInv, [EnvNext]_envVars PROVE EnvInv'
    OBVIOUS
  <2>1. CASE UNCHANGED envVars
    BY <2>1, RemovalKeeps DEF envVars, EnvInv, EnvTypeOK
  <2>2. ASSUME NEW e \in Editors, UpdateVarRequest(e) PROVE EnvInv'
    BY <2>2, ReadStep, WriteStep DEF UpdateVarRequest
  <2> QED
    BY <2>1, <2>2, ProjectStep, CreateStep, DeleteStep DEF EnvNext
<1> QED
  BY <1>1, <1>2, PTL DEF EnvSpec

\* For any number of requests, rows and projects: a row carries what the acknowledged
\* requests asked of it, field by field, unless two updates of it overlapped.
THEOREM UpdatesLandHolds == EnvSpec => []UpdatesLand
<1>1. EnvInv => UpdatesLand
  BY DEF EnvInv
<1> QED
  BY <1>1, EnvInvHolds, PTL

-----------------------------------------------------------------------------
(* Least elements, for what a recursive function or a CHOOSE computes: a  *)
(* statement that fails for some number fails for a least one.             *)

\* A set of numbers that is not empty has a least element.
LEMMA LeastElement ==
  ASSUME NEW S \in SUBSET Nat, S # {}
  PROVE  \E k \in S : \A j \in S : k <= j
<1> DEFINE Below(k) == S \intersect (0..k)
           Belows == {Below(k) : k \in S}
<1>1. Belows \subseteq FiniteSubsetsOf(Nat)
  <2> SUFFICES ASSUME NEW k \in S PROVE Below(k) \in FiniteSubsetsOf(Nat)
    OBVIOUS
  <2>1. IsFiniteSet(Below(k))
    BY FS_Interval, FS_Subset, 0 \in Int, k \in Int, Below(k) \in SUBSET (0..k)
  <2> QED
    BY <2>1 DEF FiniteSubsetsOf
<1>2. Belows # {}
  OBVIOUS
<1>3. PICK X \in Belows : \A Y \in Belows : <<Y, X>> \notin StrictSubsetOrdering(Nat)
  <2> HIDE DEF Belows
  <2> QED
    BY <1>1, <1>2, FS_StrictSubsetOrderingWellFounded, WFMin
<1>4. PICK m \in S : X = Below(m)
  OBVIOUS
<1>5. \A j \in S : m <= j
  <2> SUFFICES ASSUME NEW j \in S, j < m PROVE FALSE
    OBVIOUS
  <2>1. Below(j) \subseteq Below(m) /\ m \in Below(m) /\ m \notin Below(j)
    OBVIOUS
  <2>2. <<Below(j), Below(m)>> \in StrictSubsetOrdering(Nat)
    BY <2>1 DEF StrictSubsetOrdering
  <2> QED
    BY <2>2, <1>3, <1>4
<1> QED
  BY <1>5

-----------------------------------------------------------------------------
(* The log of a build.                                                     *)

\* What a process may write.
Outputs == Seq({"c", "n"})

\* f holds the lines of the first n pieces of an output, for every number up to n.
IsScan(f, out, n) ==
  f = [k \in 0..n |-> IF k = 0 THEN NoLines ELSE WithPiece(f[k-1], out[k])]

LEMMA ScanExists ==
  ASSUME NEW out \in Outputs
  PROVE  \A n \in 0..Len(out) : \E f : IsScan(f, out, n)
<1> DEFINE Bad == {n \in 0..Len(out) : ~\E f : IsScan(f, out, n)}
<1> SUFFICES ASSUME Bad # {} PROVE FALSE
  OBVIOUS
<1>1. Bad \in SUBSET Nat
  BY DEF Outputs
<1>2. PICK m \in Bad : \A j \in Bad : m <= j
  <2> HIDE DEF Bad
  <2> QED
    BY <1>1, LeastElement
<1>3. CASE m = 0
  <2> DEFINE f == [k \in 0..0 |-> NoLines]
  <2>1. \A k \in 0..0 : k = 0
    OBVIOUS
  <2>2. IsScan(f, out, 0)
    BY <2>1 DEF IsScan
  <2> QED
    BY <2>2, <1>3
<1>4. CASE m # 0
  <2>1. m \in Nat /\ m - 1 \in 0..Len(out) /\ m - 1 \notin Bad
    BY <1>1, <1>2, <1>4 DEF Outputs
  <2>2. PICK g : IsScan(g, out, m - 1)
    BY <2>1
  <2> DEFINE f == [k \in 0..m |-> IF k = m THEN WithPiece(g[m-1], out[m]) ELSE g[k]]
  <2>3. \A k \in 0..(m-1) : f[k] = g[k]
    BY <2>1
  <2>4. \A k \in 0..(m-1) : g[k] = IF k = 0 THEN NoLines ELSE WithPiece(g[k-1], out[k])
    BY <2>2 DEF IsScan
  <2>5. ASSUME NEW k \in 0..m PROVE f[k] = IF k = 0 THEN NoLines ELSE WithPiece(f[k-1], out[k])
    <3>1. CASE k = m
      BY <3>1, <2>1, <2>3, <1>4
    <3>2. CASE k # m /\ k # 0
      <4>1. k \in 0..(m-1) /\ k - 1 \in 0..(m-1)
        BY <3>2, <2>1
      <4>2. f[k] = g[k] /\ f[k-1] = g[k-1]
        BY <4>1, <2>3
      <4> QED
        BY <4>1, <4>2, <3>2, <2>4
    <3>3. CASE k # m /\ k = 0
      <4>1. k \in 0..(m-1)
        BY <3>3, <2>1
      <4> QED
        BY <4>1, <3>3, <2>3, <2>4
    <3> QED
      BY <3>1, <3>2, <3>3
  <2>6. IsScan(f, out, m)
    <3>1. f = [k \in 0..m |-> f[k]]
      OBVIOUS
    <3> HIDE DEF f
    <3> QED
      BY <3>1, <2>5 DEF IsScan
  <2> QED
    BY <2>6
<1> QED
  BY <1>3, <1>4

LEMMA LinesUpToDef ==
  ASSUME NEW out \in Outputs
  PROVE  /\ LinesUpTo(out)[0] = NoLines
         /\ \A k \in 1..Len(out) : LinesUpTo(out)[k] = WithPiece(LinesUpTo(out)[k-1], out[k])
<1>1. Len(out) \in Nat
  BY DEF Outputs
<1>2. \E f : f = [k \in 0..Len(out) |-> IF k = 0 THEN NoLines ELSE WithPiece(f[k-1], out[k])]
  BY <1>1, ScanExists DEF IsScan
<1>3. LinesUpTo(out) = CHOOSE f : f = [k \in 0..Len(out) |-> IF k = 0 THEN NoLines ELSE WithPiece(f[k-1], out[k])]
  BY DEF LinesUpTo
<1>4. LinesUpTo(out) = [k \in 0..Len(out) |-> IF k = 0 THEN NoLines ELSE WithPiece(LinesUpTo(out)[k-1], out[k])]
  BY <1>2, <1>3
<1> QED
  BY <1>1, <1>4

LineRecords == [ended : Seq(Nat), open : Nat]

LEMMA WithPieceType ==
  ASSUME NEW r \in LineRecords, NEW x
  PROVE  WithPiece(r, x) \in LineRecords
<1>1. r.ended \in Seq(Nat) /\ r.open \in Nat
  BY DEF LineRecords
<1>2. Append(r.ended, r.open) \in Seq(Nat) /\ r.open + 1 \in Nat
  BY <1>1
<1> QED
  BY <1>1, <1>2 DEF WithPiece, LineRecords

LEMMA LinesUpToType ==
  ASSUME NEW out \in Outputs
  PROVE  \A k \in 0..Len(out) : LinesUpTo(out)[k] \in LineRecords
<1> DEFINE Bad == {k \in 0..Len(out) : LinesUpTo(out)[k] \notin LineRecords}
<1> SUFFICES ASSUME Bad # {} PROVE FALSE
  OBVIOUS
<1>1. Bad \in SUBSET Nat
  BY DEF Outputs
<1>2. PICK m \in Bad : \A j \in Bad : m <= j
  <2> HIDE DEF Bad
  <2> QED
    BY <1>1, LeastElement
<1>3. CASE m = 0
  <2>1. NoLines \in LineRecords
    BY DEF NoLines, LineRecords
  <2>2. LinesUpTo(out)[m] = NoLines
    BY <1>3, LinesUpToDef
  <2> QED
    BY <2>1, <2>2
<1>4. CASE m # 0
  <2>1. m \in 1..Len(out) /\ m - 1 \in 0..Len(out) /\ m - 1 \notin Bad
    BY <1>1, <1>2, <1>4 DEF Outputs
  <2>2. LinesUpTo(out)[m-1] \in LineRecords
    BY <2>1
  <2>3. LinesUpTo(out)[m] = WithPiece(LinesUpTo(out)[m-1], out[m])
    BY <2>1, LinesUpToDef
  <2> QED
    BY <2>2, <2>3, WithPieceType
<1> QED
  BY <1>3, <1>4

\* What comes later does not change the lines of what was there.
LEMMA LinesUpToPrefix ==
  ASSUME NEW out \in Outputs, NEW x \in {"c", "n"}
  PROVE  \A k \in 0..Len(out) : LinesUpTo(Append(out, x))[k] = LinesUpTo(out)[k]
<1> DEFINE longer == Append(out, x)
           Bad == {k \in 0..Len(out) : LinesUpTo(longer)[k] # LinesUpTo(out)[k]}
<1>1. longer \in Outputs /\ Len(longer) = Len(out) + 1 /\ \A k \in 1..Len(out) : longer[k] = out[k]
  BY DEF Outputs
<1> HIDE DEF longer
<1>2. SUFFICES ASSUME Bad # {} PROVE FALSE
  BY DEF longer
<1>3. Bad \in SUBSET Nat
  BY DEF Outputs
<1>4. PICK m \in Bad : \A j \in Bad : m <= j
  <2> HIDE DEF Bad
  <2> QED
    BY <1>2, <1>3, LeastElement
<1>5. CASE m = 0
  BY <1>5, <1>1, LinesUpToDef
<1>6. CASE m # 0
  <2>1. m \in 1..Len(out) /\ m \in 1..Len(longer) /\ m - 1 \in 0..Len(out) /\ m - 1 \notin Bad
    BY <1>1, <1>3, <1>4, <1>6 DEF Outputs
  <2>2. LinesUpTo(longer)[m-1] = LinesUpTo(out)[m-1]
    BY <2>1
  <2>3. /\ LinesUpTo(longer)[m] = WithPiece(LinesUpTo(longer)[m-1], longer[m])
        /\ LinesUpTo(out)[m] = WithPiece(LinesUpTo(out)[m-1], out[m])
    BY <1>1, <2>1, LinesUpToDef
  <2> QED
    BY <1>1, <2>1, <2>2, <2>3
<1> QED
  BY <1>5, <1>6

-----------------------------------------------------------------------------

\* How many pieces the scanner has taken.
Taken == Len(written) - Len(osPipe) - Len(held)

BuildTypeOK ==
  /\ handler \in {"idle", "wait", "close", "flush", "returned"}
  /\ process \in {"none", "running", "exited", "killed"}
  /\ child \in {"none", "running", "gone"}
  /\ copier \in {"none", "copying", "over"}
  /\ scanner \in {"none", "reading", "over"}
  /\ written \in Outputs /\ osPipe \in Outputs
  /\ held \in {<<>>, <<"c">>, <<"n">>}
  /\ pipeClosed \in BOOLEAN /\ tooLong \in BOOLEAN
  /\ line \in Nat /\ logged \in Seq(Nat)

\* The pieces under way are the last ones of what was written.
PipesInv ==
  /\ Taken \in Nat
  /\ held # <<>> => held[1] = written[Taken + 1]
  /\ \A i \in 1..Len(osPipe) : osPipe[i] = written[Taken + Len(held) + i]

\* The handler closes the pipe when the copier is over, and the copier when everything
\* is out of both pipes and nobody writes any more.
OrderInv ==
  /\ copier = "over" =>
       held = <<>> /\ osPipe = <<>> /\ process \in {"exited", "killed"} /\ child # "running"
  /\ handler \in {"close", "flush", "returned"} => copier = "over"
  /\ pipeClosed => copier = "over"
  /\ handler = "returned" => scanner = "over"
  /\ handler = "idle" => process = "none" /\ copier = "none" /\ scanner = "none"

\* What the scanner has logged are the lines of what it has taken.
ScannerInv ==
  /\ scanner # "over" =>
       /\ ~tooLong
       /\ logged = LinesUpTo(written)[Taken].ended
       /\ line = LinesUpTo(written)[Taken].open
  /\ scanner = "over" /\ ~tooLong => copier = "over" /\ logged = LinesOf(written)

BuildInv == BuildTypeOK /\ PipesInv /\ OrderInv /\ ScannerInv

LEMMA BuildInvInit == BuildLogInit => BuildInv
<1> SUFFICES ASSUME BuildLogInit PROVE BuildInv
  OBVIOUS
<1>1. <<>> \in Outputs /\ <<>> \in Seq(Nat) /\ Len(<<>>) = 0
  BY DEF Outputs
<1>2. BuildTypeOK /\ OrderInv
  BY <1>1 DEF BuildLogInit, BuildTypeOK, OrderInv
<1>3. Taken = 0
  <2>1. Len(written) = 0 /\ Len(osPipe) = 0 /\ Len(held) = 0
    BY <1>1 DEF BuildLogInit
  <2> QED
    BY <2>1 DEF Taken
<1>4. PipesInv
  BY <1>1, <1>3 DEF BuildLogInit, PipesInv
<1>5. LinesUpTo(written)[0] = NoLines
  BY <1>1, LinesUpToDef DEF BuildLogInit
<1>6. ScannerInv
  BY <1>3, <1>5 DEF BuildLogInit, ScannerInv, NoLines
<1> QED
  BY <1>2, <1>4, <1>6 DEF BuildInv

\* Steps that leave output, pipes and scanner alone.
LEMMA AsideStep ==
  ASSUME BuildInv, StartNixpacks \/ StartChild \/ ProcessEnds \/ ChildEnds \/ CopierEnds \/ Build
  PROVE  BuildInv'
<1> USE DEF StartNixpacks, StartChild, ProcessEnds, ChildEnds, CopierEnds, Build, WaitReturns, ClosePipe, ReturnLog
<1>1. UNCHANGED <<written, osPipe, held, line, logged, tooLong>>
  OBVIOUS
<1>2. BuildTypeOK'
  BY DEF BuildInv, BuildTypeOK
<1>3. PipesInv' /\ Taken' = Taken
  BY <1>1 DEF BuildInv, PipesInv, Taken
<1>4. OrderInv'
  BY DEF BuildInv, OrderInv, BuildTypeOK
<1>5. ScannerInv'
  BY <1>1, <1>3 DEF BuildInv, ScannerInv, OrderInv
<1> QED
  BY <1>2, <1>3, <1>4, <1>5 DEF BuildInv

LEMMA ProcessWritesStep == ASSUME BuildInv, ProcessWrites PROVE BuildInv'
<1> USE DEF BuildInv
<1>1. PICK x \in {"c", "n"} : written' = Append(written, x) /\ osPipe' = Append(osPipe, x)
  BY DEF ProcessWrites
<1>2. /\ UNCHANGED <<handler, process, child, held, copier, pipeClosed, scanner, tooLong, line, logged>>
      /\ (process = "running" \/ child = "running")
  BY DEF ProcessWrites
<1>3. BuildTypeOK'
  BY <1>1, <1>2 DEF BuildTypeOK, Outputs
<1>4. /\ written \in Outputs /\ osPipe \in Outputs
      /\ Len(written') = Len(written) + 1 /\ Len(osPipe') = Len(osPipe) + 1
      /\ Len(held) \in Nat /\ Len(written) \in Nat /\ Len(osPipe) \in Nat
      /\ \A i \in 1..Len(written) : written'[i] = written[i]
      /\ \A i \in 1..Len(osPipe) : osPipe'[i] = osPipe[i]
      /\ written'[Len(written) + 1] = x /\ osPipe'[Len(osPipe) + 1] = x
  BY <1>1 DEF BuildTypeOK, Outputs
<1>5. Taken' = Taken /\ Taken \in 0..Len(written) /\ Taken + Len(held) + Len(osPipe) = Len(written)
  BY <1>2, <1>4 DEF Taken, PipesInv
<1>6. PipesInv'
  <2>1. held # <<>> => Len(held) >= 1
    BY DEF BuildTypeOK
  <2>2. held # <<>> => held[1] = written'[Taken + 1]
    BY <2>1, <1>4, <1>5 DEF PipesInv
  <2>3. ASSUME NEW i \in 1..Len(osPipe') PROVE osPipe'[i] = written'[Taken + Len(held) + i]
    <3>1. CASE i = Len(osPipe) + 1
      BY <3>1, <1>4, <1>5, SMTT(40)
    <3>2. CASE i \in 1..Len(osPipe)
      <4>1. Taken + Len(held) + i \in 1..Len(written)
        BY <3>2, <1>4, <1>5
      <4> QED
        BY <3>2, <4>1, <1>4 DEF PipesInv
    <3> QED
      BY <3>1, <3>2, <1>4
  <2> QED
    BY <2>2, <2>3, <1>2, <1>5 DEF PipesInv
<1>7. OrderInv'
  BY <1>2 DEF OrderInv
<1>8. ScannerInv'
  <2>1. LinesUpTo(written')[Taken] = LinesUpTo(written)[Taken]
    BY <1>1, <1>4, <1>5, LinesUpToPrefix
  <2> QED
    BY <2>1, <1>2, <1>5 DEF ScannerInv, OrderInv
<1> QED
  BY <1>3, <1>6, <1>7, <1>8

LEMMA CopierReadsStep == ASSUME BuildInv, CopierReads PROVE BuildInv'
<1> USE DEF BuildInv
<1>1. /\ copier = "copying" /\ held = <<>> /\ osPipe # <<>>
      /\ held' = <<Head(osPipe)>> /\ osPipe' = Tail(osPipe)
      /\ UNCHANGED <<handler, process, child, written, copier, pipeClosed, scanner, tooLong, line, logged>>
  BY DEF CopierReads
<1>2. /\ osPipe \in Outputs /\ Len(osPipe) \in Nat \ {0} /\ Len(written) \in Nat
      /\ Head(osPipe) = osPipe[1] /\ Head(osPipe) \in {"c", "n"}
      /\ Tail(osPipe) \in Outputs /\ Len(Tail(osPipe)) = Len(osPipe) - 1
      /\ \A i \in 1..(Len(osPipe) - 1) : Tail(osPipe)[i] = osPipe[i + 1]
  BY <1>1 DEF BuildTypeOK, Outputs
<1>3. BuildTypeOK'
  BY <1>1, <1>2 DEF BuildTypeOK
<1>4. Len(held) = 0 /\ Len(held') = 1 /\ held'[1] = osPipe[1]
  BY <1>1, <1>2
<1>5. Taken' = Taken
  BY <1>1, <1>2, <1>4 DEF Taken
<1>6. PipesInv'
  <2>1. held'[1] = written[Taken + 1]
    BY <1>2, <1>4 DEF PipesInv
  <2>2. ASSUME NEW i \in 1..(Len(osPipe) - 1) PROVE osPipe'[i] = written[Taken + 1 + i]
    <3>1. osPipe[i + 1] = written[Taken + 0 + (i + 1)]
      BY <1>2, <1>4 DEF PipesInv
    <3>2. Taken + 0 + (i + 1) = Taken + 1 + i
      BY DEF PipesInv
    <3> QED
      BY <3>1, <3>2, <1>1, <1>2
  <2> QED
    BY <2>1, <2>2, <1>1, <1>2, <1>4, <1>5 DEF PipesInv
<1>7. OrderInv'
  BY <1>1 DEF OrderInv
<1>8. ScannerInv'
  BY <1>1, <1>5 DEF ScannerInv
<1> QED
  BY <1>3, <1>6, <1>7, <1>8

\* A piece taken is added to the lines so far.
LEMMA ScannerReadsStep == ASSUME BuildInv, ScannerReads PROVE BuildInv'
<1> USE DEF BuildInv
<1>1. /\ scanner = "reading" /\ held # <<>> /\ held' = <<>>
      /\ UNCHANGED <<handler, process, child, written, osPipe, copier, pipeClosed>>
  BY DEF ScannerReads
<1>2. /\ held = <<held[1]>> /\ held[1] \in {"c", "n"} /\ Len(held) = 1 /\ Len(held') = 0
      /\ Len(written) \in Nat /\ Len(osPipe) \in Nat
  BY <1>1 DEF BuildTypeOK, Outputs
<1>3. Taken' = Taken + 1 /\ Taken + 1 \in 1..Len(written) /\ Taken \in 0..Len(written)
  BY <1>1, <1>2 DEF Taken, PipesInv
<1>4. BuildTypeOK'
  <2>1. line' \in Nat /\ logged' \in Seq(Nat) /\ scanner' \in {"reading", "over"} /\ tooLong' \in BOOLEAN
    <3>1. line \in Nat /\ logged \in Seq(Nat) /\ scanner = "reading" /\ tooLong \in BOOLEAN
      BY <1>1 DEF BuildTypeOK
    <3>2. line + 1 \in Nat /\ Append(logged, line) \in Seq(Nat)
      BY <3>1
    <3>3. /\ line' \in {0, line, line + 1} /\ logged' \in {logged, Append(logged, line)}
          /\ scanner' \in {scanner, "over"} /\ (tooLong' = tooLong \/ tooLong' = TRUE)
      BY DEF ScannerReads
    <3>4. tooLong' \in BOOLEAN
      BY <3>1, <3>3, Zenon
    <3>5. line' \in Nat /\ logged' \in Seq(Nat) /\ scanner' \in {"reading", "over"}
      BY <3>1, <3>2, <3>3
    <3> QED
      BY <3>4, <3>5
  <2> QED
    BY <2>1, <1>1 DEF BuildTypeOK
<1>5. PipesInv'
  <2>1. ASSUME NEW i \in 1..Len(osPipe) PROVE osPipe[i] = written[Taken + 1 + 0 + i]
    <3>1. Taken + 1 + 0 + i = Taken + Len(held) + i
      BY <1>2, <1>3
    <3> QED
      BY <3>1 DEF PipesInv
  <2>2. Taken + 1 \in Nat
    BY <1>3
  <2> QED
    BY <2>1, <2>2, <1>1, <1>2, <1>3 DEF PipesInv
<1>6. OrderInv'
  BY <1>1, <1>2 DEF OrderInv, ScannerReads
<1>7. LinesUpTo(written)[Taken + 1] = WithPiece(LinesUpTo(written)[Taken], held[1])
  <2>1. (Taken + 1) - 1 = Taken
    BY <1>3
  <2> QED
    BY <2>1, <1>1, <1>3, LinesUpToDef DEF PipesInv, BuildTypeOK
<1>8. ScannerInv'
  BY <1>1, <1>2, <1>3, <1>7 DEF ScannerInv, ScannerReads, WithPiece
<1> QED
  BY <1>4, <1>5, <1>6, <1>8

\* At the end of the pipe everything written has been taken.
LEMMA ScannerEndsStep == ASSUME BuildInv, ScannerEnds PROVE BuildInv'
<1> USE DEF BuildInv
<1>1. /\ scanner = "reading" /\ pipeClosed /\ held = <<>> /\ scanner' = "over" /\ line' = 0
      /\ logged' = IF line > 0 THEN Append(logged, line) ELSE logged
      /\ UNCHANGED <<handler, process, child, written, osPipe, held, copier, pipeClosed, tooLong>>
  BY DEF ScannerEnds
<1>2. copier = "over" /\ osPipe = <<>>
  BY <1>1 DEF OrderInv
<1>3. Taken = Len(written)
  BY <1>1, <1>2 DEF Taken, BuildTypeOK, Outputs
<1>4. logged' = LinesOf(written)
  BY <1>1, <1>3 DEF ScannerInv, LinesOf, AllLines
<1>5. BuildTypeOK'
  BY <1>1 DEF BuildTypeOK
<1>6. PipesInv' /\ OrderInv'
  BY <1>1, <1>2 DEF PipesInv, OrderInv, Taken
<1>7. ScannerInv'
  BY <1>1, <1>2, <1>4 DEF ScannerInv
<1> QED
  BY <1>5, <1>6, <1>7

\* What the scanner has logged so far are the lines of what it has taken from the pipe.
THEOREM BuildInvHolds == BuildLogSpec => []BuildInv
<1>1. BuildInv /\ [BuildLogNext]_buildVars => BuildInv'
  <2>1. ASSUME BuildInv, BuildLogNext PROVE BuildInv'
    BY <2>1, AsideStep, ProcessWritesStep, CopierReadsStep, ScannerReadsStep, ScannerEndsStep
       DEF BuildLogNext, Copier, Scanner
  <2>2. ASSUME BuildInv, UNCHANGED buildVars PROVE BuildInv'
    BY <2>2 DEF buildVars, BuildInv, BuildTypeOK, PipesInv, OrderInv, ScannerInv, Taken
  <2> QED
    BY <2>1, <2>2
<1> QED
  BY <1>1, BuildInvInit, PTL DEF BuildLogSpec

\* The log buildWithNixpacks returns has every line process and child wrote, the
\* last one included, also when the process was killed, unless a line was too long for the scanner.
THEOREM LogIsCompleteHolds == BuildLogSpec => []LogIsComplete
<1>1. BuildInv => LogIsComplete
  BY DEF BuildInv, OrderInv, ScannerInv, LogIsComplete
<1> QED
  BY <1>1, BuildInvHolds, PTL

-----------------------------------------------------------------------------
(* The parsers, for every input.                                           *)

\* A sequence with one more piece.
LEMMA OneMore ==
  ASSUME NEW S, NEW s \in Seq(S), NEW e \in S
  PROVE  /\ Len(s \o <<e>>) = Len(s) + 1 /\ (s \o <<e>>)[Len(s) + 1] = e
         /\ SubSeq(s \o <<e>>, 1, Len(s)) = s
  OBVIOUS

\* A path of pieces without slash around one, without the suffix of a git URL.
LEMMA PathWithoutSuffix ==
  ASSUME NEW P, NEW owner \in Seq(P), NEW name \in Seq(P), NEW suffix \in {<<>>, <<".git">>},
         name # <<>> => name[Len(name)] # ".git"
  PROVE  WithoutGitSuffix(owner \o <<"/">> \o name \o suffix) = owner \o <<"/">> \o name
<1> DEFINE Q == P \union {"/", ".git"}
           short == owner \o <<"/">> \o name
           path == short \o suffix
<1>1. short \in Seq(Q) /\ Len(short) = Len(owner) + 1 + Len(name)
  OBVIOUS
<1>2. short[Len(short)] # ".git"
  <2>1. CASE name = <<>>
    BY <2>1
  <2>2. CASE name # <<>>
    <3>1. short[Len(short)] = name[Len(name)]
      BY <2>2
    <3> QED
      BY <3>1, <2>2
  <2> QED
    BY <2>1, <2>2
<1> HIDE DEF short
<1>3. CASE suffix = <<>>
  <2>1. path = short
    BY <1>1, <1>3
  <2> QED
    BY <2>1, <1>2 DEF WithoutGitSuffix, short
<1>4. CASE suffix = <<".git">>
  <2>1. path = short \o <<".git">>
    BY <1>4
  <2>2. ".git" \in Q /\ Len(short) \in Nat /\ Len(short) >= 1
    BY <1>1
  <2> HIDE DEF Q
  <2>3. /\ Len(path) = Len(short) + 1 /\ path[Len(short) + 1] = ".git"
        /\ SubSeq(path, 1, Len(short)) = short
    <3>1. /\ Len(short \o <<".git">>) = Len(short) + 1 /\ (short \o <<".git">>)[Len(short) + 1] = ".git"
          /\ SubSeq(short \o <<".git">>, 1, Len(short)) = short
      BY <1>1, <2>2, OneMore
    <3> HIDE DEF path
    <3> QED
      BY <2>1, <3>1
  <2>4. Len(path) > 1 /\ path[Len(path)] = ".git" /\ SubSeq(path, 1, Len(path) - 1) = short
    <3> HIDE DEF path
    <3>1. Len(path) - 1 = Len(short)
      BY <2>2, <2>3
    <3> QED
      BY <2>2, <2>3, <3>1
  <2> QED
    BY <2>4 DEF WithoutGitSuffix, short
<1> QED
  BY <1>3, <1>4

\* The first of one.
LEMMA FirstOfOne == ASSUME NEW k \in Nat PROVE First({k}) = k
  BY DEF First

\* Searching for a separator splits a text into what is before and what is after it.
Splits(before, sep, after) ==
  LET text == before \o <<sep>> \o after IN
  /\ Where(sep, text) # {}
  /\ SubSeq(text, 1, First(Where(sep, text)) - 1) = before
  /\ From(text, First(Where(sep, text)) + 1) = after

\* The two sides of the one separator in a text.
LEMMA AroundSeparator ==
  ASSUME NEW P, NEW sep, sep \notin P, NEW owner \in Seq(P), NEW name \in Seq(P)
  PROVE  Splits(owner, sep, name)
<1> DEFINE Q == P \union {sep}
           short == owner \o <<sep>> \o name
           k == Len(owner) + 1
<1>1. short \in Seq(Q) /\ Len(short) = Len(owner) + 1 + Len(name) /\ k \in Nat
  OBVIOUS
<1>2. \A i \in 1..Len(owner) : short[i] = owner[i] /\ owner[i] \in P
  OBVIOUS
<1>3. short[k] = sep
  OBVIOUS
<1>4. \A i \in 1..Len(name) : short[k + i] = name[i] /\ name[i] \in P
  OBVIOUS
<1>5. Len(owner) \in Nat /\ Len(name) \in Nat
  OBVIOUS
<1> HIDE DEF short
<1>6. Where(sep, short) = {k}
  <2>1. ASSUME NEW i \in 1..Len(short), short[i] = sep PROVE i = k
    <3>1. CASE i < k
      BY <3>1, <2>1, <1>2, <1>5
    <3>2. CASE i > k
      <4>1. i - k \in 1..Len(name) /\ k + (i - k) = i
        BY <3>2, <1>1, <1>5
      <4> QED
        BY <4>1, <2>1, <1>4
    <3> QED
      BY <3>1, <3>2, <1>1, <1>5
  <2> QED
    BY <2>1, <1>1, <1>3, <1>5 DEF Where
<1>7. First(Where(sep, short)) = k
  BY <1>1, <1>6, FirstOfOne
<1>8. SubSeq(short, 1, k - 1) = owner
  <2>1. \A i \in 1..(k - 1) : short[i] \in Q
    BY <1>1, <1>5
  <2>2. /\ SubSeq(short, 1, k - 1) \in Seq(Q) /\ Len(SubSeq(short, 1, k - 1)) = Len(owner)
        /\ \A i \in 1..Len(owner) : SubSeq(short, 1, k - 1)[i] = short[i]
    BY <1>5, <2>1, SubSeqProperties, 1 \in Int, k - 1 \in Int
  <2> QED
    BY <1>2, <2>2, SeqEqual, owner \in Seq(Q)
<1>9. From(short, k + 1) = name
  <2>1. \A i \in (k + 1)..Len(short) : short[i] \in Q
    BY <1>1, <1>5
  <2>2. /\ From(short, k + 1) \in Seq(Q) /\ Len(From(short, k + 1)) = Len(name)
        /\ \A i \in 1..Len(name) : From(short, k + 1)[i] = short[k + i]
    <3>1. Len(short) - (k + 1) + 1 = Len(name) /\ \A i \in Nat : (k + 1) + i - 1 = k + i
      BY <1>1, <1>5
    <3>2. k + 1 \in Int /\ Len(short) \in Int
      BY <1>1, <1>5
    <3> QED
      BY <1>1, <1>5, <2>1, <3>1, <3>2, SubSeqProperties DEF From
  <2> QED
    BY <1>4, <2>2, SeqEqual, name \in Seq(Q)
<1> QED
  BY <1>6, <1>7, <1>8, <1>9 DEF short, Splits

\* What comes back for one URL.
ComesBack(owner, name, suffix) ==
  ParseRepoURL("https", owner \o <<"/">> \o name \o suffix)
    = IF owner = <<>> \/ name = <<>> \/ name \o suffix = <<".git">>
      THEN Failed
      ELSE [owner |-> owner, name |-> name]

LEMMA ParsesBack ==
  ASSUME NEW P, "/" \notin P, NEW owner \in Seq(P), NEW name \in Seq(P), NEW suffix \in {<<>>, <<".git">>},
         name # <<>> => name[Len(name)] # ".git"
  PROVE  ComesBack(owner, name, suffix)
<1> DEFINE short == owner \o <<"/">> \o name
           path == short \o suffix
<1>1. Handled("https")
  BY DEF Handled, SchemePrefix
<1>2. WithoutGitSuffix(path) = short
  BY PathWithoutSuffix
<1>3. name \o suffix = <<".git">> => name = <<>>
  <2>1. CASE suffix = <<>>
    <3>1. name \o suffix = name
      BY <2>1
    <3> QED
      BY <3>1
  <2>2. CASE suffix = <<".git">>
    <3>1. Len(name \o suffix) = Len(name) + 1
      BY <2>2
    <3> QED
      BY <3>1
  <2> QED
    BY <2>1, <2>2
<1>4. /\ Where("/", short) # {}
      /\ SubSeq(short, 1, First(Where("/", short)) - 1) = owner
      /\ From(short, First(Where("/", short)) + 1) = name
  <2>1. Splits(owner, "/", name)
    BY AroundSeparator
  <2> QED
    BY <2>1 DEF Splits
<1> HIDE DEF short
<1>5. ParseRepoURL("https", path)
        = IF owner = <<>> \/ name = <<>> THEN Failed
          ELSE [owner |-> owner, name |-> name]
  <2> HIDE DEF path
  <2> QED
    BY <1>1, <1>2, <1>4 DEF ParseRepoURL
<1> QED
  BY <1>3, <1>5 DEF short, ComesBack

\* parseRepoURL gives owner and name of an https URL back, made of whatever pieces without
\* a slash, unless the name itself ends in .git, and refuses it if one of them is empty.
THEOREM RepoURLRoundTripHolds ==
  ASSUME NEW P, "/" \notin P,
         input.kind = "repo" =>
           /\ input.owner \in Seq(P) /\ input.name \in Seq(P)
           /\ input.name # <<>> => input.name[Len(input.name)] # ".git"
           /\ input.suffix \in {<<>>, <<".git">>}
  PROVE  RepoURLRoundTrip
<1>1. input.kind = "repo" => ComesBack(input.owner, input.name, input.suffix)
  BY ParsesBack
<1> QED
  BY <1>1 DEF ComesBack, RepoURLRoundTrip

-----------------------------------------------------------------------------
(* The two readings of a Redis URL.                                        *)

LEMMA NoSeparator ==
  ASSUME NEW P, NEW sep, sep \notin P, NEW text \in Seq(P)
  PROVE  Where(sep, text) = {}
  BY DEF Where

\* parseInt computes what strconv.Atoi does from a text of digits: the recursions are the
\* same equation.
LEMMA ParseIntIsAtoi ==
  ASSUME NEW P, NEW s \in Seq(P), IsNumber(s)
  PROVE  ParseInt(s) = Atoi(s)
<1> DEFINE X(n) == [k \in 0..Len(s) |->
                     IF k = 0 THEN 0 ELSE IF IsDigit(s[k]) THEN n[k-1] * 10 + ValueOf(s[k]) ELSE n[k-1]]
           Y(n) == [k \in 0..Len(s) |-> IF k = 0 THEN 0 ELSE n[k-1] * 10 + ValueOf(s[k])]
<1>1. ASSUME NEW n PROVE X(n) = Y(n)
  <2>1. \A k \in 0..Len(s) : k # 0 => IsDigit(s[k])
    BY DEF IsNumber
  <2> QED
    BY <2>1
<1>2. \A n : (n = X(n)) <=> (n = Y(n))
  BY <1>1
<1> HIDE DEF X, Y
<1>3. (CHOOSE n : n = X(n)) = (CHOOSE n : n = Y(n))
  BY <1>2
<1> QED
  BY <1>3 DEF ParseInt, Atoi, X, Y

LEMMA NoDatabase == Atoi(<<>>) = 0 /\ IsNumber(<<>>)
<1> DEFINE Y(n) == [k \in 0..Len(<<>>) |-> IF k = 0 THEN 0 ELSE n[k-1] * 10 + ValueOf(<<>>[k])]
<1> DEFINE Z == [k \in 0..0 |-> 0]
<1>1. ASSUME NEW n PROVE Y(n) = Z
  BY Len(<<>>) = 0
<1>2. \A n : (n = Y(n)) <=> (n = Z)
  BY <1>1
<1>3. (CHOOSE n : n = Y(n))[0] = 0
  <2> HIDE DEF Y, Z
  <2>1. (CHOOSE n : n = Y(n)) = (CHOOSE n : n = Z)
    BY <1>2
  <2>2. (CHOOSE n : n = Z) = Z
    OBVIOUS
  <2> QED
    BY <2>1, <2>2 DEF Z
<1> QED
  BY <1>3, Len(<<>>) = 0 DEF Atoi, IsNumber, Y

\* The parts of a URL of the documented format. Letters stands for the characters that
\* are none of the separators, so a host is no IPv6 address; a colon comes with a port.
RedisParts(Letters, login, host, port, db) ==
  /\ login = <<>> \/ \E a \in Seq(Letters \union {":"}) : login = a \o <<"@">>
  /\ host \in Seq(Letters) \ {<<>>}
  /\ port = <<>> \/ \E q \in Seq(Letters) \ {<<>>} : port = <<":">> \o q
  /\ db = <<>> \/ \E d \in Seq(Letters) : db = <<"/">> \o d

Separators == {"@", "/", ":"}

\* What the code looks at after it has cut off the login.
RestOf(url) == IF Where("@", url) = {} THEN url ELSE From(url, First(Where("@", url)) + 1)

LEMMA LoginIsCut ==
  ASSUME NEW P, P \intersect Separators = {}, NEW login, NEW tail \in Seq(P \union {":", "/"}),
         login = <<>> \/ \E a \in Seq(P \union {":"}) : login = a \o <<"@">>
  PROVE  /\ RestOf(login \o tail) = tail
         /\ login = <<>> => Where("@", login \o tail) = {}
<1> DEFINE Q == P \union {":", "/"}
<1>1. "@" \notin Q
  BY DEF Separators
<1>2. CASE login = <<>>
  <2>1. login \o tail = tail
    BY <1>2
  <2>2. Where("@", tail) = {}
    BY <1>1, NoSeparator
  <2> QED
    BY <2>1, <2>2 DEF RestOf
<1>3. CASE login # <<>>
  <2>1. PICK a \in Seq(P \union {":"}) : login = a \o <<"@">>
    BY <1>3
  <2>2. a \in Seq(Q)
    OBVIOUS
  <2> HIDE DEF Q
  <2>3. Splits(a, "@", tail)
    <3>1. tail \in Seq(Q)
      BY DEF Q
    <3> QED
      BY <1>1, <2>2, <3>1, AroundSeparator
  <2> QED
    BY <1>3, <2>1, <2>3 DEF Splits, RestOf
<1> QED
  BY <1>2, <1>3

\* The database part is cut off, and read as the same number.
LEMMA DatabaseIsCut ==
  ASSUME NEW P, P \intersect Separators = {}, NEW address \in Seq(P \union {":"}), NEW db,
         db = <<>> \/ \E d \in Seq(P) : db = <<"/">> \o d,
         IsNumber(From(db, 2))
  PROVE  LET rest == address \o db
             slashes == Where("/", rest)
         IN /\ (IF slashes = {} THEN rest ELSE SubSeq(rest, 1, First(slashes) - 1)) = address
            /\ (IF slashes = {} THEN 0 ELSE ParseInt(From(rest, First(slashes) + 1))) = Atoi(From(db, 2))
<1> DEFINE Q == P \union {":"}
<1>1. "/" \notin Q
  BY DEF Separators
<1>2. CASE db = <<>>
  <2>1. address \o db = address
    BY <1>2
  <2>2. Where("/", address) = {}
    BY <1>1, NoSeparator
  <2>3. From(db, 2) = <<>>
    BY <1>2 DEF From
  <2> QED
    BY <2>1, <2>2, <2>3, NoDatabase
<1>3. CASE db # <<>>
  <2>1. PICK d \in Seq(P) : db = <<"/">> \o d
    BY <1>3
  <2>2. d \in Seq(Q)
    OBVIOUS
  <2>3. address \o db = address \o <<"/">> \o d
    BY <2>1
  <2>4. Splits(address, "/", d)
    <3> HIDE DEF Q
    <3>1. address \in Seq(Q)
      BY DEF Q
    <3> QED
      BY <1>1, <2>2, <3>1, AroundSeparator
  <2>5. From(db, 2) = d
    <3>1. db[1] = "/" /\ Len(db) = Len(d) + 1 /\ db \in Seq(P \union {"/"}) /\ \A i \in 1..Len(d) : db[i + 1] = d[i]
      BY <2>1
    <3>2. \A i \in 2..Len(db) : db[i] \in P \union {"/"}
      BY <3>1
    <3>3. /\ From(db, 2) \in Seq(P \union {"/"}) /\ Len(From(db, 2)) = Len(d)
          /\ \A i \in 1..Len(d) : From(db, 2)[i] = db[i + 1]
      <4>1. 2 \in Int /\ Len(db) \in Int /\ Len(db) - 2 + 1 = Len(d) /\ Len(d) \in Nat
            /\ \A i \in Nat : 2 + i - 1 = i + 1
        BY <3>1
      <4> QED
        BY <3>1, <3>2, <4>1, SubSeqProperties DEF From
    <3> QED
      BY <3>1, <3>3, SeqEqual, d \in Seq(P)
  <2>6. ParseInt(d) = Atoi(d)
    BY <2>5, ParseIntIsAtoi
  <2> QED
    <3>1. Where("/", address \o db) # {}
      BY <2>3, <2>4 DEF Splits
    <3>2. SubSeq(address \o db, 1, First(Where("/", address \o db)) - 1) = address
      BY <2>3, <2>4 DEF Splits
    <3>3. From(address \o db, First(Where("/", address \o db)) + 1) = d
      BY <2>3, <2>4 DEF Splits
    <3> QED
      BY <3>1, <3>2, <3>3, <2>5, <2>6
<1> QED
  BY <1>2, <1>3

\* The default port is added to the address that names none.
LEMMA PortIsAdded ==
  ASSUME NEW P, P \intersect Separators = {}, NEW host \in Seq(P), NEW port,
         port = <<>> \/ \E q \in Seq(P) \ {<<>>} : port = <<":">> \o q
  PROVE  /\ host \o port \in Seq(P \union {":"})
         /\ (IF Where(":", host \o port) = {} THEN host \o port \o RedisPort ELSE host \o port)
              = host \o (IF port = <<>> THEN RedisPort ELSE port)
<1>1. ":" \notin P
  BY DEF Separators
<1>2. CASE port = <<>>
  <2>1. host \o port = host /\ host \in Seq(P \union {":"})
    BY <1>2
  <2>2. Where(":", host) = {}
    BY <1>1, NoSeparator
  <2> QED
    BY <1>2, <2>1, <2>2
<1>3. CASE port # <<>>
  <2>1. PICK q \in Seq(P) : port = <<":">> \o q
    BY <1>3
  <2>2. host \o port = host \o <<":">> \o q /\ host \o port \in Seq(P \union {":"})
    BY <2>1
  <2>3. Where(":", host \o port) # {}
    BY <1>1, <2>2, AroundSeparator DEF Splits
  <2> QED
    BY <1>3, <2>2, <2>3
<1> QED
  BY <1>2, <1>3

Regrouped(a, b, c) == (a \o b) \o c = a \o (b \o c)

LEMMA Concatenated ==
  ASSUME NEW S, NEW a \in Seq(S), NEW b \in Seq(S), NEW c \in Seq(S)
  PROVE  Regrouped(a, b, c)
  BY DEF Regrouped

\* For one URL: same address, same database, and the same password if it has no login.
LEMMA RedisURLIsReadAlike ==
  ASSUME NEW P, P \intersect Separators = {}, NEW u,
         RedisParts(P, u.login, u.host, u.port, u.db), IsNumber(DbText(u))
  PROVE  LET queue == ParseRedisURL(RedisURL(u))
             caches == GoRedisURL(u)
         IN /\ queue.addr = caches.addr /\ queue.db = caches.db
            /\ u.login = <<>> => queue.password = caches.password
<1> DEFINE address == u.host \o u.port
           tail == address \o u.db
           url == RedisURL(u)
<1>1. /\ address \in Seq(P \union {":"})
      /\ (IF Where(":", address) = {} THEN address \o RedisPort ELSE address)
           = u.host \o (IF u.port = <<>> THEN RedisPort ELSE u.port)
  BY PortIsAdded DEF RedisParts
<1>2. url = u.login \o tail /\ tail \in Seq(P \union {":", "/"})
  <2> HIDE DEF address
  <2>1. u.db \in Seq(P \union {":", "/"})
    <3>1. \A d \in Seq(P) : <<"/">> \o d \in Seq(P \union {":", "/"})
      OBVIOUS
    <3>2. <<>> \in Seq(P \union {":", "/"})
      OBVIOUS
    <3> QED
      BY <3>1, <3>2, Zenon DEF RedisParts
  <2>2. u.login \in Seq(P \union Separators)
    <3>1. \A a \in Seq(P \union {":"}) : a \o <<"@">> \in Seq(P \union Separators)
      BY DEF Separators
    <3>2. <<>> \in Seq(P \union Separators)
      OBVIOUS
    <3> QED
      BY <3>1, <3>2, Zenon DEF RedisParts
  <2>3. address \in Seq(P \union Separators) /\ u.db \in Seq(P \union Separators)
    BY <1>1, <2>1 DEF Separators
  <2>4. (u.login \o address) \o u.db = u.login \o (address \o u.db)
    <3>1. Regrouped(u.login, address, u.db)
      BY <2>2, <2>3, Concatenated
    <3> QED
      BY <3>1 DEF Regrouped
  <2>6. (u.login \o u.host) \o u.port = u.login \o address
    <3>1. u.host \in Seq(P \union Separators)
      BY DEF RedisParts
    <3>2. u.port \in Seq(P \union Separators)
      <4>1. \A q \in Seq(P) : <<":">> \o q \in Seq(P \union Separators)
        BY DEF Separators
      <4>2. <<>> \in Seq(P \union Separators)
        OBVIOUS
      <4> QED
        BY <4>1, <4>2, Zenon DEF RedisParts
    <3> QED
      <4>1. Regrouped(u.login, u.host, u.port)
        BY <2>2, <3>1, <3>2, Concatenated
      <4> QED
        BY <4>1 DEF Regrouped, address
  <2>5. tail \in Seq(P \union {":", "/"})
    BY <1>1, <2>1
  <2> QED
    BY <2>4, <2>5, <2>6 DEF RedisURL
<1>3. RestOf(url) = tail /\ (u.login = <<>> => Where("@", url) = {})
  <2> HIDE DEF tail, url
  <2> QED
    BY <1>2, LoginIsCut DEF RedisParts
<1>4. /\ (IF Where("/", tail) = {} THEN tail ELSE SubSeq(tail, 1, First(Where("/", tail)) - 1)) = address
      /\ (IF Where("/", tail) = {} THEN 0 ELSE ParseInt(From(tail, First(Where("/", tail)) + 1))) = Atoi(DbText(u))
  <2> HIDE DEF address
  <2>1. u.db = <<>> \/ \E d \in Seq(P) : u.db = <<"/">> \o d
    BY DEF RedisParts
  <2>2. DbText(u) = From(u.db, 2) /\ IsNumber(From(u.db, 2))
    BY DEF DbText
  <2> QED
    BY <1>1, <2>1, <2>2, DatabaseIsCut
<1> HIDE DEF address, tail, url
<1>5. /\ ParseRedisURL(url).addr = (IF Where(":", address) = {} THEN address \o RedisPort ELSE address)
      /\ ParseRedisURL(url).db = Atoi(DbText(u))
      /\ ParseRedisURL(url).password = (IF Where("@", url) = {} THEN <<>> ELSE SubSeq(url, 1, First(Where("@", url)) - 1))
  BY <1>3, <1>4 DEF ParseRedisURL, RestOf
<1>6. GoRedisURL(u).addr = u.host \o (IF u.port = <<>> THEN RedisPort ELSE u.port) /\ GoRedisURL(u).db = Atoi(DbText(u))
  BY DEF GoRedisURL, RedisParts
<1>7. u.login = <<>> => GoRedisURL(u).password = <<>>
  BY DEF GoRedisURL, Where
<1>8. u.login = <<>> => ParseRedisURL(url).password = <<>>
  BY <1>3, <1>5
<1> QED
  BY <1>1, <1>5, <1>6, <1>7, <1>8 DEF url

\* The queue's own parser (asynq.go:52) and go-redis read the same address and database from
\* any URL redis://[login@]host[:port][/number], the number one that fits into an int, whose parts are made of whatever characters
\* other than the separators, and the same password from one that has no login.
THEOREM RedisURLsAgreeHolds ==
  ASSUME NEW P, P \intersect Separators = {},
         input.kind = "redis" => RedisParts(P, input.login, input.host, input.port, input.db)
  PROVE  RedisURLsAgree
<1>1. input.kind = "redis" /\ IsNumber(DbText(input)) =>
        LET queue == ParseRedisURL(RedisURL(input))
            caches == GoRedisURL(input)
        IN /\ queue.addr = caches.addr /\ queue.db = caches.db
           /\ input.login = <<>> => queue.password = caches.password
  BY RedisURLIsReadAlike
<1> QED
  BY <1>1 DEF RedisURLsAgree

-----------------------------------------------------------------------------
(* The stored part of a log.                                               *)

\* A set of numbers that is not empty has a first element.
LEMMA FirstIsLeast ==
  ASSUME NEW S \in SUBSET Nat, S # {}
  PROVE  First(S) \in S /\ \A j \in S : First(S) <= j
  BY LeastElement DEF First

\* Logs of any length.
Logs == Seq({"x", "n"})

\* The tail of a log from its byte k on.
LEMMA FromProperties ==
  ASSUME NEW t \in Logs, NEW k \in 1..(Len(t) + 1)
  PROVE  /\ From(t, k) \in Logs
         /\ Len(From(t, k)) = Len(t) - k + 1
         /\ \A i \in 1..(Len(t) - k + 1) : From(t, k)[i] = t[k + i - 1]
<1>1. k \in Int /\ Len(t) \in Int /\ \A i \in k..Len(t) : t[i] \in {"x", "n"}
  BY DEF Logs
<1> QED
  BY <1>1, SubSeqProperties DEF From, Logs

LEMMA FromFrom ==
  ASSUME NEW t \in Logs, NEW k \in 1..(Len(t) + 1), NEW i \in 1..(Len(t) - k + 2)
  PROVE  From(From(t, k), i) = From(t, k + i - 1)
<1> DEFINE u == From(t, k)
           v == From(u, i)
           w == From(t, k + i - 1)
<1>1. Len(t) \in Nat /\ k + i - 1 \in 1..(Len(t) + 1)
  BY DEF Logs
<1>2. u \in Logs /\ Len(u) = Len(t) - k + 1 /\ \A j \in 1..(Len(t) - k + 1) : u[j] = t[k + j - 1]
  BY FromProperties
<1>3. v \in Logs /\ Len(v) = Len(u) - i + 1 /\ \A j \in 1..(Len(u) - i + 1) : v[j] = u[i + j - 1]
  <2> HIDE DEF u
  <2>1. i \in 1..(Len(u) + 1)
    BY <1>1, <1>2
  <2> QED
    BY <1>2, <2>1, FromProperties
<1>4. /\ w \in Logs /\ Len(w) = Len(t) - (k + i - 1) + 1
      /\ \A j \in 1..(Len(t) - (k + i - 1) + 1) : w[j] = t[(k + i - 1) + j - 1]
  <2> DEFINE m == k + i - 1
  <2> HIDE DEF m
  <2>1. m \in 1..(Len(t) + 1)
    BY <1>1 DEF m
  <2>2. From(t, m) \in Logs /\ Len(From(t, m)) = Len(t) - m + 1 /\ \A j \in 1..(Len(t) - m + 1) : From(t, m)[j] = t[m + j - 1]
    BY <2>1, FromProperties
  <2> QED
    BY <2>2 DEF m
<1> HIDE DEF u, v, w
<1>5. Len(v) = Len(w)
  BY <1>1, <1>2, <1>3, <1>4
<1>6. ASSUME NEW j \in 1..Len(v) PROVE v[j] = w[j]
  <2>1. j \in 1..(Len(u) - i + 1) /\ i + j - 1 \in 1..(Len(t) - k + 1) /\ j \in 1..(Len(t) - (k + i - 1) + 1)
    BY <1>1, <1>2, <1>3
  <2>2. v[j] = t[k + (i + j - 1) - 1] /\ w[j] = t[(k + i - 1) + j - 1]
    BY <2>1, <1>2, <1>3, <1>4
  <2>3. k + (i + j - 1) - 1 = (k + i - 1) + j - 1
    OBVIOUS
  <2> QED
    BY <2>2, <2>3
<1>7. v = w
  BY <1>3, <1>4, <1>5, <1>6, SeqEqual DEF Logs
<1> QED
  BY <1>7 DEF u, v, w

LEMMA FromStart == ASSUME NEW t \in Logs PROVE From(t, 1) = t
  BY SubSeqFull DEF From, Logs

\* The line ends of a tail are those of the log, counted from the tail's first byte.
LEMMA WhereFrom ==
  ASSUME NEW t \in Logs, NEW k \in 1..(Len(t) + 1)
  PROVE  Where("n", From(t, k)) = {j - k + 1 : j \in {e \in Where("n", t) : e >= k}}
<1> DEFINE ends == {e \in Where("n", t) : e >= k}
<1>1. ASSUME NEW i \in Where("n", From(t, k)) PROVE i \in {j - k + 1 : j \in ends}
  <2>1. i \in 1..(Len(t) - k + 1) /\ t[k + i - 1] = "n"
    BY <1>1, FromProperties DEF Where
  <2>2. k + i - 1 \in ends /\ i = (k + i - 1) - k + 1
    BY <2>1 DEF Where, Logs
  <2> QED
    BY <2>2
<1>2. ASSUME NEW j \in ends PROVE j - k + 1 \in Where("n", From(t, k))
  <2>1. j \in 1..Len(t) /\ j >= k /\ t[j] = "n"
    BY <1>2 DEF Where
  <2>2. j - k + 1 \in 1..(Len(t) - k + 1) /\ k + (j - k + 1) - 1 = j
    BY <2>1 DEF Logs
  <2> QED
    BY <2>1, <2>2, FromProperties DEF Where
<1> QED
  BY <1>1, <1>2

LEMMA WhereFinite ==
  ASSUME NEW t \in Logs, NEW k \in Nat
  PROVE  /\ IsFiniteSet({e \in Where("n", t) : e >= k})
         /\ Cardinality({e \in Where("n", t) : e >= k}) \in Nat
         /\ IsFiniteSet(Where("n", t)) /\ Cardinality(Where("n", t)) \in Nat
<1>1. IsFiniteSet(1..Len(t))
  BY FS_Interval, Len(t) \in Int, 1 \in Int DEF Logs
<1>2. Where("n", t) \in SUBSET (1..Len(t)) /\ {e \in Where("n", t) : e >= k} \in SUBSET (1..Len(t))
  BY DEF Where
<1> QED
  BY <1>1, <1>2, FS_Subset, FS_CardinalityType

\* There are as many of them.
LEMMA CountFrom ==
  ASSUME NEW t \in Logs, NEW k \in 1..(Len(t) + 1)
  PROVE  Cardinality(Where("n", From(t, k))) = Cardinality({e \in Where("n", t) : e >= k})
<1> DEFINE ends == {e \in Where("n", t) : e >= k}
           shifted == Where("n", From(t, k))
           f == [j \in ends |-> j - k + 1]
<1>1. ends \subseteq Int
  BY DEF Where
<1>2. shifted = {j - k + 1 : j \in ends}
  BY WhereFrom
<1>3. f \in Bijection(ends, shifted)
  <2> HIDE DEF shifted, ends
  <2> QED
    BY <1>1, <1>2 DEF Bijection, Injection, Surjection, IsInjective
<1>4. IsFiniteSet(ends)
  BY WhereFinite
<1>5. Cardinality(shifted) = Cardinality(ends)
  <2> HIDE DEF f, ends, shifted
  <2> QED
    BY <1>3, <1>4, FS_Bijection DEF ExistsBijection
<1> QED
  BY <1>5

\* The line ends from byte k on.
EndsFrom(t, k) == {e \in Where("n", t) : e >= k}
LinesFit(t) == {k \in LineStarts(t) : Cardinality(EndsFrom(t, k)) < MaxLogLines}

LEMMA StartsType ==
  ASSUME NEW t \in Logs
  PROVE  /\ Len(t) \in Nat
         /\ Where("n", t) \subseteq 1..Len(t)
         /\ LineStarts(t) \subseteq 1..(Len(t) + 1)
         /\ 1 \in LineStarts(t)
         /\ \A e \in Where("n", t) : e + 1 \in LineStarts(t)
  BY DEF Logs, Where, LineStarts

\* The line limit keeps the log from the first line start on that leaves few enough lines.
LEMMA LimitLinesIsTail ==
  ASSUME NEW t \in Logs
  PROVE  /\ LimitLines(t) = From(t, First(LinesFit(t)))
         /\ First(LinesFit(t)) \in LinesFit(t)
         /\ \A k \in LinesFit(t) : First(LinesFit(t)) <= k
<1> DEFINE ends == Where("n", t)
           last == {k \in ends : Cardinality({j \in ends : j > k}) < MaxLogLines}
           s == First(LinesFit(t))
<1>1. /\ Len(t) \in Nat /\ ends \subseteq 1..Len(t)
      /\ LineStarts(t) \subseteq 1..(Len(t) + 1) /\ 1 \in LineStarts(t)
      /\ \A e \in ends : e + 1 \in LineStarts(t)
  BY StartsType
<1>2. EndsFrom(t, 1) = ends /\ \A e \in ends : EndsFrom(t, e + 1) = {j \in ends : j > e}
  BY <1>1 DEF EndsFrom
<1>3. LinesFit(t) \subseteq Nat /\ last \subseteq Nat
  BY <1>1 DEF LinesFit
<1>4. LinesFit(t) # {} /\ (Cardinality(ends) >= MaxLogLines => last # {})
  <2>1. CASE ends = {}
    <3>1. Cardinality(ends) = 0
      BY <2>1, FS_EmptySet
    <3> QED
      BY <3>1, <1>1, <1>2, ParsingAssumption DEF LinesFit, ParsingAssumption
  <2>2. CASE ends # {}
    <3>1. IsFiniteSet(ends)
      BY WhereFinite, 0 \in Nat
    <3>2. PICK top \in ends : \A e \in ends : e <= top
      <4> DEFINE mirror == {Len(t) - e : e \in ends}
      <4>1. mirror \in SUBSET Nat /\ mirror # {}
        BY <1>1, <2>2
      <4>2. PICK x \in mirror : \A y \in mirror : x <= y
        <5> HIDE DEF mirror
        <5> QED
          BY <4>1, FirstIsLeast
      <4>3. PICK e \in ends : x = Len(t) - e
        OBVIOUS
      <4>4. \A f \in ends : Len(t) - f \in mirror
        OBVIOUS
      <4>5. ASSUME NEW f \in ends PROVE f <= e
        <5> HIDE DEF mirror, ends
        <5>1. Len(t) - e <= Len(t) - f
          BY <4>2, <4>3, <4>4
        <5>2. e \in Nat /\ f \in Nat /\ Len(t) \in Nat
          BY <1>1
        <5> QED
          BY <5>1, <5>2
      <4> QED
        BY <4>5
    <3>3. {j \in ends : j > top} = {}
      BY <3>2, <1>1
    <3>4. Cardinality({j \in ends : j > top}) < MaxLogLines
      BY <3>3, FS_EmptySet, ParsingAssumption DEF ParsingAssumption
    <3>5. top \in last /\ top + 1 \in LinesFit(t)
      BY <3>4, <1>1, <1>2, <3>2 DEF LinesFit
    <3> QED
      BY <3>5
  <2> QED
    BY <2>1, <2>2
<1>5. s \in LinesFit(t) /\ \A k \in LinesFit(t) : s <= k
  BY <1>3, <1>4, FirstIsLeast
<1>6. Cardinality(ends) \in Nat
  BY WhereFinite, 0 \in Nat
<1>7. CASE Cardinality(ends) + 1 <= MaxLogLines
  <2>1. 1 \in LinesFit(t)
    BY <1>1, <1>2, <1>6, <1>7, ParsingAssumption DEF LinesFit, ParsingAssumption
  <2>2. s = 1
    BY <2>1, <1>1, <1>5 DEF LinesFit
  <2>3. LimitLines(t) = t
    BY <1>7 DEF LimitLines
  <2> QED
    BY <2>2, <2>3, <1>5, FromStart
<1>8. CASE ~(Cardinality(ends) + 1 <= MaxLogLines)
  <2>1. Cardinality(ends) >= MaxLogLines
    BY <1>6, <1>8, ParsingAssumption DEF ParsingAssumption
  <2>2. First(last) \in last /\ \A k \in last : First(last) <= k
    BY <2>1, <1>3, <1>4, FirstIsLeast
  <2>3. LinesFit(t) = {e + 1 : e \in last}
    <3>1. ASSUME NEW k \in LinesFit(t) PROVE k \in {e + 1 : e \in last}
      <4>1. k # 1
        BY <3>1, <1>2, <1>6, <2>1, ParsingAssumption DEF LinesFit, ParsingAssumption
      <4>2. PICK e \in ends : k = e + 1
        BY <4>1, <3>1 DEF LinesFit, LineStarts
      <4>3. Cardinality(EndsFrom(t, e + 1)) < MaxLogLines
        BY <4>2, <3>1 DEF LinesFit
      <4>4. e \in last
        BY <4>3, <1>2
      <4> QED
        BY <4>2, <4>4
    <3>2. ASSUME NEW e \in last PROVE e + 1 \in LinesFit(t)
      BY <3>2, <1>1, <1>2 DEF LinesFit
    <3> QED
      BY <3>1, <3>2
  <2>4. s = First(last) + 1
    <3> HIDE DEF last, s
    <3>1. First(last) + 1 \in LinesFit(t)
      BY <2>2, <2>3
    <3>2. PICK e \in last : s = e + 1
      BY <1>5, <2>3
    <3>3. First(last) <= e /\ s <= First(last) + 1
      BY <2>2, <3>1, <1>5
    <3>4. e \in Nat /\ First(last) \in Nat
      BY <1>3, <2>2
    <3> QED
      BY <3>2, <3>3, <3>4
  <2>5. LimitLines(t) = From(t, 1 + First(last))
    BY <1>8 DEF LimitLines
  <2>6. 1 + First(last) = First(last) + 1
    BY <2>2, <1>3
  <2> QED
    BY <2>4, <2>5, <2>6, <1>5
<1> QED
  BY <1>7, <1>8

\* A tail from a line start on fits if it has few enough lines and bytes.
LEMMA WholeLines ==
  ASSUME NEW t \in Logs
  PROVE  {k \in LineStarts(t) : Fits(From(t, k))}
           = {k \in LinesFit(t) : Len(t) - k + 1 <= MaxLogBytes}
<1>1. ASSUME NEW k \in LineStarts(t)
      PROVE  Fits(From(t, k)) <=> Cardinality(EndsFrom(t, k)) < MaxLogLines /\ Len(t) - k + 1 <= MaxLogBytes
  <2>1. k \in 1..(Len(t) + 1)
    BY StartsType
  <2> QED
    BY <2>1, FromProperties, CountFrom DEF Fits, EndsFrom
<1> QED
  BY <1>1 DEF LinesFit

\* What the limits leave of a log: the longest run of whole last lines within both, or one
\* of the two exceptions, in which they leave less than all of it.
TailKept(t) ==
  LET kept == LimitBytes(LimitLines(t))
      whole == {k \in LineStarts(t) : Fits(From(t, k))}
      best == From(t, First(whole))
  IN IF whole = {} THEN kept = From(t, Len(t) - MaxLogBytes + 1) /\ kept # t
     ELSE \/ kept = best
          \/ /\ Len(best) = MaxLogBytes /\ best # t
             /\ kept = From(best, First(Where("n", best)) + 1) /\ kept # t

LEMMA LimitsKeepTail == ASSUME NEW t \in Logs PROVE TailKept(t)
<1> DEFINE n == Len(t)
           s == First(LinesFit(t))
           u == From(t, s)
           whole == {k \in LineStarts(t) : Fits(From(t, k))}
           best == From(t, First(whole))
           kept == LimitBytes(LimitLines(t))
           c == n - MaxLogBytes + 1
<1>1. /\ n \in Nat /\ Where("n", t) \subseteq 1..n
      /\ LineStarts(t) \subseteq 1..(n + 1) /\ LinesFit(t) \subseteq LineStarts(t)
  BY StartsType DEF LinesFit
<1>2. LimitLines(t) = u /\ s \in LinesFit(t) /\ \A k \in LinesFit(t) : s <= k
  BY LimitLinesIsTail
<1>3. whole = {k \in LinesFit(t) : n - k + 1 <= MaxLogBytes}
  BY WholeLines
<1>4. s \in 1..(n + 1) /\ u \in Logs /\ Len(u) = n - s + 1
  BY <1>1, <1>2, FromProperties
<1>5. MaxLogBytes \in Nat
  BY ParsingAssumption DEF ParsingAssumption
<1>6. kept = LimitBytes(u)
  BY <1>2
<1>7. whole \subseteq Nat
  BY <1>1, <1>3
<1>8. CASE Len(u) <= MaxLogBytes
  <2>1. kept = u
    BY <1>6, <1>8 DEF LimitBytes
  <2>2. s \in whole
    BY <1>2, <1>3, <1>4, <1>8
  <2>3. First(whole) \in whole /\ First(whole) <= s
    BY <2>2, <1>7, FirstIsLeast
  <2>4. First(whole) = s
    BY <2>3, <1>1, <1>2, <1>3, <1>7
  <2> QED
    BY <2>1, <2>2, <2>4 DEF TailKept
<1>9. CASE Len(u) > MaxLogBytes
  <2> DEFINE cut == From(u, Len(u) - MaxLogBytes + 1)
             ends == Where("n", cut)
  <2>1. c \in 2..(n + 1) /\ s < c /\ Len(u) - MaxLogBytes + 1 \in 1..(n - s + 2)
    BY <1>1, <1>4, <1>5, <1>9
  <2>2. cut = From(t, c)
    <3>1. s + (Len(u) - MaxLogBytes + 1) - 1 = c
      BY <1>1, <1>4, <1>5
    <3> QED
      BY <2>1, <3>1, <1>4, FromFrom
  <2>3. cut \in Logs /\ Len(cut) = MaxLogBytes
    BY <2>1, <2>2, <1>1, <1>5, FromProperties
  <2>4. kept = IF ends = {} THEN cut ELSE From(cut, First(ends) + 1)
    BY <1>1, <1>4, <1>5, <1>6, <1>9 DEF LimitBytes
  <2>5. whole = {k \in LineStarts(t) : k >= c}
    <3>1. ASSUME NEW k \in LineStarts(t), k >= c PROVE k \in LinesFit(t)
      <4>1. k \in Nat /\ s <= k
        BY <1>1, <1>4, <2>1, <3>1
      <4>2. EndsFrom(t, k) \subseteq EndsFrom(t, s)
        BY <4>1, <1>1, <1>4 DEF EndsFrom
      <4>3. Cardinality(EndsFrom(t, k)) <= Cardinality(EndsFrom(t, s))
        BY <4>1, <4>2, <1>4, WhereFinite, FS_Subset DEF EndsFrom
      <4>4. Cardinality(EndsFrom(t, k)) \in Nat /\ Cardinality(EndsFrom(t, s)) \in Nat
        <5> HIDE DEF s, n
        <5>1. s \in Nat
          BY <1>1, <1>4
        <5> QED
          BY <4>1, <5>1, WhereFinite DEF EndsFrom
      <4>5. Cardinality(EndsFrom(t, s)) < MaxLogLines
        BY <1>2 DEF LinesFit
      <4> QED
        BY <3>1, <4>3, <4>4, <4>5, ParsingAssumption DEF LinesFit, ParsingAssumption
    <3>2. \A k \in LineStarts(t) : n - k + 1 <= MaxLogBytes <=> k >= c
      BY <1>1, <1>5
    <3> QED
      BY <3>1, <3>2, <1>1, <1>3
  <2>6. ends = {j - c + 1 : j \in {e \in Where("n", t) : e >= c}}
    BY <2>1, <2>2, WhereFrom
  <2>7. CASE ends = {}
    <3>1. kept = cut
      BY <2>4, <2>7
    <3>2. \A j \in Where("n", t) : j < c
      <4> HIDE DEF ends, c, n
      <4>1. \A j \in Where("n", t) : ~(j >= c)
        BY <2>6, <2>7
      <4> QED
        BY <4>1, <2>1, <1>1
    <3>3. whole \subseteq {c}
      BY <3>2, <2>1, <2>5, <1>1 DEF LineStarts
    <3>4. CASE whole = {}
      <4>1. Len(cut) # n
        BY <2>1, <2>3, <1>1, <1>5
      <4>2. kept # t
        BY <4>1, <3>1
      <4> QED
        BY <4>2, <3>1, <3>4, <2>2 DEF TailKept
    <3>5. CASE whole # {}
      <4>1. First(whole) = c
        BY <3>3, <3>5, <1>7, FirstIsLeast
      <4> QED
        BY <4>1, <3>1, <3>5, <2>2 DEF TailKept
    <3> QED
      BY <3>4, <3>5
  <2>8. CASE ends # {}
    <3> DEFINE f == First(ends)
               e0 == f + c - 1
    <3>1. ends \subseteq Nat
      BY <2>3 DEF Where, Logs
    <3>2. f \in ends /\ \A j \in ends : f <= j
      BY <3>1, <2>8, FirstIsLeast
    <3>3. e0 \in Where("n", t) /\ e0 >= c /\ \A j \in Where("n", t) : j >= c => e0 <= j
      <4> HIDE DEF ends, f, c, n
      <4>1. PICK j \in Where("n", t) : j >= c /\ f = j - c + 1
        BY <3>2, <2>6
      <4>2. ASSUME NEW i \in Where("n", t), i >= c PROVE f <= i - c + 1
        BY <4>2, <3>2, <2>6
      <4>3. c \in Nat /\ j \in Nat /\ \A i \in Where("n", t) : i \in Nat
        BY <2>1, <1>1
      <4>4. e0 = j
        BY <4>1, <4>3
      <4> QED
        BY <4>1, <4>2, <4>3, <4>4
    <3>4. kept = From(t, e0 + 1)
      <4>1. f + 1 \in 1..(n - c + 2) /\ c + (f + 1) - 1 = e0 + 1
        BY <3>1, <3>2, <3>3, <2>1, <1>1
      <4>2. From(From(t, c), f + 1) = From(t, e0 + 1)
        BY <4>1, <2>1, FromFrom
      <4> QED
        BY <4>2, <2>2, <2>4, <2>8
    <3>5. e0 + 1 \in whole
      BY <3>3, <2>1, <2>5, <1>1, StartsType
    <3>6. First(whole) \in whole /\ \A k \in whole : First(whole) <= k
      BY <3>5, <1>7, FirstIsLeast
    <3>7. First(whole) = c \/ First(whole) = e0 + 1
      <4>1. ASSUME NEW k \in whole, k # c PROVE e0 + 1 <= k
        BY <4>1, <3>3, <2>1, <2>5, <1>1 DEF LineStarts
      <4>2. e0 + 1 \in Nat /\ c \in Nat
        BY <3>5, <2>1, <1>1, <1>7
      <4> HIDE DEF whole, c, e0
      <4>3. ASSUME First(whole) # c PROVE First(whole) = e0 + 1
        <5>1. e0 + 1 <= First(whole)
          BY <4>1, <4>3, <3>6
        <5>2. First(whole) <= e0 + 1
          BY <3>5, <3>6
        <5>3. First(whole) \in Nat
          BY <3>6, <1>7
        <5> QED
          BY <5>1, <5>2, <5>3, <4>2
      <4> QED
        BY <4>3
    <3>8. CASE First(whole) = e0 + 1
      BY <3>8, <3>4, <3>5 DEF TailKept
    <3>9. CASE First(whole) = c
      <4>1. best = cut /\ Len(best) = MaxLogBytes
        BY <3>9, <2>2, <2>3
      <4>2. best # t
        BY <4>1, <2>1, <1>1, <1>5
      <4>3. kept = From(best, First(Where("n", best)) + 1)
        BY <4>1, <2>4, <2>8
      <4>4. kept # t
        <5>1. e0 + 1 \in 2..(n + 1)
          BY <3>3, <1>1, <2>1
        <5>2. Len(From(t, e0 + 1)) # n
          BY <5>1, <1>1, FromProperties
        <5> QED
          BY <5>2, <3>4
      <4> QED
        BY <4>1, <4>2, <4>3, <4>4, <3>5 DEF TailKept
    <3> QED
      BY <3>7, <3>8, <3>9
  <2> QED
    BY <2>7, <2>8
<1> QED
  BY <1>1, <1>4, <1>5, <1>8, <1>9

\* truncateLogs stores all of a log or the header and the longest run of whole last lines
\* within both limits, with the two exceptions of the property, for any log and limits.
THEOREM TruncationKeepsTailHolds ==
  ASSUME input.kind = "log" => input.text \in Logs
  PROVE  TruncationKeepsTail
<1> SUFFICES ASSUME input.kind = "log", TailKept(input.text) PROVE TruncationKeepsTail
  BY LimitsKeepTail DEF TruncationKeepsTail
<1> DEFINE t == input.text
           kept == LimitBytes(LimitLines(t))
<1>1. TruncateLogs(t) = Marked(t, kept) /\ (kept # t => Marked(t, kept) = Header \o kept)
  BY DEF TruncateLogs, Marked
<1> QED
  BY <1>1 DEF TruncationKeepsTail, TailKept

=============================================================================
