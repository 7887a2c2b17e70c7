----------------------------- MODULE AIPipeline -----------------------------
(***************************************************************************)
(* The AI recovery pipeline: the request that starts it answers at once    *)
(* and leaves it to a goroutine, which runs four agents one after the      *)
(* other (each a call to a language model, with three attempts) and saves  *)
(* its status after each. The goroutine runs with the context of the       *)
(* request: once the handler has returned, every call with it fails.       *)
(* A user approves or rejects the pipeline by its id at any time.          *)
(***************************************************************************)
EXTENDS Integers

CONSTANTS
  Pipelines,
  Scores,           \* the confidence an agent may report
  MaxRefusals       \* bound: INSERTs and UPDATEs Postgres refuses

ASSUME AIAssumption == Scores \subseteq 0..100 /\ MaxRefusals \in Nat

Agents == 4         \* Inspector, Diagnostician, Architect, SecOps
Attempts == 3
MinConfidence == 80

VARIABLES
  aiRow,        \* ai_pipelines.status, "none" before the first save
  aiPc,         \* where the goroutine stands
  agent,        \* the agent at work
  attempt,      \* its attempt
  score,        \* the aggregated confidence, -1 before the first
  passed,       \* security_passed
  ctxDone,      \* pipelines whose request context has ended
  refusals,
  \* history variables
  cutOff,       \* goroutines ended by a panic of one of them
  settled       \* pipelines a user decided on while they were waiting for it

aiVars == <<aiRow, aiPc, agent, attempt, score, passed, ctxDone, refusals, cutOff, settled>>

AiStatuses == {"running", "waiting_approval", "succeeded", "failed", "rejected"}
Decisions  == {"succeeded", "rejected"}
Working    == {"create", "call", "check", "save", "finish", "abort"}

AiTypeOK ==
  /\ aiRow     \in [Pipelines -> AiStatuses \union {"none"}]
  /\ aiPc      \in [Pipelines -> Working \union {"idle", "over"}]
  /\ agent     \in [Pipelines -> 1..Agents]
  /\ attempt   \in [Pipelines -> 1..Attempts]
  /\ score     \in [Pipelines -> -1..100]
  /\ passed    \in [Pipelines -> BOOLEAN]
  /\ ctxDone   \in SUBSET Pipelines
  /\ refusals  \in 0..MaxRefusals
  /\ cutOff    \in SUBSET Pipelines
  /\ settled   \in SUBSET Pipelines

AiInit ==
  /\ aiRow     = [x \in Pipelines |-> "none"]
  /\ aiPc      = [x \in Pipelines |-> "idle"]
  /\ agent     = [x \in Pipelines |-> 1]
  /\ attempt   = [x \in Pipelines |-> 1]
  /\ score     = [x \in Pipelines |-> -1]
  /\ passed    = [x \in Pipelines |-> FALSE]
  /\ ctxDone   = {}
  /\ refusals  = 0
  /\ cutOff    = {}
  /\ settled   = {}

AiGoto(x, label) == aiPc' = [aiPc EXCEPT ![x] = label]

-----------------------------------------------------------------------------

RecoverBuild(x) ==
  /\ aiPc[x] = "idle"
  /\ AiGoto(x, "create")
  /\ UNCHANGED <<aiRow, agent, attempt, score, passed, ctxDone, refusals, cutOff, settled>>

\* The handler has answered 202 and returns: net/http cancels the context.
HandlerReturns(x) ==
  /\ aiPc[x] # "idle"
  /\ ctxDone' = ctxDone \union {x}
  /\ UNCHANGED <<aiRow, aiPc, agent, attempt, score, passed, refusals, cutOff, settled>>

\* persistContext: the row is written with status s, unless the context has ended or
\* Postgres refuses. Whatever status the row has by now is overwritten.
Save(x, s) == x \notin ctxDone /\ aiRow' = [aiRow EXCEPT ![x] = s] /\ UNCHANGED refusals
SaveRefused(x) ==
  /\ UNCHANGED aiRow
  /\ \/ x \in ctxDone /\ UNCHANGED refusals
     \/ refusals < MaxRefusals /\ refusals' = refusals + 1

CreatePipeline(x) ==
  /\ aiPc[x] = "create"
  /\ \/ Save(x, "running") /\ AiGoto(x, "call")
     \/ SaveRefused(x) /\ AiGoto(x, "over")
  /\ UNCHANGED <<agent, attempt, score, passed, ctxDone, cutOff, settled>>

\* The confidence is averaged with what came before.
Aggregate(x, s) == IF score[x] = -1 THEN s ELSE (score[x] + s) \div 2

UnsafeKeepsItsScore(x) ==
  /\ aiPc[x] = "call"
  /\ x \notin ctxDone
  /\ \E s \in Scores, safe \in BOOLEAN :
     /\ score' = [score EXCEPT ![x] = Aggregate(x, s)]
     /\ passed' = [passed EXCEPT ![x] = IF agent[x] = Agents THEN safe ELSE @]
  /\ AiGoto(x, "check")
  /\ UNCHANGED <<aiRow, agent, attempt, ctxDone, refusals, cutOff, settled>>

\* Inspector, Diagnostician and Architect. (The first finds no confidence to average.)
ProposalScored(x) ==
  /\ agent[x] < Agents
  /\ \E s \in Scores : score' = [score EXCEPT ![x] = Aggregate(x, s)]
  /\ UNCHANGED passed

\* SecOps: a patch that it finds unsafe has no confidence left.
PatchJudged(x) ==
  /\ agent[x] = Agents
  /\ \E s \in Scores, safe \in BOOLEAN :
     /\ passed' = [passed EXCEPT ![x] = safe]
     /\ score' = [score EXCEPT ![x] = IF safe THEN Aggregate(x, s) ELSE 0]

AgentAnswers(x) ==
  /\ aiPc[x] = "call"
  /\ x \notin ctxDone
  /\ ProposalScored(x) \/ PatchJudged(x)
  /\ AiGoto(x, "check")
  /\ UNCHANGED <<aiRow, agent, attempt, ctxDone, refusals, cutOff, settled>>

AgentFailsForever(x) ==
  /\ aiPc[x] = "call"
  /\ IF x \in ctxDone
     THEN AiGoto(x, "abort") /\ UNCHANGED attempt
     ELSE attempt' = [attempt EXCEPT ![x] = 3 - @] /\ UNCHANGED aiPc
  /\ UNCHANGED <<aiRow, agent, score, passed, ctxDone, refusals, cutOff, settled>>

\* An error, or an answer that is no JSON: up to three attempts. With an ended context
\* every attempt is an error, and the first one ends the pipeline.
AgentFails(x) ==
  /\ aiPc[x] = "call"
  /\ IF x \in ctxDone \/ attempt[x] = Attempts
     THEN AiGoto(x, "abort") /\ UNCHANGED attempt
     ELSE attempt' = [attempt EXCEPT ![x] = @ + 1] /\ UNCHANGED aiPc
  /\ UNCHANGED <<aiRow, agent, score, passed, ctxDone, refusals, cutOff, settled>>

\* An answer without choices: the goroutine panics, nothing recovers it, and the API
\* process ends with every pipeline in it (agents.go:34).
AgentPanics(x) ==
  /\ aiPc[x] = "call"
  /\ x \notin ctxDone
  /\ aiPc' = [y \in Pipelines |-> IF aiPc[y] = "idle" THEN "idle" ELSE "over"]
  /\ cutOff' = {y \in Pipelines : aiPc[y] \in Working} \union cutOff
  /\ UNCHANGED <<aiRow, agent, attempt, score, passed, ctxDone, refusals, settled>>

CheckConfidence(x) ==
  /\ aiPc[x] = "check"
  /\ AiGoto(x, IF score[x] < MinConfidence THEN "abort" ELSE "save")
  /\ UNCHANGED <<aiRow, agent, attempt, score, passed, ctxDone, refusals, cutOff, settled>>

\* The save after each agent; a refused one ends the goroutine.
SaveProgress(x) ==
  /\ aiPc[x] = "save"
  /\ \/ /\ Save(x, "running")
        /\ IF agent[x] = Agents
           THEN AiGoto(x, "finish") /\ UNCHANGED <<agent, attempt>>
           ELSE /\ agent' = [agent EXCEPT ![x] = @ + 1]
                /\ attempt' = [attempt EXCEPT ![x] = 1]
                /\ AiGoto(x, "call")
     \/ SaveRefused(x) /\ AiGoto(x, "over") /\ UNCHANGED <<agent, attempt>>
  /\ UNCHANGED <<score, passed, ctxDone, cutOff, settled>>

FinishThenSaveProgress(x) ==
  /\ aiPc[x] = "finish"
  /\ \/ Save(x, "waiting_approval") /\ AiGoto(x, "save")
     \/ SaveRefused(x) /\ AiGoto(x, "over")
  /\ UNCHANGED <<agent, attempt, score, passed, ctxDone, cutOff, settled>>

Finish(x) ==
  /\ aiPc[x] = "finish"
  /\ Save(x, "waiting_approval") \/ SaveRefused(x)
  /\ AiGoto(x, "over")
  /\ UNCHANGED <<agent, attempt, score, passed, ctxDone, cutOff, settled>>

AbortUnsaved(x) ==
  /\ aiPc[x] = "abort"
  /\ AiGoto(x, "over")
  /\ UNCHANGED <<aiRow, agent, attempt, score, passed, ctxDone, refusals, cutOff, settled>>

\* The result of this save is not looked at.
AbortPipeline(x) ==
  /\ aiPc[x] = "abort"
  /\ Save(x, "failed") \/ SaveRefused(x)
  /\ AiGoto(x, "over")
  /\ UNCHANGED <<agent, attempt, score, passed, ctxDone, cutOff, settled>>

\* ApprovePipeline and RejectPipeline: an UPDATE by id that looks at no status.
Decide(x, s) ==
  /\ aiRow[x] # "none"
  /\ aiRow' = [aiRow EXCEPT ![x] = s]
  /\ settled' = IF aiRow[x] = "waiting_approval" THEN settled \union {x} ELSE settled
  /\ UNCHANGED <<aiPc, agent, attempt, score, passed, ctxDone, refusals, cutOff>>

Goroutine(x) ==
  \/ CreatePipeline(x) \/ AgentAnswers(x) \/ AgentFails(x) \/ AgentPanics(x)
  \/ CheckConfidence(x) \/ SaveProgress(x) \/ Finish(x) \/ AbortPipeline(x)

AiNext ==
  \E x \in Pipelines :
    \/ RecoverBuild(x) \/ HandlerReturns(x) \/ Goroutine(x)
    \/ \E s \in Decisions : Decide(x, s)

AiSpec == AiInit /\ [][AiNext]_aiVars

\* The goroutine runs; a call to the model ends in an answer or an error.
AiFairness == \A x \in Pipelines : WF_aiVars(Goroutine(x))

-----------------------------------------------------------------------------
(* Properties.                                                             *)

\* A pipeline waits for approval only after all four agents, with a patch found safe
\* and the confidence that is asked of every stage.
ApprovalIsEarned ==
  \A x \in Pipelines :
    aiRow[x] = "waiting_approval"
      => agent[x] = Agents /\ passed[x] /\ score[x] >= MinConfidence /\ aiPc[x] = "over"

\* The inductive invariant of the proofs: what is known of a goroutine past the check.
AiInv ==
  /\ AiTypeOK
  /\ \A x \in Pipelines : aiPc[x] \in {"save", "finish"} => score[x] >= MinConfidence
  /\ \A x \in Pipelines :
       agent[x] = Agents /\ aiPc[x] \in {"check", "save", "finish"} /\ score[x] >= MinConfidence => passed[x]
  /\ \A x \in Pipelines : aiPc[x] = "finish" => agent[x] = Agents
  /\ \A x \in settled : aiRow[x] \in Decisions /\ aiPc[x] = "over"
  /\ ApprovalIsEarned

\* A decision on a pipeline that was waiting for it stands: the pipeline has nothing
\* left to save. (One made before that is overwritten by the next save,
\* orchestrator.go:118.)
DecisionStands == \A x \in settled : aiRow[x] \in Decisions

\* A row that says running has a goroutine at work, unless the context of the request
\* ended under it (ai.go:60), the process died with it, or Postgres refused a save.
RunningMeansWorking ==
  \A x \in Pipelines :
    aiRow[x] = "running" /\ aiPc[x] = "over" => x \in ctxDone \union cutOff \/ refusals > 0

\* A pipeline that has begun ends, whatever the model answers.
PipelineEnds == \A x \in Pipelines : aiPc[x] = "create" ~> aiPc[x] = "over"

=============================================================================
