----------------------------- MODULE MCServices -----------------------------
(***************************************************************************)
(* The smaller services of the API and the worker for TLC. They share no   *)
(* state and no property relates two of them, so a behaviour runs one of   *)
(* them, chosen in its initial state, and leaves the others as they are.   *)
(***************************************************************************)
EXTENDS BuildLog, LogStream, LoginState, AIPipeline, EnvVars, Webhooks, Parsing

CONSTANT Services

EnvInserts == {<<"k", "8080">>}
EnvUpdates == {<<"k", Keep>>, <<Keep, "w">>}

VARIABLE service

servicesVars == <<service, buildVars, streamVars, loginVars, aiVars, envVars, hookVars, input>>

NoInput == [kind |-> "none"]

Init ==
  /\ service \in Services
  /\ BuildLogInit /\ StreamInit /\ LoginInit /\ AiInit /\ EnvInit /\ HooksInit
  /\ IF service = "parsing" THEN ParsingInit ELSE input = NoInput

Next ==
  /\ UNCHANGED <<service, input>>
  /\ \/ /\ service = "build" /\ BuildLogNext
        /\ UNCHANGED <<streamVars, loginVars, aiVars, envVars, hookVars>>
     \/ /\ service = "stream" /\ StreamNext
        /\ UNCHANGED <<buildVars, loginVars, aiVars, envVars, hookVars>>
     \/ /\ service = "login" /\ LoginNext
        /\ UNCHANGED <<buildVars, streamVars, aiVars, envVars, hookVars>>
     \/ /\ service = "ai" /\ AiNext
        /\ UNCHANGED <<buildVars, streamVars, loginVars, envVars, hookVars>>
     \/ /\ service = "env" /\ EnvNext
        /\ UNCHANGED <<buildVars, streamVars, loginVars, aiVars, hookVars>>
     \/ /\ service = "hooks" /\ HooksNext
        /\ UNCHANGED <<buildVars, streamVars, loginVars, aiVars, envVars>>

\* None of the fair actions is enabled in an initial state but the handler's of the stream,
\* which has its task: it goes on where the stream is the service that runs. The other
\* services that do not run are fair as they stand.
FairSpec ==
  /\ Init /\ [][Next]_servicesVars
  /\ BuildLogFairness /\ LoginFairness /\ AiFairness /\ HooksFairness
  /\ WF_streamVars(service = "stream" /\ Handler) /\ ViewersAreServed
=============================================================================
