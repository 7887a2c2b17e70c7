--------------------------- MODULE LogStream_proofs --------------------------
(***************************************************************************)
(* Theorems about LogStream: the types, that whoever follows a stream      *)
(* misses one line at most, that whoever comes late sees all of the log,   *)
(* and that the end a viewer is told of is the end of the deployment, for  *)
(* any number of viewers, lines and attempts.                              *)
(***************************************************************************)
EXTENDS LogStream, TLAPS

\* What the steps of the row leave alone, and those of the handler that print nothing.
QuietFrame ==
  /\ UNCHANGED <<n, emit, history, lost, vpc, inbox, replayed, followed, told, blind>>
  /\ status' \in Statuses
  /\ cancelling' \in BOOLEAN
  /\ interrupted' \in BOOLEAN
  /\ pc' \in {"check", "cloning", "clone", "build", "running", "safety", "promote", "markFailed",
             "ack", "end"}
  /\ retried' \in 0..MaxRetry
  /\ ttl' \in BOOLEAN
  /\ faults' \in 0..MaxFaults

LEMMA QuietFrameKeeps == StreamInv /\ QuietFrame => StreamInv'
  BY DEF StreamInv, QuietFrame, StreamTypeOK, ListIsComplete, AtMostOneMissed, Missed, Lines

LEMMA AgainType ==
  ASSUME StreamTypeOK, Again
  PROVE  pc' \in {"check", "end"} /\ retried' \in 0..MaxRetry
  BY StreamAssumption DEF StreamTypeOK, Again, StreamAssumption

LEMMA QuietStep ==
  ASSUME StreamInv,
         \/ LockRefused \/ FastPath \/ SetStatus \/ Proceed \/ Promote \/ MarkFailed
         \/ BeginCancel \/ Cancel \/ Stop \/ Retire
  PROVE  QuietFrame
<1> USE DEF StreamInv, StreamTypeOK, QuietFrame, rowVars, workerVars, logVars, viewerVars,
            UpdateStatus, Statuses, Active
<1>1. CASE LockRefused
  BY <1>1, AgainType DEF LockRefused
<1>2. CASE FastPath
  BY <1>2 DEF FastPath, Step
<1>3. CASE SetStatus
  BY <1>3 DEF SetStatus, Step
<1>4. CASE Proceed
  BY <1>4 DEF Proceed, Step
<1>5. CASE Promote
  BY <1>5 DEF Promote, Step
<1>6. CASE MarkFailed
  BY <1>6, AgainType DEF MarkFailed
<1>7. CASE BeginCancel \/ Cancel \/ Stop \/ Retire
  BY <1>7 DEF BeginCancel, Cancel, Stop, Retire
<1> QED
  BY <1>1, <1>2, <1>3, <1>4, <1>5, <1>6, <1>7

\* Steps that print a line, or lose one.
LEMMA LogStepKeeps ==
  ASSUME StreamInv, Publish \/ Push \/ Expire \/ LogError \/ HistoryExpires \/ Abort
  PROVE  StreamInv'
<1> USE DEF StreamInv, StreamTypeOK, ListIsComplete, AtMostOneMissed, Missed, Lines,
            rowVars, workerVars, logVars, viewerVars, Statuses, Active
<1>f. ASSUME Fault PROVE faults' \in 0..MaxFaults
  BY <1>f, StreamAssumption DEF Fault, StreamAssumption
<1>1. CASE Publish
  <2> USE <1>1 DEF Publish, CanPublish
  <2>1. n' = n + 1 /\ n' \in 0..MaxLines /\ 1..n' = 1..n \union {n + 1}
    BY StreamAssumption DEF StreamAssumption
  <2>2. StreamTypeOK'
    BY <2>1
  <2>3. ListIsComplete'
    BY <2>1
  <2>4. AtMostOneMissed'
    BY <2>1 DEF Listening
  <2> QED
    BY <2>2, <2>3, <2>4
<1>2. CASE Push
  <2> USE <1>2 DEF Push
  <2>1. n \in 1..n
    OBVIOUS
  <2> QED
    BY <2>1
<1>3. CASE Expire
  BY <1>3 DEF Expire
<1>4. CASE LogError
  <2> USE <1>4 DEF LogError, CanPublish
  <2>1. faults' \in 0..MaxFaults
    BY <1>f
  <2>2. CASE CanPublish /\ n' = n + 1 /\ emit' = "push" /\ lost' = lost \union {n + 1}
    <3>1. n' \in 0..MaxLines /\ 1..n' = 1..n \union {n + 1}
      BY <2>2, StreamAssumption DEF StreamAssumption
    <3> QED
      BY <2>1, <2>2, <3>1
  <2>3. CASE emit = "push" /\ emit' = "expire" /\ lost' = lost \union {n} /\ UNCHANGED n
    BY <2>1, <2>3
  <2>4. CASE emit = "expire" /\ emit' = "idle" /\ UNCHANGED <<n, lost>>
    BY <2>1, <2>4
  <2> QED
    BY <2>2, <2>3, <2>4
<1>5. CASE HistoryExpires
  <2> USE <1>5 DEF HistoryExpires
  <2>1. lost \subseteq lost' /\ history' \union lost' = history \union lost
    OBVIOUS
  <2>2. StreamTypeOK'
    OBVIOUS
  <2>3. ListIsComplete'
    BY <2>1
  <2>4. AtMostOneMissed'
    BY <2>1
  <2> QED
    BY <2>2, <2>3, <2>4
<1>6. CASE Abort
  <2>1. faults' \in 0..MaxFaults /\ pc' \in {"check", "end"} /\ retried' \in 0..MaxRetry
    BY <1>6, <1>f, AgainType DEF Abort
  <2>2. lost' \subseteq Lines /\ lost \subseteq lost' /\ (emit = "push" => n \in lost')
    BY <1>6 DEF Abort
  <2> QED
    BY <1>6, <2>1, <2>2 DEF Abort
<1> QED
  BY <1>1, <1>2, <1>3, <1>4, <1>5, <1>6

LEMMA ViewerStepKeeps ==
  ASSUME StreamInv, NEW v \in Viewers,
         Connect(v) \/ Stream(v) \/ Follow(v) \/ CheckStatus(v)
         \/ StreamError(v) \/ Leave(v)
  PROVE  StreamInv'
<1> USE DEF StreamInv, StreamTypeOK, Goto
<1>1. CASE Connect(v) \/ ReplayFinished(v) \/ Subscribe(v) \/ CheckStatus(v) \/ Leave(v)
  <2> USE DEF Close, rowVars, workerVars, logVars, viewerVars, Lines, Statuses, Active
  <2>1. /\ UNCHANGED <<rowVars, workerVars, logVars, blind, faults>>
        /\ inbox' \in [Viewers -> SUBSET Lines] /\ followed' \in [Viewers -> SUBSET Lines]
        /\ vpc' \in [Viewers -> {"idle", "subscribe", "replay", "follow", "final", "told", "closed"}]
        /\ told' \in [Viewers -> {"none", "live", "failed", "stopped"}]
        /\ replayed' \in [Viewers -> SUBSET Lines]
        /\ \A u \in Viewers : vpc'[u] = "follow" =>
              vpc[u] = "follow" /\ replayed'[u] = replayed[u] /\ inbox'[u] = inbox[u] /\ followed'[u] = followed[u]
    <3>1. CASE Connect(v)
      BY <3>1 DEF Connect, IsTerminal
    <3>2. CASE ReplayFinished(v)
      BY <3>2 DEF ReplayFinished
    <3>3. CASE Subscribe(v) \/ Leave(v)
      BY <3>3 DEF Subscribe, Leave
    <3>4. CASE CheckStatus(v)
      BY <3>4 DEF CheckStatus, IsTerminal
    <3> QED
      BY <1>1, <3>1, <3>2, <3>3, <3>4
  <2>2. StreamTypeOK'
    BY <2>1
  <2>3. ListIsComplete'
    BY <2>1 DEF ListIsComplete
  <2>4. AtMostOneMissed'
    BY <2>1 DEF AtMostOneMissed, Missed
  <2> QED
    BY <2>2, <2>3, <2>4
<1>2. CASE Replay(v)
  <2> USE DEF rowVars, workerVars, logVars
  <2>1. StreamTypeOK'
    BY <1>2 DEF Replay, Lines, Statuses, Active
  <2>2. ListIsComplete'
    BY <1>2 DEF Replay, ListIsComplete, Lines
  <2>3. ASSUME NEW u \in Viewers \ blind, vpc'[u] = "follow" PROVE \A i, j \in Missed(u)' : i = j
    <3>1. CASE u = v
      BY <1>2, <3>1 DEF Replay, ListIsComplete, Lines, Missed
    <3>2. CASE u # v
      BY <1>2, <2>3, <3>2 DEF Replay, AtMostOneMissed, Lines, Missed
    <3> QED
      BY <3>1, <3>2
  <2> QED
    BY <1>2, <2>1, <2>2, <2>3 DEF Replay, AtMostOneMissed
<1>3. CASE Follow(v)
  <2> USE DEF rowVars, workerVars, logVars
  <2>1. StreamTypeOK'
    <3>1. PICK line \in inbox[v] : /\ inbox' = [inbox EXCEPT ![v] = @ \ {line}]
                                 /\ followed' = [followed EXCEPT ![v] = @ \union {line}]
      BY <1>3 DEF Follow
    <3>2. line \in Lines
      BY <3>1
    <3>3. inbox' \in [Viewers -> SUBSET Lines] /\ followed' \in [Viewers -> SUBSET Lines]
      BY <3>1, <3>2
    <3> QED
      BY <1>3, <3>3 DEF Follow, Lines, Statuses, Active
  <2>2. ListIsComplete'
    BY <1>3 DEF Follow, ListIsComplete, Lines
  <2>3. ASSUME NEW u \in Viewers PROVE Missed(u)' = Missed(u)
    BY <1>3 DEF Follow, Missed, Lines
  <2>4. AtMostOneMissed'
    BY <1>3, <2>3 DEF Follow, AtMostOneMissed
  <2> QED
    BY <2>1, <2>2, <2>4
<1>4. CASE StreamError(v)
  <2> USE DEF rowVars, workerVars, logVars, Lines
  <2>1. faults' \in 0..MaxFaults
    BY <1>4, StreamAssumption DEF StreamError, Fault, StreamAssumption
  <2>2. StreamTypeOK'
    BY <1>4, <2>1 DEF StreamError, Statuses, Active
  <2>3. ListIsComplete'
    BY <1>4 DEF StreamError, ListIsComplete
  <2>4. AtMostOneMissed'
    BY <1>4 DEF StreamError, AtMostOneMissed, Missed
  <2> QED
    BY <2>2, <2>3, <2>4
<1> QED
  BY <1>1, <1>2, <1>3, <1>4 DEF Stream

\* The types, the completeness of the list up to the line being pushed, and that a
\* viewer who follows a stream misses one line at most.
THEOREM StreamInvHolds == StreamSpec => []StreamInv
<1>1. StreamInit => StreamInv
  <2> SUFFICES ASSUME StreamInit PROVE StreamInv
    OBVIOUS
  <2>1. StreamTypeOK
    <3>1. 0 \in 0..MaxRetry /\ 0 \in 0..MaxLines /\ 0 \in 0..MaxFaults
      BY StreamAssumption DEF StreamAssumption
    <3>2. \A S : {} \in SUBSET S
      OBVIOUS
    <3> QED
      BY <3>1, <3>2 DEF StreamInit, StreamTypeOK, Statuses, Active
  <2>2. ListIsComplete
    BY DEF StreamInit, ListIsComplete, Lines
  <2>3. AtMostOneMissed
    BY DEF StreamInit, AtMostOneMissed
  <2> QED
    BY <2>1, <2>2, <2>3 DEF StreamInv
<1>2. StreamInv /\ [StreamNext]_streamVars => StreamInv'
  <2> SUFFICES ASSUME StreamInv, [StreamNext]_streamVars PROVE StreamInv'
    OBVIOUS
  <2>1. CASE \/ LockRefused \/ FastPath \/ SetStatus \/ Proceed \/ Promote \/ MarkFailed
             \/ BeginCancel \/ Cancel \/ Stop \/ Retire
    BY <2>1, QuietStep, QuietFrameKeeps
  <2>2. CASE Publish \/ Push \/ Expire \/ LogError \/ HistoryExpires \/ Abort
    BY <2>2, LogStepKeeps
  <2>3. ASSUME NEW v \in Viewers,
               Connect(v) \/ Stream(v) \/ Follow(v) \/ CheckStatus(v)
         \/ StreamError(v) \/ Leave(v)
        PROVE  StreamInv'
    BY <2>3, ViewerStepKeeps
  <2>4. CASE UNCHANGED streamVars
    BY <2>4 DEF StreamInv, StreamTypeOK, ListIsComplete, AtMostOneMissed, Missed, Lines, streamVars,
       rowVars, workerVars, logVars, viewerVars
  <2> QED
    BY <2>1, <2>2, <2>3, <2>4 DEF StreamNext, Handler
<1> QED
  BY <1>1, <1>2, PTL DEF StreamSpec

\* Whoever follows a stream misses the line between its PUBLISH and its RPUSH at most.
THEOREM AtMostOneMissedHolds == StreamSpec => []AtMostOneMissed
<1>1. StreamInv => AtMostOneMissed
  BY DEF StreamInv
<1> QED
  BY <1>1, StreamInvHolds, PTL

-----------------------------------------------------------------------------
(* What a viewer is told.                                                  *)

\* As long as nothing fails and no request ends the row before its task is over, it looks
\* finished only when the handler has nothing more to print: at the end of an attempt, or
\* before the fast path of one that will end there. So nobody is told too early, and the
\* list a late viewer gets is whole.
EndInv ==
  faults = 0 /\ ~interrupted =>
    /\ emit # "idle" => pc \in {"clone", "build"}
    /\ IsTerminal(status) => pc \in {"ack", "end"} \/ (pc = "check" /\ status = "failed")
    /\ \A v \in Viewers : told[v] # "none" => IsTerminal(status)
    /\ \A v \in Viewers : vpc[v] \in {"final", "told"} => told[v] # "none"
    /\ LateViewerSeesAll

\* Neither a fault nor an interruption is forgotten.
LEMMA TroubleStays ==
  ASSUME StreamInv, [StreamNext]_streamVars, faults' = 0, ~interrupted'
  PROVE  faults = 0 /\ ~interrupted /\ ~Cancel /\ ~LogError /\ ~Abort /\ \A v \in Viewers : ~StreamError(v)
<1> USE DEF StreamInv, StreamTypeOK, streamVars, rowVars
<1>1. ASSUME Fault PROVE FALSE
  BY <1>1, StreamAssumption DEF Fault, StreamAssumption
<1>2. ~Cancel /\ ~LogError /\ ~Abort /\ \A v \in Viewers : ~StreamError(v)
  BY <1>1 DEF Cancel, LogError, Abort, StreamError
<1>3. ASSUME Handler PROVE faults = 0 /\ ~interrupted
  BY <1>3 DEF Handler, Publish, Push, Expire, LockRefused, FastPath, SetStatus, Proceed, Promote, MarkFailed, UpdateStatus
<1>4. ASSUME HistoryExpires \/ BeginCancel \/ Stop \/ Retire \/ UNCHANGED streamVars
      PROVE  faults = 0 /\ ~interrupted
  BY <1>4 DEF HistoryExpires, BeginCancel, Stop, Retire, UpdateStatus
<1>5. ASSUME NEW v \in Viewers, Connect(v) \/ Stream(v) \/ Follow(v) \/ CheckStatus(v) \/ Leave(v)
      PROVE  faults = 0 /\ ~interrupted
  BY <1>5 DEF Connect, Stream, Subscribe, Replay, ReplayFinished, Follow, CheckStatus, Leave
<1> QED
  BY <1>2, <1>3, <1>4, <1>5 DEF StreamNext

\* The steps of the worker and of the requests.
LEMMA WorkerEndStep ==
  ASSUME StreamInv, EndInv, faults = 0, ~interrupted,
         Handler \/ HistoryExpires \/ BeginCancel \/ Stop \/ Retire
  PROVE  EndInv'
<1> USE DEF EndInv, LateViewerSeesAll, IsTerminal, Lines, Step, UpdateStatus, Again, rowVars, workerVars, logVars, viewerVars
<1>1. CASE Publish
  BY <1>1 DEF Publish, CanPublish
<1>2. CASE Push \/ Expire
  BY <1>2 DEF Push, Expire
<1>3. CASE LockRefused \/ FastPath
  BY <1>3 DEF LockRefused, FastPath
<1>4. CASE SetStatus
  BY <1>4 DEF SetStatus
<1>5. CASE Proceed \/ Promote
  BY <1>5 DEF Proceed, Promote
<1>6. CASE MarkFailed
  BY <1>6 DEF MarkFailed
<1>7. CASE HistoryExpires \/ BeginCancel \/ Stop \/ Retire
  BY <1>7 DEF HistoryExpires, BeginCancel, Stop, Retire
<1> QED
  BY <1>1, <1>2, <1>3, <1>4, <1>5, <1>6, <1>7 DEF Handler

\* The steps of a viewer: it is told what the row says, and then gets the whole list.
LEMMA ViewerEndStep ==
  ASSUME StreamInv, EndInv, faults = 0, ~interrupted, NEW v \in Viewers,
         Connect(v) \/ Stream(v) \/ Follow(v) \/ CheckStatus(v) \/ Leave(v)
  PROVE  EndInv'
<1> USE DEF EndInv, LateViewerSeesAll, IsTerminal, Lines, Goto, rowVars, workerVars, logVars, StreamInv, StreamTypeOK
<1>1. CASE Connect(v) \/ CheckStatus(v)
  BY <1>1 DEF Connect, CheckStatus, Close
<1>2. CASE ReplayFinished(v)
  <2>1. Lines \subseteq history \union lost
    BY <1>2 DEF ReplayFinished, ListIsComplete
  <2>2. replayed' = [replayed EXCEPT ![v] = history] /\ vpc[v] = "final" /\ vpc' = [vpc EXCEPT ![v] = "told"]
        /\ UNCHANGED <<n, lost, told, status, pc, emit, faults, interrupted>>
    BY <1>2 DEF ReplayFinished
  <2> QED
    BY <2>1, <2>2
<1>3. CASE Subscribe(v) \/ Replay(v)
  BY <1>3 DEF Subscribe, Replay
<1>4. CASE Follow(v) \/ Leave(v)
  BY <1>4 DEF Follow, Leave, Close
<1> QED
  BY <1>1, <1>2, <1>3, <1>4 DEF Stream

\* Every step keeps EndInv.
LEMMA EndStep == StreamInv /\ EndInv /\ [StreamNext]_streamVars => EndInv'
<1> SUFFICES ASSUME StreamInv, EndInv, [StreamNext]_streamVars, faults' = 0, ~interrupted' PROVE EndInv'
  BY DEF EndInv
<1>1. faults = 0 /\ ~interrupted /\ ~Cancel /\ ~LogError /\ ~Abort /\ \A v \in Viewers : ~StreamError(v)
  BY TroubleStays
<1>2. CASE UNCHANGED streamVars
  BY <1>2 DEF EndInv, LateViewerSeesAll, IsTerminal, Lines, streamVars, rowVars, workerVars, logVars, viewerVars
<1> QED
  BY <1>1, <1>2, WorkerEndStep, ViewerEndStep DEF StreamNext

\* The row looks finished only when its handler prints no more, in every reachable state
\* of a run without faults and interruptions.
THEOREM EndInvHolds == StreamSpec => []EndInv
<1>1. StreamInit => EndInv
  BY DEF StreamInit, EndInv, LateViewerSeesAll, IsTerminal
<1> QED
  BY <1>1, EndStep, StreamInvHolds, PTL DEF StreamSpec

\* For every number of viewers, lines and attempts: who comes when the deployment is over
\* gets all its lines from the list, unless something failed or a request cancelled or
\* stopped the row before its task was over.
THEOREM LateViewerSeesAllHolds == StreamSpec => []LateViewerSeesAll
<1>1. EndInv => LateViewerSeesAll
  BY DEF EndInv, LateViewerSeesAll
<1> QED
  BY <1>1, EndInvHolds, PTL

\* For every number of viewers, lines and attempts: once a viewer was told how the
\* deployment ended, no retry makes the row active again, unless something failed or a
\* request cancelled or stopped the row before its task was over.
THEOREM ToldIsFinalHolds == StreamSpec => ToldIsFinal
<1>1. ASSUME StreamInv, EndInv, [StreamNext]_streamVars, faults = 0, ~interrupted, NEW v \in Viewers, told[v] # "none"
      PROVE  status' \notin Active
  <2>1. IsTerminal(status) /\ (pc \in {"ack", "end"} \/ (pc = "check" /\ status = "failed"))
    BY <1>1 DEF EndInv
  <2> USE <2>1 DEF IsTerminal, Active, rowVars, UpdateStatus
  <2>2. CASE Handler
    BY <2>2 DEF Handler, Publish, Push, Expire, LockRefused, FastPath, SetStatus, Step, Proceed, Promote, MarkFailed
  <2>3. CASE LogError \/ HistoryExpires \/ Abort \/ BeginCancel \/ Cancel \/ Stop \/ Retire
    BY <2>3 DEF LogError, HistoryExpires, Abort, BeginCancel, Cancel, Stop, Retire
  <2>4. ASSUME NEW u \in Viewers,
               Connect(u) \/ Stream(u) \/ Follow(u) \/ CheckStatus(u) \/ StreamError(u) \/ Leave(u)
        PROVE  status' \notin Active
    BY <2>4 DEF Connect, Stream, Subscribe, Replay, ReplayFinished, Follow, CheckStatus, StreamError, Leave
  <2>5. CASE UNCHANGED streamVars
    BY <2>5 DEF streamVars
  <2> QED
    BY <1>1, <2>2, <2>3, <2>4, <2>5 DEF StreamNext
<1>2. StreamInv /\ EndInv /\ [StreamNext]_streamVars
        => [faults = 0 /\ ~interrupted /\ (\E v \in Viewers : told[v] # "none") => status' \notin Active]_streamVars
  BY <1>1
<1> QED
  BY <1>2, StreamInvHolds, EndInvHolds, PTL DEF StreamSpec, ToldIsFinal

=============================================================================
