-------------------------- MODULE LoginState_proofs --------------------------
(***************************************************************************)
(* Theorems about LoginState, for every set of states, accounts, ids and   *)
(* requests.                                                               *)
(***************************************************************************)
EXTENDS LoginState, TLAPS

\* A request that moves on is at its new place, and the others where they were.
LEMMA CallbackMoves ==
  ASSUME LoginTypeOK, NEW c \in Callbacks, NEW r \in CallbackStates, CallbackGoes(c, r)
  PROVE  /\ callback' \in [Callbacks -> CallbackStates]
         /\ callback'[c] = r
         /\ \A e \in Callbacks \ {c} : callback'[e] = callback[e]
  BY DEF CallbackGoes, LoginTypeOK

\* Steps that leave requests and users alone, accept nothing, and put no state
\* into the map that was there before.
StateFrame ==
  /\ UNCHANGED <<callback, userRow, sessions, accepted, overlapping>>
  /\ known' \in SUBSET States /\ usedStates' \in SUBSET States
  /\ usedStates \subseteq usedStates'
  /\ known' \subseteq known \union (usedStates' \ usedStates)

LEMMA StateFrameKeeps == LoginInv /\ StateFrame => LoginInv'
  BY DEF LoginInv, LoginTypeOK, StateFrame, SessionNamesRow, StateUsedOnce

\* States that are handed out, expire and are deleted by their timers.
LEMMA StateStep ==
  ASSUME LoginInv, NEW s \in States, Generate(s) \/ ExpireState(s) \/ Timer(s)
  PROVE  StateFrame
  BY DEF LoginInv, LoginTypeOK, Generate, ExpireState, Timer, StateFrame, userVars

\* A callback looks its state up: from then on it is the only one, or they overlap.
LEMMA LookUpStep ==
  ASSUME LoginInv, NEW c \in Callbacks, NEW s \in States, LookUp(c, s)
  PROVE  LoginInv'
<1> USE DEF LoginInv, LoginTypeOK
<1>1. /\ UNCHANGED <<known, usedStates, accepted, userRow, sessions>>
      /\ callback[c].pc = "new" /\ overlapping \subseteq overlapping'
  BY DEF LookUp, userVars, NewCallback
<1>2. CASE s \in known
  <2>1. [pc |-> "seen", state |-> s] \in CallbackStates
    BY DEF CallbackStates
  <2>2. /\ callback' \in [Callbacks -> CallbackStates]
        /\ callback'[c] = [pc |-> "seen", state |-> s]
        /\ \A e \in Callbacks \ {c} : callback'[e] = callback[e]
    BY <1>2, <2>1, CallbackMoves DEF LookUp
  <2>3. \A e \in Callbacks : callback[e] = [pc |-> "seen", state |-> s] => s \in overlapping'
    BY <1>2 DEF LookUp
  <2>4. \A d, e \in Callbacks :
          callback'[d].pc = "seen" /\ callback'[e] = callback'[d] /\ d # e
            => callback'[d].state \in overlapping'
    BY <1>1, <2>2, <2>3
  <2>5. \A x \in accepted : x[1] \notin overlapping => x[1] # s
    BY <1>2
  <2>6. \A x \in accepted : x[1] \notin overlapping'
          => \A d \in Callbacks : callback'[d].pc = "seen" => callback'[d].state # x[1]
    BY <1>1, <2>2, <2>5
  <2>7. \A d \in Callbacks : callback'[d].pc = "issue" => callback'[d].user = userRow[callback'[d].account]
    BY <2>2
  <2>8. \A d \in Callbacks : callback'[d].pc = "seen" => callback'[d].state \in usedStates
    BY <1>2, <2>2
  <2> QED
    BY <1>1, <2>2, <2>4, <2>6, <2>7, <2>8 DEF SessionNamesRow, StateUsedOnce
<1>3. CASE s \notin known
  <2>1. IdleCallback \in CallbackStates
    BY DEF CallbackStates
  <2>2. /\ callback' \in [Callbacks -> CallbackStates]
        /\ callback'[c] = IdleCallback
        /\ \A e \in Callbacks \ {c} : callback'[e] = callback[e]
    BY <1>3, <2>1, CallbackMoves DEF LookUp
  <2> QED
    BY <1>1, <2>2 DEF SessionNamesRow, StateUsedOnce, IdleCallback
<1> QED
  BY <1>2, <1>3

\* A callback that is let through deletes its state.
LEMMA RedeemStep ==
  ASSUME LoginInv, NEW c \in Callbacks, Redeem(c)
  PROVE  LoginInv'
<1> DEFINE s == callback[c].state
<1> USE DEF LoginInv, LoginTypeOK
<1>1. /\ UNCHANGED <<usedStates, overlapping, userRow, sessions>>
      /\ callback[c].pc = "seen" /\ known' = known \ {s}
  BY DEF Redeem, userVars
<1>2. s \in States /\ callback[c] = [pc |-> "seen", state |-> s]
  BY <1>1 DEF CallbackStates, NewCallback, IdleCallback
<1>3. IdleCallback \in CallbackStates /\ [pc |-> "exchange"] \in CallbackStates
  BY DEF CallbackStates
<1>4. /\ callback' \in [Callbacks -> CallbackStates]
      /\ callback'[c].pc \in {"idle", "exchange"}
      /\ \A e \in Callbacks \ {c} : callback'[e] = callback[e]
  BY <1>3, CallbackMoves DEF Redeem, IdleCallback
<1>5. accepted' = accepted \/ accepted' = accepted \union {<<s, c>>}
  BY DEF Redeem
<1>6. s \in usedStates
  BY <1>1
<1>7. \A e \in Callbacks \ {c} : callback[e].pc = "seen" /\ s \notin overlapping => callback[e].state # s
  <2> SUFFICES ASSUME NEW e \in Callbacks \ {c}, callback[e].pc = "seen", callback[e].state = s
               PROVE  s \in overlapping
    OBVIOUS
  <2>1. callback[e] = callback[c]
    BY <1>2 DEF CallbackStates, NewCallback, IdleCallback
  <2> QED
    BY <1>1, <2>1
<1>8. \A x \in accepted : x[1] = s => s \in overlapping
  BY <1>1
<1>9. \A x \in accepted' :
        /\ x[1] \in usedStates
        /\ x[1] \notin overlapping
             => /\ x[1] \notin known'
                /\ \A e \in Callbacks : callback'[e].pc = "seen" => callback'[e].state # x[1]
  BY <1>1, <1>4, <1>5, <1>6, <1>7
<1>10. StateUsedOnce'
  BY <1>1, <1>5, <1>8 DEF StateUsedOnce
<1>11. accepted' \in SUBSET (States \X Callbacks)
  BY <1>2, <1>5
<1> QED
  BY <1>1, <1>4, <1>9, <1>10, <1>11 DEF SessionNamesRow

-----------------------------------------------------------------------------
(* Users and sessions.                                                     *)

\* A callback that moves on without a state, and changes nothing else.
LEMMA CallbackFrameKeeps ==
  ASSUME LoginInv, NEW c \in Callbacks,
         callback' \in [Callbacks -> CallbackStates],
         callback'[c].pc \notin {"seen", "issue"},
         \A e \in Callbacks \ {c} : callback'[e] = callback[e],
         UNCHANGED <<known, usedStates, accepted, overlapping, userRow, sessions>>
  PROVE  LoginInv'
  BY DEF LoginInv, LoginTypeOK, SessionNamesRow, StateUsedOnce

LEMMA ExchangeStep ==
  ASSUME LoginInv, NEW c \in Callbacks, Exchange(c)
  PROVE  LoginInv'
<1> USE DEF LoginInv
<1>1. UNCHANGED <<known, usedStates, accepted, overlapping, userRow, sessions>>
  BY DEF Exchange, stateVars, userVars
<1>2. ASSUME NEW a \in Accounts, CallbackGoes(c, [pc |-> "upsert", account |-> a]) PROVE LoginInv'
  <2>1. [pc |-> "upsert", account |-> a] \in CallbackStates
    BY DEF CallbackStates
  <2> QED
    BY <1>1, <1>2, <2>1, CallbackMoves, CallbackFrameKeeps
<1>3. CASE CallbackGoes(c, IdleCallback)
  <2>1. IdleCallback \in CallbackStates /\ IdleCallback.pc = "idle"
    BY DEF CallbackStates, IdleCallback
  <2> QED
    BY <1>1, <1>3, <2>1, CallbackMoves, CallbackFrameKeeps
<1> QED
  BY <1>2, <1>3 DEF Exchange

\* A row that is there keeps its id; the id that goes into the session is the row's.
LEMMA UpsertStep ==
  ASSUME LoginInv, NEW c \in Callbacks, NEW u \in RowIds, Upsert(c, u)
  PROVE  LoginInv'
<1> DEFINE a == callback[c].account
           r == [pc |-> "issue", account |-> a, user |-> userRow'[a]]
<1> USE LoginAssumption DEF LoginInv, LoginTypeOK, LoginAssumption
<1>1. /\ callback[c].pc = "upsert" /\ CallbackGoes(c, r)
      /\ userRow' = [userRow EXCEPT ![a] = IF @ = NoUser THEN u ELSE @]
      /\ UNCHANGED <<known, usedStates, accepted, overlapping, sessions>>
  BY DEF Upsert, stateVars
<1>2. a \in Accounts
  BY <1>1 DEF CallbackStates, NewCallback, IdleCallback
<1>3. /\ userRow' \in [Accounts -> RowIds \union {NoUser}]
      /\ userRow'[a] \in RowIds
      /\ \A b \in Accounts : userRow[b] # NoUser => userRow'[b] = userRow[b]
  BY <1>1, <1>2
<1>4. r \in CallbackStates
  BY <1>2, <1>3 DEF CallbackStates
<1>5. /\ callback' \in [Callbacks -> CallbackStates] /\ callback'[c] = r
      /\ \A e \in Callbacks \ {c} : callback'[e] = callback[e]
  BY <1>1, <1>4, CallbackMoves
<1>6. ASSUME NEW e \in Callbacks, callback'[e].pc = "issue"
      PROVE  callback'[e].user = userRow'[callback'[e].account]
  <2>1. CASE e = c
    BY <1>5, <2>1
  <2>2. CASE e # c
    <3>1. callback[e].pc = "issue" /\ callback'[e] = callback[e]
      BY <1>5, <1>6, <2>2
    <3>2. callback[e].account \in Accounts /\ callback[e].user \in RowIds
      BY <3>1 DEF CallbackStates, NewCallback, IdleCallback
    <3> QED
      BY <1>3, <3>1, <3>2
  <2> QED
    BY <2>1, <2>2
<1>7. SessionNamesRow'
  BY <1>1, <1>3 DEF SessionNamesRow
<1>8. /\ \A d, e \in Callbacks :
           callback'[d].pc = "seen" /\ callback'[e] = callback'[d] /\ d # e => callback'[d].state \in overlapping
      /\ \A d \in Callbacks : callback'[d].pc = "seen" => callback[d].pc = "seen" /\ callback'[d] = callback[d]
  BY <1>5
<1> QED
  BY <1>1, <1>3, <1>5, <1>6, <1>7, <1>8 DEF StateUsedOnce

LEMMA IssueStep ==
  ASSUME LoginInv, NEW c \in Callbacks, Issue(c)
  PROVE  LoginInv'
<1> USE LoginAssumption DEF LoginInv, LoginTypeOK, LoginAssumption
<1>1. /\ callback[c].pc = "issue" /\ CallbackGoes(c, IdleCallback)
      /\ sessions' = sessions \union {[account |-> callback[c].account, user |-> callback[c].user]}
      /\ UNCHANGED <<known, usedStates, accepted, overlapping, userRow>>
  BY DEF Issue, stateVars
<1>2. callback[c].account \in Accounts /\ callback[c].user \in RowIds
  BY <1>1 DEF CallbackStates, NewCallback, IdleCallback
<1>3. IdleCallback \in CallbackStates /\ IdleCallback.pc = "idle"
  BY DEF CallbackStates, IdleCallback
<1>4. /\ callback' \in [Callbacks -> CallbackStates] /\ callback'[c].pc = "idle"
      /\ \A e \in Callbacks \ {c} : callback'[e] = callback[e]
  BY <1>1, <1>3, CallbackMoves
<1>5. sessions' \in SUBSET [account : Accounts, user : RowIds] /\ SessionNamesRow'
  BY <1>1, <1>2 DEF SessionNamesRow
<1> QED
  BY <1>1, <1>4, <1>5 DEF StateUsedOnce

-----------------------------------------------------------------------------
(* Restarts, and the theorems.                                             *)

LEMMA RestartStep == LoginInv /\ RestartLogin => LoginInv'
<1> SUFFICES ASSUME LoginInv, RestartLogin PROVE LoginInv'
  OBVIOUS
<1> USE DEF LoginInv, LoginTypeOK
<1>1. /\ known' = {}
      /\ UNCHANGED <<usedStates, accepted, overlapping, userRow, sessions>>
      /\ callback' \in [Callbacks -> {NewCallback, IdleCallback}]
  BY DEF RestartLogin, userVars
<1>2. \A c \in Callbacks : callback'[c].pc \in {"new", "idle"}
  BY <1>1 DEF NewCallback, IdleCallback
<1>3. callback' \in [Callbacks -> CallbackStates]
  BY <1>1 DEF CallbackStates
<1> QED
  BY <1>1, <1>2, <1>3 DEF SessionNamesRow, StateUsedOnce

\* The inductive invariant: every step keeps all its parts.
LEMMA LoginStep == LoginInv /\ [LoginNext]_loginVars => LoginInv'
<1> SUFFICES ASSUME LoginInv, [LoginNext]_loginVars PROVE LoginInv'
  OBVIOUS
<1>1. CASE UNCHANGED loginVars
  BY <1>1, StateFrameKeeps DEF loginVars, StateFrame, LoginInv, LoginTypeOK
<1> QED
  BY <1>1, StateStep, StateFrameKeeps, LookUpStep, RedeemStep, ExchangeStep, UpsertStep, IssueStep,
     RestartStep DEF LoginNext, CallbackRequest

\* In every reachable state: types, and what LoginInv knows of ids and states.
THEOREM LoginInvHolds == LoginSpec => []LoginInv
<1>1. LoginInit => LoginInv
  BY DEF LoginInit, LoginInv, LoginTypeOK, CallbackStates, NewCallback, SessionNamesRow, StateUsedOnce
<1> QED
  BY <1>1, LoginStep, PTL DEF LoginSpec

\* For any number of concurrent logins: a session names the row of its account.
THEOREM SessionNamesRowHolds == LoginSpec => []SessionNamesRow
<1>1. LoginInv => SessionNamesRow
  BY DEF LoginInv
<1> QED
  BY <1>1, LoginInvHolds, PTL

\* For any number of states and callbacks: a state lets one callback through, unless two
\* had looked it up before either deleted it.
THEOREM StateUsedOnceHolds == LoginSpec => []StateUsedOnce
<1>1. LoginInv => StateUsedOnce
  BY DEF LoginInv
<1> QED
  BY <1>1, LoginInvHolds, PTL

=============================================================================
