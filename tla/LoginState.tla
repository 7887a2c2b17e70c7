----------------------------- MODULE LoginState -----------------------------
(***************************************************************************)
(* Login: the states a login hands out and a callback redeems, kept in a   *)
(* map of the API process; the row of users a callback inserts or updates; *)
(* and the session it issues.                                              *)
(***************************************************************************)
EXTENDS Integers, FiniteSets

CONSTANTS
  States,         \* bound: states ever generated
  Accounts,       \* GitHub accounts
  RowIds,         \* bound: uuids drawn for user rows
  NoUser,
  Callbacks       \* requests running at the same time

ASSUME LoginAssumption == NoUser \notin RowIds

VARIABLES
  known,       \* the keys of the map of states
  usedStates,  \* states ever generated
  expired,     \* states older than ten minutes
  timers,      \* goroutines that sleep ten minutes and delete their state
  userRow,     \* users: the id of the row of an account
  drawn,       \* uuids drawn
  callback,    \* where each callback stands
  sessions,    \* sessions issued: whom the token names, whose login it was
  \* history variables
  accepted,    \* pairs of a state and the callback that was let through with it
  overlapping  \* states two callbacks have looked up before either deleted them

loginVars == <<known, usedStates, expired, timers, userRow, drawn, callback, sessions,
               accepted, overlapping>>
stateVars == <<known, usedStates, expired, timers, accepted, overlapping>>
userVars  == <<userRow, drawn, sessions>>

IdleCallback == [pc |-> "idle"]
NewCallback == [pc |-> "new"]

LoginInit ==
  /\ known = {} /\ usedStates = {} /\ expired = {} /\ timers = {}
  /\ userRow = [a \in Accounts |-> NoUser]
  /\ drawn = {}
  /\ callback = [c \in Callbacks |-> NewCallback]
  /\ sessions = {}
  /\ accepted = {} /\ overlapping = {}

CallbackGoes(c, r) == callback' = [callback EXCEPT ![c] = r]

-----------------------------------------------------------------------------
(* States.                                                                 *)

GenerateWithoutTimer(s) ==
  /\ s \notin usedStates
  /\ usedStates' = usedStates \union {s}
  /\ known' = known \union {s}
  /\ UNCHANGED <<expired, timers, accepted, overlapping, userVars, callback>>

\* Login: a state that expires in ten minutes, and a goroutine that deletes it then.
Generate(s) ==
  /\ s \notin usedStates
  /\ usedStates' = usedStates \union {s}
  /\ known' = known \union {s}
  /\ timers' = timers \union {s}
  /\ UNCHANGED <<expired, accepted, overlapping, userVars, callback>>

\* Ten minutes pass.
ExpireState(s) ==
  /\ s \in usedStates \ expired
  /\ expired' = expired \union {s}
  /\ UNCHANGED <<known, usedStates, timers, accepted, overlapping, userVars, callback>>

Timer(s) ==
  /\ s \in timers \intersect expired
  /\ timers' = timers \ {s}
  /\ known' = known \ {s}
  /\ UNCHANGED <<usedStates, expired, accepted, overlapping, userVars, callback>>

\* Validate looks the state up under the read lock, and lets the lock go.
LookUp(c, s) ==
  /\ callback[c] = NewCallback
  /\ CallbackGoes(c, IF s \in known THEN [pc |-> "seen", state |-> s] ELSE IdleCallback)
  /\ overlapping' = IF s \in known /\ \E e \in Callbacks : callback[e] = [pc |-> "seen", state |-> s]
                    THEN overlapping \union {s} ELSE overlapping
  /\ UNCHANGED <<known, usedStates, expired, timers, accepted, userVars>>

AcceptAndKeep(c) ==
  /\ callback[c].pc = "seen"
  /\ LET s == callback[c].state IN
     IF s \in expired
     THEN CallbackGoes(c, IdleCallback) /\ known' = known \ {s} /\ UNCHANGED accepted
     ELSE CallbackGoes(c, [pc |-> "exchange"]) /\ accepted' = accepted \union {<<s, c>>} /\ UNCHANGED known
  /\ UNCHANGED <<usedStates, expired, timers, overlapping, userVars>>

\* Then it looks at the expiry and deletes the state under the write lock: whether it
\* is still in the map is not looked at again.
Redeem(c) ==
  /\ callback[c].pc = "seen"
  /\ LET s == callback[c].state IN
     /\ known' = known \ {s}
     /\ IF s \in expired
        THEN CallbackGoes(c, IdleCallback) /\ UNCHANGED accepted
        ELSE CallbackGoes(c, [pc |-> "exchange"]) /\ accepted' = accepted \union {<<s, c>>}
  /\ UNCHANGED <<usedStates, expired, timers, overlapping, userVars>>

-----------------------------------------------------------------------------
(* Users and sessions.                                                     *)

\* The code is exchanged and GitHub says whose account it is, or the login fails.
Exchange(c) ==
  /\ callback[c].pc = "exchange"
  /\ \/ \E a \in Accounts : CallbackGoes(c, [pc |-> "upsert", account |-> a])
     \/ CallbackGoes(c, IdleCallback)
  /\ UNCHANGED <<stateVars, userVars>>

UpsertKeepsDrawnId(c, u) ==
  /\ callback[c].pc = "upsert"
  /\ u \notin drawn
  /\ LET a == callback[c].account IN
     /\ userRow' = [userRow EXCEPT ![a] = IF @ = NoUser THEN u ELSE @]
     /\ CallbackGoes(c, [pc |-> "issue", account |-> a, user |-> u])
  /\ drawn' = drawn \union {u}
  /\ UNCHANGED <<stateVars, sessions>>

\* UpsertByGitHubID inserts the row with a new uuid, or updates the row the account
\* has; the id it returns is the row's.
Upsert(c, u) ==
  /\ callback[c].pc = "upsert"
  /\ u \notin drawn
  /\ LET a == callback[c].account IN
     /\ userRow' = [userRow EXCEPT ![a] = IF @ = NoUser THEN u ELSE @]
     /\ CallbackGoes(c, [pc |-> "issue", account |-> a, user |-> userRow'[a]])
  /\ drawn' = drawn \union {u}
  /\ UNCHANGED <<stateVars, sessions>>

\* generateJWT and the cookie.
Issue(c) ==
  /\ callback[c].pc = "issue"
  /\ sessions' = sessions \union {[account |-> callback[c].account, user |-> callback[c].user]}
  /\ CallbackGoes(c, IdleCallback)
  /\ UNCHANGED <<stateVars, userRow, drawn>>

\* The API process restarts: the map is gone, and requests and timers with it.
RestartLogin ==
  /\ known' = {}
  /\ timers' = {}
  /\ callback' = [c \in Callbacks |-> IF callback[c] = NewCallback THEN NewCallback ELSE IdleCallback]
  /\ UNCHANGED <<usedStates, expired, accepted, overlapping, userVars>>

-----------------------------------------------------------------------------

CallbackRequest(c) ==
  \/ \E s \in States : LookUp(c, s)
  \/ Redeem(c) \/ Exchange(c) \/ Issue(c)
  \/ \E u \in RowIds : Upsert(c, u)

LoginNext ==
  \/ \E s \in States : Generate(s) \/ ExpireState(s) \/ Timer(s)
  \/ \E c \in Callbacks : CallbackRequest(c)
  \/ RestartLogin

LoginSpec == LoginInit /\ [][LoginNext]_loginVars

\* Time passes and the goroutines of the API process run.
LoginFairness == \A s \in States : WF_loginVars(ExpireState(s)) /\ WF_loginVars(Timer(s))

-----------------------------------------------------------------------------
(* Properties.                                                             *)

\* A session names the row of the account that logged in, also when its first logins
\* run at the same time: each draws a uuid, and one row stays.
SessionNamesRow == \A x \in sessions : x.user # NoUser /\ x.user = userRow[x.account]

\* A state lets one callback through, unless two had looked it up before either
\* deleted it: the check and the deletion are two critical sections (auth.go:59).
StateUsedOnce ==
  \A x, y \in accepted : x[1] = y[1] /\ x[1] \notin overlapping => x = y

\* No state stays in the map for ever, redeemed or not.
StatesAreForgotten == \A s \in States : s \in known ~> s \notin known

CallbackStates ==
  {NewCallback, IdleCallback} \union [pc : {"seen"}, state : States] \union [pc : {"exchange"}]
    \union [pc : {"upsert"}, account : Accounts]
    \union [pc : {"issue"}, account : Accounts, user : RowIds]

LoginTypeOK ==
  /\ known \in SUBSET States /\ usedStates \in SUBSET States
  /\ userRow  \in [Accounts -> RowIds \union {NoUser}]
  /\ callback \in [Callbacks -> CallbackStates]
  /\ sessions \in SUBSET [account : Accounts, user : RowIds]
  /\ accepted \in SUBSET (States \X Callbacks)

\* The inductive invariant of the proofs: an id that is about to be issued is the row's; a
\* state that let a callback through is forgotten, unless its callbacks overlapped.
LoginInv ==
  /\ LoginTypeOK
  /\ \A c \in Callbacks : callback[c].pc = "issue" => callback[c].user = userRow[callback[c].account]
  /\ SessionNamesRow
  /\ known \subseteq usedStates
  /\ \A c \in Callbacks : callback[c].pc = "seen" => callback[c].state \in usedStates
  /\ \A c, e \in Callbacks :
       callback[c].pc = "seen" /\ callback[e] = callback[c] /\ c # e => callback[c].state \in overlapping
  /\ \A x \in accepted :
       /\ x[1] \in usedStates
       /\ x[1] \notin overlapping
            => /\ x[1] \notin known
               /\ \A c \in Callbacks : callback[c].pc = "seen" => callback[c].state # x[1]
  /\ StateUsedOnce

=============================================================================
