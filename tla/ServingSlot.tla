---------------------------- MODULE ServingSlot ----------------------------
(***************************************************************************)
(* What the pipeline promises to each project, without queue, lock, rows   *)
(* or containers: one deployment at a time works on the project, and only  *)
(* that one can take its serving slot, once the slot is free. Who is live  *)
(* can lose the slot at any time. The promise to a project may be broken,  *)
(* and is then broken for good.                                            *)
(***************************************************************************)
CONSTANTS Projects, Deployments

VARIABLES
  inside,   \* the deployments at work on a project
  live,     \* the deployments that hold its slot
  broken    \* projects whose promise is broken

slotVars == <<inside, live, broken>>

Init ==
  /\ inside = [p \in Projects |-> {}]
  /\ live   = [p \in Projects |-> {}]
  /\ broken = {}

\* A deployment begins its work on a project nobody works on.
Enter(p, d) ==
  /\ p \notin broken
  /\ inside[p] = {}
  /\ inside' = [inside EXCEPT ![p] = {d}]
  /\ UNCHANGED <<live, broken>>

\* The work on some projects ends: on one when it is done, on all in a crash.
Leave(S) ==
  /\ inside' = [p \in Projects |-> IF p \in S THEN {} ELSE inside[p]]
  /\ UNCHANGED <<live, broken>>

\* The deployment at work takes the free slot.
GoLive(p, d) ==
  /\ p \notin broken
  /\ inside[p] = {d}
  /\ live[p] = {}
  /\ live' = [live EXCEPT ![p] = {d}]
  /\ UNCHANGED <<inside, broken>>

\* The slots of some projects become free: who held one is retired, cancelled or fails.
Vacate(S) ==
  /\ live' = [p \in Projects |-> IF p \in S THEN {} ELSE live[p]]
  /\ UNCHANGED <<inside, broken>>

Break(p) ==
  /\ inside' = [inside EXCEPT ![p] = {}]
  /\ live' = [live EXCEPT ![p] = {}]
  /\ broken' = broken \union {p}

Next ==
  \/ \E p \in Projects, d \in Deployments : Enter(p, d) \/ GoLive(p, d)
  \/ \E S \in SUBSET Projects : Leave(S) \/ Vacate(S)
  \/ \E p \in Projects : Break(p)

Spec == Init /\ [][Next]_slotVars
=============================================================================
