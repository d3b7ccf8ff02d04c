-------------------------- MODULE DijkstraSemaphore --------------------------
(***************************************************************************)
(* What a semaphore promises, in Dijkstra's form: an integer that P        *)
(* decreases and V increases, and a set of sleeping processes.  P sleeps   *)
(* when the integer was not positive; V wakes one sleeper if there is one. *)
(* No unit is created or lost by P and V.  Creating the semaphore again    *)
(* and destroying it start afresh.                                         *)
(***************************************************************************)
EXTENDS Integers

CONSTANTS Process, InitialValues

VARIABLES exists, value, sleepers

Init == exists = FALSE /\ value = 0 /\ sleepers = {}

Create(v) == exists' = TRUE /\ value' = v /\ sleepers' = {}

Destroy == exists' = FALSE /\ value' = 0 /\ sleepers' = {}

P(p) ==
  /\ exists
  /\ p \notin sleepers
  /\ value' = value - 1
  /\ sleepers' = IF value > 0 THEN sleepers ELSE sleepers \cup {p}
  /\ UNCHANGED exists

V ==
  /\ exists
  /\ value' = value + 1
  /\ \/ sleepers = {} /\ sleepers' = {}
     \/ \E p \in sleepers : sleepers' = sleepers \ {p}
  /\ UNCHANGED exists

Next ==
  \/ \E v \in InitialValues : Create(v)
  \/ Destroy
  \/ \E p \in Process : P(p)
  \/ V

Spec == Init /\ [][Next]_<<exists, value, sleepers>>
=============================================================================
