--------------------------- MODULE AtomicCounter ----------------------------
(***************************************************************************)
(* A counter that threads increment in one indivisible step, ROUNDS times  *)
(* each: what the programs sem and spin promise.                           *)
(***************************************************************************)
EXTENDS Integers

CONSTANTS Thread, ROUNDS
VARIABLES counter, turns

Init ==
  /\ counter = 0
  /\ turns = [t \in Thread |-> 0]

Increment(t) ==
  /\ turns[t] < ROUNDS
  /\ counter' = counter + 1
  /\ turns' = [turns EXCEPT ![t] = @ + 1]

Next == \E t \in Thread : Increment(t)

Spec == Init /\ [][Next]_<<counter, turns>>
=============================================================================
