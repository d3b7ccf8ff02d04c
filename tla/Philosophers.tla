---------------------------- MODULE Philosophers ----------------------------
(***************************************************************************)
(* The program philo: philosophers who take two chopsticks each, one at a  *)
(* time, under a server semaphore that admits one of them to the table.    *)
(* They go on for ever; the sleeps only delay a thread.                    *)
(***************************************************************************)
EXTENDS UserThreads

SERVER == 5
vars == threadVars

Right(order) == (order + 1) % THREAD_COUNT

check(order) ==
  << <<"wait", order>>, <<"wait", Right(order)>>,
     <<"signal", order>>, <<"signal", Right(order)>> >>

hungry_unsignalled(order) ==
  << <<"wait", SERVER>> >> \o check(order) \o
  << <<"wait", order>>, <<"wait", Right(order)>>, <<"sleep", 0>>,
     <<"eat", order>>, <<"signal", order>>, <<"signal", Right(order)>> >>

hungry_early(order) ==
  << <<"wait", SERVER>> >> \o check(order) \o
  << <<"wait", order>>, <<"signal", order>>, <<"signal", SERVER>>,
     <<"eat", order>>, <<"wait", Right(order)>>, <<"signal", Right(order)>> >>

(* The system calls of hungry, in order. *)
hungry(order) ==
  << <<"wait", SERVER>> >> \o check(order) \o
  << <<"wait", order>>, <<"wait", Right(order)>>, <<"signal", SERVER>>,
     <<"eat", order>>, <<"signal", order>>, <<"signal", Right(order)>> >>

Init ==
  LibInit([k \in Key |-> IF k \in Thread \cup {SERVER} THEN 1 ELSE 0], 1)

thread(t) == repeat(t, hungry(t)) /\ UNCHANGED left

Next == main \/ \E t \in Thread : thread(t)

Spec == Init /\ [][Next]_vars

-----------------------------------------------------------------------------
Eating(t) == pc[t] = 9

(* Two philosophers who share a chopstick never eat at the same time. *)
NeighboursApart ==
  \A t \in Thread : Right(t) # t => ~(Eating(t) /\ Eating(Right(t)))

(* The server prevents the deadlock in which each holds one chopstick, and *)
(* the queues are fair: every philosopher at the door eats again.          *)
EveryoneEats == \A t \in Thread : (pc[t] = 1 /\ t < forked) ~> Eating(t)
=============================================================================
