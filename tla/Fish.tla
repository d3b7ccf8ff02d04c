-------------------------------- MODULE Fish --------------------------------
(***************************************************************************)
(* The program fish: three threads print "<", ">" and "_" in turns fixed   *)
(* by four semaphores.  The first two never end; the third prints ROUNDS   *)
(* times and exits.                                                        *)
(***************************************************************************)
EXTENDS UserThreads

VARIABLE out   \* the characters printed

vars == <<threadVars, out>>

print_0 ==
  << <<"wait", 0>>, <<"wait", 3>>, <<"print", "<">>,
     <<"signal", 1>>, <<"signal", 2>> >>

print_1 ==
  << <<"wait", 1>>, <<"wait", 3>>, <<"print", ">">>,
     <<"signal", 0>>, <<"signal", 2>> >>

print_2_early ==
  << <<"wait", 2>>, <<"wait", 2>>, <<"print", "_">>, <<"wait", 2>>,
     <<"signal", 3>>, <<"signal", 3>>, <<"signal", 3>> >>

print_2 ==
  << <<"wait", 2>>, <<"wait", 2>>, <<"wait", 2>>, <<"print", "_">>,
     <<"signal", 3>>, <<"signal", 3>>, <<"signal", 3>> >>

Script(t) == CASE t = 0 -> print_0 [] t = 1 -> print_1 [] OTHER -> print_2

Init ==
  /\ LibInit([k \in Key |-> CASE k = 0 -> 1 [] k = 2 -> 3 [] OTHER -> 0], 1)
  /\ out = <<>>

(* A step of a print function.  Only the third thread counts its turns. *)
step(t) ==
  /\ repeat(t, Script(t))
  /\ IF t = 2 /\ pc[t] = 1 THEN turn(t) ELSE UNCHANGED left
  /\ LET op == Script(t)[pc[t]]
     IN out' = IF op[1] = "print" THEN Append(out, op[2]) ELSE out

exit_2 ==
  /\ At(2, 1) /\ left[2] = 0
  /\ sys_exit(2)
  /\ UNCHANGED <<pc, left, out>>

thread(t) == step(t) \/ (t = 2 /\ exit_2)

Next ==
  \/ main /\ UNCHANGED out
  \/ \E t \in Thread : thread(t)

Spec == Init /\ [][Next]_vars

-----------------------------------------------------------------------------
(* What the threads print is whole fish: between two underscores exactly   *)
(* one "<><" or one "><>", in alternation.                                 *)
Pattern == <<"_", "<", ">", "<", "_", ">", "<", ">">>
WholeFish == \A i \in 1 .. Len(out) : out[i] = Pattern[((i - 1) % 8) + 1]

(* Where fish ends: everything is printed, the first two threads wait for  *)
(* ever, and so main never returns from waiting for the first of them.     *)
Stranded ==
  /\ Len(out) = 4 * ROUNDS
  /\ exited = {2}
  /\ wait_queue[3] # <<>>
  /\ ~MainDone
=============================================================================
