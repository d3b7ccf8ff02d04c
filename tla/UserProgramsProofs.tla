------------------------- MODULE UserProgramsProofs -------------------------
(***************************************************************************)
(* The user programs stay correct however the scheduler interleaves their  *)
(* threads: while a program runs, the invariant that ThreadProofs or       *)
(* QueueProofs shows of it holds.                                   *)
(***************************************************************************)
EXTENDS MCUserPrograms, TLAPS

(* The program that runs is chosen once. *)
LEMMA AppStays == [Next]_vars => app' = app
BY DEF Next, vars, RunMq, RunSem, RunSpin, RunPhilo, RunFish, RunShell

-----------------------------------------------------------------------------
(* mq: the invariant of QueueProofs holds while mq runs.            *)

Queues == INSTANCE QueueProofs WITH BUF_SIZE <- 2, MaxTyped <- 10, Script <- MCScript

(* The constants of mq are those of the module, those of sh numbers.       *)
LEMMA MqConstants == Queues!UserThreadsAssumption /\ Queues!ConsoleAssumption
BY SMTT(30), UserThreadsAssumption DEF Queues!UserThreadsAssumption, Queues!ConsoleAssumption

(* The programs' initial state and steps are those of MessageQueue.        *)
LEMMA MqStarts == app = "mq" /\ Init => Queues!Init
BY DEF Init, Mq!Init, Queues!Init, Mq!LibInit, Queues!LibInit, Mq!Key, Queues!Key,
   Mq!EMPTY, Queues!EMPTY, Mq!WRITE_MUTEX, Queues!WRITE_MUTEX, Mq!MAX_MESSAGE_COUNT,
   Queues!MAX_MESSAGE_COUNT, Mq!Slot, Queues!Slot, Mq!MQ_SIZE, Queues!MQ_SIZE

(* Every step while mq runs is a step of MessageQueue or none.             *)
LEMMA MqMoves == app = "mq" /\ [Next]_vars => [Queues!Next]_Queues!vars
<1>1. Mq!main /\ UNCHANGED Mq!mqVars => Queues!main /\ UNCHANGED Queues!mqVars
  BY ZenonT(30) DEF Mq!main, Queues!main, Mq!fork, Queues!fork, Mq!join, Queues!join,
     Mq!mqVars, Queues!mqVars
<1>2. ASSUME NEW t PROVE Mq!thread(t) => Queues!thread(t)
  BY ZenonT(30) DEF
     Mq!thread, Queues!thread, Mq!begin, Queues!begin, Mq!mutex, Queues!mutex,
     Mq!write_message, Queues!write_message, Mq!read_message, Queues!read_message,
     Mq!load, Queues!load, Mq!store, Queues!store, Mq!unlock, Queues!unlock,
     Mq!post, Queues!post, Mq!exit, Queues!exit, Mq!sys_exit, Queues!sys_exit,
     Mq!wait, Queues!wait, Mq!signal, Queues!signal, Mq!turn, Queues!turn,
     Mq!At, Queues!At, Mq!Goto, Queues!Goto, Mq!Running, Queues!Running,
     Mq!Key, Queues!Key, Mq!Range, Queues!Range, Mq!mqVars, Queues!mqVars,
     Mq!libVars, Queues!libVars, Mq!Needs, Queues!Needs, Mq!Feeds, Queues!Feeds,
     Mq!IsWriter, Queues!IsWriter, Mq!EMPTY, Queues!EMPTY, Mq!FULL, Queues!FULL,
     Mq!WRITE_MUTEX, Queues!WRITE_MUTEX, Mq!Message, Queues!Message,
     Mq!MAX_MESSAGE_COUNT, Queues!MAX_MESSAGE_COUNT, Mq!Successor, Queues!Successor,
     Mq!MQ_SIZE, Queues!MQ_SIZE
<1>3. Mq!Next => Queues!Next
  BY ZenonT(30), <1>1, <1>2 DEF Mq!Next, Queues!Next
<1>4. UNCHANGED vars => UNCHANGED Queues!vars
  BY DEF vars, Queues!vars, threadVars, Queues!threadVars, mqVars, Queues!mqVars,
     libVars, Queues!libVars
<1> QED
  BY ZenonT(30), <1>3, <1>4 DEF Next, RunMq, RunSem, RunSpin, RunPhilo, RunFish, RunShell

(* mq runs, and its invariant holds.                                       *)
RingInv == app = "mq" => Queues!MqInv

(* The invariant of mq holds initially.                                    *)
LEMMA RingInit == Init => RingInv
BY ZenonT(30), MqConstants, MqStarts, Queues!MqInit DEF RingInv

(* Every step keeps the invariant of mq.                                   *)
LEMMA RingStep == RingInv /\ [Next]_vars => RingInv'
BY ZenonT(30), MqConstants, MqMoves, Queues!MqStep, AppStays DEF RingInv

(* mq: no message is overwritten before it is taken out, and none is taken *)
(* out twice, for any number of writers and readers and a ring of any      *)
(* size.                                                                   *)
THEOREM MessagesKept == Spec => []RingKeepsMessages
<1>1. RingInv => RingKeepsMessages
  BY ZenonT(30) DEF RingInv, Queues!MqInv, Queues!RingPart, RingKeepsMessages,
     Queues!RingKeepsMessages, Mq!RingKeepsMessages, Queues!MQ_SIZE, Mq!MQ_SIZE,
     Queues!MAX_MESSAGE_COUNT, Mq!MAX_MESSAGE_COUNT
<1> QED
  BY <1>1, RingInit, RingStep, PTL DEF Spec

(* mq: the units of EMPTY and FULL, with those in the hands of threads,    *)
(* are always MAX_MESSAGE_COUNT.                                           *)
THEOREM UnitsAccounted == Spec => []UnitsConserved
<1>1. RingInv => UnitsConserved
  <2>1. Queues!MqInv => Queues!UnitsConserved
    BY ZenonT(30), MqConstants, Queues!UnitsFollow
  <2> QED
    BY ZenonT(30), <2>1 DEF RingInv, UnitsConserved, Queues!UnitsConserved, Mq!UnitsConserved,
       Queues!Between, Mq!Between, Queues!Needs, Mq!Needs, Queues!IsWriter, Mq!IsWriter,
       Queues!EMPTY, Mq!EMPTY, Queues!FULL, Mq!FULL, Queues!MAX_MESSAGE_COUNT,
       Mq!MAX_MESSAGE_COUNT, Queues!Range, Mq!Range, Queues!Cardinality, Mq!Cardinality
<1> QED
  BY <1>1, RingInit, RingStep, PTL DEF Spec

-----------------------------------------------------------------------------
(* sh: the invariant of QueueProofs.                                       *)

(* The initial states of sh are those of Shell.                            *)
LEMMA ShStarts == app = "sh" /\ Init => Queues!ShellInit
BY ZenonT(30) DEF Init, Sh!ShellInit, Queues!ShellInit, Sh!ConsoleInit, Queues!ConsoleInit,
   Sh!PortInit, Queues!PortInit

(* Every step while sh runs is a step of Shell or none.                    *)
LEMMA ShMoves == app = "sh" /\ [Next]_vars => [Queues!ShellNext]_Queues!shVars
<1>1. Sh!ShellNext => Queues!ShellNext
  BY ZenonT(30) DEF
     Sh!ShellNext, Queues!ShellNext, Sh!Halted, Queues!Halted, Sh!keyboard, Queues!keyboard,
     Sh!serial_handler, Queues!serial_handler, Sh!Interactive, Queues!Interactive,
     Sh!Program, Queues!Program, Sh!prompt, Queues!prompt, Sh!read, Queues!read,
     Sh!command, Queues!command, Sh!wait_pid, Queues!wait_pid, Sh!fact_start, Queues!fact_start,
     Sh!fact_read, Queues!fact_read, Sh!fact_exit, Queues!fact_exit, Sh!read_line,
     Queues!read_line, Sh!edit, Queues!edit, Sh!NextStep, Queues!NextStep, Sh!Op, Queues!Op,
     Sh!HasPath, Queues!HasPath, Sh!File, Queues!File, Sh!type, Queues!type, Sh!receive,
     Queues!receive, Sh!push_key, Queues!push_key, Sh!try_pop_key, Queues!try_pop_key,
     Sh!shellVars, Queues!shellVars, Sh!consoleVars, Queues!consoleVars
<1>2. UNCHANGED vars => UNCHANGED Queues!shVars
  BY ZenonT(30) DEF vars, shVars, Queues!shVars, Queues!consoleVars, Queues!shellVars
<1> QED
  BY ZenonT(30), <1>1, <1>2 DEF Next, RunMq, RunSem, RunSpin, RunPhilo, RunFish, RunShell

(* sh runs, and its invariant holds.                                       *)
LineInv == app = "sh" => Queues!ShellInv

(* sh and the program it runs read the lines that were typed for them.     *)
THEOREM LinesTold == Spec => []LinesFaithful
<1>1. Init => LineInv
  BY ZenonT(30), MqConstants, ShStarts, Queues!ShellStarts DEF LineInv
<1>2. LineInv /\ [Next]_vars => LineInv'
  BY ZenonT(30), MqConstants, ShMoves, Queues!ShellMoves, AppStays DEF LineInv
<1>3. LineInv => LinesFaithful
  <2>1. Queues!ShellInv => Queues!LinesFaithful
    BY ZenonT(30), MqConstants, Queues!ShellFollows
  <2>2. Queues!LinesFaithful => Sh!LinesFaithful
    BY ZenonT(30) DEF Queues!LinesFaithful, Sh!LinesFaithful, Queues!Ends, Sh!Ends, Queues!Keys,
       Sh!Keys, Queues!Since, Sh!Since, Queues!Edited, Sh!Edited, Queues!Kept, Sh!Kept,
       Queues!Erased, Sh!Erased, Queues!Runs, Sh!Runs, Queues!File, Sh!File,
       Queues!Cardinality, Sh!Cardinality
  <2> QED
    BY ZenonT(30), <2>1, <2>2 DEF LineInv, LinesFaithful
<1> QED
  BY <1>1, <1>2, <1>3, PTL DEF Spec

-----------------------------------------------------------------------------
(* philo: the invariant of ThreadProofs.                                   *)

Threads == INSTANCE ThreadProofs WITH
             Lock <- "sem", THREAD_COUNT <- COUNTERS, Thread <- Counter

(* The constants of the threads satisfy the assumption of their module.    *)
LEMMA ThreadsConstants == Threads!UserThreadsAssumption
BY ZenonT(30), COUNTERSAssumption, UserThreadsAssumption DEF Threads!UserThreadsAssumption, Counter

(* The initial state and the steps of philo are those of Philosophers.     *)
LEMMA PhiloStarts == app = "philo" /\ Init => Threads!Philo!Init
BY ZenonT(30) DEF Init, Philo!Init, Threads!Philo!Init, Philo!LibInit, Threads!Philo!LibInit,
   Philo!Key, Threads!Philo!Key, Philo!SERVER, Threads!Philo!SERVER, Seat, Threads!Seat

(* Every step while philo runs is a step of Philosophers or none.          *)
LEMMA PhiloMoves ==
  app = "philo" /\ [Next]_vars => [Threads!Philo!Next]_Threads!Philo!vars
<1>1. Philo!main => Threads!Philo!main
  BY ZenonT(30) DEF Philo!main, Threads!Philo!main, Philo!fork, Threads!Philo!fork, Philo!join,
     Threads!Philo!join
<1>2. ASSUME NEW t PROVE Philo!thread(t) => Threads!Philo!thread(t)
  BY ZenonT(30) DEF Philo!thread, Threads!Philo!thread, Philo!hungry, Threads!Philo!hungry,
     Philo!check, Threads!Philo!check, Philo!SERVER, Threads!Philo!SERVER, Philo!Right,
     Threads!Philo!Right, Philo!repeat, Threads!Philo!repeat, Philo!Running,
     Threads!Philo!Running, Philo!Key, Threads!Philo!Key, Philo!Range, Threads!Philo!Range,
     Philo!wait, Threads!Philo!wait, Philo!signal, Threads!Philo!signal, Philo!Goto,
     Threads!Philo!Goto, Philo!libVars, Threads!Philo!libVars
<1>3. Philo!Next => Threads!Philo!Next
  BY ZenonT(30), <1>1, <1>2 DEF Philo!Next, Threads!Philo!Next, Seat, Threads!Seat
<1>4. UNCHANGED vars => UNCHANGED Threads!Philo!vars
  BY ZenonT(30) DEF vars, Threads!Philo!vars, threadVars, Threads!Philo!threadVars, libVars,
     Threads!Philo!libVars
<1> QED
  BY ZenonT(30), <1>3, <1>4 DEF Next, RunMq, RunSem, RunSpin, RunPhilo, RunFish, RunShell

(* philo runs, and its semaphores are locks.                               *)
PhiloInv == app = "philo" => Threads!PhiloPart

(* philo: two philosophers who share a chopstick never eat at once: each   *)
(* chopstick is a lock, whatever the server and the scheduler do.          *)
THEOREM ChopsticksExclude == Spec => []NeighboursApart
<1>1. Init => PhiloInv
  BY ZenonT(30), ThreadsConstants, PhiloStarts, Threads!PhiloInit DEF PhiloInv
<1>2. PhiloInv /\ [Next]_vars => PhiloInv'
  BY ZenonT(30), ThreadsConstants, PhiloMoves, Threads!PhiloStep, AppStays DEF PhiloInv
<1>3. PhiloInv => NeighboursApart
  <2>1. Threads!PhiloPart => Threads!Philo!NeighboursApart
    BY ZenonT(30), ThreadsConstants, Threads!PhiloApart
  <2> QED
    BY ZenonT(30), <2>1 DEF PhiloInv, NeighboursApart, Philo!NeighboursApart,
       Threads!Philo!NeighboursApart, Philo!Eating, Threads!Philo!Eating, Philo!Right,
       Threads!Philo!Right, Seat, Threads!Seat
<1> QED
  BY <1>1, <1>2, <1>3, PTL DEF Spec

-----------------------------------------------------------------------------
(* fish: the invariant of ThreadProofs.                                    *)

(* The initial state and the steps of fish are those of Fish.              *)
LEMMA FishStarts == app = "fish" /\ Init => Threads!FishThree!Init
BY ZenonT(30) DEF Init, FishThree!Init, Threads!FishThree!Init, FishThree!LibInit,
   Threads!FishThree!LibInit, FishThree!Key, Threads!FishThree!Key

(* Every step while fish runs is a step of Fish or none.                   *)
LEMMA FishMoves ==
  app = "fish" /\ [Next]_vars => [Threads!FishThree!Next]_Threads!FishThree!vars
<1>1. FishThree!main => Threads!FishThree!main
  BY ZenonT(30) DEF FishThree!main, Threads!FishThree!main, FishThree!fork, Threads!FishThree!fork,
     FishThree!join, Threads!FishThree!join
<1>2. ASSUME NEW t PROVE FishThree!step(t) => Threads!FishThree!step(t)
  BY ZenonT(30) DEF FishThree!step, Threads!FishThree!step, FishThree!Script,
     Threads!FishThree!Script, FishThree!print_0, Threads!FishThree!print_0,
     FishThree!print_1, Threads!FishThree!print_1, FishThree!print_2,
     Threads!FishThree!print_2, FishThree!repeat, Threads!FishThree!repeat, FishThree!turn,
     Threads!FishThree!turn, FishThree!Running, Threads!FishThree!Running, FishThree!Key,
     Threads!FishThree!Key, FishThree!Range, Threads!FishThree!Range, FishThree!wait,
     Threads!FishThree!wait, FishThree!signal, Threads!FishThree!signal, FishThree!Goto,
     Threads!FishThree!Goto, FishThree!libVars, Threads!FishThree!libVars
<1>3. FishThree!exit_2 => Threads!FishThree!exit_2
  BY ZenonT(30) DEF FishThree!exit_2, Threads!FishThree!exit_2, FishThree!sys_exit,
     Threads!FishThree!sys_exit, FishThree!At, Threads!FishThree!At, FishThree!Running,
     Threads!FishThree!Running, FishThree!Key, Threads!FishThree!Key, FishThree!Range,
     Threads!FishThree!Range
<1>4. FishThree!Next => Threads!FishThree!Next
  BY ZenonT(30), <1>1, <1>2, <1>3 DEF FishThree!Next, Threads!FishThree!Next, FishThree!thread,
     Threads!FishThree!thread
<1>5. UNCHANGED vars => UNCHANGED Threads!FishThree!vars
  BY ZenonT(30) DEF vars, Threads!FishThree!vars, threadVars, Threads!FishThree!threadVars, libVars,
     Threads!FishThree!libVars
<1> QED
  BY ZenonT(30), <1>4, <1>5 DEF Next, RunMq, RunSem, RunSpin, RunPhilo, RunFish, RunShell

(* fish runs and has printed whole fish so far.                            *)
FishInv == app = "fish" => Threads!FishPart

(* fish: what the threads print is whole fish, however the scheduler       *)
(* interleaves them and for any number of rounds.                          *)
THEOREM FishWhole == Spec => []WholeFish
<1>1. Init => FishInv
  BY ZenonT(30), ThreadsConstants, FishStarts, Threads!FishInit DEF FishInv
<1>2. FishInv /\ [Next]_vars => FishInv'
  BY ZenonT(30), ThreadsConstants, FishMoves, Threads!FishStep, AppStays DEF FishInv
<1>3. Threads!FishThree!WholeFish => FishThree!WholeFish
  BY ZenonT(30) DEF FishThree!WholeFish, Threads!FishThree!WholeFish, FishThree!Pattern,
     Threads!FishThree!Pattern
<1>4. FishInv => WholeFish
  BY ZenonT(30), <1>3 DEF FishInv, Threads!FishPart, WholeFish
<1> QED
  BY <1>1, <1>2, <1>4, PTL DEF Spec

-----------------------------------------------------------------------------
(* sem and spin: the invariant of ThreadProofs.                            *)

(* The initial state and the steps of sem are those of SharedCounter.      *)
LEMMA SemInit == app = "sem" /\ Init => Threads!Init
BY ZenonT(30) DEF Init, Sem!Init, Threads!Init, Sem!LibInit, Threads!LibInit, Sem!SEM, Threads!SEM,
   Sem!Key, Threads!Key

(* Every step while sem runs is a step of SharedCounter or none.           *)
LEMMA SemStep == app = "sem" /\ [Next]_vars => [Threads!Next]_Threads!vars
<1>1. Sem!Next => Threads!Next
  BY ZenonT(30) DEF
     Sem!Next, Threads!Next, Sem!thread, Threads!thread, Sem!lock, Threads!lock,
     Sem!load, Threads!load, Sem!store, Threads!store, Sem!unlock, Threads!unlock,
     Sem!exit, Threads!exit, Sem!main, Threads!main, Sem!fork, Threads!fork, Sem!join,
     Threads!join, Sem!sys_exit, Threads!sys_exit, Sem!acquire, Threads!acquire,
     Sem!release, Threads!release, Sem!wait, Threads!wait, Sem!signal, Threads!signal,
     Sem!turn, Threads!turn, Sem!At, Threads!At, Sem!Goto, Threads!Goto, Sem!Running,
     Threads!Running, Sem!counterVars, Threads!counterVars, Sem!libVars,
     Threads!libVars, Sem!SEM, Threads!SEM, Sem!Key, Threads!Key, Sem!Range,
     Threads!Range
<1>2. UNCHANGED vars => UNCHANGED Threads!vars
  BY ZenonT(30) DEF vars, Threads!vars, threadVars, Threads!threadVars, counterVars,
     Threads!counterVars, libVars, Threads!libVars
<1> QED
  BY ZenonT(30), <1>1, <1>2 DEF Next, RunMq, RunSem, RunSpin, RunPhilo, RunFish, RunShell

Spinning == INSTANCE ThreadProofs WITH
              Lock <- "spin", THREAD_COUNT <- COUNTERS, Thread <- Counter

(* The same for the constants of spin.                                     *)
LEMMA SpinningConstants == Spinning!UserThreadsAssumption
BY Zenon, COUNTERSAssumption, UserThreadsAssumption DEF Spinning!UserThreadsAssumption, Counter

(* The initial state and the steps of spin are those of SharedCounter.     *)
LEMMA SpinInit == app = "spin" /\ Init => Spinning!Init
BY ZenonT(30) DEF Init, Spin!Init, Spinning!Init, Spin!LibInit, Spinning!LibInit, Spin!SEM, Spinning!SEM,
   Spin!Key, Spinning!Key

(* Every step while spin runs is a step of SharedCounter or none.          *)
LEMMA SpinStep == app = "spin" /\ [Next]_vars => [Spinning!Next]_Spinning!vars
<1>1. Spin!Next => Spinning!Next
  BY ZenonT(30) DEF
     Spin!Next, Spinning!Next, Spin!thread, Spinning!thread, Spin!lock, Spinning!lock,
     Spin!load, Spinning!load, Spin!store, Spinning!store, Spin!unlock,
     Spinning!unlock, Spin!exit, Spinning!exit, Spin!main, Spinning!main, Spin!fork,
     Spinning!fork, Spin!join, Spinning!join, Spin!sys_exit, Spinning!sys_exit,
     Spin!acquire, Spinning!acquire, Spin!release, Spinning!release, Spin!wait,
     Spinning!wait, Spin!signal, Spinning!signal, Spin!turn, Spinning!turn, Spin!At,
     Spinning!At, Spin!Goto, Spinning!Goto, Spin!Running, Spinning!Running,
     Spin!counterVars, Spinning!counterVars, Spin!libVars, Spinning!libVars, Spin!SEM,
     Spinning!SEM, Spin!Key, Spinning!Key, Spin!Range, Spinning!Range
<1>2. UNCHANGED vars => UNCHANGED Spinning!vars
  BY ZenonT(30) DEF vars, Spinning!vars, threadVars, Spinning!threadVars, counterVars,
     Spinning!counterVars, libVars, Spinning!libVars
<1> QED
  BY ZenonT(30), <1>1, <1>2 DEF Next, RunMq, RunSem, RunSpin, RunPhilo, RunFish, RunShell

(* sem or spin runs, and its invariant holds.                              *)
CounterInv ==
  /\ app = "sem" => Threads!IInv
  /\ app = "spin" => Spinning!IInv

(* The invariant of sem or spin holds initially.                           *)
LEMMA CounterInit == Init => CounterInv
BY ZenonT(30), ThreadsConstants, SpinningConstants, SemInit, SpinInit, Threads!InitInv,
   Spinning!InitInv DEF CounterInv

(* A step of sem or spin keeps it, and is an atomic increment or none.     *)
LEMMA CounterStep ==
  ASSUME CounterInv, [Next]_vars
  PROVE  /\ CounterInv'
         /\ app = "sem" => [Threads!Atomic!Next]_<<COUNTER, turns>>
         /\ app = "spin" => [Spinning!Atomic!Next]_<<COUNTER, turns>>
BY ZenonT(30), ThreadsConstants, SpinningConstants, SemStep, SpinStep, Threads!StepInv,
   Spinning!StepInv, AppStays
   DEF CounterInv

(* sem and spin: at most one thread is between lock and unlock, for any    *)
(* number of threads and of rounds.                                        *)
THEOREM CounterExcludes == Spec => []MutualExclusion
<1>1. CounterInv => MutualExclusion
  BY ZenonT(30) DEF CounterInv, MutualExclusion, Threads!IInv, Spinning!IInv, Threads!MutualExclusion,
   Spinning!MutualExclusion, Sem!MutualExclusion, Threads!Inside, Spinning!Inside, Sem!Inside,
    Threads!Critical, Spinning!Critical, Sem!Critical, Threads!Key, Spinning!Key, Sem!Key,
    Threads!Range, Spinning!Range, Sem!Range
<1>2. CounterInv /\ [Next]_vars => CounterInv'
  BY ZenonT(30), CounterStep
<1> QED
  BY <1>1, <1>2, CounterInit, PTL DEF Spec

(* sem and spin: the load and the store of COUNTER behave as one atomic    *)
(* increment, so no update is lost, for any number of threads and rounds.  *)
THEOREM CounterAtomic == Spec => NoLostUpdate
<1>1. Init => Sem!Atomic!Init
  BY ZenonT(30) DEF Init, Sem!Init, Spin!Init, NoCounter, Sem!Atomic!Init
<1>2. CounterInv /\ [Next]_vars => CounterInv'
  BY ZenonT(30), CounterStep
<1>3. CounterInv /\ [Next]_vars => [Sem!Atomic!Next]_<<COUNTER, turns>>
  <2> SUFFICES ASSUME CounterInv, [Next]_vars
               PROVE  [Sem!Atomic!Next]_<<COUNTER, turns>>
    BY ZenonT(30)
  <2>1. CASE app \in {"sem", "spin"}
    BY ZenonT(30), <2>1, CounterStep DEF Threads!Atomic!Next, Spinning!Atomic!Next, Sem!Atomic!Next,
      Threads!Atomic!Increment, Spinning!Atomic!Increment, Sem!Atomic!Increment
  <2>2. CASE app \notin {"sem", "spin"}
    BY ZenonT(30), <2>2 DEF Next, vars, counterVars, RunMq, RunSem, RunSpin, RunPhilo, RunFish, RunShell
  <2> QED
    BY ZenonT(30), <2>1, <2>2
<1> QED
  BY <1>1, <1>2, <1>3, CounterInit, PTL DEF Spec, NoLostUpdate, Sem!NoLostUpdate, Sem!Atomic!Spec
=============================================================================
