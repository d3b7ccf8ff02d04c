--------------------------- MODULE MCUserPrograms ---------------------------
(***************************************************************************)
(* The user programs for model checking: the initial state chooses which   *)
(* of them runs, and its threads then run in any order.  fish and philo    *)
(* have the number of threads of the source.                               *)
(***************************************************************************)
EXTENDS UserThreads

CONSTANT COUNTERS   \* the number of threads of sem and of spin

ASSUME COUNTERSAssumption == COUNTERS \in Nat \ {0}

Counter == 0 .. COUNTERS - 1
Seat == 0 .. 4

VARIABLES
  app,                                        \* the program that runs
  queue, head, tail, reg, sent, received,     \* mq
  COUNTER, bolt, val, turns,                  \* sem and spin
  out,                                        \* fish
  typed, fifo, INPUT_BUF, dropped, popped,    \* the console, for sh
  tape, sh, fact, line, told                  \* sh

Mq == INSTANCE MessageQueue
Sem == INSTANCE SharedCounter WITH
         Lock <- "sem", THREAD_COUNT <- COUNTERS, Thread <- Counter
Spin == INSTANCE SharedCounter WITH
         Lock <- "spin", THREAD_COUNT <- COUNTERS, Thread <- Counter
Philo == INSTANCE Philosophers WITH THREAD_COUNT <- 5, Thread <- Seat
FishThree == INSTANCE Fish WITH THREAD_COUNT <- 3, Thread <- 0 .. 2

MCScript ==
  {<<"run", "app", "enter", "7", "enter", "exit", "enter">>,
   <<"run", "cat", "backspace", "app", "enter", "backspace", "exit", "enter", "exit", "enter">>,
   <<"backspace", "7", "app", "backspace", "backspace", "exit", "enter">>,
   <<"run", "app", "enter", "7", "7", "backspace", "enter">>,
   <<"cat", "app", "enter", "cat", "7", "enter", "exit">>,
   <<"enter", "run", "enter", "exit">>,
   <<"run", "7", "enter", "exit">>}

Sh == INSTANCE Shell WITH BUF_SIZE <- 2, MaxTyped <- 10, Script <- MCScript

shVars == <<typed, fifo, INPUT_BUF, dropped, popped, tape, sh, fact, line, told>>
mqVars == <<queue, head, tail, reg, sent, received>>
counterVars == <<COUNTER, bolt, val, turns>>
vars == <<threadVars, app, mqVars, counterVars, out, shVars>>

NoMq == queue = <<>> /\ head = 0 /\ tail = 0 /\ reg = <<>> /\ sent = <<>> /\ received = 0
NoCounter ==
  COUNTER = 0 /\ bolt = FALSE /\ val = <<>> /\ turns = [t \in Counter |-> 0]
NoFish == out = <<>>
NoShell ==
  /\ typed = 0 /\ fifo = <<>> /\ INPUT_BUF = <<>> /\ dropped = {} /\ popped = <<>>
  /\ tape = <<>> /\ sh = "none" /\ fact = "none" /\ line = <<>> /\ told = <<>>
NoThreads == LibInit([k \in Key |-> 0], "begin")

Init ==
  \/ app = "mq" /\ Mq!Init /\ NoCounter /\ NoFish /\ NoShell
  \/ app = "sem" /\ Sem!Init /\ NoMq /\ NoFish /\ NoShell
  \/ app = "spin" /\ Spin!Init /\ NoMq /\ NoFish /\ NoShell
  \/ app = "philo" /\ Philo!Init /\ NoMq /\ NoCounter /\ NoFish /\ NoShell
  \/ app = "fish" /\ FishThree!Init /\ NoMq /\ NoCounter /\ NoShell
  \/ app = "sh" /\ Sh!ShellInit /\ NoThreads /\ NoMq /\ NoCounter /\ NoFish

RunMq    == app = "mq" /\ Mq!Next /\ UNCHANGED <<app, counterVars, out, shVars>>
RunSem   == app = "sem" /\ Sem!Next /\ UNCHANGED <<app, mqVars, out, shVars>>
RunSpin  == app = "spin" /\ Spin!Next /\ UNCHANGED <<app, mqVars, out, shVars>>
RunPhilo == app = "philo" /\ Philo!Next /\ UNCHANGED <<app, mqVars, counterVars, out, shVars>>
RunFish  == app = "fish" /\ FishThree!Next /\ UNCHANGED <<app, mqVars, counterVars, shVars>>
RunShell == app = "sh" /\ Sh!ShellNext /\ UNCHANGED <<app, threadVars, mqVars, counterVars, out>>

Next == RunMq \/ RunSem \/ RunSpin \/ RunPhilo \/ RunFish \/ RunShell

(* A step of one thread, or of main, in whichever program runs. *)
Of(t) ==
  \/ app = "mq" /\ t \in Thread /\ Mq!thread(t) /\ UNCHANGED <<app, counterVars, out, shVars>>
  \/ app = "sem" /\ t \in Counter /\ Sem!thread(t) /\ UNCHANGED <<app, mqVars, out, shVars>>
  \/ app = "spin" /\ t \in Counter /\ Spin!thread(t) /\ UNCHANGED <<app, mqVars, out, shVars>>
  \/ app = "philo" /\ t \in Seat /\ Philo!thread(t) /\ UNCHANGED <<app, mqVars, counterVars, out, shVars>>
  \/ app = "fish" /\ t \in 0 .. 2 /\ FishThree!thread(t) /\ UNCHANGED <<app, mqVars, counterVars, shVars>>

OfMain ==
  /\ \/ app = "mq" /\ main
     \/ app \in {"sem", "spin"} /\ Sem!main
     \/ app = "philo" /\ Philo!main
     \/ app = "fish" /\ FishThree!main
  /\ UNCHANGED <<app, mqVars, counterVars, out, shVars>>

Spec == Init /\ [][Next]_vars

(* A step of the kind given, of sh, its program or the console. *)
OfShell(action) ==
  /\ app = "sh" /\ ~Sh!Halted
  /\ action
  /\ UNCHANGED <<app, threadVars, mqVars, counterVars, out>>

(* Every ready process is eventually resumed (ReadyRuns of the process     *)
(* manager), so no thread that can run is neglected for ever.              *)
FairSpec ==
  /\ Spec
  /\ WF_vars(OfMain)
  /\ \A t \in Thread \cup Counter \cup Seat : WF_vars(Of(t))
  /\ WF_vars(OfShell(Sh!keyboard)) /\ WF_vars(OfShell(Sh!serial_handler))
  /\ WF_vars(OfShell(Sh!Interactive)) /\ WF_vars(OfShell(Sh!Program))

-----------------------------------------------------------------------------
(* sh and the program it runs read the lines that were typed for them.     *)
LinesFaithful == app = "sh" => Sh!LinesFaithful

(* mq: no message is overwritten before it is taken out, none is taken     *)
(* twice (MessageQueue).                                                   *)
RingKeepsMessages == app = "mq" => Mq!RingKeepsMessages

(* mq: the units of EMPTY and FULL account for the ring (MessageQueue).    *)
UnitsConserved == app = "mq" => Mq!UnitsConserved

(* sem and spin: at most one thread is in inc_counter (SharedCounter).     *)
MutualExclusion == app \in {"sem", "spin"} => Sem!MutualExclusion

(* sem and spin implement a counter with atomic increments                 *)
(* (SharedCounter).  The other programs leave it alone.                    *)
NoLostUpdate == Sem!NoLostUpdate

(* philo: neighbours never eat at the same time (Philosophers). *)
NeighboursApart == app = "philo" => Philo!NeighboursApart

(* fish: whole fish between two underscores (Fish). *)
WholeFish == app = "fish" => FishThree!WholeFish

(* Under the fairness of the scheduler each program reaches its end: mq,   *)
(* sem and spin return from main with every message taken and with         *)
(* every increment in the counter; fish prints all it has to print and is  *)
(* then stuck in main's first wait_pid; sh reads all that is typed and not *)
(* refused, unless it has left or made the kernel panic.                   *)
ProgramsEnd ==
  /\ app = "mq" ~> [](MainDone /\ Mq!AllTaken)
  /\ app \in {"sem", "spin"} ~> [](Sem!MainDone /\ COUNTER = COUNTERS * ROUNDS)
  /\ app = "fish" ~> []FishThree!Stranded
  /\ app = "sh" ~> []Sh!ShellReads

(* philo: nobody starves (Philosophers). *)
EveryoneEats ==
  \A t \in Seat : (app = "philo" /\ pc[t] = 1 /\ t < forked) ~>
                   (app = "philo" /\ pc[t] = 9)
=============================================================================
