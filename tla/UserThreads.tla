---------------------------- MODULE UserThreads ----------------------------
(***************************************************************************)
(* What the user programs that fork into threads see of the kernel: the    *)
(* main thread forks THREAD_COUNT threads and then waits for each of them  *)
(* in turn, and all share the semaphores of one family.  A thread may be   *)
(* preempted between any two of its instructions.                          *)
(*                                                                         *)
(* A semaphore behaves as in ProcessManager: a signal hands the unit to    *)
(* the first of the waiting threads, and that thread's wait returns.       *)
(* The programs are MessageQueue (mq), SharedCounter (sem and spin),       *)
(* Philosophers (philo) and Fish (fish).                                   *)
(***************************************************************************)
EXTENDS Integers, Sequences, Functions

CONSTANTS
  THREAD_COUNT,   \* the number of threads the main thread forks
  Thread,         \* the threads, numbered as by main's loop variable
  ROUNDS          \* the turns a thread makes of its loop, where it ends

ASSUME UserThreadsAssumption ==
  /\ THREAD_COUNT \in Nat \ {0}
  /\ Thread = 0 .. THREAD_COUNT - 1
  /\ ROUNDS \in Nat \ {0}

VARIABLES
  forked,         \* the number of threads forked so far
  joined,         \* the number of threads the main thread has waited for
  exited,         \* the threads that have exited
  count,          \* the units of each semaphore
  wait_queue,     \* the threads blocked on it, first come first served
  pc,             \* the next step of each thread
  left            \* turns of its loop the thread has yet to begin

libVars == <<forked, joined, exited, count, wait_queue>>
threadVars == <<libVars, pc, left>>

Key == 0 .. 5   \* the keys the programs use
Value == [Key -> Nat]

LibTypeOK ==
  /\ forked \in 0 .. THREAD_COUNT
  /\ joined \in 0 .. THREAD_COUNT
  /\ exited \in SUBSET Thread
  /\ count \in Value
  /\ wait_queue \in [Key -> Seq(Thread)]
  /\ left \in [Thread -> 0 .. ROUNDS]

(* The main thread after Semaphore::init of every semaphore. *)
LibInit(value, start) ==
  /\ forked = 0
  /\ joined = 0
  /\ exited = {}
  /\ count = value
  /\ wait_queue = [k \in Key |-> <<>>]
  /\ pc = [t \in Thread |-> start]
  /\ left = [t \in Thread |-> ROUNDS]

(* The thread executes user code: it is forked, and not blocked in a wait. *)
Running(t) ==
  /\ t < forked
  /\ t \notin exited
  /\ \A k \in Key : t \notin Range(wait_queue[k])

At(t, label) == Running(t) /\ pc[t] = label
Goto(t, label) == pc' = [pc EXCEPT ![t] = label]

(* Semaphore::wait.  The caller goes on, or blocks until a signal. *)
wait(t, k) ==
  /\ IF count[k] > 0
     THEN /\ count' = [count EXCEPT ![k] = @ - 1]
          /\ UNCHANGED wait_queue
     ELSE /\ wait_queue' = [wait_queue EXCEPT ![k] = Append(@, t)]
          /\ UNCHANGED count
  /\ UNCHANGED <<forked, joined, exited>>

signal_both(k) ==
  /\ count' = [count EXCEPT ![k] = @ + 1]
  /\ wait_queue' = [wait_queue EXCEPT ![k] = IF @ = <<>> THEN @ ELSE Tail(@)]
  /\ UNCHANGED <<forked, joined, exited>>

(* Semaphore::signal.  A unit given to a waiting thread is not counted. *)
signal(k) ==
  /\ IF wait_queue[k] = <<>>
     THEN /\ count' = [count EXCEPT ![k] = @ + 1]
          /\ UNCHANGED wait_queue
     ELSE /\ wait_queue' = [wait_queue EXCEPT ![k] = Tail(@)]
          /\ UNCHANGED count
  /\ UNCHANGED <<forked, joined, exited>>

sys_exit(t) ==
  /\ exited' = exited \cup {t}
  /\ UNCHANGED <<forked, joined, count, wait_queue>>

(* One turn of the loop of sys_fork in main. *)
fork ==
  /\ forked < THREAD_COUNT
  /\ forked' = forked + 1
  /\ UNCHANGED <<joined, exited, count, wait_queue>>

(* One turn of the loop of sys_wait_pid in main, taken once the thread has *)
(* exited: until then main is blocked.                                     *)
join ==
  /\ forked = THREAD_COUNT
  /\ joined < THREAD_COUNT
  /\ joined \in exited
  /\ joined' = joined + 1
  /\ UNCHANGED <<forked, exited, count, wait_queue>>

main == (fork \/ join) /\ UNCHANGED <<pc, left>>

(* A turn of the thread's loop begins; after the last one the thread exits *)
(* with sys_exit(0).                                                       *)
turn(t) ==
  /\ left[t] > 0
  /\ left' = [left EXCEPT ![t] = @ - 1]

exit(t) ==
  /\ At(t, "begin") /\ left[t] = 0
  /\ sys_exit(t)
  /\ UNCHANGED <<pc, left>>

(* The next step of a thread that repeats a fixed list of operations, each *)
(* a wait, a signal or something the semaphores do not see.                *)
repeat(t, script) ==
  /\ Running(t)
  /\ LET op == script[pc[t]]
     IN CASE op[1] = "wait" -> wait(t, op[2])
          [] op[1] = "signal" -> signal(op[2])
          [] OTHER -> UNCHANGED libVars
  /\ Goto(t, (pc[t] % Len(script)) + 1)

(* main has returned. *)
MainDone == joined = THREAD_COUNT
=============================================================================
