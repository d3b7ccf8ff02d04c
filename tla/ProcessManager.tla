--------------------------- MODULE ProcessManager ---------------------------
(***************************************************************************)
(* The process manager of the kernel: the process table, the round-robin   *)
(* ready queue, wait_pid, the semaphores that forked processes share, and  *)
(* the system calls and the clock interrupt that change them.              *)
(*                                                                         *)
(* The kernel runs on one processor and every handler runs with interrupts *)
(* disabled, so a handler is one action.  Between two handlers the running *)
(* process executes user code, which is arbitrary: it may make any system  *)
(* call, and the clock may preempt it at any point.                        *)
(*                                                                         *)
(* Of the saved registers (ProcessContext) only rax matters here: it is    *)
(* where a system call leaves its result.                                  *)
(***************************************************************************)
EXTENDS Integers, Sequences, FiniteSets, Functions

CONSTANTS
  MaxPid,     \* bound: the largest pid handed out
  MaxCount,   \* bound: the largest count of a semaphore
  Keys,       \* the semaphore keys programs use
  Values,     \* the initial values they give to semaphores
  ExitCodes,  \* the codes they exit with
  NoCode      \* exit_code of a process that has not exited (None)

KERNEL_PID == 1
Pid == 1 .. MaxPid
SemId == Pid \X Keys

(* The numbers of the system calls whose number can survive in rax. *)
SYS_WAITPID == 61
SYS_SEM == 64

ASSUME ProcessManagerAssumption ==
  /\ MaxPid \in Nat /\ MaxPid >= 1
  /\ MaxCount \in Nat
  /\ Values \subseteq 0 .. MaxCount
  /\ ExitCodes \subseteq Int
  /\ NoCode \notin Int

VARIABLES
  counter,            \* COUNTER: the last pid handed out
  status,             \* status of every process, "Absent" outside the table
  exit_code,
  context,            \* the rax saved in every process' context
  family,             \* whose ProcessData (semaphores) a process shares
  ready_queue,
  waiting_processes,  \* pid -> the processes blocked in wait_pid on it
  sems,               \* the semaphores that exist, as <<family, key>>
  count,
  wait_queue,
  current,            \* the pid stored in the processor
  rax,                \* the rax of the running process
  main,               \* where kernel_main is: "spawn" or "wait"
  init,               \* the pid kernel_main waits for, 0 before it has one
  halted,             \* "no", or how the machine stopped
  call,               \* history: the last call of each process to be checked
  orphans             \* history: processes dropped with their semaphore

procVars  == <<counter, status, exit_code, context, family>>
schedVars == <<ready_queue, current, rax, halted>>
semVars   == <<sems, count, wait_queue, orphans>>
mainVars  == <<main, init>>
vars == <<procVars, schedVars, semVars, mainVars, waiting_processes, call>>

Status == {"Absent", "Running", "Ready", "Blocked", "Dead"}
Halts  == {"no", "off", "open_panic", "wait_panic", "switch_panic", "switch_hang"}
Calls  == {"none", "wait", "pid", "child"} \X Nat

TypeOK ==
  /\ counter \in Pid
  /\ status \in [Pid -> Status]
  /\ exit_code \in [Pid -> ExitCodes \cup {NoCode}]
  /\ context \in [Pid -> Int]
  /\ family \in [Pid -> Pid]
  /\ ready_queue \in Seq(Pid)
  /\ waiting_processes \in [Pid -> SUBSET Pid]
  /\ sems \in SUBSET SemId
  /\ count \in [SemId -> Nat]
  /\ wait_queue \in [SemId -> Seq(Pid)]
  /\ current \in Pid
  /\ rax \in Int
  /\ main \in {"spawn", "wait"}
  /\ init \in Pid \cup {0}
  /\ halted \in Halts
  /\ call \in [Pid -> Calls]
  /\ orphans \in SUBSET Pid

NoCall == <<"none", 0>>

(* proc::init: the kernel is the only process, and it is running. *)
Init ==
  /\ counter = KERNEL_PID
  /\ status = [p \in Pid |-> IF p = KERNEL_PID THEN "Running" ELSE "Absent"]
  /\ exit_code = [p \in Pid |-> NoCode]
  /\ context = [p \in Pid |-> 0]
  /\ family = [p \in Pid |-> p]
  /\ ready_queue = <<>>
  /\ waiting_processes = [p \in Pid |-> {}]
  /\ sems = {}
  /\ count = [s \in SemId |-> 0]
  /\ wait_queue = [s \in SemId |-> <<>>]
  /\ current = KERNEL_PID
  /\ rax = 0
  /\ main = "spawn"
  /\ init = 0
  /\ halted = "no"
  /\ call = [p \in Pid |-> NoCall]
  /\ orphans = {}

-----------------------------------------------------------------------------
(* Helpers of the manager.                                                 *)

Exists(pid) == pid \in Pid /\ status[pid] # "Absent"

still_alive(pid) == Exists(pid) /\ status[pid] # "Dead"

(* ProcessInner::save, called by save_current: the status and the context  *)
(* after the running process is saved with r in rax.                       *)
SavedStatus ==
  IF status[current] = "Dead" THEN status
  ELSE [status EXCEPT ![current] = "Ready"]

SavedContext(r) ==
  IF status[current] = "Dead" THEN context
  ELSE [context EXCEPT ![current] = r]

(* The order in which a BTreeSet of pids is traversed. *)
Ascending(S) ==
  { s \in [1 .. Cardinality(S) -> S] :
      /\ Range(s) = S
      /\ \A i, j \in 1 .. Cardinality(S) : i < j => s[i] < s[j] }

(* switch_next, entered with ready queue q, statuses st and contexts ctx:  *)
(* the first ready process is resumed and those before it go to the back.  *)
(* The pop of an empty queue panics, and a queue without a ready process   *)
(* is rotated for ever.                                                    *)
switch_next(q, st, ctx) ==
  LET ready == {i \in 1 .. Len(q) : st[q[i]] = "Ready"}
  IN /\ context' = ctx
     /\ IF ready = {}
        THEN /\ halted' = IF q = <<>> THEN "switch_panic" ELSE "switch_hang"
             /\ status' = st
             /\ ready_queue' = q
             /\ UNCHANGED <<current, rax>>
        ELSE \E i \in ready :
             /\ \A j \in ready : i <= j
             /\ current' = q[i]
             /\ status' = [st EXCEPT ![q[i]] = "Running"]
             /\ rax' = ctx[q[i]]
             /\ ready_queue' = SubSeq(q, i + 1, Len(q)) \o SubSeq(q, 1, i - 1)
             /\ UNCHANGED halted

panic(why) ==
  /\ halted' = why
  /\ UNCHANGED <<procVars, ready_queue, current, rax, semVars, mainVars,
                 waiting_processes, call>>

-----------------------------------------------------------------------------
(* The clock interrupt.                                                    *)

(* Faulty variants: the running process is not queued, or queued in front. *)
switch_unqueued ==
  /\ halted = "no"
  /\ switch_next(ready_queue, SavedStatus, SavedContext(rax))
  /\ UNCHANGED <<counter, exit_code, family, semVars, mainVars,
                 waiting_processes, call>>

switch_front ==
  /\ halted = "no"
  /\ switch_next(<<current>> \o ready_queue, SavedStatus, SavedContext(rax))
  /\ UNCHANGED <<counter, exit_code, family, semVars, mainVars,
                 waiting_processes, call>>

switch ==
  /\ halted = "no"
  /\ switch_next(Append(ready_queue, current), SavedStatus, SavedContext(rax))
  /\ UNCHANGED <<counter, exit_code, family, semVars, mainVars,
                 waiting_processes, call>>

(* System calls are made by user processes only. *)
InUser == halted = "no" /\ current # KERNEL_PID

-----------------------------------------------------------------------------
(* Creating processes.                                                     *)

(* ProcessId::new.  The bound keeps the 16-bit counter from wrapping. *)
CanCreate == counter < MaxPid

(* Faulty variant: a new process jumps the queue. *)
add_spawned_front(child) ==
  /\ counter' = child
  /\ status' = [status EXCEPT ![child] = "Ready"]
  /\ ready_queue' = <<child>> \o ready_queue
  /\ UNCHANGED <<exit_code, context, family, current, halted, semVars,
                 waiting_processes>>

(* ProcessManager::spawn: a new family, ready at the back of the queue. *)
add_spawned(child) ==
  /\ counter' = child
  /\ status' = [status EXCEPT ![child] = "Ready"]
  /\ ready_queue' = Append(ready_queue, child)
  /\ UNCHANGED <<exit_code, context, family, current, halted, semVars,
                 waiting_processes>>

(* kernel_main: spawn_init.  found: whether app/sh can be opened. *)
spawn_init(found) ==
  /\ halted = "no" /\ current = KERNEL_PID /\ main = "spawn" /\ CanCreate
  /\ IF found
     THEN /\ add_spawned(counter + 1)
          /\ init' = counter + 1
          /\ main' = "wait"
          /\ UNCHANGED <<rax, call>>
     ELSE panic("open_panic")

sys_spawn(found) ==
  /\ InUser /\ CanCreate
  /\ IF found
     THEN /\ add_spawned(counter + 1)
          /\ rax' = counter + 1
          /\ call' = [call EXCEPT ![current] = <<"pid", counter + 1>>]
          /\ UNCHANGED mainVars
     ELSE panic("open_panic")

(* Process::fork: the contexts of the parent, saved with the child's pid,  *)
(* and of the child, a copy that returns 0.                                *)
ForkedContext(child) == [SavedContext(child) EXCEPT ![child] = 0]

(* Faulty variant: the parent is saved before its result is set. *)
sys_fork_unset ==
  /\ InUser /\ CanCreate
  /\ LET child == counter + 1
     IN /\ counter' = child
        /\ family' = [family EXCEPT ![child] = family[current]]
        /\ call' = [call EXCEPT ![current] = <<"pid", child>>,
                                ![child] = <<"child", 0>>]
        /\ switch_next(ready_queue \o <<child, current>>,
                       [SavedStatus EXCEPT ![child] = "Ready"],
                       [SavedContext(rax) EXCEPT ![child] = 0])
  /\ UNCHANGED <<exit_code, semVars, mainVars, waiting_processes>>

(* fork: the child shares the parent's ProcessData; it returns 0 and the   *)
(* parent the child's pid; both are queued, the child first.               *)
sys_fork ==
  /\ InUser /\ CanCreate
  /\ LET child == counter + 1
     IN /\ counter' = child
        /\ family' = [family EXCEPT ![child] = family[current]]
        /\ call' = [call EXCEPT ![current] = <<"pid", child>>,
                                ![child] = <<"child", 0>>]
        /\ switch_next(ready_queue \o <<child, current>>,
                       [SavedStatus EXCEPT ![child] = "Ready"],
                       ForkedContext(child))
  /\ UNCHANGED <<exit_code, semVars, mainVars, waiting_processes>>

-----------------------------------------------------------------------------
(* Exit and wait_pid.                                                      *)

(* Faulty variant: the exit code does not reach those who wait. *)
WokenContext_kept(W, ret) == context

(* wake_waiting and kill_self: the contexts and the statuses after the     *)
(* processes in W are woken with ret in rax and the running one is dead.   *)
WokenContext(W, ret) == [p \in Pid |-> IF p \in W THEN ret ELSE context[p]]

ExitStatus(W) ==
  [p \in Pid |-> IF p = current THEN "Dead"
                 ELSE IF p \in W THEN "Ready" ELSE status[p]]

(* The semaphores left when the running process drops its ProcessData: the *)
(* last process of a family takes the family's semaphores with it.         *)
LastOfFamily ==
  \A p \in Pid \ {current} :
     family[p] = family[current] => ~still_alive(p)

DroppedSems == {s \in SemId : LastOfFamily /\ s[1] = family[current]}

sys_exit(ret) ==
  /\ InUser
  /\ \E woken \in Ascending(waiting_processes[current]) :
       switch_next(ready_queue \o woken,
                   ExitStatus(waiting_processes[current]),
                   WokenContext(waiting_processes[current], ret))
  /\ waiting_processes' = [waiting_processes EXCEPT ![current] = {}]
  /\ exit_code' = [exit_code EXCEPT ![current] = ret]
  /\ sems' = sems \ DroppedSems
  /\ count' = [s \in SemId |-> IF s \in DroppedSems THEN 0 ELSE count[s]]
  /\ wait_queue' = [s \in SemId |->
                      IF s \in DroppedSems THEN <<>> ELSE wait_queue[s]]
  /\ call' = [call EXCEPT ![current] = NoCall]
  /\ UNCHANGED <<counter, family, mainVars, orphans>>

(* Faulty variants: blocking on a dead process, and taking the exit code   *)
(* out of it.                                                              *)
sys_wait_pid_unchecked(pid) ==
  /\ InUser /\ Exists(pid)
  /\ waiting_processes' = [waiting_processes EXCEPT ![pid] = @ \cup {current}]
  /\ call' = [call EXCEPT ![current] = <<"wait", pid>>]
  /\ switch_next(ready_queue, [SavedStatus EXCEPT ![current] = "Blocked"],
                 SavedContext(SYS_WAITPID))
  /\ UNCHANGED <<counter, exit_code, family, semVars, mainVars>>

sys_wait_pid_take(pid) ==
  /\ InUser /\ Exists(pid) /\ exit_code[pid] # NoCode
  /\ rax' = exit_code[pid]
  /\ exit_code' = [exit_code EXCEPT ![pid] = NoCode]
  /\ call' = [call EXCEPT ![current] = <<"wait", pid>>]
  /\ UNCHANGED <<counter, status, context, family, ready_queue, current,
                 halted, semVars, mainVars, waiting_processes>>

(* A pid that is not in the table panics in get_exit_code. *)
sys_wait_pid(pid) ==
  /\ InUser
  /\ IF still_alive(pid)
     THEN /\ waiting_processes' = [waiting_processes EXCEPT ![pid] = @ \cup {current}]
          /\ call' = [call EXCEPT ![current] = <<"wait", pid>>]
          /\ switch_next(ready_queue,
                         [SavedStatus EXCEPT ![current] = "Blocked"],
                         SavedContext(SYS_WAITPID))
          /\ UNCHANGED <<counter, exit_code, family, semVars, mainVars>>
     ELSE IF Exists(pid)
     THEN /\ rax' = exit_code[pid]
          /\ call' = [call EXCEPT ![current] = <<"wait", pid>>]
          /\ UNCHANGED <<procVars, ready_queue, current, halted, semVars,
                         mainVars, waiting_processes>>
     ELSE panic("wait_panic")

-----------------------------------------------------------------------------
(* Semaphores.                                                             *)

Sem(key) == <<family[current], key>>

(* SemaphoreSet::insert replaces a semaphore that exists, and drops the    *)
(* processes that wait on it.                                              *)
sys_new_sem(key, value) ==
  LET s == Sem(key)
  IN /\ InUser
     /\ rax' = IF s \in sems THEN 1 ELSE 0
     /\ sems' = sems \cup {s}
     /\ count' = [count EXCEPT ![s] = value]
     /\ wait_queue' = [wait_queue EXCEPT ![s] = <<>>]
     /\ orphans' = orphans \cup Range(wait_queue[s])
     /\ call' = [call EXCEPT ![current] = NoCall]
     /\ UNCHANGED <<procVars, ready_queue, current, halted, mainVars,
                    waiting_processes>>

sys_remove_sem(key) ==
  LET s == Sem(key)
  IN /\ InUser
     /\ rax' = IF s \in sems THEN 0 ELSE 1
     /\ sems' = sems \ {s}
     /\ count' = [count EXCEPT ![s] = 0]
     /\ wait_queue' = [wait_queue EXCEPT ![s] = <<>>]
     /\ orphans' = orphans \cup Range(wait_queue[s])
     /\ call' = [call EXCEPT ![current] = NoCall]
     /\ UNCHANGED <<procVars, ready_queue, current, halted, mainVars,
                    waiting_processes>>

(* Faulty variants: the waiter is not queued, is not removed, or the unit  *)
(* handed over is counted as well.                                         *)
SignalWake_unqueued(s) ==
  /\ status' = [status EXCEPT ![Head(wait_queue[s])] = "Ready"]
  /\ wait_queue' = [wait_queue EXCEPT ![s] = Tail(@)]
  /\ rax' = SYS_SEM
  /\ UNCHANGED <<count, ready_queue>>

SignalWake_peek(s) ==
  /\ status' = [status EXCEPT ![Head(wait_queue[s])] = "Ready"]
  /\ ready_queue' = Append(ready_queue, Head(wait_queue[s]))
  /\ rax' = SYS_SEM
  /\ UNCHANGED <<count, wait_queue>>

SignalWake_counted(s) ==
  /\ status' = [status EXCEPT ![Head(wait_queue[s])] = "Ready"]
  /\ ready_queue' = Append(ready_queue, Head(wait_queue[s]))
  /\ wait_queue' = [wait_queue EXCEPT ![s] = Tail(@)]
  /\ rax' = SYS_SEM
  /\ count' = [count EXCEPT ![s] = @ + 1]

(* Semaphore::signal and wake_up.  The signaller keeps the number of the   *)
(* system call in rax when it wakes a process.                             *)
SignalWake(s) ==
  /\ status' = [status EXCEPT ![Head(wait_queue[s])] = "Ready"]
  /\ ready_queue' = Append(ready_queue, Head(wait_queue[s]))
  /\ wait_queue' = [wait_queue EXCEPT ![s] = Tail(@)]
  /\ rax' = SYS_SEM
  /\ UNCHANGED count

SignalCount(s) ==
  /\ count[s] < MaxCount
  /\ count' = [count EXCEPT ![s] = @ + 1]
  /\ rax' = 0
  /\ UNCHANGED <<status, ready_queue, wait_queue>>

SignalNotExist ==
  /\ rax' = 1
  /\ UNCHANGED <<status, ready_queue, wait_queue, count>>

sys_sem_signal(key) ==
  /\ InUser
  /\ IF Sem(key) \notin sems THEN SignalNotExist
     ELSE IF wait_queue[Sem(key)] # <<>> THEN SignalWake(Sem(key))
     ELSE SignalCount(Sem(key))
  /\ call' = [call EXCEPT ![current] = NoCall]
  /\ UNCHANGED <<counter, exit_code, context, family, current, halted, sems,
                 orphans, mainVars, waiting_processes>>

(* Semaphore::wait.  A process that blocks is saved with the number of the *)
(* system call in rax, and finds it there when it is woken.                *)
WaitBlock(s) ==
  /\ wait_queue' = [wait_queue EXCEPT ![s] = Append(@, current)]
  /\ switch_next(ready_queue, [SavedStatus EXCEPT ![current] = "Blocked"],
                 SavedContext(SYS_SEM))
  /\ UNCHANGED count

WaitTake(s) ==
  /\ count' = [count EXCEPT ![s] = @ - 1]
  /\ rax' = 0
  /\ UNCHANGED <<status, context, ready_queue, current, halted, wait_queue>>

WaitNotExist ==
  /\ rax' = 1
  /\ UNCHANGED <<status, context, ready_queue, current, halted, wait_queue,
                 count>>

(* Faulty variant: a unit is taken whether or not there is one. *)
sys_sem_wait_below(key) ==
  /\ InUser
  /\ IF Sem(key) \notin sems THEN WaitNotExist ELSE WaitTake(Sem(key))
  /\ call' = [call EXCEPT ![current] = NoCall]
  /\ UNCHANGED <<counter, exit_code, family, sems, orphans, mainVars,
                 waiting_processes>>

sys_sem_wait(key) ==
  /\ InUser
  /\ IF Sem(key) \notin sems THEN WaitNotExist
     ELSE IF count[Sem(key)] = 0 THEN WaitBlock(Sem(key))
     ELSE WaitTake(Sem(key))
  /\ call' = [call EXCEPT ![current] = NoCall]
  /\ UNCHANGED <<counter, exit_code, family, sems, orphans, mainVars,
                 waiting_processes>>

-----------------------------------------------------------------------------
(* Faulty variant: waiting for init to leave the table. *)
shutdown_reaped ==
  /\ halted = "no" /\ current = KERNEL_PID /\ main = "wait"
  /\ ~Exists(init)
  /\ halted' = "off"
  /\ UNCHANGED <<procVars, ready_queue, current, rax, semVars, mainVars,
                 waiting_processes, call>>

(* kernel_main waits for init and then shuts the machine down. *)
shutdown ==
  /\ halted = "no" /\ current = KERNEL_PID /\ main = "wait"
  /\ ~still_alive(init)
  /\ halted' = "off"
  /\ UNCHANGED <<procVars, ready_queue, current, rax, semVars, mainVars,
                 waiting_processes, call>>

(* A machine that has stopped stays as it is. *)
Stopped == halted # "no" /\ UNCHANGED vars

Next ==
  \/ switch
  \/ \E found \in BOOLEAN : spawn_init(found) \/ sys_spawn(found)
  \/ sys_fork
  \/ \E ret \in ExitCodes : sys_exit(ret)
  \/ \E pid \in Pid \cup {0} : sys_wait_pid(pid)
  \/ \E key \in Keys :
       \/ \E value \in Values : sys_new_sem(key, value)
       \/ sys_remove_sem(key)
       \/ sys_sem_signal(key)
       \/ sys_sem_wait(key)
  \/ shutdown
  \/ Stopped

Spec == Init /\ [][Next]_vars

(* The timer keeps interrupting, and a time slice of the kernel process is *)
(* long enough for one iteration of its wait loop.                         *)
FairSpec == Spec /\ WF_vars(switch) /\ SF_vars(shutdown)

-----------------------------------------------------------------------------
(* Properties.                                                             *)

(* The ready queue holds each ready process once and nothing else, and the *)
(* one running process is the processor's: push_ready is called exactly    *)
(* when a process becomes ready, so switch_next never resumes a process    *)
(* twice, nor one that is blocked or dead.                                 *)
ReadyQueueExact ==
  /\ IsInjective(ready_queue)
  /\ \A p \in Pid : p \in Range(ready_queue) <=> status[p] = "Ready"
  /\ \A p \in Pid : p = current <=> status[p] = "Running"

(* switch_next always finds a process to resume: whatever the user         *)
(* processes do, however they block on each other, its unwrap of           *)
(* pop_front never fails and its loop ends.                                *)
SwitchTotal == halted \notin {"switch_panic", "switch_hang"}

(* Where a process may sit that is to be woken: a wait set of wait_pid, or *)
(* the queue of a semaphore.                                               *)
AwaitsExit(p, q) == p \in waiting_processes[q]
AwaitsSignal(p, s) == p \in Range(wait_queue[s])
Parked(p) ==
  \/ \E q \in Pid : AwaitsExit(p, q)
  \/ \E s \in SemId : AwaitsSignal(p, s)
  \/ p \in orphans

(* A blocked process sits in exactly one place that can wake it, unless    *)
(* new_sem or remove_sem dropped the semaphore it waited on; and only      *)
(* blocked processes sit in such a place.                                  *)
BlockedHasOneWaker ==
  /\ \A p \in Pid : status[p] = "Blocked" <=> Parked(p)
  /\ \A p, q, r \in Pid : AwaitsExit(p, q) /\ AwaitsExit(p, r) => q = r
  /\ \A p, q \in Pid, s \in SemId : ~(AwaitsExit(p, q) /\ AwaitsSignal(p, s))
  /\ \A p \in Pid, s, t \in SemId :
       AwaitsSignal(p, s) /\ AwaitsSignal(p, t) => s = t
  /\ \A s \in SemId : IsInjective(wait_queue[s])
  /\ \A p \in orphans :
       /\ \A q \in Pid : ~AwaitsExit(p, q)
       /\ \A s \in SemId : ~AwaitsSignal(p, s)

(* No process waits for one that is already dead: the check of still_alive *)
(* and the blocking in wait_pid are not separated by an exit, and exit     *)
(* wakes every waiter.                                                     *)
NoWaiterOnDead ==
  \A q \in Pid : waiting_processes[q] # {} => still_alive(q)

Value(p) == IF p = current THEN rax ELSE context[p]
Returned(p) == status[p] \in {"Running", "Ready"}

(* A wait_pid that has returned, at once or after any number of switches,  *)
(* returned the exit code of the process it named, which is dead.          *)
WaitReturnsExitCode ==
  \A p, q \in Pid :
     Returned(p) /\ call[p] = <<"wait", q>> =>
       status[q] = "Dead" /\ Value(p) = exit_code[q]

(* fork returns twice: the child's pid in the parent and 0 in the child,   *)
(* whichever of the two runs first and however often they are preempted    *)
(* before they look at rax; spawn returns the new pid.                     *)
CreateReturnsPid ==
  \A p \in Pid : Returned(p) =>
     /\ call[p][1] = "pid" => Value(p) = call[p][2] /\ Exists(call[p][2])
     /\ call[p][1] = "child" => Value(p) = 0

(* A semaphore with waiters has count 0, and its waiters are of the family *)
(* that owns it: signal hands the unit to the first waiter and never       *)
(* leaves a unit unused while someone waits.                               *)
NoUnitWhileWaiting ==
  \A s \in SemId : \A i \in 1 .. Len(wait_queue[s]) :
     /\ s \in sems
     /\ count[s] = 0
     /\ family[wait_queue[s][i]] = s[1]

(* Death is final: a dead process keeps its status and its exit code, so   *)
(* every later wait_pid on it returns the same value.                      *)
DeadStaysDead ==
  [][\A p \in Pid : status[p] = "Dead" =>
        status'[p] = "Dead" /\ exit_code'[p] = exit_code[p]]_vars

(* First come, first served: whatever a step does, the processes ahead of  *)
(* a queued process are processes that were ahead of it before the step.   *)
(* New and woken processes go to the back, and the rotation of switch_next *)
(* lets nobody overtake.                                                   *)
NoOvertaking ==
  [][\A k, l \in 1 .. Len(ready_queue') :
        k < l /\ ready_queue'[l] \in Range(ready_queue) =>
          \E i, j \in 1 .. Len(ready_queue) :
             /\ i < j
             /\ ready_queue[i] = ready_queue'[k]
             /\ ready_queue[j] = ready_queue'[l]]_vars

(* Every ready process eventually runs, whatever the others do. *)
ReadyRuns ==
  \A p \in Pid :
     status[p] = "Ready" ~> (status[p] = "Running" \/ halted # "no")

(* Once init has exited, kernel_main notices and the machine stops. *)
InitExitStops ==
  (main = "wait" /\ ~still_alive(init)) ~> halted # "no"

(* What the comment in sys_spawn_process says: "handle spawn error, return *)
(* 0 if failed".                                                           *)
SpawnFailureReturnsZero ==
  [][sys_spawn(FALSE) => halted' = "no" /\ rax' = 0]_vars
=============================================================================
