-------------------------- MODULE MCProcessManager --------------------------
(***************************************************************************)
(* The process manager for model checking, with the refinement of the      *)
(* semaphores.                                                             *)
(***************************************************************************)
EXTENDS ProcessManager

(* One semaphore of init's family, seen as Dijkstra's: the integer is the  *)
(* count less the number of waiting processes.                             *)
InitSem == <<KERNEL_PID + 1, CHOOSE key \in Keys : TRUE>>

Dijkstra ==
  INSTANCE DijkstraSemaphore WITH
    Process <- Pid,
    InitialValues <- Values,
    exists <- InitSem \in sems,
    value <- count[InitSem] - Len(wait_queue[InitSem]),
    sleepers <- Range(wait_queue[InitSem])

(* A semaphore of the kernel implements Dijkstra's semaphore: whatever     *)
(* changes its count or its queue, in any process, takes one unit or       *)
(* queues one process, gives one unit back or passes it to one waiter, or  *)
(* creates or destroys the semaphore.                                      *)
ImplementsDijkstra == Dijkstra!Spec
=============================================================================
