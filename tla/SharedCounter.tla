--------------------------- MODULE SharedCounter ----------------------------
(***************************************************************************)
(* The programs sem and spin: threads that increment one counter ROUNDS    *)
(* times each, under a semaphore or under the spin lock.  inc_counter      *)
(* loads the counter and stores it back in two instructions, with a delay  *)
(* between them that invites the clock interrupt.                          *)
(***************************************************************************)
EXTENDS UserThreads

CONSTANT Lock   \* "spin" for SPINLOCK, anything else for SEM

SEM == 0

VARIABLES
  COUNTER,
  bolt,      \* SpinLock.bolt: the lock is taken
  val,       \* the local val of inc_counter in each thread
  turns      \* history: the increments each thread has completed

counterVars == <<COUNTER, bolt, val, turns>>
vars == <<threadVars, counterVars>>

Critical == {"load", "store", "unlock"}

TypeOK ==
  /\ LibTypeOK
  /\ pc \in [Thread -> {"begin"} \cup Critical]
  /\ COUNTER \in Nat
  /\ bolt \in BOOLEAN
  /\ val \in [Thread -> Nat]
  /\ turns \in [Thread -> 0 .. ROUNDS]

Init ==
  /\ LibInit([k \in Key |-> IF k = SEM THEN 1 ELSE 0], "begin")
  /\ COUNTER = 0
  /\ bolt = FALSE
  /\ val = [t \in Thread |-> 0]
  /\ turns = [t \in Thread |-> 0]

-----------------------------------------------------------------------------
acquire_ignored(t) ==
  /\ bolt' = TRUE
  /\ UNCHANGED libVars

(* SpinLock::acquire: the compare_exchange that succeeds.  The failing     *)
(* ones before it change nothing.                                          *)
acquire(t) ==
  /\ ~bolt
  /\ bolt' = TRUE
  /\ UNCHANGED libVars

(* SPINLOCK.acquire() or SEM.wait() of do_counter_inc. *)
lock(t) ==
  /\ At(t, "begin")
  /\ turn(t)
  /\ IF Lock = "spin" THEN acquire(t) ELSE wait(t, SEM) /\ UNCHANGED bolt
  /\ Goto(t, "load")
  /\ UNCHANGED <<COUNTER, val, turns>>

(* inc_counter: let mut val = COUNTER *)
load(t) ==
  /\ At(t, "load")
  /\ val' = [val EXCEPT ![t] = COUNTER]
  /\ Goto(t, "store")
  /\ UNCHANGED <<libVars, left, COUNTER, bolt, turns>>

(* inc_counter: val += 1; COUNTER = val *)
store(t) ==
  /\ At(t, "store")
  /\ COUNTER' = val[t] + 1
  /\ turns' = [turns EXCEPT ![t] = @ + 1]
  /\ Goto(t, "unlock")
  /\ UNCHANGED <<libVars, left, bolt, val>>

release_forgotten == UNCHANGED <<bolt, libVars>>

(* SpinLock::release *)
release ==
  /\ bolt' = FALSE
  /\ UNCHANGED libVars

unlock(t) ==
  /\ At(t, "unlock")
  /\ IF Lock = "spin" THEN release ELSE signal(SEM) /\ UNCHANGED bolt
  /\ Goto(t, "begin")
  /\ UNCHANGED <<left, COUNTER, val, turns>>

thread(t) ==
  \/ lock(t) \/ load(t) \/ store(t) \/ unlock(t)
  \/ exit(t) /\ UNCHANGED counterVars

Next ==
  \/ main /\ UNCHANGED counterVars
  \/ \E t \in Thread : thread(t)

Spec == Init /\ [][Next]_vars

-----------------------------------------------------------------------------
(* At most one thread is between the lock and the unlock of do_counter_inc *)
(* ("protect the critical section"): those blocked in the wait are not.    *)
Inside(t) == pc[t] \in Critical /\ \A k \in Key : t \notin Range(wait_queue[k])
MutualExclusion == \A t, u \in Thread : Inside(t) /\ Inside(u) => t = u

(* The abstract counter the threads share: each increment is one step. *)
Atomic == INSTANCE AtomicCounter WITH counter <- COUNTER

(* The two-instruction increments of inc_counter, interleaved in any way   *)
(* the lock admits, implement atomic increments: no update is lost.        *)
NoLostUpdate == Atomic!Spec
=============================================================================
