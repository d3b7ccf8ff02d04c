---------------------------- MODULE ThreadProofs ----------------------------
(***************************************************************************)
(* The user programs by themselves: sem and spin for any number of threads *)
(* and rounds, whose lock excludes and whose counter implements            *)
(* AtomicCounter; philo and fish for the number of threads of the source.  *)
(***************************************************************************)
EXTENDS SharedCounter, SequenceTheorems, TLAPS

-----------------------------------------------------------------------------
(* Sequences as queues.                                                    *)

(* The positions and the members of a queue. *)
LEMMA QueueBasics ==
  ASSUME NEW S, NEW q \in Seq(S)
  PROVE  /\ Len(q) \in Nat /\ DOMAIN q = 1 .. Len(q)
         /\ q = <<>> <=> Len(q) = 0
         /\ Range(q) \subseteq S
         /\ \A i \in 1 .. Len(q) : q[i] \in S /\ q[i] \in Range(q)
<1>1. Len(q) \in Nat /\ DOMAIN q = 1 .. Len(q)
  BY LenProperties
<1>2. \A i \in 1 .. Len(q) : q[i] \in S /\ q[i] \in Range(q)
  BY <1>1, ElementOfSeq DEF Range
<1> QED BY <1>1, <1>2, EmptySeq, RangeOfSeq

(* The empty queue has no members. *)
LEMMA EmptyQueue ==
  ASSUME NEW S
  PROVE  /\ <<>> \in Seq(S) /\ Len(<<>>) = 0
         /\ Range(<<>>) = {} /\ IsInjective(<<>>)
BY EmptySeq DEF Range, IsInjective

(* What Append does to the members of a queue. *)
LEMMA AppendMembers ==
  ASSUME NEW S, NEW q \in Seq(S), NEW e \in S
  PROVE  /\ Append(q, e) \in Seq(S)
         /\ Append(q, e) # <<>>
         /\ Range(Append(q, e)) = Range(q) \cup {e}
         /\ IsInjective(q) /\ e \notin Range(q) => IsInjective(Append(q, e))
         /\ Len(Append(q, e)) = Len(q) + 1
         /\ \A i \in 1 .. Len(q) : Append(q, e)[i] = q[i]
         /\ Append(q, e)[Len(q) + 1] = e
<1> DEFINE r == Append(q, e)
<1>1. /\ r \in Seq(S) /\ r # <<>>
      /\ Len(r) = Len(q) + 1 /\ Len(q) \in Nat
      /\ \A i \in 1 .. Len(q) : r[i] = q[i]
      /\ r[Len(q) + 1] = e
  BY AppendProperties, LenProperties
<1>2. DOMAIN q = 1 .. Len(q) /\ DOMAIN r = 1 .. Len(q) + 1
  BY <1>1, LenProperties
<1> HIDE DEF r
<1>3. Range(r) = Range(q) \cup {e}
  <2>1. ASSUME NEW x \in Range(r) PROVE x \in Range(q) \cup {e}
    BY <1>1, <1>2 DEF Range
  <2>2. ASSUME NEW x \in Range(q) PROVE x \in Range(r)
    BY <1>1, <1>2 DEF Range
  <2>3. e \in Range(r)
    BY <1>1, <1>2 DEF Range
  <2> QED BY <2>1, <2>2, <2>3
<1>4. IsInjective(q) /\ e \notin Range(q) => IsInjective(r)
  BY <1>1, <1>2 DEF Range, IsInjective
<1> QED BY <1>1, <1>3, <1>4 DEF r

(* What popping the front does to the members of a queue. *)
LEMMA TailMembers ==
  ASSUME NEW S, NEW q \in Seq(S), q # <<>>
  PROVE  /\ Head(q) \in S /\ Head(q) \in Range(q) /\ Head(q) = q[1]
         /\ Tail(q) \in Seq(S)
         /\ Range(q) = Range(Tail(q)) \cup {Head(q)}
         /\ IsInjective(q) => /\ Head(q) \notin Range(Tail(q))
                              /\ IsInjective(Tail(q))
         /\ Len(Tail(q)) = Len(q) - 1
         /\ \A i \in 1 .. Len(q) - 1 : Tail(q)[i] = q[i + 1]
<1> DEFINE r == Tail(q)
<1>1. /\ Head(q) \in S /\ Head(q) = q[1]
      /\ r \in Seq(S) /\ Len(q) \in Nat /\ Len(q) >= 1 /\ Len(r) = Len(q) - 1
      /\ \A i \in 1 .. Len(r) : r[i] = q[i + 1]
  BY HeadTailProperties, LenProperties, EmptySeq
<1>2. DOMAIN q = 1 .. Len(q) /\ DOMAIN r = 1 .. Len(q) - 1
  BY <1>1, LenProperties
<1> HIDE DEF r
<1>3. Range(q) = Range(r) \cup {Head(q)}
  <2>1. ASSUME NEW i \in 1 .. Len(q) PROVE q[i] \in Range(r) \cup {Head(q)}
    <3>1. CASE i = 1
      BY <3>1, <1>1
    <3>2. CASE i # 1
      <4>1. i - 1 \in 1 .. Len(r) /\ r[i - 1] = q[i]
        BY <3>2, <1>1
      <4> QED BY <4>1, <1>1, <1>2 DEF Range
    <3> QED BY <3>1, <3>2
  <2>2. ASSUME NEW x \in Range(r) PROVE x \in Range(q)
    BY <1>1, <1>2 DEF Range
  <2>3. Head(q) \in Range(q)
    BY <1>1, <1>2 DEF Range
  <2> QED BY <2>1, <2>2, <2>3, <1>2 DEF Range
<1>4. ASSUME IsInjective(q)
      PROVE  Head(q) \notin Range(r) /\ IsInjective(r)
  <2>1. ASSUME NEW i \in 1 .. Len(q) - 1
        PROVE  i + 1 \in DOMAIN q /\ 1 \in DOMAIN q /\ r[i] = q[i + 1]
    BY <1>1, <1>2
  <2>2. ASSUME NEW i \in 1 .. Len(q) - 1 PROVE r[i] # Head(q)
    BY <2>1, <1>1, <1>4 DEF IsInjective
  <2>3. ASSUME NEW i \in 1 .. Len(q) - 1, NEW j \in 1 .. Len(q) - 1, r[i] = r[j]
        PROVE  i = j
    <3>1. i + 1 = j + 1
      BY <2>1, <2>3, <1>4 DEF IsInjective
    <3> QED BY <3>1
  <2> QED BY <2>2, <2>3, <1>2 DEF Range, IsInjective
<1> QED BY <1>1, <1>3, <1>4 DEF r

VARIABLE out   \* what fish prints

Seat == 0 .. 4
Philo == INSTANCE Philosophers WITH THREAD_COUNT <- 5, Thread <- Seat
FishThree == INSTANCE Fish WITH THREAD_COUNT <- 3, Thread <- 0 .. 2

-----------------------------------------------------------------------------
(* sem and spin.                                                           *)

(* The threads that a semaphore has blocked are those of SEM, each once,   *)
(* and they are on their way into the critical section.                    *)
Waiting == Range(wait_queue[SEM])

Waiters ==
  /\ \A k \in Key : k # SEM => wait_queue[k] = <<>>
  /\ IsInjective(wait_queue[SEM])
  /\ \A t \in Waiting : pc[t] = "load"
  /\ Lock = "spin" => wait_queue[SEM] = <<>>

(* Who is inside has the bolt, or the unit of SEM. *)
LockHeld ==
  /\ Lock = "spin" => (bolt <=> \E t \in Thread : Inside(t))
  /\ Lock # "spin" =>
       /\ count[SEM] \in {0, 1}
       /\ count[SEM] = 1 => /\ wait_queue[SEM] = <<>>
                            /\ \A t \in Thread : ~Inside(t)

(* What a thread has loaded is still what the counter holds, and every     *)
(* turn begun is completed or in the critical section.                     *)
ValFresh == \A t \in Thread : pc[t] = "store" => val[t] = COUNTER
TurnsCounted ==
  \A t \in Thread :
    turns[t] + left[t] = IF pc[t] \in {"load", "store"} THEN ROUNDS - 1 ELSE ROUNDS

(* The inductive invariant behind the two theorems below. *)
IInv ==
  /\ TypeOK /\ Waiters /\ LockHeld /\ MutualExclusion /\ ValFresh /\ TurnsCounted

-----------------------------------------------------------------------------
(* No thread is blocked on a semaphore other than SEM. *)
LEMMA InsideMeans ==
  ASSUME TypeOK, Waiters, NEW t \in Thread
  PROVE  /\ Inside(t) <=> pc[t] \in Critical /\ t \notin Waiting
         /\ Running(t) => t \notin Waiting
<1>1. SEM \in Key
  BY DEF SEM, Key
<1>2. \A k \in Key : k # SEM => Range(wait_queue[k]) = {}
  BY EmptyQueue DEF Waiters
<1>3. (\A k \in Key : t \notin Range(wait_queue[k])) <=> t \notin Waiting
  BY <1>1, <1>2 DEF Waiting
<1> QED BY <1>3 DEF Inside, Running

(* The initial state: the semaphore has its one unit, the bolt is open. *)
LEMMA InitInv == Init => IInv
<1> SUFFICES ASSUME Init PROVE IInv
  OBVIOUS
<1> USE UserThreadsAssumption DEF Init, LibInit
<1>1. SEM \in Key /\ wait_queue[SEM] = <<>>
  BY DEF SEM, Key
<1>2. Waiting = {}
  BY <1>1, EmptyQueue DEF Waiting
<1>3. TypeOK
  <2>1. wait_queue \in [Key -> Seq(Thread)]
    BY EmptyQueue
  <2>2. count \in Value
    BY DEF Value
  <2>3. /\ forked \in 0 .. THREAD_COUNT /\ joined \in 0 .. THREAD_COUNT
        /\ exited \in SUBSET Thread
    OBVIOUS
  <2>4. /\ left \in [Thread -> 0 .. ROUNDS]
        /\ turns \in [Thread -> 0 .. ROUNDS] /\ val \in [Thread -> Nat]
    OBVIOUS
  <2>5. pc \in [Thread -> {"begin"} \cup Critical]
    BY Zenon
  <2>6. COUNTER \in Nat /\ bolt \in BOOLEAN
    OBVIOUS
  <2> QED BY ONLY <2>1, <2>2, <2>3, <2>4, <2>5, <2>6 DEF TypeOK, LibTypeOK
<1>4. Waiters
  BY <1>1, <1>2, EmptyQueue DEF Waiters
<1>5. \A t \in Thread : ~Inside(t)
  BY DEF Inside, Critical
<1>6. LockHeld
  BY <1>1, <1>5 DEF LockHeld
<1>7. MutualExclusion
  BY <1>5 DEF MutualExclusion
<1>8. ValFresh /\ TurnsCounted
  BY DEF ValFresh, TurnsCounted
<1> QED BY <1>3, <1>4, <1>6, <1>7, <1>8 DEF IInv

(* A step that neither moves a thread nor touches the lock keeps all. *)
LEMMA QuietInv ==
  ASSUME IInv, TypeOK',
         UNCHANGED <<pc, left, count, wait_queue, COUNTER, bolt, val, turns>>
  PROVE  IInv'
<1>1. \A t \in Thread : Inside(t)' <=> Inside(t)
  BY DEF Inside
<1>2. Waiting' = Waiting
  BY DEF Waiting
<1>3. Waiters'
  BY <1>2 DEF IInv, Waiters
<1>4. LockHeld'
  BY <1>1 DEF IInv, LockHeld
<1>5. MutualExclusion'
  BY <1>1 DEF IInv, MutualExclusion
<1>6. ValFresh' /\ TurnsCounted'
  BY DEF IInv, ValFresh, TurnsCounted
<1> QED BY <1>3, <1>4, <1>5, <1>6 DEF IInv

(* The first half of inc_counter. *)
LEMMA LoadInv ==
  ASSUME IInv, NEW t \in Thread, load(t)
  PROVE  IInv'
<1> USE DEF load, At, Goto, libVars
<1>1. TypeOK /\ Waiters /\ pc[t] = "load" /\ t \notin Waiting
  BY InsideMeans DEF IInv
<1>2. TypeOK'
  <2>1. pc' \in [Thread -> {"begin"} \cup Critical]
    BY <1>1 DEF TypeOK, Critical
  <2>2. val' \in [Thread -> Nat]
    BY <1>1 DEF TypeOK
  <2> QED BY <1>1, <2>1, <2>2 DEF TypeOK, LibTypeOK
<1>3. /\ pc'[t] = "store" /\ \A u \in Thread : u # t => pc'[u] = pc[u]
      /\ Waiting' = Waiting /\ Waiting \subseteq Thread
  BY <1>1, QueueBasics DEF TypeOK, LibTypeOK, Waiting, SEM, Key
<1>4. Waiters'
  BY <1>1, <1>3 DEF Waiters
<1>5. \A u \in Thread : Inside(u)' <=> Inside(u)
  BY <1>1, <1>3 DEF Inside, Critical
<1>6. LockHeld'
  BY <1>5 DEF IInv, LockHeld
<1>7. MutualExclusion'
  BY <1>5 DEF IInv, MutualExclusion
<1>8. ValFresh'
  BY <1>1, <1>3 DEF IInv, ValFresh, TypeOK
<1>9. TurnsCounted'
  BY <1>1, <1>3 DEF IInv, TurnsCounted
<1> QED BY <1>2, <1>4, <1>6, <1>7, <1>8, <1>9 DEF IInv

(* The second half: the thread inside is alone, so nobody else has loaded. *)
LEMMA StoreInv ==
  ASSUME IInv, NEW t \in Thread, store(t)
  PROVE  /\ IInv'
         /\ COUNTER' = COUNTER + 1
         /\ turns[t] < ROUNDS
<1> USE DEF store, At, Goto, libVars
<1>1. TypeOK /\ Waiters /\ pc[t] = "store" /\ t \notin Waiting /\ Inside(t)
  BY InsideMeans DEF IInv, Critical
<1>2. /\ turns[t] < ROUNDS /\ turns[t] + 1 \in 0 .. ROUNDS
      /\ (turns[t] + 1) + left[t] = ROUNDS
  <2>1. turns[t] + left[t] = ROUNDS - 1
    BY <1>1 DEF IInv, TurnsCounted
  <2>2. turns[t] \in 0 .. ROUNDS /\ left[t] \in 0 .. ROUNDS
    BY <1>1 DEF TypeOK, LibTypeOK
  <2> QED BY <2>1, <2>2, UserThreadsAssumption
<1>3. COUNTER' = COUNTER + 1
  BY <1>1 DEF IInv, ValFresh
<1>4. TypeOK'
  <2>1. pc' \in [Thread -> {"begin"} \cup Critical]
    BY <1>1 DEF TypeOK, Critical
  <2>2. turns' \in [Thread -> 0 .. ROUNDS]
    BY <1>1, <1>2 DEF TypeOK
  <2>3. COUNTER' \in Nat
    BY <1>1, <1>3 DEF TypeOK
  <2> QED BY <1>1, <2>1, <2>2, <2>3 DEF TypeOK, LibTypeOK
<1>5. /\ pc'[t] = "unlock" /\ \A u \in Thread : u # t => pc'[u] = pc[u]
      /\ Waiting' = Waiting /\ Waiting \subseteq Thread
  BY <1>1, QueueBasics DEF TypeOK, LibTypeOK, Waiting, SEM, Key
<1>6. Waiters'
  BY <1>1, <1>5 DEF Waiters
<1>7. \A u \in Thread : Inside(u)' <=> Inside(u)
  BY <1>1, <1>5 DEF Inside, Critical
<1>8. LockHeld'
  BY <1>7 DEF IInv, LockHeld
<1>9. MutualExclusion'
  BY <1>7 DEF IInv, MutualExclusion
<1>10. ValFresh'
  <2> SUFFICES ASSUME NEW u \in Thread, pc'[u] = "store" PROVE FALSE
    BY DEF ValFresh
  <2>1. u # t /\ pc[u] = "store"
    BY <1>5
  <2>2. u \notin Waiting
    BY <1>1, <2>1 DEF Waiters
  <2>3. Inside(u)
    BY <1>1, <2>1, <2>2, InsideMeans DEF Critical
  <2> QED BY <1>1, <2>1, <2>3 DEF IInv, MutualExclusion
<1>11. TurnsCounted'
  <2>1. turns'[t] = turns[t] + 1
    BY <1>1 DEF TypeOK
  <2>2. \A u \in Thread : u # t => turns'[u] = turns[u]
    BY <1>1 DEF TypeOK
  <2> QED BY <1>2, <1>5, <2>1, <2>2 DEF IInv, TurnsCounted
<1> QED BY <1>2, <1>3, <1>4, <1>6, <1>8, <1>9, <1>10, <1>11 DEF IInv

(* What every step that moves thread t between "begin" and the critical    *)
(* section owes: it is about the lock alone.                               *)
LEMMA LockStep ==
  ASSUME IInv, TypeOK', NEW t \in Thread, Running(t),
         UNCHANGED <<COUNTER, val, turns>>,
         pc[t] # "store", pc'[t] # "store", \A u \in Thread : u # t => pc'[u] = pc[u],
         TurnsCounted', Waiters', LockHeld', MutualExclusion'
  PROVE  IInv'
<1>1. ValFresh'
  BY DEF IInv, ValFresh
<1> QED BY <1>1 DEF IInv

(* SPINLOCK.acquire() or SEM.wait(). *)
LEMMA LockInv ==
  ASSUME IInv, NEW t \in Thread, lock(t)
  PROVE  IInv'
<1> USE DEF lock, At, Goto, turn
<1>1. /\ TypeOK /\ Waiters /\ pc[t] = "begin" /\ t \notin Waiting /\ Running(t)
      /\ ~Inside(t)
  BY InsideMeans DEF IInv, Critical
<1>2. /\ SEM \in Key /\ wait_queue[SEM] \in Seq(Thread) /\ Waiting \subseteq Thread
      /\ count[SEM] \in Nat
  <2>1. SEM \in Key
    BY DEF SEM, Key
  <2> QED BY <1>1, <2>1, QueueBasics DEF TypeOK, LibTypeOK, Waiting, Value
<1>3. /\ pc'[t] = "load" /\ \A u \in Thread : u # t => pc'[u] = pc[u]
      /\ pc' \in [Thread -> {"begin"} \cup Critical]
  BY <1>1 DEF TypeOK, Critical
<1>4. /\ left'[t] = left[t] - 1 /\ \A u \in Thread : u # t => left'[u] = left[u]
      /\ left' \in [Thread -> 0 .. ROUNDS]
  BY <1>1, UserThreadsAssumption DEF TypeOK, LibTypeOK
<1>5. TurnsCounted'
  <2>1. turns[t] + left[t] = ROUNDS
    BY <1>1 DEF IInv, TurnsCounted
  <2>2. turns[t] \in Nat /\ left[t] \in Nat /\ ROUNDS \in Nat
    BY <1>1, UserThreadsAssumption DEF TypeOK, LibTypeOK
  <2>3. turns'[t] + left'[t] = ROUNDS - 1
    BY <1>4, <2>1, <2>2
  <2> QED BY <1>3, <1>4, <2>3 DEF IInv, TurnsCounted
<1> DEFINE Kept == UNCHANGED <<forked, joined, exited, COUNTER, val, turns>>
<1>6. Kept
  BY DEF acquire, wait, libVars
<1>7. ASSUME count' \in Value, wait_queue' \in [Key -> Seq(Thread)], bolt' \in BOOLEAN
      PROVE  TypeOK'
  BY <1>1, <1>3, <1>4, <1>6, <1>7 DEF TypeOK, LibTypeOK
<1>8. ASSUME UNCHANGED wait_queue
      PROVE  /\ Waiters'
             /\ \A u \in Thread : Inside(u)' <=> Inside(u) \/ u = t
  <2>1. Waiting' = Waiting
    BY <1>8 DEF Waiting
  <2>2. Waiters'
    BY <1>1, <1>3, <1>8, <2>1 DEF Waiters
  <2>3. \A u \in Thread : u # t => (Inside(u)' <=> Inside(u))
    BY <1>3, <1>8 DEF Inside
  <2>4. Inside(t)'
    BY <1>1, <1>3, <1>8 DEF Inside, Running, Critical
  <2> QED BY <2>2, <2>3, <2>4
<1>9. CASE Lock = "spin"
  <2>1. ~bolt /\ bolt' = TRUE /\ UNCHANGED <<count, wait_queue>>
    BY <1>9 DEF acquire, libVars
  <2>2. \A u \in Thread : ~Inside(u)
    BY <1>9, <2>1 DEF IInv, LockHeld
  <2>3. TypeOK'
    BY <1>1, <1>7, <2>1 DEF TypeOK, LibTypeOK
  <2>4. LockHeld' /\ MutualExclusion'
    BY <1>8, <1>9, <2>1, <2>2 DEF LockHeld, MutualExclusion
  <2> QED BY <1>1, <1>3, <1>5, <1>8, <2>1, <2>3, <2>4, LockStep
<1>10. CASE Lock # "spin" /\ count[SEM] > 0
  <2>1. /\ count' = [count EXCEPT ![SEM] = @ - 1] /\ UNCHANGED <<wait_queue, bolt>>
    BY <1>10 DEF wait
  <2>2. count[SEM] = 1 /\ \A u \in Thread : ~Inside(u)
    BY <1>10 DEF IInv, LockHeld
  <2>3. count' \in Value /\ count'[SEM] = 0
    BY <1>1, <1>2, <2>1, <2>2 DEF TypeOK, LibTypeOK, Value
  <2>4. TypeOK'
    BY <1>1, <1>7, <2>1, <2>3 DEF TypeOK, LibTypeOK
  <2>5. LockHeld' /\ MutualExclusion'
    BY <1>8, <1>10, <2>1, <2>2, <2>3 DEF LockHeld, MutualExclusion
  <2> QED BY <1>1, <1>3, <1>5, <1>8, <2>1, <2>4, <2>5, LockStep
<1>11. CASE Lock # "spin" /\ ~(count[SEM] > 0)
  <2>1. /\ wait_queue' = [wait_queue EXCEPT ![SEM] = Append(@, t)]
        /\ UNCHANGED <<count, bolt>>
    BY <1>11 DEF wait
  <2>2. /\ wait_queue' \in [Key -> Seq(Thread)]
        /\ wait_queue'[SEM] = Append(wait_queue[SEM], t)
        /\ \A k \in Key : k # SEM => wait_queue'[k] = wait_queue[k]
    BY <1>1, <1>2, <2>1, AppendMembers DEF TypeOK, LibTypeOK
  <2>3. Waiting' = Waiting \cup {t} /\ IsInjective(wait_queue'[SEM])
    BY <1>1, <1>2, <2>2, AppendMembers DEF Waiters, Waiting
  <2>4. TypeOK'
    BY <1>1, <1>7, <2>1, <2>2 DEF TypeOK, LibTypeOK
  <2>5. Waiters'
    BY Zenon, <1>1, <1>2, <1>3, <1>11, <2>2, <2>3 DEF Waiters
  <2>6. ASSUME NEW u \in Thread PROVE Inside(u)' <=> Inside(u)
    <3>1. Inside(u)' <=> pc'[u] \in Critical /\ u \notin Waiting'
      <4>1. \A k \in Key : k # SEM => Range(wait_queue'[k]) = {}
        BY <2>5, EmptyQueue DEF Waiters
      <4> QED BY Zenon, <1>2, <4>1 DEF Inside, Waiting
    <3> QED BY <1>1, <1>3, <2>3, <3>1, InsideMeans
  <2>7. LockHeld' /\ MutualExclusion'
    BY <1>2, <1>11, <2>1, <2>6 DEF IInv, LockHeld, MutualExclusion
  <2> QED BY <1>1, <1>3, <1>5, <1>6, <2>4, <2>5, <2>7, LockStep
<1> QED BY <1>9, <1>10, <1>11

(* SPINLOCK.release() or SEM.signal(): the thread leaves, and a waiting    *)
(* thread takes its place without the unit being counted.                  *)
LEMMA UnlockInv ==
  ASSUME IInv, NEW t \in Thread, unlock(t)
  PROVE  IInv'
<1> USE DEF unlock, At, Goto
<1>1. /\ TypeOK /\ Waiters /\ pc[t] = "unlock" /\ t \notin Waiting /\ Running(t)
      /\ Inside(t)
  BY InsideMeans DEF IInv, Critical
<1>2. /\ SEM \in Key /\ wait_queue[SEM] \in Seq(Thread) /\ Waiting \subseteq Thread
      /\ count[SEM] \in Nat
  <2>1. SEM \in Key
    BY DEF SEM, Key
  <2> QED BY <1>1, <2>1, QueueBasics DEF TypeOK, LibTypeOK, Waiting, Value
<1>3. /\ pc'[t] = "begin" /\ \A u \in Thread : u # t => pc'[u] = pc[u]
      /\ pc' \in [Thread -> {"begin"} \cup Critical]
  BY <1>1 DEF TypeOK, Critical
<1>4. TurnsCounted'
  BY <1>1, <1>3 DEF IInv, TurnsCounted
<1>5. UNCHANGED <<forked, joined, exited, left, COUNTER, val, turns>>
  BY DEF release, signal, libVars
<1>6. ASSUME count' \in Value, wait_queue' \in [Key -> Seq(Thread)], bolt' \in BOOLEAN
      PROVE  TypeOK'
  BY <1>1, <1>3, <1>5, <1>6 DEF TypeOK, LibTypeOK
<1>7. \A u \in Thread : u # t => ~Inside(u)
  BY <1>1 DEF IInv, MutualExclusion
<1>8. ~Inside(t)'
  BY <1>3 DEF Inside, Critical
<1>9. ASSUME UNCHANGED wait_queue
      PROVE  Waiters' /\ \A u \in Thread : ~Inside(u)'
  <2>1. Waiting' = Waiting
    BY <1>9 DEF Waiting
  <2>2. Waiters'
    BY <1>1, <1>2, <1>3, <1>9, <2>1 DEF Waiters
  <2>3. \A u \in Thread : u # t => ~Inside(u)'
    BY <1>3, <1>7, <1>9 DEF Inside
  <2> QED BY <1>8, <2>2, <2>3
<1>10. CASE Lock = "spin"
  <2>1. bolt' = FALSE /\ UNCHANGED <<count, wait_queue>>
    BY <1>10 DEF release, libVars
  <2>2. TypeOK'
    BY Zenon, <1>1, <1>6, <2>1 DEF TypeOK, LibTypeOK
  <2>3. LockHeld' /\ MutualExclusion'
    BY <1>9, <1>10, <2>1 DEF LockHeld, MutualExclusion
  <2> QED BY <1>1, <1>3, <1>4, <1>5, <1>9, <2>1, <2>2, <2>3, LockStep
<1>11. CASE Lock # "spin" /\ wait_queue[SEM] = <<>>
  <2>1. count' = [count EXCEPT ![SEM] = @ + 1] /\ UNCHANGED <<wait_queue, bolt>>
    BY <1>11 DEF signal
  <2>2. count[SEM] = 0
    BY <1>1, <1>11 DEF IInv, LockHeld
  <2>3. count' \in Value /\ count'[SEM] = 1
    BY <1>1, <1>2, <2>1, <2>2 DEF TypeOK, LibTypeOK, Value
  <2>4. TypeOK'
    BY <1>1, <1>6, <2>1, <2>3 DEF TypeOK, LibTypeOK
  <2>5. LockHeld' /\ MutualExclusion'
    BY <1>9, <1>11, <2>1, <2>3 DEF LockHeld, MutualExclusion
  <2> QED BY <1>1, <1>3, <1>4, <1>5, <1>9, <2>1, <2>4, <2>5, LockStep
<1>12. CASE Lock # "spin" /\ wait_queue[SEM] # <<>>
  <2> DEFINE h == Head(wait_queue[SEM])
  <2>1. /\ wait_queue' = [wait_queue EXCEPT ![SEM] = Tail(@)]
        /\ UNCHANGED <<count, bolt>>
    BY <1>12 DEF signal
  <2>2. /\ wait_queue' \in [Key -> Seq(Thread)]
        /\ wait_queue'[SEM] = Tail(wait_queue[SEM])
        /\ \A k \in Key : k # SEM => wait_queue'[k] = wait_queue[k]
    BY <1>1, <1>2, <1>12, <2>1, TailMembers DEF TypeOK, LibTypeOK
  <2>3. /\ Waiting = Waiting' \cup {h} /\ h \notin Waiting'
        /\ IsInjective(wait_queue'[SEM])
    BY <1>1, <1>2, <1>12, <2>2, TailMembers DEF Waiters, Waiting
  <2> HIDE DEF h
  <2>4. TypeOK'
    BY <1>1, <1>6, <2>1, <2>2 DEF TypeOK, LibTypeOK
  <2>5. Waiters'
    BY Zenon, <1>1, <1>2, <1>3, <1>12, <2>2, <2>3 DEF Waiters
  <2>6. ASSUME NEW u \in Thread, Inside(u)' PROVE u = h
    <3>1. u # t /\ pc[u] \in Critical
      BY <1>3, <1>8, <2>6 DEF Inside
    <3>2. u \notin Waiting'
      BY <1>2, <2>6 DEF Inside, Waiting
    <3>3. u \in Waiting
      BY <1>1, <1>7, <3>1, InsideMeans
    <3> QED BY <2>3, <3>2, <3>3
  <2>7. count[SEM] = 0
    BY <1>1, <1>12 DEF IInv, LockHeld
  <2>8. LockHeld' /\ MutualExclusion'
    BY <1>12, <2>1, <2>6, <2>7 DEF LockHeld, MutualExclusion
  <2> QED BY <1>1, <1>3, <1>4, <1>5, <2>4, <2>5, <2>8, LockStep
<1> QED BY <1>10, <1>11, <1>12

-----------------------------------------------------------------------------
(* Every step keeps the invariant, and is an increment or leaves the       *)
(* abstract counter alone.                                                 *)
LEMMA StepInv ==
  ASSUME IInv, [Next]_vars
  PROVE  IInv' /\ [Atomic!Next]_<<COUNTER, turns>>
<1>1. CASE UNCHANGED vars
  <2>1. TypeOK'
    BY <1>1 DEF IInv, TypeOK, LibTypeOK, vars, threadVars, libVars, counterVars
  <2> QED BY <1>1, <2>1, QuietInv DEF vars, threadVars, libVars, counterVars
<1>2. CASE main /\ UNCHANGED counterVars
  <2>1. TypeOK'
    <3>1. forked' \in 0 .. THREAD_COUNT /\ joined' \in 0 .. THREAD_COUNT
      <4>1. /\ forked \in 0 .. THREAD_COUNT /\ joined \in 0 .. THREAD_COUNT
            /\ THREAD_COUNT \in Nat
        BY UserThreadsAssumption DEF IInv, TypeOK, LibTypeOK
      <4>2. CASE fork
        BY <4>1, <4>2 DEF fork
      <4>3. CASE join
        BY <4>1, <4>3 DEF join
      <4> QED BY <1>2, <4>2, <4>3 DEF main
    <3>2. UNCHANGED <<exited, count, wait_queue, pc, left>>
      BY <1>2 DEF main, fork, join
    <3> QED BY <1>2, <3>1, <3>2 DEF IInv, TypeOK, LibTypeOK, counterVars
  <2> QED BY <1>2, <2>1, QuietInv DEF main, fork, join, counterVars
<1>3. ASSUME NEW t \in Thread, exit(t) /\ UNCHANGED counterVars
      PROVE  IInv' /\ UNCHANGED <<COUNTER, turns>>
  <2>1. TypeOK'
    BY <1>3 DEF IInv, TypeOK, LibTypeOK, exit, sys_exit, counterVars
  <2> QED BY <1>3, <2>1, QuietInv DEF exit, sys_exit, counterVars
<1>4. ASSUME NEW t \in Thread, lock(t)
      PROVE  IInv' /\ UNCHANGED <<COUNTER, turns>>
  BY <1>4, LockInv DEF lock
<1>5. ASSUME NEW t \in Thread, load(t)
      PROVE  IInv' /\ UNCHANGED <<COUNTER, turns>>
  BY Zenon, <1>5, LoadInv DEF load
<1>6. ASSUME NEW t \in Thread, store(t)
      PROVE  IInv' /\ Atomic!Next
  BY Zenon, <1>6, StoreInv DEF store, Atomic!Next, Atomic!Increment
<1>7. ASSUME NEW t \in Thread, unlock(t)
      PROVE  IInv' /\ UNCHANGED <<COUNTER, turns>>
  BY <1>7, UnlockInv DEF unlock
<1> QED BY <1>1, <1>2, <1>3, <1>4, <1>5, <1>6, <1>7 DEF Next, thread

(* The lock of sem and of spin excludes, for any number of threads: at     *)
(* most one of them is between the lock and the unlock of do_counter_inc.  *)
THEOREM LockExcludes == Spec => []MutualExclusion
<1>1. IInv => MutualExclusion
  BY DEF IInv
<1>2. IInv /\ [Next]_vars => IInv'
  BY StepInv
<1> QED BY <1>1, <1>2, InitInv, PTL DEF Spec

(* sem and spin implement the atomic counter, for any number of threads    *)
(* and rounds: no interleaving of inc_counter loses an update.             *)
THEOREM CounterRefines == Spec => NoLostUpdate
<1>1. Init => Atomic!Init
  BY DEF Init, Atomic!Init
<1>2. IInv /\ [Next]_vars => IInv' /\ [Atomic!Next]_<<COUNTER, turns>>
  BY StepInv
<1> QED BY <1>1, <1>2, InitInv, PTL DEF Spec, NoLostUpdate, Atomic!Spec

-----------------------------------------------------------------------------
(* Semaphores, for philo and fish.                                         *)

(* The threads blocked on each semaphore. *)
Blocked == [k \in Key |-> Range(wait_queue[k])]

(* Semaphores whose units and queues are well formed, for the threads of S. *)
SemOK(S) ==
  /\ count \in Value
  /\ wait_queue \in [Key -> Seq(S)]
  /\ \A k \in Key : IsInjective(wait_queue[k])

(* What Semaphore::wait does to the units and to the blocked threads. *)
LEMMA WaitEffect ==
  ASSUME NEW S, SemOK(S), NEW t \in S, NEW k \in Key, t \notin Blocked[k], wait(t, k)
  PROVE  /\ SemOK(S)'
         /\ \A j \in Key : j # k => count'[j] = count[j] /\ Blocked'[j] = Blocked[j]
         /\ \/ count[k] > 0 /\ count'[k] = count[k] - 1 /\ Blocked' = Blocked
            \/ count[k] = 0 /\ count' = count /\ Blocked'[k] = Blocked[k] \cup {t}
<1>1. count[k] \in Nat /\ wait_queue[k] \in Seq(S) /\ IsInjective(wait_queue[k])
  BY DEF SemOK, Value
<1>2. CASE count[k] > 0
  <2>1. count' = [count EXCEPT ![k] = count[k] - 1] /\ wait_queue' = wait_queue
    BY <1>2 DEF wait
  <2>2. count' \in Value /\ count'[k] = count[k] - 1
        /\ \A j \in Key : j # k => count'[j] = count[j]
    BY <1>1, <1>2, <2>1 DEF SemOK, Value
  <2>3. Blocked' = Blocked
    BY <2>1 DEF Blocked
  <2> QED
    BY <1>2, <2>1, <2>2, <2>3 DEF SemOK
<1>3. CASE ~(count[k] > 0)
  <2>1. count' = count /\ wait_queue' = [wait_queue EXCEPT ![k] = Append(wait_queue[k], t)]
    BY <1>3 DEF wait
  <2>2. /\ wait_queue'[k] = Append(wait_queue[k], t)
        /\ \A j \in Key : j # k => wait_queue'[j] = wait_queue[j]
    BY <2>1 DEF SemOK
  <2>3. t \notin Range(wait_queue[k])
    BY DEF Blocked
  <2>4. /\ Append(wait_queue[k], t) \in Seq(S) /\ IsInjective(Append(wait_queue[k], t))
        /\ Range(Append(wait_queue[k], t)) = Range(wait_queue[k]) \cup {t}
    BY <1>1, <2>3, AppendMembers
  <2>5. SemOK(S)'
    BY <2>1, <2>2, <2>4 DEF SemOK
  <2>6. Blocked'[k] = Blocked[k] \cup {t} /\ \A j \in Key : j # k => Blocked'[j] = Blocked[j]
    BY Zenon, <2>2, <2>4 DEF Blocked
  <2> QED
    BY <1>1, <1>3, <2>1, <2>5, <2>6
<1> QED
  BY <1>2, <1>3

(* What Semaphore::signal does: a unit for the first blocked thread, or    *)
(* one more unit.                                                          *)
LEMMA SignalEffect ==
  ASSUME NEW S, SemOK(S), NEW k \in Key, signal(k)
  PROVE  /\ SemOK(S)'
         /\ \A j \in Key : j # k => count'[j] = count[j] /\ Blocked'[j] = Blocked[j]
         /\ \/ Blocked[k] = {} /\ count'[k] = count[k] + 1 /\ Blocked' = Blocked
            \/ /\ count' = count
               /\ \E u \in S : u \in Blocked[k] /\ Blocked'[k] = Blocked[k] \ {u}
<1>1. count[k] \in Nat /\ wait_queue[k] \in Seq(S) /\ IsInjective(wait_queue[k])
  BY DEF SemOK, Value
<1>2. CASE wait_queue[k] = <<>>
  <2>1. count' = [count EXCEPT ![k] = count[k] + 1] /\ wait_queue' = wait_queue
    BY <1>2 DEF signal
  <2>2. count' \in Value /\ count'[k] = count[k] + 1
        /\ \A j \in Key : j # k => count'[j] = count[j]
    BY <1>1, <1>2, <2>1 DEF SemOK, Value
  <2>3. Blocked' = Blocked /\ Blocked[k] = {}
    BY <1>2, <2>1, EmptyQueue DEF Blocked
  <2> QED
    BY <2>1, <2>2, <2>3 DEF SemOK
<1>3. CASE wait_queue[k] # <<>>
  <2>1. count' = count /\ wait_queue' = [wait_queue EXCEPT ![k] = Tail(wait_queue[k])]
    BY <1>3 DEF signal
  <2>2. /\ wait_queue'[k] = Tail(wait_queue[k])
        /\ \A j \in Key : j # k => wait_queue'[j] = wait_queue[j]
    BY <2>1 DEF SemOK
  <2> DEFINE u == Head(wait_queue[k])
  <2>3. /\ Tail(wait_queue[k]) \in Seq(S) /\ IsInjective(Tail(wait_queue[k]))
        /\ u \in S /\ u \in Range(wait_queue[k]) /\ u \notin Range(Tail(wait_queue[k]))
        /\ Range(wait_queue[k]) = Range(Tail(wait_queue[k])) \cup {u}
    BY <1>1, <1>3, TailMembers
  <2>4. SemOK(S)'
    BY <2>1, <2>2, <2>3 DEF SemOK
  <2> HIDE DEF u
  <2>5. u \in Blocked[k] /\ Blocked'[k] = Blocked[k] \ {u}
    BY <2>2, <2>3 DEF Blocked
  <2>6. \A j \in Key : j # k => Blocked'[j] = Blocked[j]
    BY <2>2 DEF Blocked
  <2> QED
    BY <2>1, <2>3, <2>4, <2>5, <2>6
<1> QED
  BY <1>2, <1>3

(* A step that leaves the semaphores alone. *)
LEMMA NoSemEffect ==
  ASSUME NEW S, SemOK(S), UNCHANGED <<count, wait_queue>>
  PROVE  SemOK(S)' /\ Blocked' = Blocked
BY DEF SemOK, Blocked

(* Only threads of the program are blocked.                                *)
LEMMA BlockedAreThreads ==
  ASSUME NEW S, SemOK(S), NEW k \in Key
  PROVE  Blocked[k] \subseteq S
BY QueueBasics DEF SemOK, Blocked

-----------------------------------------------------------------------------
(* philo: every semaphore is a lock.                                       *)

(* The system calls of hungry, one by one. *)
LEMMA HungryCalls ==
  ASSUME NEW t
  PROVE  /\ Len(Philo!hungry(t)) = 11
         /\ Philo!hungry(t)[1] = <<"wait", 5>>
         /\ Philo!hungry(t)[2] = <<"wait", t>>
         /\ Philo!hungry(t)[3] = <<"wait", Philo!Right(t)>>
         /\ Philo!hungry(t)[4] = <<"signal", t>>
         /\ Philo!hungry(t)[5] = <<"signal", Philo!Right(t)>>
         /\ Philo!hungry(t)[6] = <<"wait", t>>
         /\ Philo!hungry(t)[7] = <<"wait", Philo!Right(t)>>
         /\ Philo!hungry(t)[8] = <<"signal", 5>>
         /\ Philo!hungry(t)[9] = <<"eat", t>>
         /\ Philo!hungry(t)[10] = <<"signal", t>>
         /\ Philo!hungry(t)[11] = <<"signal", Philo!Right(t)>>
BY DEF Philo!hungry, Philo!check, Philo!SERVER

(* The semaphores a philosopher has waited for and not signalled: the own  *)
(* chopstick, the right one, and the server's.  The wait may still be on.  *)
Uses(t, k) ==
  \/ k = t /\ pc[t] \in {3, 4, 7, 8, 9, 10}
  \/ k = Philo!Right(t) /\ pc[t] \in {4, 5, 8, 9, 10, 11}
  \/ k = 5 /\ pc[t] \in 2 .. 8

(* The last call was the wait on k. *)
Called(t, k) ==
  \/ k = t /\ pc[t] \in {3, 7}
  \/ k = Philo!Right(t) /\ pc[t] \in {4, 8}
  \/ k = 5 /\ pc[t] = 2

(* Each semaphore is a lock: one philosopher at most has it. *)
OneUser(k) ==
  /\ count[k] \in {0, 1}
  /\ \A t \in Blocked[k] : Called(t, k)
  /\ count[k] = 1 => Blocked[k] = {} /\ \A t \in Seat : ~Uses(t, k)
  /\ \A t, u \in Seat :
       Uses(t, k) /\ t \notin Blocked[k] /\ Uses(u, k) /\ u \notin Blocked[k] => t = u

PhiloPart == SemOK(Seat) /\ pc \in [Seat -> 1 .. 11] /\ \A k \in Key : OneUser(k)

(* The keys of a philosopher's chopsticks and of the server.               *)
LEMMA Seats ==
  ASSUME NEW t \in Seat
  PROVE  /\ t \in Key /\ Philo!Right(t) \in Key /\ Philo!Right(t) \in Seat
         /\ t # Philo!Right(t) /\ t # 5 /\ Philo!Right(t) # 5 /\ 5 \in Key
BY DEF Seat, Key, Philo!Right

(* What a step of a philosopher is. *)
Waits(t, k) ==
  /\ wait(t, k) /\ ~Uses(t, k) /\ Called(t, k)'
  /\ \A j \in Key : j # k => (Uses(t, j)' <=> Uses(t, j))
Signals(t, k) ==
  /\ signal(k) /\ Uses(t, k) /\ ~Uses(t, k)'
  /\ \A j \in Key : j # k => (Uses(t, j)' <=> Uses(t, j))
Eats(t) == UNCHANGED <<count, wait_queue>> /\ \A j \in Key : Uses(t, j)' <=> Uses(t, j)

(* Every step of a philosopher is one of the three kinds.                  *)
LEMMA HungrySteps ==
  ASSUME pc \in [Seat -> 1 .. 11], NEW t \in Seat, Philo!thread(t)
  PROVE  /\ pc' \in [Seat -> 1 .. 11]
         /\ \A u \in Seat : u # t => pc'[u] = pc[u]
         /\ \A k \in Key : t \notin Blocked[k]
         /\ Eats(t) \/ \E k \in Key : Waits(t, k) \/ Signals(t, k)
<1> DEFINE R == Philo!Right(t)
           op == Philo!hungry(t)[pc[t]]
<1>1. /\ \A k \in Key : t \notin Blocked[k]
      /\ op[1] = "wait" => wait(t, op[2])
      /\ op[1] = "signal" => signal(op[2])
      /\ op[1] = "eat" => UNCHANGED <<count, wait_queue>>
      /\ pc' = [pc EXCEPT ![t] = (pc[t] % Len(Philo!hungry(t))) + 1]
  <2>1. Philo!repeat(t, Philo!hungry(t))
    BY DEF Philo!thread
  <2>2. \A k \in Key : t \notin Blocked[k]
    BY <2>1 DEF Philo!repeat, Philo!Running, Philo!Key, Key, Philo!Range, Range, Blocked
  <2>3. (CASE op[1] = "wait" -> Philo!wait(t, op[2])
           [] op[1] = "signal" -> Philo!signal(op[2])
           [] OTHER -> UNCHANGED Philo!libVars)
    BY <2>1 DEF Philo!repeat
  <2>4. "wait" # "signal" /\ "wait" # "eat" /\ "signal" # "eat"
    OBVIOUS
  <2> HIDE DEF op
  <2>5. /\ op[1] = "wait" => Philo!wait(t, op[2])
        /\ op[1] = "signal" => Philo!signal(op[2])
        /\ op[1] = "eat" => UNCHANGED Philo!libVars
    BY <2>3, <2>4, Zenon
  <2>6. \A k : /\ Philo!wait(t, k) => wait(t, k)
               /\ Philo!signal(k) => signal(k)
    BY DEF Philo!wait, wait, Philo!signal, signal
  <2>7. UNCHANGED Philo!libVars => UNCHANGED <<count, wait_queue>>
    BY DEF Philo!libVars
  <2>8. pc' = [pc EXCEPT ![t] = (pc[t] % Len(Philo!hungry(t))) + 1]
    BY <2>1 DEF Philo!repeat, Philo!Goto
  <2> QED
    BY <2>2, <2>5, <2>6, <2>7, <2>8
<1>2. pc[t] \in 1 .. 11 /\ (pc[t] % 11) + 1 \in 1 .. 11
  OBVIOUS
<1>3. /\ pc' \in [Seat -> 1 .. 11] /\ pc'[t] = (pc[t] % 11) + 1
      /\ \A u \in Seat : u # t => pc'[u] = pc[u]
  BY Zenon, <1>1, <1>2, HungryCalls
<1> HIDE DEF op
<1>4. t # R /\ t # 5 /\ R # 5 /\ t \in Key /\ R \in Key /\ 5 \in Key
  BY Seats
<1>5. CASE pc[t] = 1
  <2>1. wait(t, 5) /\ pc'[t] = 2
    BY <1>1, <1>3, <1>5, HungryCalls DEF op
  <2>2. Waits(t, 5)
    BY <1>4, <1>5, <2>1 DEF Waits, Uses, Called
  <2> QED
    BY <1>1, <1>3, <1>4, <2>2
<1>6. CASE pc[t] \in {2, 6}
  <2>1. wait(t, t) /\ pc'[t] = pc[t] + 1
    BY SMTT(30), <1>1, <1>3, <1>6, HungryCalls DEF op
  <2>2. Waits(t, t)
    BY <1>4, <1>6, <2>1 DEF Waits, Uses, Called
  <2> QED
    BY <1>1, <1>3, <1>4, <2>2
<1>7. CASE pc[t] \in {3, 7}
  <2>1. wait(t, R) /\ pc'[t] = pc[t] + 1
    BY SMTT(30), <1>1, <1>3, <1>7, HungryCalls DEF op
  <2>2. Waits(t, R)
    BY <1>4, <1>7, <2>1 DEF Waits, Uses, Called
  <2> QED
    BY <1>1, <1>3, <1>4, <2>2
<1>8. CASE pc[t] \in {4, 10}
  <2>1. signal(t) /\ pc'[t] = pc[t] + 1
    BY SMTT(30), <1>1, <1>3, <1>8, HungryCalls DEF op
  <2>2. Signals(t, t)
    BY <1>4, <1>8, <2>1 DEF Signals, Uses
  <2> QED
    BY <1>1, <1>3, <1>4, <2>2
<1>9. CASE pc[t] \in {5, 11}
  <2>1. pc'[t] = IF pc[t] = 5 THEN 6 ELSE 1
    BY <1>3, <1>9
  <2>2. signal(R)
    BY SMTT(30), <1>1, <1>9, HungryCalls DEF op
  <2>3. Signals(t, R)
    BY <1>4, <1>9, <2>1, <2>2 DEF Signals, Uses
  <2> QED
    BY <1>1, <1>3, <1>4, <2>3
<1>10. CASE pc[t] = 8
  <2>1. signal(5) /\ pc'[t] = 9
    BY <1>1, <1>3, <1>10, HungryCalls DEF op
  <2>2. Signals(t, 5)
    BY <1>4, <1>10, <2>1 DEF Signals, Uses
  <2> QED
    BY <1>1, <1>3, <1>4, <2>2
<1>11. CASE pc[t] = 9
  <2>1. UNCHANGED <<count, wait_queue>> /\ pc'[t] = 10
    BY <1>1, <1>3, <1>11, HungryCalls DEF op
  <2>2. Eats(t)
    BY <1>4, <1>11, <2>1 DEF Eats, Uses
  <2> QED
    BY <1>1, <1>3, <2>2
<1> QED
  BY <1>2, <1>5, <1>6, <1>7, <1>8, <1>9, <1>10, <1>11

(* A philosopher who steps leaves the locks of the others as they are. *)
LEMMA OtherKeys ==
  ASSUME SemOK(Seat), NEW t \in Seat, NEW k \in Key, OneUser(k), t \notin Blocked[k],
         \A u \in Seat : u # t => pc'[u] = pc[u],
         count'[k] = count[k], Blocked'[k] = Blocked[k], Uses(t, k)' <=> Uses(t, k)
  PROVE  OneUser(k)'
<1>1. Blocked[k] \subseteq Seat
  BY BlockedAreThreads
<1>2. \A u \in Seat : Uses(u, k)' <=> Uses(u, k)
  BY DEF Uses
<1>3. \A u \in Blocked[k] : Called(u, k)'
  BY <1>1 DEF OneUser, Called
<1> QED
  BY <1>2, <1>3 DEF OneUser

(* A wait keeps its semaphore a lock.                                      *)
LEMMA WaitsKept ==
  ASSUME PhiloPart, NEW t \in Seat, NEW k \in Key, Waits(t, k), t \notin Blocked[k],
         \A u \in Seat : u # t => pc'[u] = pc[u]
  PROVE  OneUser(k)'
<1>1. SemOK(Seat) /\ OneUser(k) /\ Blocked[k] \subseteq Seat
  BY BlockedAreThreads DEF PhiloPart
<1>2. \/ count[k] > 0 /\ count'[k] = count[k] - 1 /\ Blocked'[k] = Blocked[k]
      \/ count[k] = 0 /\ count'[k] = count[k] /\ Blocked'[k] = Blocked[k] \cup {t}
  BY <1>1, WaitEffect DEF Waits
<1>3. Called(t, k)' /\ Uses(t, k)' /\ ~Uses(t, k)
  BY DEF Waits, Called, Uses
<1>4. \A u \in Seat : u # t => (Uses(u, k)' <=> Uses(u, k)) /\ (Called(u, k)' <=> Called(u, k))
  BY DEF Uses, Called
<1>5. CASE count[k] > 0 /\ count'[k] = count[k] - 1 /\ Blocked'[k] = Blocked[k]
  <2>1. count[k] = 1 /\ count'[k] = 0 /\ Blocked'[k] = {} /\ \A u \in Seat : ~Uses(u, k)
    BY <1>1, <1>5 DEF OneUser
  <2> QED
    BY <1>4, <2>1 DEF OneUser
<1>6. CASE count[k] = 0 /\ count'[k] = count[k] /\ Blocked'[k] = Blocked[k] \cup {t}
  <2>1. \A u \in Blocked'[k] : Called(u, k)'
    BY <1>1, <1>3, <1>4, <1>6 DEF OneUser
  <2>2. \A u \in Seat : Uses(u, k)' /\ u \notin Blocked'[k] => Uses(u, k) /\ u \notin Blocked[k]
    BY <1>4, <1>6
  <2> QED
    BY <1>1, <1>6, <2>1, <2>2 DEF OneUser
<1> QED
  BY <1>2, <1>5, <1>6

(* A signal keeps its semaphore a lock.                                    *)
LEMMA SignalsKept ==
  ASSUME PhiloPart, NEW t \in Seat, NEW k \in Key, Signals(t, k), t \notin Blocked[k],
         \A u \in Seat : u # t => pc'[u] = pc[u]
  PROVE  OneUser(k)'
<1>1. SemOK(Seat) /\ OneUser(k) /\ Blocked[k] \subseteq Seat
  BY BlockedAreThreads DEF PhiloPart
<1>2. \/ Blocked[k] = {} /\ count'[k] = count[k] + 1 /\ Blocked'[k] = Blocked[k]
      \/ /\ count'[k] = count[k]
         /\ \E u \in Seat : u \in Blocked[k] /\ Blocked'[k] = Blocked[k] \ {u}
  BY <1>1, SignalEffect DEF Signals
<1>3. Uses(t, k) /\ ~Uses(t, k)'
  BY DEF Signals
<1>4. \A u \in Seat : u # t => (Uses(u, k)' <=> Uses(u, k)) /\ (Called(u, k)' <=> Called(u, k))
  BY DEF Uses, Called
<1>5. count[k] = 0 /\ \A u \in Seat : Uses(u, k) /\ u \notin Blocked[k] => u = t
  BY <1>1, <1>3 DEF OneUser
<1>6. CASE Blocked[k] = {} /\ count'[k] = count[k] + 1 /\ Blocked'[k] = Blocked[k]
  <2>1. \A u \in Seat : ~Uses(u, k)'
    BY <1>3, <1>4, <1>5, <1>6
  <2> QED
    BY <1>5, <1>6, <2>1 DEF OneUser
<1>7. ASSUME count'[k] = count[k], NEW v \in Seat, v \in Blocked[k], Blocked'[k] = Blocked[k] \ {v}
      PROVE  OneUser(k)'
  <2>1. \A u \in Blocked'[k] : Called(u, k)'
    BY <1>1, <1>4, <1>7 DEF OneUser
  <2>2. \A u \in Seat : Uses(u, k)' /\ u \notin Blocked'[k] => u = v
    BY <1>3, <1>4, <1>5, <1>7
  <2> QED
    BY <1>5, <1>7, <2>1, <2>2 DEF OneUser
<1> QED
  BY <1>2, <1>6, <1>7

(* A step of a philosopher keeps all the locks. *)
LEMMA HungryKept ==
  ASSUME PhiloPart, NEW t \in Seat, Philo!thread(t)
  PROVE  PhiloPart'
<1>1. /\ pc' \in [Seat -> 1 .. 11] /\ \A u \in Seat : u # t => pc'[u] = pc[u]
      /\ \A k \in Key : t \notin Blocked[k]
      /\ Eats(t) \/ \E k \in Key : Waits(t, k) \/ Signals(t, k)
  BY HungrySteps DEF PhiloPart
<1>2. SemOK(Seat) /\ \A k \in Key : OneUser(k)
  BY DEF PhiloPart
<1>3. CASE Eats(t)
  <2>1. SemOK(Seat)' /\ Blocked' = Blocked /\ count' = count
    BY <1>2, <1>3, NoSemEffect DEF Eats
  <2>2. \A k \in Key : OneUser(k)'
    BY <1>1, <1>2, <1>3, <2>1, OtherKeys DEF Eats
  <2> QED
    BY <1>1, <2>1, <2>2 DEF PhiloPart
<1>4. ASSUME NEW k \in Key, Waits(t, k) PROVE PhiloPart'
  <2>1. /\ SemOK(Seat)'
        /\ \A j \in Key : j # k => count'[j] = count[j] /\ Blocked'[j] = Blocked[j]
    BY <1>1, <1>2, <1>4, WaitEffect DEF Waits
  <2>2. OneUser(k)'
    BY Zenon, <1>1, <1>4, WaitsKept
  <2>3. ASSUME NEW j \in Key, j # k PROVE OneUser(j)'
    BY Zenon, <1>1, <1>2, <1>4, <2>1, <2>3, OtherKeys DEF Waits
  <2> QED
    BY Zenon, <1>1, <2>1, <2>2, <2>3 DEF PhiloPart
<1>5. ASSUME NEW k \in Key, Signals(t, k) PROVE PhiloPart'
  <2>1. /\ SemOK(Seat)'
        /\ \A j \in Key : j # k => count'[j] = count[j] /\ Blocked'[j] = Blocked[j]
    BY <1>1, <1>2, <1>5, SignalEffect DEF Signals
  <2>2. OneUser(k)'
    BY Zenon, <1>1, <1>5, SignalsKept
  <2>3. ASSUME NEW j \in Key, j # k PROVE OneUser(j)'
    BY <1>1, <1>2, <1>5, <2>1, <2>3, OtherKeys DEF Signals
  <2> QED
    BY <1>1, <2>1, <2>2, <2>3 DEF PhiloPart
<1> QED
  BY <1>1, <1>3, <1>4, <1>5

(* Nobody holds a lock in the initial state.                               *)
LEMMA PhiloInit == Philo!Init => PhiloPart
<1> SUFFICES ASSUME Philo!Init PROVE PhiloPart
  OBVIOUS
<1> USE DEF Philo!Init, Philo!LibInit
<1>1. /\ count = [k \in Key |-> IF k \in Seat \cup {5} THEN 1 ELSE 0]
      /\ wait_queue = [k \in Key |-> <<>>] /\ pc = [t \in Seat |-> 1]
  BY DEF Philo!Key, Key, Philo!SERVER
<1>2. SemOK(Seat)
  BY <1>1, EmptyQueue DEF SemOK, Value
<1>3. \A k \in Key : count[k] \in {0, 1} /\ Blocked[k] = {}
  BY <1>1, EmptyQueue DEF Blocked
<1>4. \A t \in Seat, k \in Key : ~Uses(t, k)
  BY <1>1 DEF Uses
<1> QED
  BY <1>1, <1>2, <1>3, <1>4 DEF PhiloPart, OneUser

(* Every step keeps the locks.                                             *)
LEMMA PhiloStep == PhiloPart /\ [Philo!Next]_Philo!vars => PhiloPart'
<1> SUFFICES ASSUME PhiloPart, [Philo!Next]_Philo!vars PROVE PhiloPart'
  OBVIOUS
<1>2. CASE Philo!main \/ UNCHANGED Philo!vars
  <2>1. UNCHANGED <<count, wait_queue, pc>>
    BY <1>2 DEF Philo!main, Philo!fork, Philo!join, Philo!vars, Philo!threadVars, Philo!libVars
  <2>2. SemOK(Seat)' /\ Blocked' = Blocked
    BY <2>1, NoSemEffect DEF PhiloPart
  <2> QED
    BY <2>1, <2>2 DEF PhiloPart, OneUser, Uses, Called
<1>3. ASSUME NEW t \in Seat, Philo!thread(t) PROVE PhiloPart'
  BY <1>3, HungryKept
<1> QED
  BY <1>2, <1>3 DEF Philo!Next

(* Two philosophers who share a chopstick never eat at once: each          *)
(* chopstick is a lock, whatever the server and the scheduler do.          *)
LEMMA PhiloApart == PhiloPart => Philo!NeighboursApart
<1> SUFFICES ASSUME PhiloPart, NEW t \in Seat, Philo!Right(t) # t,
                    pc[t] = 9, pc[Philo!Right(t)] = 9
             PROVE  FALSE
  BY DEF Philo!NeighboursApart, Philo!Eating
<1> DEFINE u == Philo!Right(t)
<1>1. u \in Seat /\ u \in Key
  BY Seats
<1>2. Uses(t, u) /\ Uses(u, u) /\ ~Called(t, u) /\ ~Called(u, u)
  BY DEF Uses, Called
<1>3. OneUser(u)
  BY <1>1 DEF PhiloPart
<1> QED
  BY <1>1, <1>2, <1>3 DEF OneUser

-----------------------------------------------------------------------------
(* fish: three units and one turn go round.                                *)

(* The two fish threads take turns by semaphores 0 and 1: the turn is a    *)
(* unit of 0, a unit of 1, or in the hands of one of them.                 *)
Bit(b) == IF b THEN 1 ELSE 0
HasTurn(t) == pc[t] \in {2, 3, 4} /\ t \notin Blocked[t]
Turn(t) == count[t] = 1 \/ (HasTurn(t) /\ pc[t] # 4) \/ pc[1 - t] = 4

(* Semaphores 2 and 3 pass three units around: those of the characters     *)
(* printed since the last "_", and those of the characters to come.        *)
Drawn(t) == pc[t] = 3 /\ t \notin Blocked[3]
Printed(t) == pc[t] \in {4, 5}
Gathered == IF pc[2] \in {2, 3, 4} THEN pc[2] - 1 - Bit(2 \in Blocked[2]) ELSE 0
ToGive == IF pc[2] \in {5, 6, 7} THEN 8 - pc[2] ELSE 0
Past == count[2] + Bit(Printed(0)) + Bit(Printed(1)) + Gathered
Ahead == count[3] + Bit(Drawn(0)) + Bit(Drawn(1)) + ToGive

FishQueues ==
  /\ \A t \in {0, 1} : \A u \in Blocked[t] : u = t /\ pc[t] = 2
  /\ \A u \in Blocked[2] : u = 2 /\ pc[2] \in {2, 3, 4}
  /\ \A u \in Blocked[3] : u \in {0, 1} /\ pc[u] = 3

(* The length of the output says whose turn it is, and what is printed. *)
Times(t) == IF t = 0 THEN {0, 1, 3, 6} ELSE {2, 4, 5, 7}
FishCount ==
  /\ count[0] + count[1] + Bit(HasTurn(0)) + Bit(HasTurn(1)) = 1
  /\ Past + Ahead = 3
  /\ Past = (Len(out) + 3) % 4
  /\ \A t \in {0, 1} : Turn(t) => Len(out) % 8 \in Times(t)

Divider == "_"
Glyph == {"<", ">", Divider}
FishPart ==
  /\ SemOK(0 .. 2)
  /\ pc \in [0 .. 2 -> 1 .. 7] /\ pc[0] \in 1 .. 5 /\ pc[1] \in 1 .. 5
  /\ out \in Seq(Glyph)
  /\ FishQueues /\ FishCount /\ FishThree!WholeFish

Character(t) == IF t = 0 THEN "<" ELSE ">"

(* The script of each fish thread.                                         *)
LEMMA Scripts ==
  /\ FishThree!Script(0) = FishThree!print_0
  /\ FishThree!Script(1) = FishThree!print_1
  /\ FishThree!Script(2) = FishThree!print_2
<1>1. 0 # 1 /\ 1 # 0 /\ 2 # 0 /\ 2 # 1
  OBVIOUS
<1> QED
  BY <1>1, Zenon DEF FishThree!Script

(* The system calls of the first two threads, one by one.                  *)
LEMMA SwimmerCalls ==
  ASSUME NEW t \in {0, 1}
  PROVE  /\ Len(FishThree!Script(t)) = 5
         /\ FishThree!Script(t)[1] = <<"wait", t>>
         /\ FishThree!Script(t)[2] = <<"wait", 3>>
         /\ FishThree!Script(t)[3] = <<"print", Character(t)>>
         /\ FishThree!Script(t)[4] = <<"signal", 1 - t>>
         /\ FishThree!Script(t)[5] = <<"signal", 2>>
<1>1. CASE t = 0
  BY <1>1, Scripts DEF FishThree!print_0, Character
<1>2. CASE t = 1
  BY <1>2, Scripts DEF FishThree!print_1, Character
<1> QED
  BY <1>1, <1>2

(* The system calls of the third thread, one by one.                       *)
LEMMA DividerCalls ==
  /\ Len(FishThree!Script(2)) = 7
  /\ FishThree!Script(2)[1] = <<"wait", 2>>
  /\ FishThree!Script(2)[2] = <<"wait", 2>>
  /\ FishThree!Script(2)[3] = <<"wait", 2>>
  /\ FishThree!Script(2)[4] = <<"print", Divider>>
  /\ FishThree!Script(2)[5] = <<"signal", 3>>
  /\ FishThree!Script(2)[6] = <<"signal", 3>>
  /\ FishThree!Script(2)[7] = <<"signal", 3>>
<1> DEFINE P == FishThree!print_2
<1>1. /\ Len(P) = 7
      /\ P[1] = <<"wait", 2>> /\ P[2] = <<"wait", 2>> /\ P[3] = <<"wait", 2>>
      /\ P[4] = <<"print", Divider>>
      /\ P[5] = <<"signal", 3>> /\ P[6] = <<"signal", 3>> /\ P[7] = <<"signal", 3>>
  BY Zenon DEF FishThree!print_2, Divider
<1>2. FishThree!Script(2) = P
  BY Scripts
<1> QED
  BY <1>1, <1>2, Zenon

(* A system call of a fish thread, as repeat makes it. *)
Call(t, op) ==
  /\ op[1] = "wait" => wait(t, op[2])
  /\ op[1] = "signal" => signal(op[2])
  /\ op[1] = "print" => UNCHANGED <<count, wait_queue>>
  /\ out' = IF op[1] = "print" THEN Append(out, op[2]) ELSE out

(* What each kind of call does to the semaphores and to the output.        *)
LEMMA CallEffect ==
  ASSUME NEW t, NEW x
  PROVE  /\ Call(t, <<"wait", x>>) => wait(t, x) /\ out' = out
         /\ Call(t, <<"signal", x>>) => signal(x) /\ out' = out
         /\ Call(t, <<"print", x>>) =>
              UNCHANGED <<count, wait_queue>> /\ out' = Append(out, x)
BY DEF Call

(* A step of a fish thread is the call its script has next.                *)
LEMMA FishSteps ==
  ASSUME NEW t \in 0 .. 2, FishThree!step(t)
  PROVE  /\ \A k \in Key : t \notin Blocked[k]
         /\ Call(t, FishThree!Script(t)[pc[t]])
         /\ pc' = [pc EXCEPT ![t] = (pc[t] % Len(FishThree!Script(t))) + 1]
<1> DEFINE op == FishThree!Script(t)[pc[t]]
<1>1. FishThree!repeat(t, FishThree!Script(t))
      /\ out' = IF op[1] = "print" THEN Append(out, op[2]) ELSE out
  BY DEF FishThree!step
<1>2. \A k \in Key : t \notin Blocked[k]
  BY <1>1
     DEF FishThree!repeat, FishThree!Running, FishThree!Key, Key, FishThree!Range, Range, Blocked
<1>3. (CASE op[1] = "wait" -> FishThree!wait(t, op[2])
         [] op[1] = "signal" -> FishThree!signal(op[2])
         [] OTHER -> UNCHANGED FishThree!libVars)
  BY <1>1 DEF FishThree!repeat
<1>4. "wait" # "signal" /\ "wait" # "print" /\ "signal" # "print"
  OBVIOUS
<1> HIDE DEF op
<1>5. /\ op[1] = "wait" => FishThree!wait(t, op[2])
      /\ op[1] = "signal" => FishThree!signal(op[2])
      /\ op[1] = "print" => UNCHANGED FishThree!libVars
  BY <1>3, <1>4, Zenon
<1>6. \A k : /\ FishThree!wait(t, k) => wait(t, k)
             /\ FishThree!signal(k) => signal(k)
  BY DEF FishThree!wait, wait, FishThree!signal, signal
<1>7. UNCHANGED FishThree!libVars => UNCHANGED <<count, wait_queue>>
  BY DEF FishThree!libVars
<1>8. pc' = [pc EXCEPT ![t] = (pc[t] % Len(FishThree!Script(t))) + 1]
  BY <1>1 DEF FishThree!repeat, FishThree!Goto
<1>9. Call(t, op)
  BY <1>1, <1>5, <1>6, <1>7 DEF Call
<1> QED
  BY <1>2, <1>8, <1>9 DEF op

(* One step of the first two threads. *)
LEMMA SwimmerSteps ==
  ASSUME FishPart, NEW t \in {0, 1}, FishThree!step(t)
  PROVE  /\ pc' \in [0 .. 2 -> 1 .. 7] /\ pc'[t] = IF pc[t] = 5 THEN 1 ELSE pc[t] + 1
         /\ \A u \in 0 .. 2 : u # t => pc'[u] = pc[u]
         /\ \A k \in Key : t \notin Blocked[k]
         /\ \/ pc[t] = 1 /\ wait(t, t) /\ out' = out
            \/ pc[t] = 2 /\ wait(t, 3) /\ out' = out
            \/ pc[t] = 3 /\ UNCHANGED <<count, wait_queue>> /\ out' = Append(out, Character(t))
            \/ pc[t] = 4 /\ signal(1 - t) /\ out' = out
            \/ pc[t] = 5 /\ signal(2) /\ out' = out
<1>1. pc \in [0 .. 2 -> 1 .. 7] /\ pc[t] \in 1 .. 5 /\ t \in 0 .. 2
  <2>1. pc \in [0 .. 2 -> 1 .. 7] /\ pc[0] \in 1 .. 5 /\ pc[1] \in 1 .. 5
    BY Zenon DEF FishPart
  <2> QED
    BY <2>1
<1>2. /\ \A k \in Key : t \notin Blocked[k]
      /\ Call(t, FishThree!Script(t)[pc[t]])
      /\ pc' = [pc EXCEPT ![t] = (pc[t] % 5) + 1]
  BY Zenon, <1>1, FishSteps, SwimmerCalls
<1>3. (pc[t] % 5) + 1 = IF pc[t] = 5 THEN 1 ELSE pc[t] + 1
  BY <1>1
<1>4. pc' = [pc EXCEPT ![t] = IF pc[t] = 5 THEN 1 ELSE pc[t] + 1]
  BY Zenon, <1>2, <1>3
<1>5. pc' \in [0 .. 2 -> 1 .. 7] /\ pc'[t] = IF pc[t] = 5 THEN 1 ELSE pc[t] + 1
  BY <1>1, <1>4
<1>6. \A u \in 0 .. 2 : u # t => pc'[u] = pc[u]
  BY <1>1, <1>4
<1>7. pc[t] = 1 => wait(t, t) /\ out' = out
  BY <1>2, SwimmerCalls DEF Call
<1>8. pc[t] = 2 => wait(t, 3) /\ out' = out
  BY <1>2, SwimmerCalls DEF Call
<1>9. pc[t] = 3 => UNCHANGED <<count, wait_queue>> /\ out' = Append(out, Character(t))
  BY <1>2, SwimmerCalls DEF Call
<1>10. pc[t] = 4 => signal(1 - t) /\ out' = out
  BY <1>2, SwimmerCalls DEF Call
<1>11. pc[t] = 5 => signal(2) /\ out' = out
  BY <1>2, SwimmerCalls DEF Call
<1> QED
  BY <1>1, <1>2, <1>5, <1>6, <1>7, <1>8, <1>9, <1>10, <1>11

(* One step of the third thread. *)
LEMMA DividerSteps ==
  ASSUME FishPart, FishThree!step(2)
  PROVE  /\ pc' \in [0 .. 2 -> 1 .. 7] /\ pc'[2] = IF pc[2] = 7 THEN 1 ELSE pc[2] + 1
         /\ pc'[0] = pc[0] /\ pc'[1] = pc[1]
         /\ \A k \in Key : 2 \notin Blocked[k]
         /\ \/ pc[2] \in {1, 2, 3} /\ wait(2, 2) /\ out' = out
            \/ pc[2] = 4 /\ UNCHANGED <<count, wait_queue>> /\ out' = Append(out, Divider)
            \/ pc[2] \in {5, 6, 7} /\ signal(3) /\ out' = out
<1>1. pc \in [0 .. 2 -> 1 .. 7] /\ pc[2] \in 1 .. 7 /\ 2 \in 0 .. 2
  <2>1. pc \in [0 .. 2 -> 1 .. 7]
    BY Zenon DEF FishPart
  <2> QED
    BY <2>1
<1>2. /\ \A k \in Key : 2 \notin Blocked[k]
      /\ Call(2, FishThree!Script(2)[pc[2]])
      /\ pc' = [pc EXCEPT ![2] = (pc[2] % 7) + 1]
  BY Zenon, <1>1, FishSteps, DividerCalls
<1>3. (pc[2] % 7) + 1 = IF pc[2] = 7 THEN 1 ELSE pc[2] + 1
  BY <1>1
<1>4. pc' = [pc EXCEPT ![2] = IF pc[2] = 7 THEN 1 ELSE pc[2] + 1]
  BY Zenon, <1>2, <1>3
<1>5. pc' \in [0 .. 2 -> 1 .. 7] /\ pc'[2] = IF pc[2] = 7 THEN 1 ELSE pc[2] + 1
  BY <1>1, <1>4
<1>6. pc'[0] = pc[0] /\ pc'[1] = pc[1]
  BY <1>1, <1>4
<1>7. ASSUME pc[2] \in {1, 2, 3} PROVE wait(2, 2) /\ out' = out
  <2>1. FishThree!Script(2)[pc[2]] = <<"wait", 2>>
    BY <1>7, DividerCalls, Zenon
  <2> QED
    BY <1>2, <2>1, CallEffect, Zenon
<1>8. ASSUME pc[2] = 4 PROVE UNCHANGED <<count, wait_queue>> /\ out' = Append(out, Divider)
  <2>1. FishThree!Script(2)[pc[2]] = <<"print", Divider>>
    BY <1>8, DividerCalls, Zenon
  <2> QED
    BY <1>2, <2>1, CallEffect, Zenon
<1>9. ASSUME pc[2] \in {5, 6, 7} PROVE signal(3) /\ out' = out
  <2>1. FishThree!Script(2)[pc[2]] = <<"signal", 3>>
    BY <1>9, DividerCalls, Zenon
  <2> QED
    BY <1>2, <2>1, CallEffect, Zenon
<1>10. pc[2] \in {1, 2, 3} \/ pc[2] = 4 \/ pc[2] \in {5, 6, 7}
  BY <1>1
<1> QED
  BY <1>2, <1>5, <1>6, <1>7, <1>8, <1>9, <1>10

(* The characters of the pattern.                                          *)
LEMMA Patterns ==
  /\ FishThree!Pattern[1] = Divider /\ FishThree!Pattern[5] = Divider
  /\ FishThree!Pattern[2] = "<" /\ FishThree!Pattern[4] = "<" /\ FishThree!Pattern[7] = "<"
  /\ FishThree!Pattern[3] = ">" /\ FishThree!Pattern[6] = ">" /\ FishThree!Pattern[8] = ">"
BY Zenon DEF FishThree!Pattern, Divider

(* What the threads hold, for the first two threads in either order. *)
LEMMA FishFacts ==
  ASSUME FishPart, NEW t \in {0, 1}
  PROVE  /\ 1 - t \in {0, 1} /\ 1 - t # t /\ 1 - (1 - t) = t
         /\ t \in Key /\ 1 - t \in Key /\ 2 \in Key /\ 3 \in Key
         /\ t # 2 /\ t # 3 /\ 1 - t # 2 /\ 1 - t # 3
         /\ count[t] \in Nat /\ count[1 - t] \in Nat /\ count[2] \in Nat /\ count[3] \in Nat
         /\ count[t] + count[1 - t] + Bit(HasTurn(t)) + Bit(HasTurn(1 - t)) = 1
         /\ Past = count[2] + Bit(Printed(t)) + Bit(Printed(1 - t)) + Gathered
         /\ Ahead = count[3] + Bit(Drawn(t)) + Bit(Drawn(1 - t)) + ToGive
         /\ pc \in [0 .. 2 -> 1 .. 7] /\ pc[t] \in 1 .. 5 /\ pc[1 - t] \in 1 .. 5
         /\ pc[2] \in 1 .. 7 /\ Gathered \in 0 .. 3 /\ ToGive \in 0 .. 3
<1>1. /\ SemOK(0 .. 2) /\ FishCount
      /\ pc \in [0 .. 2 -> 1 .. 7] /\ pc[0] \in 1 .. 5 /\ pc[1] \in 1 .. 5
  BY Zenon DEF FishPart
<1>2. /\ 1 - t \in {0, 1} /\ 1 - t # t /\ 1 - (1 - t) = t
      /\ t \in Key /\ 1 - t \in Key /\ 2 \in Key /\ 3 \in Key
      /\ t # 2 /\ t # 3 /\ 1 - t # 2 /\ 1 - t # 3
  BY DEF Key
<1>3. count[t] \in Nat /\ count[1 - t] \in Nat /\ count[2] \in Nat /\ count[3] \in Nat
  BY <1>1, <1>2 DEF SemOK, Value
<1>4. pc[t] \in 1 .. 5 /\ pc[1 - t] \in 1 .. 5 /\ pc[2] \in 1 .. 7
  BY <1>1
<1>5. Gathered \in 0 .. 3 /\ ToGive \in 0 .. 3
  BY <1>4 DEF Gathered, ToGive, Bit
<1>6. \A u : Bit(HasTurn(u)) \in {0, 1} /\ Bit(Printed(u)) \in {0, 1} /\ Bit(Drawn(u)) \in {0, 1}
  BY DEF Bit
<1>7. count[t] + count[1 - t] + Bit(HasTurn(t)) + Bit(HasTurn(1 - t)) = 1
  <2>1. count[0] + count[1] + Bit(HasTurn(0)) + Bit(HasTurn(1)) = 1
    BY <1>1 DEF FishCount
  <2>2. CASE t = 0
    BY <2>1, <2>2
  <2>3. CASE t = 1
    BY <1>3, <1>6, <2>1, <2>3
  <2> QED
    BY <2>2, <2>3
<1>8. /\ Past = count[2] + Bit(Printed(t)) + Bit(Printed(1 - t)) + Gathered
      /\ Ahead = count[3] + Bit(Drawn(t)) + Bit(Drawn(1 - t)) + ToGive
  <2>1. CASE t = 0
    BY <2>1 DEF Past, Ahead
  <2>2. CASE t = 1
    BY <1>3, <1>5, <1>6, <2>2 DEF Past, Ahead
  <2> QED
    BY <2>1, <2>2
<1> QED
  BY <1>1, <1>2, <1>3, <1>4, <1>5, <1>7, <1>8

(* The next state in the same order. *)
LEMMA FishFactsNext ==
  ASSUME NEW t \in {0, 1}, SemOK(0 .. 2)', pc' \in [0 .. 2 -> 1 .. 7]
  PROVE  /\ count'[t] \in Nat /\ count'[1 - t] \in Nat /\ count'[2] \in Nat /\ count'[3] \in Nat
         /\ count'[t] + count'[1 - t] + Bit(HasTurn(t)') + Bit(HasTurn(1 - t)') =
            count'[0] + count'[1] + Bit(HasTurn(0)') + Bit(HasTurn(1)')
         /\ Past' = count'[2] + Bit(Printed(t)') + Bit(Printed(1 - t)') + Gathered'
         /\ Ahead' = count'[3] + Bit(Drawn(t)') + Bit(Drawn(1 - t)') + ToGive'
         /\ Gathered' \in 0 .. 3 /\ ToGive' \in 0 .. 3
<1>1. 0 \in Key /\ 1 \in Key /\ 2 \in Key /\ 3 \in Key
  BY DEF Key
<1>2. \A k \in Key : count'[k] \in Nat
  BY DEF SemOK, Value
<1>3. count'[0] \in Nat /\ count'[1] \in Nat /\ count'[2] \in Nat /\ count'[3] \in Nat
  BY <1>1, <1>2
<1>4. pc'[2] \in 1 .. 7
  OBVIOUS
<1>5. Gathered' \in 0 .. 3 /\ ToGive' \in 0 .. 3
  BY <1>4 DEF Gathered, ToGive, Bit
<1>6. \A u : Bit(HasTurn(u)') \in {0, 1} /\ Bit(Printed(u)') \in {0, 1} /\ Bit(Drawn(u)') \in {0, 1}
  BY DEF Bit
<1>7. /\ Past' = count'[2] + Bit(Printed(0)') + Bit(Printed(1)') + Gathered'
      /\ Ahead' = count'[3] + Bit(Drawn(0)') + Bit(Drawn(1)') + ToGive'
  BY DEF Past, Ahead, Bit
<1>8. CASE t = 0
  BY <1>3, <1>5, <1>7, <1>8
<1>9. CASE t = 1
  BY <1>3, <1>5, <1>6, <1>7, <1>9
<1> QED
  BY <1>8, <1>9

(* A step that prints nothing passes the turn and the units on. *)
LEMMA PassedOn ==
  ASSUME FishPart, SemOK(0 .. 2)', pc' \in [0 .. 2 -> 1 .. 7], pc'[0] \in 1 .. 5, pc'[1] \in 1 .. 5,
         FishQueues', out' = out,
         count'[0] + count'[1] + Bit(HasTurn(0)') + Bit(HasTurn(1)') = 1,
         Past' = Past, Ahead' = Ahead, \A t \in {0, 1} : Turn(t)' => Turn(t)
  PROVE  FishPart'
<1>1. FishCount /\ FishThree!WholeFish /\ out \in Seq(Glyph)
  BY Zenon DEF FishPart
<1>2. (count[0] + count[1] + Bit(HasTurn(0)) + Bit(HasTurn(1)) = 1)'
  BY DEF Bit
<1>3. FishCount'
  <2>1. Past + Ahead = 3 /\ Past = (Len(out) + 3) % 4
        /\ \A t \in {0, 1} : Turn(t) => Len(out) % 8 \in Times(t)
    BY <1>1 DEF FishCount
  <2>2. (Past + Ahead = 3)' /\ (Past = (Len(out) + 3) % 4)'
    BY <2>1
  <2>3. (\A t \in {0, 1} : Turn(t) => Len(out) % 8 \in Times(t))'
    BY <2>1 DEF Times
  <2> QED
    BY <1>2, <2>2, <2>3 DEF FishCount
<1>4. FishThree!WholeFish'
  BY <1>1 DEF FishThree!WholeFish
<1>5. out' \in Seq(Glyph)
  BY <1>1
<1> QED
  BY <1>3, <1>4, <1>5, Zenon DEF FishPart

(* One more character.                                                     *)
LEMMA Longer ==
  ASSUME NEW S, NEW s \in Seq(S), NEW c \in S
  PROVE  /\ Len(s) \in Nat /\ Len(Append(s, c)) = Len(s) + 1 /\ Append(s, c) \in Seq(S)
         /\ Append(s, c)[Len(s) + 1] = c
         /\ \A i \in 1 .. Len(s) : Append(s, c)[i] = s[i]
OBVIOUS

(* The positions of a sequence that has grown by one.                      *)
LEMMA UpToNext == ASSUME NEW n \in Nat, NEW i \in 1 .. n + 1 PROVE i = n + 1 \/ i \in 1 .. n
OBVIOUS

(* The position in the pattern and the units printed move on together.     *)
LEMMA Cycles ==
  ASSUME NEW n \in Nat
  PROVE  /\ (n + 1) % 8 = ((n % 8) + 1) % 8
         /\ ((n + 1) + 3) % 4 = (((n + 3) % 4) + 1) % 4
         /\ ((n + 1) - 1) % 8 = n % 8
OBVIOUS

(* A step that prints the character the pattern has next. *)
LEMMA PrintedNext ==
  ASSUME FishPart, SemOK(0 .. 2)', pc' \in [0 .. 2 -> 1 .. 7], pc'[0] \in 1 .. 5, pc'[1] \in 1 .. 5,
         FishQueues', NEW c \in Glyph, out' = Append(out, c),
         c = FishThree!Pattern[(Len(out) % 8) + 1],
         count'[0] + count'[1] + Bit(HasTurn(0)') + Bit(HasTurn(1)') = 1,
         Past' + Ahead' = 3, Past' = (Past + 1) % 4,
         \A t \in {0, 1} : Turn(t)' => ((Len(out) % 8) + 1) % 8 \in Times(t)
  PROVE  FishPart'
<1> DEFINE P == FishThree!Pattern
           L == Len(out)
           L1 == Len(out')
<1>1. FishCount /\ FishThree!WholeFish /\ out \in Seq(Glyph)
  BY DEF FishPart
<1>2. (count[0] + count[1] + Bit(HasTurn(0)) + Bit(HasTurn(1)) = 1)'
  BY DEF Bit
<1>3. Past = (L + 3) % 4
  BY <1>1, Zenon DEF FishCount
<1>4. \A i \in 1 .. L : out[i] = P[((i - 1) % 8) + 1]
  BY <1>1, Zenon DEF FishThree!WholeFish
<1> HIDE DEF P
<1>5. /\ L \in Nat /\ L1 = L + 1 /\ out' \in Seq(Glyph)
      /\ out'[L + 1] = c /\ \A i \in 1 .. L : out'[i] = out[i]
  BY <1>1
<1>6. c = P[(L % 8) + 1]
  BY DEF P
<1>7. ASSUME NEW i \in 1 .. L + 1 PROVE out'[i] = P[((i - 1) % 8) + 1]
  <2>1. CASE i = L + 1
    <3>1. (i - 1) % 8 = L % 8
      BY ONLY <1>5, <2>1, Cycles
    <3> QED
      BY ONLY <1>6, <1>5, <2>1, <3>1, Zenon
  <2>2. CASE i \in 1 .. L
    BY ONLY <1>4, <1>5, <2>2, Zenon
  <2>3. i \in 1 .. L + 1
    BY <1>7
  <2> QED
    BY ONLY <1>5, <2>1, <2>2, <2>3, UpToNext
<1> HIDE DEF L, L1
<1>8. Past' = (L1 + 3) % 4 /\ L1 % 8 = ((L % 8) + 1) % 8
  <2>1. Past' = (Past + 1) % 4
    OBVIOUS
  <2> QED
    BY ONLY <1>3, <1>5, <2>1, Cycles
<1>9. FishCount'
  <2>1. (Past + Ahead = 3)'
    OBVIOUS
  <2>2. (Past = (Len(out) + 3) % 4)'
    BY <1>8, Zenon DEF L1
  <2>3. \A t \in {0, 1} : Turn(t)' => Len(out') % 8 \in Times(t)
    BY <1>8, Zenon DEF L, L1
  <2>4. (\A t \in {0, 1} : Turn(t) => Len(out) % 8 \in Times(t))'
    BY <2>3 DEF Times
  <2> QED
    BY <1>2, <2>1, <2>2, <2>4, Zenon DEF FishCount
<1>10. FishThree!WholeFish'
  <2>1. \A i \in 1 .. Len(out') : out'[i] = P[((i - 1) % 8) + 1]
    BY <1>5, <1>7, Zenon DEF L, L1
  <2> QED
    BY ONLY <2>1, Zenon DEF FishThree!WholeFish, FishThree!Pattern, P
<1> QED
  BY <1>5, <1>9, <1>10, Zenon DEF FishPart

(* The step of one of the first two threads, as far as the counts go. *)
LEMMA SwimmerKept ==
  ASSUME FishPart, NEW t \in {0, 1}, FishThree!step(t)
  PROVE  FishPart'
<1> DEFINE o == 1 - t
<1>1. /\ pc' \in [0 .. 2 -> 1 .. 7] /\ pc'[t] = IF pc[t] = 5 THEN 1 ELSE pc[t] + 1
      /\ \A u \in 0 .. 2 : u # t => pc'[u] = pc[u]
      /\ \A k \in Key : t \notin Blocked[k]
      /\ \/ pc[t] = 1 /\ wait(t, t) /\ out' = out
         \/ pc[t] = 2 /\ wait(t, 3) /\ out' = out
         \/ pc[t] = 3 /\ UNCHANGED <<count, wait_queue>> /\ out' = Append(out, Character(t))
         \/ pc[t] = 4 /\ signal(o) /\ out' = out
         \/ pc[t] = 5 /\ signal(2) /\ out' = out
  BY SwimmerSteps
<1>2. /\ o \in {0, 1} /\ o # t /\ 1 - o = t
      /\ t \in Key /\ o \in Key /\ 2 \in Key /\ 3 \in Key
      /\ t # 2 /\ t # 3 /\ o # 2 /\ o # 3
      /\ count[t] \in Nat /\ count[o] \in Nat /\ count[2] \in Nat /\ count[3] \in Nat
      /\ count[t] + count[o] + Bit(HasTurn(t)) + Bit(HasTurn(o)) = 1
      /\ Past = count[2] + Bit(Printed(t)) + Bit(Printed(o)) + Gathered
      /\ Ahead = count[3] + Bit(Drawn(t)) + Bit(Drawn(o)) + ToGive
      /\ pc[t] \in 1 .. 5 /\ pc[o] \in 1 .. 5
      /\ pc[2] \in 1 .. 7 /\ Gathered \in 0 .. 3 /\ ToGive \in 0 .. 3
  BY FishFacts
<1>3. SemOK(0 .. 2) /\ FishQueues /\ FishCount
  BY DEF FishPart
<1>4. t \in 0 .. 2 /\ o \in 0 .. 2 /\ 2 \in 0 .. 2 /\ {0, 1} = {t, o}
  BY <1>2
<1>5. /\ pc'[o] = pc[o] /\ pc'[2] = pc[2]
      /\ pc'[t] \in 1 .. 5 /\ pc'[0] \in 1 .. 5 /\ pc'[1] \in 1 .. 5
  BY <1>1, <1>2, <1>4
<1>6. SemOK(0 .. 2)' =>
        /\ count'[0] + count'[1] + Bit(HasTurn(0)') + Bit(HasTurn(1)') =
           count'[t] + count'[o] + Bit(HasTurn(t)') + Bit(HasTurn(o)')
        /\ Past' = count'[2] + Bit(Printed(t)') + Bit(Printed(o)') + Gathered'
        /\ Ahead' = count'[3] + Bit(Drawn(t)') + Bit(Drawn(o)') + ToGive'
  BY <1>1, FishFactsNext
<1>7. Printed(o)' <=> Printed(o)
  BY <1>5 DEF Printed
<1> HIDE DEF o
<1>8. CASE pc[t] = 1 /\ wait(t, t) /\ out' = out
  <2>1. /\ SemOK(0 .. 2)' /\ count'[o] = count[o] /\ Blocked'[o] = Blocked[o]
        /\ count'[2] = count[2] /\ Blocked'[2] = Blocked[2]
        /\ count'[3] = count[3] /\ Blocked'[3] = Blocked[3]
        /\ \/ count[t] > 0 /\ count'[t] = count[t] - 1 /\ Blocked'[t] = Blocked[t]
           \/ count[t] = 0 /\ count'[t] = count[t] /\ Blocked'[t] = Blocked[t] \cup {t}
    <3> DEFINE S == 0 .. 2
    <3>1. SemOK(S) /\ t \in S /\ t \in Key /\ t \notin Blocked[t] /\ wait(t, t)
      BY Zenon, <1>1, <1>2, <1>3, <1>4, <1>8
    <3> HIDE DEF S
    <3>2. /\ SemOK(S)'
          /\ \A j \in Key : j # t => count'[j] = count[j] /\ Blocked'[j] = Blocked[j]
          /\ \/ count[t] > 0 /\ count'[t] = count[t] - 1 /\ Blocked' = Blocked
             \/ count[t] = 0 /\ count' = count /\ Blocked'[t] = Blocked[t] \cup {t}
      BY ONLY SMTT(30), <3>1, WaitEffect
    <3> QED
      BY Zenon, <1>2, <3>2 DEF S
  <2>2. pc'[t] = 2
    BY SMTT(30), <1>1, <1>8
  <2>3. FishQueues'
    BY SMTT(30), <1>1, <1>2, <1>3, <1>4, <1>5, <1>8, <2>1, <2>2 DEF FishQueues
  <2>4. Past' = Past /\ Ahead' = Ahead
    BY SMTT(30), <1>2, <1>5, <1>6, <1>7, <1>8, <2>1, <2>2 DEF Printed, Drawn, Gathered, ToGive, Bit
  <2>5. HasTurn(o)' <=> HasTurn(o)
    BY <1>5, <2>1 DEF HasTurn
  <2>6. ~HasTurn(t) /\ (HasTurn(t)' <=> t \notin Blocked'[t])
    BY <1>8, <2>2 DEF HasTurn
  <2>7. /\ count'[t] + count'[o] + Bit(HasTurn(t)') + Bit(HasTurn(o)') = 1
        /\ Turn(t)' => Turn(t)
    <3>1. Bit(HasTurn(t)) = 0 /\ Bit(HasTurn(o)') = Bit(HasTurn(o)) /\ Bit(HasTurn(o)) \in {0, 1}
      BY <2>5, <2>6 DEF Bit
    <3>2. count[t] + count[o] + Bit(HasTurn(o)) = 1 /\ count[t] \in Nat /\ count[o] \in Nat
      BY <1>2, <3>1
    <3>3. CASE count[t] > 0 /\ count'[t] = count[t] - 1 /\ Blocked'[t] = Blocked[t]
      <4>1. Bit(HasTurn(t)') = 1
        BY <1>1, <1>2, <2>6, <3>3 DEF Bit
      <4>2. count[t] = 1
        BY <3>1, <3>2, <3>3
      <4>3. Turn(t)
        BY <4>2 DEF Turn
      <4>4. count'[t] = 0 /\ count'[o] = 0 /\ Bit(HasTurn(o)') = 0
        BY SMTT(30), <2>1, <3>1, <3>2, <3>3, <4>2
      <4> QED
        BY <4>1, <4>3, <4>4
    <3>4. CASE count'[t] = count[t] /\ Blocked'[t] = Blocked[t] \cup {t}
      <4>1. ~HasTurn(t)' /\ Bit(HasTurn(t)') = 0
        BY ZenonT(30), <2>6, <3>4 DEF Bit
      <4> QED
        BY <1>2, <1>5, <2>1, <3>1, <3>2, <3>4, <4>1 DEF Turn
    <3> QED
      BY <2>1, <3>3, <3>4
  <2>8. Turn(o)' => Turn(o)
    BY SMTT(30), <1>2, <1>5, <1>8, <2>1, <2>2, <2>5 DEF Turn
  <2> QED
    BY ZenonT(30), <1>1, <1>4, <1>5, <1>6, <1>8, <2>1, <2>3, <2>4, <2>7, <2>8, PassedOn
<1>9. CASE pc[t] = 2 /\ wait(t, 3) /\ out' = out
  <2>1. /\ SemOK(0 .. 2)' /\ count'[o] = count[o] /\ Blocked'[o] = Blocked[o]
        /\ count'[2] = count[2] /\ Blocked'[2] = Blocked[2]
        /\ count'[t] = count[t] /\ Blocked'[t] = Blocked[t]
        /\ \/ count[3] > 0 /\ count'[3] = count[3] - 1 /\ Blocked'[3] = Blocked[3]
           \/ count[3] = 0 /\ count'[3] = count[3] /\ Blocked'[3] = Blocked[3] \cup {t}
    BY SMTT(30), <1>1, <1>2, <1>3, <1>4, <1>9, WaitEffect
  <2>2. pc'[t] = 3
    BY SMTT(30), <1>1, <1>9
  <2>3. FishQueues'
    BY SMTT(30), <1>1, <1>2, <1>3, <1>4, <1>5, <1>9, <2>1, <2>2 DEF FishQueues
  <2>4. Past' = Past /\ (Drawn(o)' <=> Drawn(o))
    BY <1>2, <1>5, <1>6, <1>7, <1>9, <2>1, <2>2 DEF Printed, Drawn, Gathered, Bit
  <2>5. ~Drawn(t) /\ (Drawn(t)' <=> t \notin Blocked'[3]) /\ ToGive' = ToGive
    BY SMTT(30), <1>5, <1>9, <2>2 DEF Drawn, ToGive
  <2>6. Ahead' = Ahead
    BY SMTT(30), <1>1, <1>2, <1>6, <2>1, <2>4, <2>5 DEF Bit
  <2>7. (HasTurn(o)' <=> HasTurn(o)) /\ (HasTurn(t)' <=> HasTurn(t))
    BY <1>5, <1>9, <2>1, <2>2 DEF HasTurn
  <2>8. count'[t] + count'[o] + Bit(HasTurn(t)') + Bit(HasTurn(o)') = 1
    BY Zenon, <1>2, <2>1, <2>7 DEF Bit
  <2>9. (Turn(t)' => Turn(t)) /\ (Turn(o)' => Turn(o))
    BY SMTT(30), <1>2, <1>5, <1>9, <2>1, <2>2, <2>7 DEF Turn
  <2> QED
    BY ZenonT(30), <1>1, <1>4, <1>5, <1>6, <1>9, <2>1, <2>3, <2>4, <2>6, <2>8, <2>9, PassedOn
<1>10. CASE pc[t] = 3 /\ UNCHANGED <<count, wait_queue>> /\ out' = Append(out, Character(t))
  <2>1. SemOK(0 .. 2)' /\ Blocked' = Blocked /\ count' = count
    BY <1>3, <1>10, NoSemEffect
  <2>2. pc'[t] = 4
    BY <1>1, <1>10
  <2>3. FishQueues'
    BY ZenonT(30), <1>1, <1>2, <1>3, <1>4, <1>5, <1>10, <2>1, <2>2 DEF FishQueues
  <2>4. t \notin Blocked[t] /\ t \notin Blocked[3]
    BY <1>1, <1>2
  <2>5. /\ Drawn(t) /\ ~Drawn(t)' /\ ~Printed(t) /\ Printed(t)'
        /\ (Drawn(o)' <=> Drawn(o)) /\ Gathered' = Gathered /\ ToGive' = ToGive
    BY <1>5, <1>10, <2>1, <2>2, <2>4 DEF Drawn, Printed, Gathered, ToGive, Bit
  <2>6. Past' = Past + 1 /\ Ahead' = Ahead - 1 /\ Ahead >= 1 /\ Past \in Nat
    BY <1>2, <1>6, <1>7, <2>1, <2>5 DEF Bit
  <2>7. Past + Ahead = 3 /\ Past = (Len(out) + 3) % 4
    BY <1>3 DEF FishCount
  <2>8. Past \in 0 .. 2 /\ Past' + Ahead' = 3 /\ Past' = (Past + 1) % 4
    <3>1. Ahead \in Int
      BY <1>2 DEF Bit
    <3>2. Past \in 0 .. 2
      BY SMTT(30), <2>6, <2>7, <3>1
    <3> QED
      BY <2>6, <2>7, <3>1, <3>2
  <2>9. /\ HasTurn(t) /\ HasTurn(t)' /\ (HasTurn(o)' <=> HasTurn(o))
        /\ count'[t] + count'[o] + Bit(HasTurn(t)') + Bit(HasTurn(o)') = 1
    BY <1>2, <1>5, <1>10, <2>1, <2>2, <2>4 DEF HasTurn, Bit
  <2>10. count[t] = 0 /\ count[o] = 0 /\ ~HasTurn(o)
    BY <1>2, <2>9 DEF Bit
  <2>11. pc[o] # 4
    BY <1>2, <1>3, <2>10 DEF HasTurn, FishQueues
  <2>12. Turn(t) /\ ~Turn(t)'
    BY <1>2, <1>5, <1>10, <2>1, <2>2, <2>9, <2>10, <2>11 DEF Turn
  <2> DEFINE m == Len(out) % 8
  <2>13. m \in Times(t) /\ m \notin {0, 4}
    <3>1. m \in Times(t)
      BY <1>3, <2>12 DEF FishCount
    <3>2. Len(out) \in Nat
      BY DEF FishPart
    <3> QED
      BY <2>7, <2>8, <3>1, <3>2
  <2> HIDE DEF m
  <2>14. Character(t) = FishThree!Pattern[m + 1] /\ Character(t) \in Glyph
         /\ (m + 1) % 8 \in Times(o)
    <3>1. CASE t = 0
      <4>1. m \in {1, 3, 6} /\ o = 1
        BY <2>13, <3>1 DEF Times, o
      <4>2. FishThree!Pattern[2] = "<" /\ FishThree!Pattern[4] = "<" /\ FishThree!Pattern[7] = "<"
        BY Patterns
      <4> QED
        <5>1. m + 1 \in {2, 4, 7} /\ (m + 1) % 8 \in Times(o)
          BY <4>1 DEF Times
        <5>2. FishThree!Pattern[m + 1] = "<"
          BY <4>2, <5>1, Zenon
        <5>3. Character(t) = "<"
          BY <3>1 DEF Character
        <5>4. Character(t) \in Glyph
          BY <5>3 DEF Glyph
        <5> QED
          BY <5>1, <5>2, <5>3, <5>4, Zenon
    <3>2. CASE t = 1
      <4>1. m \in {2, 5, 7} /\ o = 0
        BY <2>13, <3>2 DEF Times, o
      <4>2. FishThree!Pattern[3] = ">" /\ FishThree!Pattern[6] = ">" /\ FishThree!Pattern[8] = ">"
        BY Patterns
      <4> QED
        <5>1. m + 1 \in {3, 6, 8} /\ (m + 1) % 8 \in Times(o)
          BY <4>1 DEF Times
        <5>2. FishThree!Pattern[m + 1] = ">"
          BY <4>2, <5>1, Zenon
        <5>3. Character(t) = ">"
          BY <3>2 DEF Character
        <5>4. Character(t) \in Glyph
          BY <5>3 DEF Glyph
        <5> QED
          BY <5>1, <5>2, <5>3, <5>4, Zenon
    <3> QED
      BY <3>1, <3>2
  <2>15. \A u \in {0, 1} : Turn(u)' => (m + 1) % 8 \in Times(u)
    BY Zenon, <1>4, <2>12, <2>14
  <2> QED
    BY ZenonT(30), <1>1, <1>5, <1>6, <1>10, <2>1, <2>3, <2>8, <2>9, <2>14, <2>15, PrintedNext DEF m
<1>11. CASE pc[t] = 4 /\ signal(o) /\ out' = out
  <2>1. /\ SemOK(0 .. 2)' /\ count'[t] = count[t] /\ Blocked'[t] = Blocked[t]
        /\ count'[2] = count[2] /\ Blocked'[2] = Blocked[2]
        /\ count'[3] = count[3] /\ Blocked'[3] = Blocked[3]
        /\ \/ Blocked[o] = {} /\ count'[o] = count[o] + 1 /\ Blocked'[o] = Blocked[o]
           \/ /\ count'[o] = count[o]
              /\ \E u \in 0 .. 2 : u \in Blocked[o] /\ Blocked'[o] = Blocked[o] \ {u}
    BY Zenon, <1>2, <1>3, <1>11, SignalEffect
  <2>2. pc'[t] = 5
    BY <1>1, <1>11
  <2>3. FishQueues'
    <3>1. \A u \in Blocked'[t] : FALSE
      BY SMTT(30), <1>3, <1>11, <2>1 DEF FishQueues
    <3>2. \A u \in Blocked'[o] : u = o /\ pc'[o] = 2
      BY Zenon, <1>2, <1>3, <1>5, <2>1 DEF FishQueues
    <3>3. \A u \in Blocked'[2] : u = 2 /\ pc'[2] \in {2, 3, 4}
      BY <1>3, <1>5, <2>1 DEF FishQueues
    <3>4. \A u \in Blocked'[3] : u \in {0, 1} /\ pc'[u] = 3
      BY SMTT(30), <1>3, <1>4, <1>5, <1>11, <2>1 DEF FishQueues
    <3> QED
      BY <1>4, <3>1, <3>2, <3>3, <3>4 DEF FishQueues
  <2>4. Past' = Past /\ Ahead' = Ahead
    BY <1>2, <1>5, <1>6, <1>7, <1>11, <2>1, <2>2 DEF Printed, Drawn, Gathered, ToGive, Bit
  <2>5. HasTurn(t) /\ ~HasTurn(t)' /\ Bit(HasTurn(t)) = 1 /\ Bit(HasTurn(t)') = 0
    <3>1. HasTurn(t) /\ ~HasTurn(t)'
      BY <1>1, <1>2, <1>11, <2>2 DEF HasTurn
    <3> QED
      BY ZenonT(30), <3>1 DEF Bit
  <2>6. count[t] = 0 /\ count[o] = 0 /\ ~HasTurn(o) /\ Bit(HasTurn(o)) = 0
    BY <1>2, <2>5 DEF Bit
  <2>7. pc[o] # 4
    BY SMTT(30), <1>2, <1>3, <2>6 DEF HasTurn, FishQueues
  <2>8. count'[t] + count'[o] + Bit(HasTurn(t)') + Bit(HasTurn(o)') = 1
    <3>1. CASE Blocked[o] = {} /\ count'[o] = count[o] + 1 /\ Blocked'[o] = Blocked[o]
      <4>1. ~HasTurn(o)' /\ Bit(HasTurn(o)') = 0
        BY <1>5, <2>6, <3>1 DEF HasTurn, Bit
      <4> QED
        BY SMTT(30), <2>1, <2>5, <2>6, <3>1, <4>1
    <3>2. ASSUME NEW u \in 0 .. 2, u \in Blocked[o], Blocked'[o] = Blocked[o] \ {u},
                 count'[o] = count[o]
          PROVE  count'[t] + count'[o] + Bit(HasTurn(t)') + Bit(HasTurn(o)') = 1
      <4>1. u = o /\ pc[o] = 2
        BY <1>2, <1>3, <3>2 DEF FishQueues
      <4>2. Bit(HasTurn(o)') = 1
        BY <1>5, <3>2, <4>1 DEF HasTurn, Bit
      <4>3. count'[t] = 0 /\ count'[o] = 0 /\ Bit(HasTurn(t)') = 0
        BY ZenonT(30), <2>1, <2>5, <2>6, <3>2
      <4> QED
        BY <4>2, <4>3
    <3> QED
      BY <2>1, <3>1, <3>2
  <2>9. Turn(o) /\ ~Turn(t)'
    BY SMTT(30), <1>2, <1>5, <1>11, <2>1, <2>5, <2>6, <2>7 DEF Turn
  <2> QED
    BY Zenon, <1>1, <1>4, <1>5, <1>6, <1>11, <2>1, <2>3, <2>4, <2>8, <2>9, PassedOn
<1>12. CASE pc[t] = 5 /\ signal(2) /\ out' = out
  <2>1. /\ SemOK(0 .. 2)' /\ count'[t] = count[t] /\ Blocked'[t] = Blocked[t]
        /\ count'[o] = count[o] /\ Blocked'[o] = Blocked[o]
        /\ count'[3] = count[3] /\ Blocked'[3] = Blocked[3]
        /\ \/ Blocked[2] = {} /\ count'[2] = count[2] + 1 /\ Blocked'[2] = Blocked[2]
           \/ /\ count'[2] = count[2]
              /\ \E u \in 0 .. 2 : u \in Blocked[2] /\ Blocked'[2] = Blocked[2] \ {u}
    BY <1>2, <1>3, <1>12, SignalEffect
  <2>2. pc'[t] = 1
    BY Zenon, <1>1, <1>12
  <2>3. FishQueues'
    BY ZenonT(30), <1>1, <1>2, <1>3, <1>4, <1>5, <1>12, <2>1, <2>2 DEF FishQueues
  <2>4. Ahead' = Ahead
    BY <1>2, <1>5, <1>6, <1>12, <2>1, <2>2 DEF Drawn, ToGive, Bit
  <2>5. Bit(Printed(t)) = 1 /\ Bit(Printed(t)') = 0 /\ Bit(Printed(o)') = Bit(Printed(o))
        /\ Bit(Printed(o)) \in {0, 1}
    BY SMTT(30), <1>7, <1>12, <2>2 DEF Printed, Bit
  <2>6. count'[2] + Gathered' = count[2] + Gathered + 1 /\ Gathered' \in 0 .. 3 /\ count'[2] \in Nat
    <3>1. CASE Blocked[2] = {} /\ count'[2] = count[2] + 1 /\ Blocked'[2] = Blocked[2]
      <4>1. Gathered' = Gathered
        BY <1>5, <3>1 DEF Gathered, Bit
      <4> QED
        BY <1>2, <3>1, <4>1
    <3>2. ASSUME NEW u \in 0 .. 2, u \in Blocked[2], Blocked'[2] = Blocked[2] \ {u},
                 count'[2] = count[2]
          PROVE  /\ count'[2] + Gathered' = count[2] + Gathered + 1
                 /\ Gathered' \in 0 .. 3 /\ count'[2] \in Nat
      <4>1. u = 2 /\ pc[2] \in {2, 3, 4}
        BY <1>3, <3>2 DEF FishQueues
      <4>2. Gathered = pc[2] - 2 /\ Gathered' = pc[2] - 1
        BY <1>2, <1>5, <3>2, <4>1 DEF Gathered, Bit
      <4> QED
        BY <1>2, <3>2, <4>1, <4>2
    <3> QED
      BY <2>1, <3>1, <3>2
  <2>7. Past' = Past
    <3>1. Past' = count'[2] + Bit(Printed(t)') + Bit(Printed(o)') + Gathered'
      BY <1>6, <2>1
    <3>2. Past = count[2] + Bit(Printed(t)) + Bit(Printed(o)) + Gathered
          /\ count[2] \in Nat /\ Gathered \in 0 .. 3
      BY <1>2
    <3> QED
      BY ONLY <2>5, <2>6, <3>1, <3>2
  <2>8. (HasTurn(o)' <=> HasTurn(o)) /\ ~HasTurn(t) /\ ~HasTurn(t)'
    BY SMTT(30), <1>5, <1>12, <2>1, <2>2 DEF HasTurn
  <2>9. count'[t] + count'[o] + Bit(HasTurn(t)') + Bit(HasTurn(o)') = 1
    BY ZenonT(30), <1>2, <2>1, <2>8 DEF Bit
  <2>10. (Turn(t)' => Turn(t)) /\ (Turn(o)' => Turn(o))
    BY SMTT(30), <1>2, <1>5, <1>12, <2>1, <2>2, <2>8 DEF Turn
  <2> QED
    BY ZenonT(30), <1>1, <1>4, <1>5, <1>6, <1>12, <2>1, <2>3, <2>4, <2>7, <2>9, <2>10, PassedOn
<1> QED
  BY <1>1, <1>8, <1>9, <1>10, <1>11, <1>12

(* A step of the third thread. *)
LEMMA DividerKept ==
  ASSUME FishPart, FishThree!step(2)
  PROVE  FishPart'
<1>1. /\ pc' \in [0 .. 2 -> 1 .. 7] /\ pc'[2] = IF pc[2] = 7 THEN 1 ELSE pc[2] + 1
      /\ pc'[0] = pc[0] /\ pc'[1] = pc[1]
      /\ \A k \in Key : 2 \notin Blocked[k]
      /\ \/ pc[2] \in {1, 2, 3} /\ wait(2, 2) /\ out' = out
         \/ pc[2] = 4 /\ UNCHANGED <<count, wait_queue>> /\ out' = Append(out, Divider)
         \/ pc[2] \in {5, 6, 7} /\ signal(3) /\ out' = out
  BY DividerSteps
<1>2. 0 \in {0, 1} /\ 1 - 0 = 1 /\ 1 - 1 = 0
  OBVIOUS
<1>3. /\ 0 \in Key /\ 1 \in Key /\ 2 \in Key /\ 3 \in Key
      /\ count[0] \in Nat /\ count[1] \in Nat /\ count[2] \in Nat /\ count[3] \in Nat
      /\ count[0] + count[1] + Bit(HasTurn(0)) + Bit(HasTurn(1)) = 1
      /\ Past = count[2] + Bit(Printed(0)) + Bit(Printed(1)) + Gathered
      /\ Ahead = count[3] + Bit(Drawn(0)) + Bit(Drawn(1)) + ToGive
      /\ pc[0] \in 1 .. 5 /\ pc[1] \in 1 .. 5
      /\ pc[2] \in 1 .. 7 /\ Gathered \in 0 .. 3 /\ ToGive \in 0 .. 3
  BY <1>2, FishFacts
<1>4. SemOK(0 .. 2) /\ FishQueues /\ FishCount
  BY DEF FishPart
<1>5. SemOK(0 .. 2)' =>
        /\ Past' = count'[2] + Bit(Printed(0)') + Bit(Printed(1)') + Gathered'
        /\ Ahead' = count'[3] + Bit(Drawn(0)') + Bit(Drawn(1)') + ToGive'
  BY <1>1, <1>2, FishFactsNext
<1>6. /\ Bit(Printed(0)') = Bit(Printed(0)) /\ Bit(Printed(1)') = Bit(Printed(1))
      /\ Bit(Printed(0)) \in {0, 1} /\ Bit(Printed(1)) \in {0, 1}
      /\ Bit(Drawn(0)) \in {0, 1} /\ Bit(Drawn(1)) \in {0, 1}
  BY <1>1 DEF Printed, Bit
<1>7. ASSUME \A k \in {0, 1} : count'[k] = count[k] /\ Blocked'[k] = Blocked[k]
      PROVE  /\ count'[0] + count'[1] + Bit(HasTurn(0)') + Bit(HasTurn(1)') = 1
             /\ \A t \in {0, 1} : Turn(t)' <=> Turn(t)
  <2>1. \A t \in {0, 1} : HasTurn(t)' <=> HasTurn(t)
    BY <1>1, <1>7 DEF HasTurn
  <2>2. Bit(HasTurn(0)') = Bit(HasTurn(0)) /\ Bit(HasTurn(1)') = Bit(HasTurn(1))
    BY <2>1 DEF Bit
  <2>3. \A t \in {0, 1} : Turn(t)' <=> Turn(t)
    BY SMTT(30), <1>1, <1>7, <2>1 DEF Turn
  <2> QED
    BY <1>3, <1>7, <2>2, <2>3
<1>8. CASE pc[2] \in {1, 2, 3} /\ wait(2, 2) /\ out' = out
  <2>1. /\ SemOK(0 .. 2)' /\ \A k \in {0, 1} : count'[k] = count[k] /\ Blocked'[k] = Blocked[k]
        /\ count'[3] = count[3] /\ Blocked'[3] = Blocked[3]
        /\ \/ count[2] > 0 /\ count'[2] = count[2] - 1 /\ Blocked'[2] = Blocked[2]
           \/ count[2] = 0 /\ count'[2] = count[2] /\ Blocked'[2] = Blocked[2] \cup {2}
    <3> DEFINE d == 2
               S == 0 .. 2
    <3>1. d \in S /\ 3 # 2 /\ \A k \in {0, 1} : k \in Key /\ k # 2
      BY SMTT(30), <1>3
    <3>2. SemOK(S) /\ wait(d, d) /\ d \in Key /\ d \notin Blocked[d]
      BY <1>1, <1>3, <1>4, <1>8
    <3> HIDE DEF d, S
    <3>3. /\ SemOK(S)'
          /\ \A j \in Key : j # d => count'[j] = count[j] /\ Blocked'[j] = Blocked[j]
          /\ \/ count[d] > 0 /\ count'[d] = count[d] - 1 /\ Blocked' = Blocked
             \/ count[d] = 0 /\ count' = count /\ Blocked'[d] = Blocked[d] \cup {d}
      BY <3>1, <3>2, WaitEffect
    <3> QED
      BY <1>3, <3>1, <3>3 DEF d, S
  <2>2. pc'[2] = pc[2] + 1 /\ 2 \notin Blocked[2]
    BY SMTT(30), <1>1, <1>3, <1>8
  <2>3. FishQueues'
    BY SMTT(30), <1>1, <1>3, <1>4, <1>8, <2>1, <2>2 DEF FishQueues
  <2>4. Bit(Drawn(0)') = Bit(Drawn(0)) /\ Bit(Drawn(1)') = Bit(Drawn(1)) /\ ToGive' = ToGive
    BY SMTT(30), <1>1, <1>8, <2>1, <2>2 DEF Drawn, ToGive, Bit
  <2>5. Ahead' = Ahead
    BY ZenonT(30), <1>3, <1>5, <2>1, <2>4
  <2>6. count'[2] + Gathered' = count[2] + Gathered /\ count'[2] \in Nat /\ Gathered' \in 0 .. 3
    <3>1. Gathered = pc[2] - 1 /\ pc[2] \in {1, 2, 3}
      BY <1>8, <2>2 DEF Gathered, Bit
    <3>2. pc'[2] \in {2, 3, 4} /\ pc'[2] - 1 = pc[2]
      BY ONLY <1>8, <2>2
    <3>3. Gathered' = pc[2] - Bit(2 \in Blocked'[2])
      BY Zenon, <3>2 DEF Gathered
    <3>4. CASE count[2] > 0 /\ count'[2] = count[2] - 1 /\ Blocked'[2] = Blocked[2]
      <4>1. Bit(2 \in Blocked'[2]) = 0
        BY Zenon, <2>2, <3>4 DEF Bit
      <4>2. count[2] \in Nat
        BY Zenon, <1>3
      <4> QED
        BY ONLY <3>1, <3>3, <3>4, <4>1, <4>2
    <3>5. CASE count[2] = 0 /\ count'[2] = count[2] /\ Blocked'[2] = Blocked[2] \cup {2}
      <4>1. Bit(2 \in Blocked'[2]) = 1
        BY Zenon, <3>5 DEF Bit
      <4> QED
        BY ONLY <3>1, <3>3, <3>5, <4>1
    <3> QED
      BY Zenon, <2>1, <3>4, <3>5
  <2>7. Past' = Past
    <3>1. /\ Past' = count'[2] + Bit(Printed(0)') + Bit(Printed(1)') + Gathered'
          /\ Past = count[2] + Bit(Printed(0)) + Bit(Printed(1)) + Gathered
          /\ count[2] \in Nat /\ Gathered \in 0 .. 3
      BY Zenon, <1>3, <1>5, <2>1
    <3> QED
      BY ONLY SMTT(30), <1>6, <2>6, <3>1
  <2> QED
    BY ZenonT(30), <1>1, <1>3, <1>7, <1>8, <2>1, <2>3, <2>5, <2>7, PassedOn
<1>9. CASE pc[2] = 4 /\ UNCHANGED <<count, wait_queue>> /\ out' = Append(out, Divider)
  <2>1. SemOK(0 .. 2)' /\ Blocked' = Blocked /\ count' = count
    BY Zenon, <1>4, <1>9, NoSemEffect
  <2>2. pc'[2] = 5 /\ 2 \notin Blocked[2]
    BY SMTT(30), <1>1, <1>3, <1>9
  <2>3. FishQueues'
    BY <1>1, <1>3, <1>4, <1>9, <2>1, <2>2 DEF FishQueues
  <2>4. Gathered = 3 /\ Gathered' = 0 /\ ToGive = 0 /\ ToGive' = 3
    BY <1>9, <2>2 DEF Gathered, ToGive, Bit
  <2>5. Bit(Drawn(0)') = Bit(Drawn(0)) /\ Bit(Drawn(1)') = Bit(Drawn(1))
    BY <1>1, <2>1 DEF Drawn, Bit
  <2>6. Past + Ahead = 3 /\ Past = (Len(out) + 3) % 4
    BY <1>4 DEF FishCount
  <2>7. Past = 3 /\ Past' = 0 /\ Ahead' = 3
    <3>1. /\ Past' = count[2] + Bit(Printed(0)) + Bit(Printed(1)) + 0
          /\ Past = count[2] + Bit(Printed(0)) + Bit(Printed(1)) + 3
          /\ Ahead' = count[3] + Bit(Drawn(0)) + Bit(Drawn(1)) + 3
          /\ Ahead = count[3] + Bit(Drawn(0)) + Bit(Drawn(1))
          /\ count[2] \in Nat /\ count[3] \in Nat
      BY <1>3, <1>5, <1>6, <2>1, <2>4, <2>5
    <3> QED
      BY ONLY SMTT(30), <1>6, <2>6, <3>1
  <2> DEFINE m == Len(out) % 8
  <2>8. m \in {0, 4}
    <3>1. Len(out) \in Nat /\ (Len(out) + 3) % 4 = 3
      BY <2>6, <2>7 DEF FishPart
    <3> QED
      BY ONLY <3>1
  <2>9. \A t \in {0, 1} : Turn(t) => m \in Times(t)
    BY <1>4 DEF FishCount
  <2> HIDE DEF m
  <2>10. \A t \in {0, 1} : Turn(t)' => (m + 1) % 8 \in Times(t)
    <3>1. \A t \in {0, 1} : m \in Times(t) => (m + 1) % 8 \in Times(t)
      BY <2>8 DEF Times
    <3> QED
      BY <1>7, <2>1, <2>9, <3>1
  <2>11. Divider = FishThree!Pattern[m + 1] /\ Divider \in Glyph
    <3>1. m + 1 \in {1, 5}
      BY <2>8
    <3> QED
      BY <3>1, Patterns, Zenon DEF Glyph
  <2>12. Past' + Ahead' = 3 /\ Past' = (Past + 1) % 4
    BY SMTT(30), <2>7
  <2> QED
    BY Zenon, <1>1, <1>3, <1>7, <1>9, <2>1, <2>3, <2>10, <2>11, <2>12, PrintedNext DEF m
<1>10. CASE pc[2] \in {5, 6, 7} /\ signal(3) /\ out' = out
  <2>1. /\ SemOK(0 .. 2)' /\ \A k \in {0, 1} : count'[k] = count[k] /\ Blocked'[k] = Blocked[k]
        /\ count'[2] = count[2] /\ Blocked'[2] = Blocked[2]
        /\ \/ Blocked[3] = {} /\ count'[3] = count[3] + 1 /\ Blocked'[3] = Blocked[3]
           \/ /\ count'[3] = count[3]
              /\ \E u \in 0 .. 2 : u \in Blocked[3] /\ Blocked'[3] = Blocked[3] \ {u}
    BY SMTT(30), <1>3, <1>4, <1>10, SignalEffect
  <2>2. pc'[2] = (IF pc[2] = 7 THEN 1 ELSE pc[2] + 1) /\ 2 \notin Blocked[2]
    BY Zenon, <1>1, <1>3
  <2>3. FishQueues'
    BY SMTT(30), <1>1, <1>3, <1>4, <1>10, <2>1, <2>2 DEF FishQueues
  <2>4. Gathered' = Gathered /\ ToGive = ToGive' + 1 /\ ToGive' \in 0 .. 3
    BY SMTT(30), <1>10, <2>1, <2>2 DEF Gathered, ToGive, Bit
  <2>5. Past' = Past
    BY Zenon, <1>3, <1>5, <1>6, <2>1, <2>4
  <2>6. /\ count'[3] + Bit(Drawn(0)') + Bit(Drawn(1)')
           = count[3] + Bit(Drawn(0)) + Bit(Drawn(1)) + 1
        /\ count'[3] \in Nat /\ Bit(Drawn(0)') \in {0, 1} /\ Bit(Drawn(1)') \in {0, 1}
    <3>1. CASE Blocked[3] = {} /\ count'[3] = count[3] + 1 /\ Blocked'[3] = Blocked[3]
      <4>1. Bit(Drawn(0)') = Bit(Drawn(0)) /\ Bit(Drawn(1)') = Bit(Drawn(1))
        BY <1>1, <3>1 DEF Drawn, Bit
      <4> QED
        BY <1>3, <1>6, <3>1, <4>1
    <3>2. ASSUME NEW u \in 0 .. 2, u \in Blocked[3], Blocked'[3] = Blocked[3] \ {u},
                 count'[3] = count[3]
          PROVE  /\ count'[3] + Bit(Drawn(0)') + Bit(Drawn(1)')
                    = count[3] + Bit(Drawn(0)) + Bit(Drawn(1)) + 1
                 /\ count'[3] \in Nat /\ Bit(Drawn(0)') \in {0, 1} /\ Bit(Drawn(1)') \in {0, 1}
      <4>1. u \in {0, 1} /\ pc[u] = 3
        BY Zenon, <1>4, <3>2 DEF FishQueues
      <4>2. CASE u = 0
        <5>1. Bit(Drawn(0)) = 0 /\ Bit(Drawn(0)') = 1 /\ Bit(Drawn(1)') = Bit(Drawn(1))
          BY ZenonT(30), <1>1, <3>2, <4>1, <4>2 DEF Drawn, Bit
        <5> QED
          BY <1>3, <1>6, <3>2, <5>1
      <4>3. CASE u = 1
        <5>1. Bit(Drawn(1)) = 0 /\ Bit(Drawn(1)') = 1 /\ Bit(Drawn(0)') = Bit(Drawn(0))
          BY <1>1, <3>2, <4>1, <4>3 DEF Drawn, Bit
        <5> QED
          BY <1>3, <1>6, <3>2, <5>1
      <4> QED
        BY <4>1, <4>2, <4>3
    <3> QED
      BY ZenonT(30), <2>1, <3>1, <3>2
  <2>7. Ahead' = Ahead
    <3>1. /\ Ahead' = count'[3] + Bit(Drawn(0)') + Bit(Drawn(1)') + ToGive'
          /\ Ahead = count[3] + Bit(Drawn(0)) + Bit(Drawn(1)) + ToGive
          /\ count[3] \in Nat
      BY <1>3, <1>5, <2>1
    <3> QED
      BY ONLY SMTT(30), <1>6, <2>4, <2>6, <3>1
  <2> QED
    BY ZenonT(30), <1>1, <1>3, <1>7, <1>10, <2>1, <2>3, <2>5, <2>7, PassedOn
<1> QED
  BY <1>1, <1>8, <1>9, <1>10

(* fish begins with the turn of the first thread and no unit ahead.        *)
LEMMA FishInit == FishThree!Init => FishPart
<1> SUFFICES ASSUME FishThree!Init PROVE FishPart
  OBVIOUS
<1>1. /\ count = [k \in Key |-> CASE k = 0 -> 1 [] k = 2 -> 3 [] OTHER -> 0]
      /\ wait_queue = [k \in Key |-> <<>>] /\ pc = [t \in 0 .. 2 |-> 1] /\ out = <<>>
  BY DEF FishThree!Init, FishThree!LibInit, FishThree!Key, Key
<1>2. 0 # 2 /\ 1 # 0 /\ 1 # 2 /\ 2 # 0 /\ 3 # 0 /\ 3 # 2 /\ 4 # 0 /\ 4 # 2 /\ 5 # 0 /\ 5 # 2
  OBVIOUS
<1>3. 0 \in Key /\ 1 \in Key /\ 2 \in Key /\ 3 \in Key /\ 4 \in Key /\ 5 \in Key
  BY DEF Key
<1>4. count[0] = 1 /\ count[2] = 3
  BY <1>1, <1>2, <1>3, Zenon
<1>5. count[1] = 0 /\ count[3] = 0 /\ count[4] = 0 /\ count[5] = 0
  BY <1>1, <1>2, <1>3, Zenon
<1>6. SemOK(0 .. 2)
  <2>1. \A k \in Key : count[k] \in Nat
    BY <1>4, <1>5 DEF Key
  <2>2. DOMAIN count = Key /\ count = [k \in Key |-> count[k]]
    BY <1>1, Zenon
  <2>3. count \in Value
    BY <2>1, <2>2 DEF Value
  <2> QED
    BY <1>1, <2>3, EmptyQueue DEF SemOK
<1>7. \A k \in Key : Blocked[k] = {}
  BY <1>1, EmptyQueue DEF Blocked
<1>8. pc[0] = 1 /\ pc[1] = 1 /\ pc[2] = 1 /\ pc \in [0 .. 2 -> 1 .. 7]
  BY <1>1
<1>9. FishQueues
  BY <1>3, <1>7 DEF FishQueues
<1>10. out \in Seq(Glyph) /\ Len(out) = 0
  BY <1>1
<1>11. FishCount
  <2>1. Past = 3 /\ Ahead = 0
    BY <1>4, <1>5, <1>8 DEF Past, Ahead, Printed, Drawn, Gathered, ToGive, Bit
  <2>2. ~HasTurn(0) /\ ~HasTurn(1) /\ ~Turn(1)
    BY <1>5, <1>8 DEF HasTurn, Turn
  <2>3. count[0] + count[1] + Bit(HasTurn(0)) + Bit(HasTurn(1)) = 1
    BY <1>4, <1>5, <2>2 DEF Bit
  <2>4. \A t \in {0, 1} : Turn(t) => Len(out) % 8 \in Times(t)
    BY <1>10, <2>2 DEF Times
  <2> QED
    BY <1>10, <2>1, <2>3, <2>4 DEF FishCount
<1>12. FishThree!WholeFish
  BY <1>10 DEF FishThree!WholeFish
<1> QED
  BY <1>6, <1>8, <1>9, <1>10, <1>11, <1>12 DEF FishPart

(* A step that leaves the threads and the output alone.                    *)
LEMMA FishQuiet ==
  ASSUME FishPart, UNCHANGED <<count, wait_queue, pc, out>>
  PROVE  FishPart'
<1>1. SemOK(0 .. 2)' /\ Blocked' = Blocked
  BY Zenon, NoSemEffect DEF FishPart
<1>2. FishCount'
  BY <1>1 DEF FishPart, FishCount, Past, Ahead, Printed, Drawn, Gathered, ToGive, Bit, HasTurn,
              Turn, Times
<1>3. FishQueues'
  BY <1>1 DEF FishPart, FishQueues
<1>4. FishThree!WholeFish'
  BY Zenon DEF FishPart, FishThree!WholeFish, FishThree!Pattern
<1> QED
  BY <1>1, <1>2, <1>3, <1>4 DEF FishPart

(* Every step keeps the output whole.                                      *)
LEMMA FishStep == FishPart /\ [FishThree!Next]_FishThree!vars => FishPart'
<1> SUFFICES ASSUME FishPart, [FishThree!Next]_FishThree!vars PROVE FishPart'
  OBVIOUS
<1>2. CASE UNCHANGED FishThree!vars
  BY <1>2, FishQuiet DEF FishThree!vars, FishThree!threadVars, FishThree!libVars
<1>3. CASE FishThree!main /\ UNCHANGED out
  BY <1>3, FishQuiet DEF FishThree!main, FishThree!fork, FishThree!join
<1>4. CASE FishThree!exit_2
  BY <1>4, FishQuiet DEF FishThree!exit_2, FishThree!sys_exit
<1>5. ASSUME NEW t \in 0 .. 2, FishThree!step(t) PROVE FishPart'
  <2>1. t \in {0, 1} \/ t = 2
    OBVIOUS
  <2> QED
    BY <1>5, <2>1, SwimmerKept, DividerKept
<1> QED
  BY <1>2, <1>3, <1>4, <1>5 DEF FishThree!Next, FishThree!thread
=============================================================================
