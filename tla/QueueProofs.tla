---------------------------- MODULE QueueProofs -----------------------------
(***************************************************************************)
(* Programs with a queue.  mq, for any number of threads and any size of   *)
(* the ring; sh and the program it runs, for any keys that are typed and   *)
(* any size of the queue of keys.                                          *)
(***************************************************************************)
EXTENDS MessageQueue, Shell, SequenceTheorems, FiniteSetTheorems, FunctionTheorems, TLAPS

-----------------------------------------------------------------------------
(* Sequences as queues.                                                    *)

(* The positions and the members of a queue. *)
LEMMA QueueBasics ==
  ASSUME NEW S, NEW q \in Seq(S)
  PROVE  /\ Len(q) \in Nat /\ DOMAIN q = 1 .. Len(q)
         /\ q = <<>> <=> Len(q) = 0
         /\ Range(q) \subseteq S
         /\ \A i \in 1 .. Len(q) : q[i] \in S /\ q[i] \in Range(q)
<1>1. Len(q) \in Nat /\ DOMAIN q = 1 .. Len(q)
  BY LenProperties
<1>2. \A i \in 1 .. Len(q) : q[i] \in S /\ q[i] \in Range(q)
  BY <1>1, ElementOfSeq DEF Range
<1> QED BY <1>1, <1>2, EmptySeq, RangeOfSeq

(* The empty queue has no members. *)
LEMMA EmptyQueue ==
  ASSUME NEW S
  PROVE  /\ <<>> \in Seq(S) /\ Len(<<>>) = 0
         /\ Range(<<>>) = {} /\ IsInjective(<<>>)
BY EmptySeq DEF Range, IsInjective

(* What Append does to the members of a queue. *)
LEMMA AppendMembers ==
  ASSUME NEW S, NEW q \in Seq(S), NEW e \in S
  PROVE  /\ Append(q, e) \in Seq(S)
         /\ Append(q, e) # <<>>
         /\ Range(Append(q, e)) = Range(q) \cup {e}
         /\ IsInjective(q) /\ e \notin Range(q) => IsInjective(Append(q, e))
         /\ Len(Append(q, e)) = Len(q) + 1
         /\ \A i \in 1 .. Len(q) : Append(q, e)[i] = q[i]
         /\ Append(q, e)[Len(q) + 1] = e
<1> DEFINE r == Append(q, e)
<1>1. /\ r \in Seq(S) /\ r # <<>>
      /\ Len(r) = Len(q) + 1 /\ Len(q) \in Nat
      /\ \A i \in 1 .. Len(q) : r[i] = q[i]
      /\ r[Len(q) + 1] = e
  BY AppendProperties, LenProperties
<1>2. DOMAIN q = 1 .. Len(q) /\ DOMAIN r = 1 .. Len(q) + 1
  BY <1>1, LenProperties
<1> HIDE DEF r
<1>3. Range(r) = Range(q) \cup {e}
  <2>1. ASSUME NEW x \in Range(r) PROVE x \in Range(q) \cup {e}
    BY <1>1, <1>2 DEF Range
  <2>2. ASSUME NEW x \in Range(q) PROVE x \in Range(r)
    BY <1>1, <1>2 DEF Range
  <2>3. e \in Range(r)
    BY <1>1, <1>2 DEF Range
  <2> QED BY <2>1, <2>2, <2>3
<1>4. IsInjective(q) /\ e \notin Range(q) => IsInjective(r)
  BY <1>1, <1>2 DEF Range, IsInjective
<1> QED BY <1>1, <1>3, <1>4 DEF r

(* What popping the front does to the members of a queue. *)
LEMMA TailMembers ==
  ASSUME NEW S, NEW q \in Seq(S), q # <<>>
  PROVE  /\ Head(q) \in S /\ Head(q) \in Range(q) /\ Head(q) = q[1]
         /\ Tail(q) \in Seq(S)
         /\ Range(q) = Range(Tail(q)) \cup {Head(q)}
         /\ IsInjective(q) => /\ Head(q) \notin Range(Tail(q))
                              /\ IsInjective(Tail(q))
         /\ Len(Tail(q)) = Len(q) - 1
         /\ \A i \in 1 .. Len(q) - 1 : Tail(q)[i] = q[i + 1]
<1> DEFINE r == Tail(q)
<1>1. /\ Head(q) \in S /\ Head(q) = q[1]
      /\ r \in Seq(S) /\ Len(q) \in Nat /\ Len(q) >= 1 /\ Len(r) = Len(q) - 1
      /\ \A i \in 1 .. Len(r) : r[i] = q[i + 1]
  BY HeadTailProperties, LenProperties, EmptySeq
<1>2. DOMAIN q = 1 .. Len(q) /\ DOMAIN r = 1 .. Len(q) - 1
  BY <1>1, LenProperties
<1> HIDE DEF r
<1>3. Range(q) = Range(r) \cup {Head(q)}
  <2>1. ASSUME NEW i \in 1 .. Len(q) PROVE q[i] \in Range(r) \cup {Head(q)}
    <3>1. CASE i = 1
      BY <3>1, <1>1
    <3>2. CASE i # 1
      <4>1. i - 1 \in 1 .. Len(r) /\ r[i - 1] = q[i]
        BY <3>2, <1>1
      <4> QED BY Zenon, <4>1, <1>1, <1>2 DEF Range
    <3> QED BY <3>1, <3>2
  <2>2. ASSUME NEW x \in Range(r) PROVE x \in Range(q)
    BY <1>1, <1>2 DEF Range
  <2>3. Head(q) \in Range(q)
    BY <1>1, <1>2 DEF Range
  <2> QED BY <2>1, <2>2, <2>3, <1>2 DEF Range
<1>4. ASSUME IsInjective(q)
      PROVE  Head(q) \notin Range(r) /\ IsInjective(r)
  <2>1. ASSUME NEW i \in 1 .. Len(q) - 1
        PROVE  i + 1 \in DOMAIN q /\ 1 \in DOMAIN q /\ r[i] = q[i + 1]
    BY <1>1, <1>2
  <2>2. ASSUME NEW i \in 1 .. Len(q) - 1 PROVE r[i] # Head(q)
    BY <2>1, <1>1, <1>4 DEF IsInjective
  <2>3. ASSUME NEW i \in 1 .. Len(q) - 1, NEW j \in 1 .. Len(q) - 1, r[i] = r[j]
        PROVE  i = j
    <3>1. i + 1 = j + 1
      BY <2>1, <2>3, <1>4 DEF IsInjective
    <3> QED BY <3>1
  <2> QED BY <2>2, <2>3, <1>2 DEF Range, IsInjective
<1> QED BY <1>1, <1>3, <1>4 DEF r

(* The threads blocked on each semaphore. *)
Blocked == [k \in Key |-> Range(wait_queue[k])]

(* Semaphores whose units and queues are well formed, for the threads of S. *)
SemOK(S) ==
  /\ count \in Value
  /\ wait_queue \in [Key -> Seq(S)]
  /\ \A k \in Key : IsInjective(wait_queue[k])

(* The steps a thread of mq can be at. *)
Label == {"begin", "mutex", "access", "load", "store", "unlock", "post"}

(* A blocked thread has just called the wait it is blocked in. *)
MqQueues ==
  /\ \A k \in {EMPTY, FULL} : \A t \in Blocked[k] : Needs(t) = k /\ pc[t] = "mutex"
  /\ \A t \in Blocked[WRITE_MUTEX] : pc[t] = "access"

(* WRITE_MUTEX admits one thread at a time to the ring. *)
InRing(t) == pc[t] \in Critical /\ t \notin Blocked[WRITE_MUTEX]
MqMutex ==
  /\ count[WRITE_MUTEX] \in {0, 1}
  /\ count[WRITE_MUTEX] = 1 => /\ Blocked[WRITE_MUTEX] = {}
                                  /\ \A t \in Thread : ~InRing(t)
  /\ \A t, u \in Thread : InRing(t) /\ InRing(u) => t = u

(* The threads between their first wait and their last signal, and those   *)
(* of them that stand for a message in the ring: writers that have stored  *)
(* one, readers that have not taken theirs out.                            *)
Holders == {t \in Thread : pc[t] # "begin" /\ t \notin Blocked[Needs(t)]}
Fillers ==
  {t \in Holders : pc[t] \in IF IsWriter(t) THEN {"load", "store", "unlock", "post"}
                             ELSE {"mutex", "access"}}

Stored == Len(sent) - received   \* messages in the ring
MqUnits ==
  /\ count[EMPTY] + count[FULL] + Cardinality(Holders) = ROUNDS
  /\ Stored = count[FULL] + Cardinality(Fillers)

(* The indices follow the messages, but for the thread that is between the *)
(* access to the ring and the store of its index.                          *)
Moving(t) == pc[t] \in {"load", "store"}
MqIndices ==
  /\ \A t \in Thread : Moving(t) => 0 < IF IsWriter(t) THEN Len(sent) ELSE received
  /\ \A t \in Thread : pc[t] = "store" => reg[t] = IF IsWriter(t) THEN tail ELSE head
  /\ tail = IF \E t \in Thread : Moving(t) /\ IsWriter(t) THEN (Len(sent) - 1) % (ROUNDS + 1)
            ELSE Len(sent) % (ROUNDS + 1)
  /\ head = IF \E t \in Thread : Moving(t) /\ ~IsWriter(t) THEN (received - 1) % (ROUNDS + 1)
            ELSE received % (ROUNDS + 1)

-----------------------------------------------------------------------------
(* What Semaphore::wait does to the units and to the blocked threads. *)
LEMMA WaitEffect ==
  ASSUME NEW S, SemOK(S), NEW t \in S, NEW k \in Key, t \notin Blocked[k], wait(t, k)
  PROVE  /\ SemOK(S)'
         /\ \A j \in Key : j # k => count'[j] = count[j] /\ Blocked'[j] = Blocked[j]
         /\ \/ count[k] > 0 /\ count'[k] = count[k] - 1 /\ Blocked' = Blocked
            \/ count[k] = 0 /\ count' = count /\ Blocked'[k] = Blocked[k] \cup {t}
<1>1. count[k] \in Nat /\ wait_queue[k] \in Seq(S) /\ IsInjective(wait_queue[k])
  BY DEF SemOK, Value
<1>2. CASE count[k] > 0
  <2>1. count' = [count EXCEPT ![k] = count[k] - 1] /\ wait_queue' = wait_queue
    BY <1>2 DEF wait
  <2>2. count' \in Value /\ count'[k] = count[k] - 1
        /\ \A j \in Key : j # k => count'[j] = count[j]
    BY <1>1, <1>2, <2>1 DEF SemOK, Value
  <2>3. Blocked' = Blocked
    BY <2>1 DEF Blocked
  <2> QED
    BY <1>2, <2>1, <2>2, <2>3 DEF SemOK
<1>3. CASE ~(count[k] > 0)
  <2>1. count' = count /\ wait_queue' = [wait_queue EXCEPT ![k] = Append(wait_queue[k], t)]
    BY <1>3 DEF wait
  <2>2. /\ wait_queue'[k] = Append(wait_queue[k], t)
        /\ \A j \in Key : j # k => wait_queue'[j] = wait_queue[j]
    BY <2>1 DEF SemOK
  <2>3. t \notin Range(wait_queue[k])
    BY DEF Blocked
  <2>4. /\ Append(wait_queue[k], t) \in Seq(S) /\ IsInjective(Append(wait_queue[k], t))
        /\ Range(Append(wait_queue[k], t)) = Range(wait_queue[k]) \cup {t}
    BY <1>1, <2>3, AppendMembers
  <2>5. SemOK(S)'
    BY <2>1, <2>2, <2>4 DEF SemOK
  <2>6. Blocked'[k] = Blocked[k] \cup {t} /\ \A j \in Key : j # k => Blocked'[j] = Blocked[j]
    BY Zenon, <2>2, <2>4 DEF Blocked
  <2> QED
    BY <1>1, <1>3, <2>1, <2>5, <2>6
<1> QED
  BY <1>2, <1>3

(* What Semaphore::signal does: a unit for the first blocked thread, or    *)
(* one more unit.                                                          *)
LEMMA SignalEffect ==
  ASSUME NEW S, SemOK(S), NEW k \in Key, signal(k)
  PROVE  /\ SemOK(S)'
         /\ \A j \in Key : j # k => count'[j] = count[j] /\ Blocked'[j] = Blocked[j]
         /\ \/ Blocked[k] = {} /\ count'[k] = count[k] + 1 /\ Blocked' = Blocked
            \/ /\ count' = count
               /\ \E u \in S : u \in Blocked[k] /\ Blocked'[k] = Blocked[k] \ {u}
<1>1. count[k] \in Nat /\ wait_queue[k] \in Seq(S) /\ IsInjective(wait_queue[k])
  BY DEF SemOK, Value
<1>2. CASE wait_queue[k] = <<>>
  <2>1. count' = [count EXCEPT ![k] = count[k] + 1] /\ wait_queue' = wait_queue
    BY <1>2 DEF signal
  <2>2. count' \in Value /\ count'[k] = count[k] + 1
        /\ \A j \in Key : j # k => count'[j] = count[j]
    BY <1>1, <1>2, <2>1 DEF SemOK, Value
  <2>3. Blocked' = Blocked /\ Blocked[k] = {}
    BY <1>2, <2>1, EmptyQueue DEF Blocked
  <2> QED
    BY <2>1, <2>2, <2>3 DEF SemOK
<1>3. CASE wait_queue[k] # <<>>
  <2>1. count' = count /\ wait_queue' = [wait_queue EXCEPT ![k] = Tail(wait_queue[k])]
    BY <1>3 DEF signal
  <2>2. /\ wait_queue'[k] = Tail(wait_queue[k])
        /\ \A j \in Key : j # k => wait_queue'[j] = wait_queue[j]
    BY <2>1 DEF SemOK
  <2> DEFINE u == Head(wait_queue[k])
  <2>3. /\ Tail(wait_queue[k]) \in Seq(S) /\ IsInjective(Tail(wait_queue[k]))
        /\ u \in S /\ u \in Range(wait_queue[k]) /\ u \notin Range(Tail(wait_queue[k]))
        /\ Range(wait_queue[k]) = Range(Tail(wait_queue[k])) \cup {u}
    BY <1>1, <1>3, TailMembers
  <2>4. SemOK(S)'
    BY <2>1, <2>2, <2>3 DEF SemOK
  <2> HIDE DEF u
  <2>5. u \in Blocked[k] /\ Blocked'[k] = Blocked[k] \ {u}
    BY <2>2, <2>3 DEF Blocked
  <2>6. \A j \in Key : j # k => Blocked'[j] = Blocked[j]
    BY <2>2 DEF Blocked
  <2> QED
    BY <2>1, <2>3, <2>4, <2>5, <2>6
<1> QED
  BY <1>2, <1>3

(* A step that leaves the semaphores alone. *)
LEMMA NoSemEffect ==
  ASSUME NEW S, SemOK(S), UNCHANGED <<count, wait_queue>>
  PROVE  SemOK(S)' /\ Blocked' = Blocked
BY DEF SemOK, Blocked

-----------------------------------------------------------------------------
(* The numbers of the semaphores of mq. *)
LEMMA MqKeys ==
  /\ 0 \in Key /\ 1 \in Key /\ 2 \in Key
  /\ \A t : IsWriter(t) => Needs(t) = 0 /\ Feeds(t) = 1
  /\ \A t : ~IsWriter(t) => Needs(t) = 1 /\ Feeds(t) = 0
BY DEF EMPTY, FULL, Key, Needs, Feeds

(* The ring and the threads. *)
LEMMA MqBasics ==
  /\ ROUNDS \in Nat /\ ROUNDS + 1 \in Nat \ {0}
  /\ Slot = 0 .. ROUNDS /\ MQ_SIZE = ROUNDS + 1
  /\ IsFiniteSet(Thread) /\ \A t \in Thread : t \in Int
<1>1. IsFiniteSet(Thread) /\ \A t \in Thread : t \in Int
  BY UserThreadsAssumption, FS_Interval
<1>2. /\ ROUNDS \in Nat /\ ROUNDS + 1 \in Nat \ {0}
      /\ Slot = 0 .. ROUNDS /\ MQ_SIZE = ROUNDS + 1
  BY UserThreadsAssumption DEF Slot, MQ_SIZE, MAX_MESSAGE_COUNT
<1> QED
  BY <1>1, <1>2

(* Where a running thread is. *)
LEMMA MqAt ==
  ASSUME NEW t, NEW label, At(t, label)
  PROVE  pc[t] = label /\ \A k \in Key : t \notin Blocked[k]
BY DEF At, Running, Blocked

(* Counting the threads in and out of a set. *)
LEMMA Sizes ==
  ASSUME NEW H \in SUBSET Thread
  PROVE  /\ Cardinality(H) \in Nat
         /\ \A t \in Thread : t \notin H => Cardinality(H \cup {t}) = Cardinality(H) + 1
         /\ \A t \in Thread : t \in H => /\ Cardinality(H \ {t}) = Cardinality(H) - 1
                                         /\ Cardinality(H) > 0
<1>1. IsFiniteSet(H) /\ Cardinality(H) \in Nat
  BY MqBasics, FS_Subset, FS_CardinalityType
<1>2. \A t \in Thread : t \notin H => Cardinality(H \cup {t}) = Cardinality(H) + 1
  BY Zenon, <1>1, FS_AddElement
<1>3. ASSUME NEW t \in Thread, t \in H
      PROVE  Cardinality(H \ {t}) = Cardinality(H) - 1 /\ Cardinality(H) > 0
  <2>1. IsFiniteSet(H \ {t}) /\ Cardinality(H \ {t}) = Cardinality(H) - 1
    BY <1>1, <1>3, FS_RemoveElement
  <2>2. Cardinality(H \ {t}) \in Nat
    BY <2>1, FS_CardinalityType
  <2> QED
    BY <1>1, <2>1, <2>2
<1> QED
  BY <1>1, <1>2, <1>3

(* The holders, and among them the fillers, are threads.                   *)
LEMMA HoldersAreThreads ==
  Holders \in SUBSET Thread /\ Fillers \in SUBSET Thread /\ Fillers \subseteq Holders
BY DEF Holders, Fillers

(* Only threads are blocked.                                               *)
LEMMA BlockedAreThreads ==
  ASSUME NEW S, SemOK(S), NEW k \in Key
  PROVE  Blocked[k] \subseteq S
BY QueueBasics DEF SemOK, Blocked

(* Moving one thread. *)
LEMMA GotoEffect ==
  ASSUME pc \in [Thread -> Label], NEW t \in Thread, NEW l \in Label, Goto(t, l)
  PROVE  /\ pc' \in [Thread -> Label] /\ pc'[t] = l
         /\ \A u \in Thread : u # t => pc'[u] = pc[u]
BY DEF Goto

SemPart == SemOK(Thread) /\ pc \in [Thread -> Label] /\ MqQueues /\ MqMutex /\ MqUnits

(* The sums are kept if the changes on their two sides are the same. *)
LEMMA UnitsKept ==
  ASSUME SemOK(Thread), SemOK(Thread)', MqUnits, Stored \in Int, Stored' \in Int,
         count'[0] + count'[1] + Cardinality(Holders') =
           count[0] + count[1] + Cardinality(Holders),
         Stored' - count'[1] - Cardinality(Fillers') =
           Stored - count[1] - Cardinality(Fillers)
  PROVE  MqUnits'
<1>1. count[0] \in Nat /\ count[1] \in Nat /\ count'[0] \in Nat /\ count'[1] \in Nat
  <2>1. count \in [Key -> Nat] /\ count' \in [Key -> Nat]
    BY DEF SemOK, Value
  <2> QED
    BY <2>1, MqKeys
<1>2. Cardinality(Holders) \in Nat /\ Cardinality(Fillers) \in Nat
  BY Sizes, HoldersAreThreads
<1>3. Cardinality(Holders') \in Nat /\ Cardinality(Fillers') \in Nat
  <2>1. Holders' \in SUBSET Thread /\ Fillers' \in SUBSET Thread
    BY DEF Holders, Fillers
  <2> QED
    BY <2>1, Sizes
<1>4. /\ count[0] + count[1] + Cardinality(Holders) = ROUNDS
      /\ Stored = count[1] + Cardinality(Fillers)
  BY DEF MqUnits, EMPTY, FULL
<1>5. count'[0] + count'[1] + Cardinality(Holders') = ROUNDS
  BY <1>4
<1>6. Stored' = count'[1] + Cardinality(Fillers')
  <2>1. Stored - count[1] - Cardinality(Fillers) = 0
    BY <1>1, <1>2, <1>4
  <2>2. Stored' - count'[1] - Cardinality(Fillers') = 0
    BY <2>1
  <2> QED
    BY <1>1, <1>3, <2>2
<1> QED
  BY <1>5, <1>6 DEF MqUnits, EMPTY, FULL

HistOK == received \in Nat /\ sent \in Seq(Int)

(* The history has its type.                                               *)
LEMMA HistTypes == HistOK => Stored \in Int /\ Len(sent) \in Nat
BY LenProperties DEF HistOK, Stored

(* EMPTY.wait() or FULL.wait(): the thread takes a unit with it, or is     *)
(* blocked without one.                                                    *)
LEMMA BeginSem ==
  ASSUME SemPart, HistOK, NEW t \in Thread, begin(t)
  PROVE  SemPart'
<1> DEFINE n == Needs(t)
<1>1. /\ pc[t] = "begin" /\ \A k \in Key : t \notin Blocked[k]
      /\ wait(t, n) /\ Goto(t, "mutex") /\ sent' = sent /\ received' = received
  BY MqAt DEF begin, mqVars
<1>2. /\ pc' \in [Thread -> Label] /\ pc'[t] = "mutex" /\ pc \in [Thread -> Label]
      /\ \A u \in Thread : u # t => pc'[u] = pc[u]
  BY <1>1, GotoEffect DEF SemPart, Label
<1>3. n \in {0, 1} /\ n \in Key /\ (IsWriter(t) <=> n = 0)
  BY MqKeys
<1> HIDE DEF n
<1>4. /\ SemOK(Thread)' /\ SemOK(Thread)
      /\ \A j \in Key : j # n => count'[j] = count[j] /\ Blocked'[j] = Blocked[j]
      /\ \/ count[n] > 0 /\ count'[n] = count[n] - 1 /\ Blocked' = Blocked
         \/ count[n] = 0 /\ count' = count /\ Blocked'[n] = Blocked[n] \cup {t}
  BY <1>1, <1>3, WaitEffect DEF SemPart
<1>5. MqQueues'
  <2>1. /\ \A u \in Blocked[0] : Needs(u) = 0 /\ pc[u] = "mutex"
        /\ \A u \in Blocked[1] : Needs(u) = 1 /\ pc[u] = "mutex"
        /\ \A u \in Blocked[2] : pc[u] = "access"
    BY DEF SemPart, MqQueues, EMPTY, FULL, WRITE_MUTEX
  <2>2. Blocked[0] \subseteq Thread /\ Blocked[1] \subseteq Thread /\ Blocked[2] \subseteq Thread
    BY <1>4, MqKeys, BlockedAreThreads
  <2>3. /\ \A u \in Blocked'[0] : Needs(u) = 0 /\ pc'[u] = "mutex"
        /\ \A u \in Blocked'[1] : Needs(u) = 1 /\ pc'[u] = "mutex"
        /\ \A u \in Blocked'[2] : pc'[u] = "access"
    BY <1>1, <1>2, <1>3, <1>4, <2>1, <2>2, MqKeys DEF n
  <2> QED
    BY <2>3 DEF MqQueues, EMPTY, FULL, WRITE_MUTEX
<1>6. MqMutex'
  <2>1. \A u \in Thread : InRing(u)' <=> InRing(u)
    BY Zenon, <1>1, <1>2, <1>3, <1>4, MqKeys DEF InRing, Critical, WRITE_MUTEX
  <2> QED
    BY <1>3, <1>4, <2>1, MqKeys DEF SemPart, MqMutex, WRITE_MUTEX
<1>7. count[0] \in Nat /\ count[1] \in Nat
  BY <1>4, MqKeys DEF SemOK, Value
<1>8. t \notin Holders /\ t \notin Fillers
  BY <1>1 DEF Holders, Fillers
<1>9. CASE count[n] > 0 /\ count'[n] = count[n] - 1 /\ Blocked' = Blocked
  <2>1. Holders' = Holders \cup {t}
    BY Zenon, <1>1, <1>2, <1>3, <1>9 DEF Holders, n
  <2>2. Fillers' = IF n = 0 THEN Fillers ELSE Fillers \cup {t}
    <3>1. \A u \in Thread : u # t => (u \in Fillers' <=> u \in Fillers)
      BY <1>2, <2>1 DEF Fillers
    <3>2. t \in Fillers' <=> n # 0
      BY <1>2, <1>3, <2>1 DEF Fillers
    <3> QED
      BY <1>8, <3>1, <3>2, HoldersAreThreads DEF Fillers, Holders
  <2>3. /\ Cardinality(Holders') = Cardinality(Holders) + 1
        /\ n = 0 => Cardinality(Fillers') = Cardinality(Fillers)
        /\ n # 0 => Cardinality(Fillers') = Cardinality(Fillers) + 1
        /\ Cardinality(Holders) \in Nat /\ Cardinality(Fillers) \in Nat
    BY <1>8, <2>1, <2>2, Sizes, HoldersAreThreads
  <2>4. count'[0] + count'[1] = count[0] + count[1] - 1 /\ count'[1] = count[1] - (IF n = 0 THEN 0 ELSE 1)
    BY <1>3, <1>4, <1>7, <1>9, MqKeys
  <2>5. Stored' = Stored /\ Stored \in Int
    BY <1>1, HistTypes DEF Stored
  <2>6. /\ count'[0] + count'[1] + Cardinality(Holders') =
             count[0] + count[1] + Cardinality(Holders)
        /\ Stored' - count'[1] - Cardinality(Fillers') =
             Stored - count[1] - Cardinality(Fillers)
    BY <1>3, <1>7, <2>3, <2>4, <2>5
  <2>7. MqUnits'
    BY Zenon, <1>4, <2>5, <2>6, UnitsKept DEF SemPart
  <2> QED
    BY <1>2, <1>4, <1>5, <1>6, <2>7 DEF SemPart
<1>10. CASE count[n] = 0 /\ count' = count /\ Blocked'[n] = Blocked[n] \cup {t}
  <2>1. Holders' = Holders
    <3>1. \A u \in Thread : u # t => (u \in Blocked'[Needs(u)] <=> u \in Blocked[Needs(u)])
      BY <1>3, <1>4, <1>10, MqKeys
    <3>2. t \in Blocked'[Needs(t)]
      BY <1>10 DEF n
    <3> QED
      BY <1>2, <1>8, <3>1, <3>2 DEF Holders
  <2>2. Fillers' = Fillers
    BY <1>2, <1>8, <2>1 DEF Fillers, Holders
  <2>3. MqUnits'
    BY <1>1, <1>10, <2>1, <2>2 DEF SemPart, MqUnits, Stored
  <2> QED
    BY <1>2, <1>4, <1>5, <1>6, <2>3 DEF SemPart
<1> QED
  BY <1>4, <1>9, <1>10

(* What SemPart says, in numbers. *)
LEMMA SemFacts ==
  ASSUME SemPart
  PROVE  /\ SemOK(Thread) /\ pc \in [Thread -> Label]
         /\ count[0] \in Nat /\ count[1] \in Nat /\ count[2] \in {0, 1}
         /\ \A u \in Blocked[0] : u \in Thread /\ Needs(u) = 0 /\ pc[u] = "mutex"
         /\ \A u \in Blocked[1] : u \in Thread /\ Needs(u) = 1 /\ pc[u] = "mutex"
         /\ \A u \in Blocked[2] : u \in Thread /\ pc[u] = "access"
         /\ \A u : InRing(u) <=> pc[u] \in Critical /\ u \notin Blocked[2]
         /\ count[2] = 1 => Blocked[2] = {} /\ \A u \in Thread : ~InRing(u)
         /\ \A u, v \in Thread : InRing(u) /\ InRing(v) => u = v
<1>1. SemOK(Thread) /\ pc \in [Thread -> Label]
  BY DEF SemPart
<1>2. count[0] \in Nat /\ count[1] \in Nat
  BY <1>1, MqKeys DEF SemOK, Value
<1>3. Blocked[0] \subseteq Thread /\ Blocked[1] \subseteq Thread /\ Blocked[2] \subseteq Thread
  BY <1>1, MqKeys, BlockedAreThreads
<1> QED
  BY <1>1, <1>2, <1>3
     DEF SemPart, MqQueues, MqMutex, InRing, EMPTY, FULL, WRITE_MUTEX

(* The converse of SemFacts for the queues and the mutex of a next state. *)
LEMMA SemFactsNext ==
  ASSUME /\ \A u \in Blocked'[0] : Needs(u) = 0 /\ pc'[u] = "mutex"
         /\ \A u \in Blocked'[1] : Needs(u) = 1 /\ pc'[u] = "mutex"
         /\ \A u \in Blocked'[2] : pc'[u] = "access",
         count'[2] \in {0, 1},
         count'[2] = 1 => Blocked'[2] = {} /\ \A u \in Thread : pc'[u] \notin Critical,
         \A u, v \in Thread :
            (/\ pc'[u] \in Critical /\ u \notin Blocked'[2]
             /\ pc'[v] \in Critical /\ v \notin Blocked'[2]) => u = v
  PROVE  MqQueues' /\ MqMutex'
BY DEF MqQueues, MqMutex, InRing, EMPTY, FULL, WRITE_MUTEX

(* WRITE_MUTEX.wait(): who goes on is alone in the ring. *)
LEMMA MutexSem ==
  ASSUME SemPart, HistOK, NEW t \in Thread, mutex(t)
  PROVE  SemPart'
<1>1. /\ pc[t] = "mutex" /\ \A k \in Key : t \notin Blocked[k]
      /\ wait(t, 2) /\ Goto(t, "access") /\ sent' = sent /\ received' = received
  BY MqAt DEF mutex, mqVars, WRITE_MUTEX
<1>2. /\ pc' \in [Thread -> Label] /\ pc'[t] = "access"
      /\ \A u \in Thread : u # t => pc'[u] = pc[u]
  BY <1>1, GotoEffect DEF SemPart, Label
<1>3. /\ SemOK(Thread)'
      /\ \A j \in Key : j # 2 => count'[j] = count[j] /\ Blocked'[j] = Blocked[j]
      /\ \/ count[2] > 0 /\ count'[2] = count[2] - 1 /\ Blocked' = Blocked
         \/ count[2] = 0 /\ count' = count /\ Blocked'[2] = Blocked[2] \cup {t}
  BY <1>1, MqKeys, WaitEffect DEF SemPart
<1>4. /\ Blocked'[0] = Blocked[0] /\ Blocked'[1] = Blocked[1]
      /\ count'[0] = count[0] /\ count'[1] = count[1]
  BY <1>3, MqKeys
<1>5. t \notin Blocked[0] /\ t \notin Blocked[1] /\ t \notin Blocked[2]
  BY <1>1, MqKeys
<1>6. MqQueues' /\ MqMutex'
  <2>1. /\ \A u \in Blocked'[0] : Needs(u) = 0 /\ pc'[u] = "mutex"
        /\ \A u \in Blocked'[1] : Needs(u) = 1 /\ pc'[u] = "mutex"
        /\ \A u \in Blocked'[2] : pc'[u] = "access"
    BY Zenon, <1>2, <1>3, <1>4, <1>5, SemFacts
  <2>2. CASE count[2] > 0 /\ count'[2] = count[2] - 1 /\ Blocked' = Blocked
    <3>1. count[2] = 1 /\ count'[2] = 0
      BY <2>2, SemFacts
    <3>2. \A u \in Thread : pc[u] \notin Critical \/ u = t
      BY <3>1, SemFacts
    <3> QED
      BY <1>2, <2>1, <3>1, <3>2, SemFactsNext
  <2>3. CASE count[2] = 0 /\ count' = count /\ Blocked'[2] = Blocked[2] \cup {t}
    <3>1. \A u \in Thread : pc'[u] \in Critical /\ u \notin Blocked'[2] => InRing(u)
      BY <1>2, <2>3, SemFacts
    <3> QED
      BY Zenon, <2>1, <2>3, <3>1, SemFacts, SemFactsNext
  <2> QED
    BY <1>3, <2>2, <2>3
<1>7. Holders' = Holders
  <2>1. \A u : Blocked'[Needs(u)] = Blocked[Needs(u)]
    BY <1>4, MqKeys
  <2> QED
    BY <1>1, <1>2, <2>1 DEF Holders
<1>8. Fillers' = Fillers
  <2>1. \A u \in Thread : u \in Fillers' <=> u \in Fillers
    BY <1>1, <1>2, <1>7 DEF Fillers
  <2> QED
    BY <2>1 DEF Fillers, Holders
<1>9. MqUnits'
  BY <1>1, <1>4, <1>7, <1>8 DEF SemPart, MqUnits, Stored, EMPTY, FULL
<1> QED
  BY <1>2, <1>3, <1>6, <1>9 DEF SemPart

(* A thread in the ring goes on, and no semaphore changes. *)
LEMMA RingSem ==
  ASSUME SemPart, NEW t \in Thread, NEW l \in Label, pc[t] \in Critical,
         \A k \in Key : t \notin Blocked[k], l \in Critical, Goto(t, l),
         UNCHANGED <<count, wait_queue>>
  PROVE  /\ SemOK(Thread)' /\ pc' \in [Thread -> Label] /\ MqQueues' /\ MqMutex'
         /\ Holders' = Holders /\ t \in Holders
<1>1. /\ pc' \in [Thread -> Label] /\ pc'[t] = l
      /\ \A u \in Thread : u # t => pc'[u] = pc[u]
  BY GotoEffect DEF SemPart
<1>2. SemOK(Thread)' /\ Blocked' = Blocked
  BY NoSemEffect DEF SemPart
<1>3. t \notin Blocked[0] /\ t \notin Blocked[1] /\ t \notin Blocked[2]
  BY MqKeys
<1>4. InRing(t)
  BY <1>3, SemFacts
<1>5. MqQueues' /\ MqMutex'
  <2>1. /\ \A u \in Blocked'[0] : Needs(u) = 0 /\ pc'[u] = "mutex"
        /\ \A u \in Blocked'[1] : Needs(u) = 1 /\ pc'[u] = "mutex"
        /\ \A u \in Blocked'[2] : pc'[u] = "access"
    BY <1>1, <1>2, <1>3, SemFacts
  <2>2. \A u \in Thread : pc'[u] \in Critical /\ u \notin Blocked'[2] => InRing(u)
    BY <1>1, <1>2, <1>4, SemFacts
  <2> QED
    BY Zenon, <1>4, <2>1, <2>2, SemFacts, SemFactsNext
<1>6. Holders' = Holders /\ t \in Holders
  BY <1>1, <1>2, <1>3, MqKeys DEF Holders, Critical
<1> QED
  BY <1>1, <1>2, <1>5, <1>6

(* The accesses to the ring: a message more and a writer that stands for   *)
(* it, or a message less and a reader that no longer does.                 *)
LEMMA WriteSem ==
  ASSUME SemPart, HistOK, HistOK', NEW t \in Thread, write_message(t)
  PROVE  SemPart' /\ Stored < ROUNDS
<1>1. /\ pc[t] = "access" /\ \A k \in Key : t \notin Blocked[k]
      /\ Goto(t, "load") /\ IsWriter(t)
      /\ UNCHANGED <<count, wait_queue>>
      /\ sent' = Append(sent, Message(t)) /\ received' = received
  BY Zenon, MqAt DEF write_message, libVars
<1>2. /\ SemOK(Thread)' /\ pc' \in [Thread -> Label] /\ MqQueues' /\ MqMutex'
      /\ Holders' = Holders /\ t \in Holders
  BY <1>1, RingSem DEF Label, Critical
<1>3. pc'[t] = "load" /\ \A u \in Thread : u # t => pc'[u] = pc[u]
  BY <1>1, GotoEffect, SemFacts DEF Label
<1>4. t \notin Fillers
  BY <1>1 DEF Fillers
<1>5. Fillers' = Fillers \cup {t}
  <2>1. \A u \in Thread : u # t => (u \in Fillers' <=> u \in Fillers)
    BY <1>2, <1>3 DEF Fillers
  <2>2. t \in Fillers'
    BY <1>1, <1>2, <1>3 DEF Fillers
  <2> QED
    BY <2>1, <2>2 DEF Fillers, Holders
<1>6. Cardinality(Fillers') = Cardinality(Fillers) + 1 /\ Cardinality(Fillers) \in Nat
  BY <1>4, <1>5, Sizes, HoldersAreThreads
<1>7. Stored' = Stored + 1 /\ Stored \in Int
  <2>1. Len(sent') = Len(sent) + 1 /\ Len(sent) \in Nat /\ received \in Nat
    BY <1>1, HistTypes DEF HistOK
  <2> QED
    BY <1>1, <2>1 DEF Stored
<1>8. Stored' - count'[1] - Cardinality(Fillers') = Stored - count[1] - Cardinality(Fillers)
  BY <1>1, <1>6, <1>7, SemFacts
<1>9. MqUnits'
  BY <1>1, <1>2, <1>7, <1>8, UnitsKept DEF SemPart
<1>10. Stored < ROUNDS
  <2>1. Fillers \in SUBSET (Holders \ {t}) /\ Holders \ {t} \in SUBSET Thread
    BY <1>4, HoldersAreThreads
  <2>2. IsFiniteSet(Holders \ {t})
    BY <2>1, MqBasics, FS_Subset
  <2>3. Cardinality(Fillers) <= Cardinality(Holders \ {t})
    BY <2>1, <2>2, FS_Subset
  <2>4. Cardinality(Holders \ {t}) = Cardinality(Holders) - 1 /\ Cardinality(Holders) \in Nat
    BY <1>2, Sizes, HoldersAreThreads
  <2>5. /\ count[0] + count[1] + Cardinality(Holders) = ROUNDS
        /\ Stored = count[1] + Cardinality(Fillers)
    BY DEF SemPart, MqUnits, EMPTY, FULL
  <2>6. count[0] \in Nat /\ count[1] \in Nat
    BY SemFacts
  <2> QED
    BY <1>6, <2>3, <2>4, <2>5, <2>6
<1> QED
  BY Zenon, <1>2, <1>9, <1>10 DEF SemPart

(* A reader takes its message out, and so stands for a free slot.          *)
LEMMA ReadSem ==
  ASSUME SemPart, HistOK, HistOK', NEW t \in Thread, read_message(t)
  PROVE  SemPart' /\ Stored > 0
<1>1. /\ pc[t] = "access" /\ \A k \in Key : t \notin Blocked[k]
      /\ Goto(t, "load") /\ ~IsWriter(t)
      /\ UNCHANGED <<count, wait_queue>>
      /\ sent' = sent /\ received' = received + 1
  BY MqAt DEF read_message, libVars
<1>2. /\ SemOK(Thread)' /\ pc' \in [Thread -> Label] /\ MqQueues' /\ MqMutex'
      /\ Holders' = Holders /\ t \in Holders
  BY <1>1, RingSem DEF Label, Critical
<1>3. pc'[t] = "load" /\ \A u \in Thread : u # t => pc'[u] = pc[u]
  BY Zenon, <1>1, GotoEffect, SemFacts DEF Label
<1>4. t \in Fillers
  BY Zenon, <1>1, <1>2 DEF Fillers
<1>5. Fillers' = Fillers \ {t}
  <2>1. \A u \in Thread : u # t => (u \in Fillers' <=> u \in Fillers)
    BY <1>2, <1>3 DEF Fillers
  <2>2. t \notin Fillers'
    BY <1>1, <1>3 DEF Fillers
  <2> QED
    BY <2>1, <2>2 DEF Fillers, Holders
<1>6. /\ Cardinality(Fillers') = Cardinality(Fillers) - 1
      /\ Cardinality(Fillers) \in Nat /\ Cardinality(Fillers) > 0
  BY <1>4, <1>5, Sizes, HoldersAreThreads
<1>7. Stored' = Stored - 1 /\ Stored \in Int
  <2>1. Len(sent) \in Nat /\ received \in Nat
    BY HistTypes DEF HistOK
  <2> QED
    BY <1>1, <2>1 DEF Stored
<1>8. Stored' - count'[1] - Cardinality(Fillers') = Stored - count[1] - Cardinality(Fillers)
  BY <1>1, <1>6, <1>7, SemFacts
<1>9. MqUnits'
  BY <1>1, <1>2, <1>7, <1>8, UnitsKept DEF SemPart
<1>10. Stored > 0
  <2>1. Stored = count[1] + Cardinality(Fillers)
    BY DEF SemPart, MqUnits, FULL
  <2> QED
    BY <1>6, <2>1, SemFacts
<1> QED
  BY <1>2, <1>9, <1>10 DEF SemPart

(* The two halves of the assignment to the index. *)
LEMMA IndexSem ==
  ASSUME SemPart, NEW t \in Thread, load(t) \/ store(t)
  PROVE  SemPart'
<1>1. /\ \A k \in Key : t \notin Blocked[k]
      /\ \/ pc[t] = "load" /\ Goto(t, "store")
         \/ pc[t] = "store" /\ Goto(t, "unlock")
      /\ UNCHANGED <<count, wait_queue, sent, received>>
  BY MqAt DEF load, store, libVars
<1>2. /\ SemOK(Thread)' /\ pc' \in [Thread -> Label] /\ MqQueues' /\ MqMutex'
      /\ Holders' = Holders /\ t \in Holders
  BY Zenon, <1>1, RingSem DEF Label, Critical
<1>3. /\ pc'[t] \in {"store", "unlock"} /\ pc[t] \in {"load", "store"}
      /\ \A u \in Thread : u # t => pc'[u] = pc[u]
  BY Zenon, <1>1, GotoEffect, SemFacts DEF Label
<1>4. Fillers' = Fillers
  <2>1. \A u \in Thread : u # t => (u \in Fillers' <=> u \in Fillers)
    BY <1>2, <1>3 DEF Fillers
  <2>2. t \in Fillers' <=> t \in Fillers
    BY <1>2, <1>3 DEF Fillers
  <2> QED
    BY <2>1, <2>2 DEF Fillers, Holders
<1>5. MqUnits'
  BY Zenon, <1>1, <1>2, <1>4 DEF SemPart, MqUnits, Stored
<1> QED
  BY Zenon, <1>2, <1>5 DEF SemPart

(* WRITE_MUTEX.signal(): the ring is empty, or the first of the queue is   *)
(* in it.                                                                  *)
LEMMA UnlockSem ==
  ASSUME SemPart, NEW t \in Thread, unlock(t)
  PROVE  SemPart'
<1>1. /\ pc[t] = "unlock" /\ \A k \in Key : t \notin Blocked[k]
      /\ signal(2) /\ Goto(t, "post") /\ sent' = sent /\ received' = received
  BY Zenon, MqAt DEF unlock, mqVars, WRITE_MUTEX
<1>2. /\ pc' \in [Thread -> Label] /\ pc'[t] = "post"
      /\ \A u \in Thread : u # t => pc'[u] = pc[u]
  BY <1>1, GotoEffect DEF SemPart, Label
<1>3. /\ SemOK(Thread)'
      /\ \A j \in Key : j # 2 => count'[j] = count[j] /\ Blocked'[j] = Blocked[j]
      /\ \/ Blocked[2] = {} /\ count'[2] = count[2] + 1 /\ Blocked' = Blocked
         \/ /\ count' = count
            /\ \E u \in Thread : u \in Blocked[2] /\ Blocked'[2] = Blocked[2] \ {u}
  BY <1>1, MqKeys, SignalEffect DEF SemPart
<1>4. /\ Blocked'[0] = Blocked[0] /\ Blocked'[1] = Blocked[1]
      /\ count'[0] = count[0] /\ count'[1] = count[1]
  BY <1>3, MqKeys
<1>5. t \notin Blocked[0] /\ t \notin Blocked[1] /\ t \notin Blocked[2]
  BY <1>1, MqKeys
<1>6. InRing(t) /\ count[2] = 0 /\ \A u \in Thread : InRing(u) => u = t
  BY <1>1, <1>5, SemFacts DEF Critical
<1>7. "post" \notin Critical /\ "access" \in Critical
  BY DEF Critical
<1>8. MqQueues' /\ MqMutex'
  <2>1. /\ \A u \in Blocked'[0] : Needs(u) = 0 /\ pc'[u] = "mutex"
        /\ \A u \in Blocked'[1] : Needs(u) = 1 /\ pc'[u] = "mutex"
        /\ \A u \in Blocked'[2] : pc'[u] = "access"
    BY <1>2, <1>3, <1>4, <1>5, SemFacts
  <2>2. CASE Blocked[2] = {} /\ count'[2] = count[2] + 1 /\ Blocked' = Blocked
    <3>1. \A u \in Thread : pc'[u] \notin Critical
      BY Zenon, <1>2, <1>6, <1>7, <2>2, SemFacts
    <3> QED
      BY <1>6, <2>1, <2>2, <3>1, SemFactsNext
  <2>3. ASSUME count' = count, NEW v \in Thread, Blocked'[2] = Blocked[2] \ {v}
        PROVE  MqQueues' /\ MqMutex'
    <3>1. \A u \in Thread : pc'[u] \in Critical /\ u \notin Blocked'[2] => u = v
      BY <1>2, <1>6, <1>7, <2>3, SemFacts
    <3> QED
      BY <1>6, <2>1, <2>3, <3>1, SemFactsNext
  <2> QED
    BY Zenon, <1>3, <2>2, <2>3
<1>9. Holders' = Holders
  <2>1. \A u : Blocked'[Needs(u)] = Blocked[Needs(u)]
    BY <1>4, MqKeys
  <2> QED
    BY Zenon, <1>1, <1>2, <2>1 DEF Holders
<1>10. Fillers' = Fillers
  <2>1. \A u \in Thread : u \in Fillers' <=> u \in Fillers
    BY Zenon, <1>1, <1>2, <1>9 DEF Fillers
  <2> QED
    BY <2>1 DEF Fillers, Holders
<1>11. MqUnits'
  BY Zenon, <1>1, <1>4, <1>9, <1>10 DEF SemPart, MqUnits, Stored, EMPTY, FULL
<1> QED
  BY Zenon, <1>2, <1>3, <1>8, <1>11 DEF SemPart

(* FULL.signal() or EMPTY.signal(): the unit of the thread goes to the     *)
(* semaphore it feeds, or to the first of its queue.                       *)
LEMMA PostSem ==
  ASSUME SemPart, HistOK, NEW t \in Thread, post(t)
  PROVE  SemPart'
<1> DEFINE n == Feeds(t)
<1>1. /\ pc[t] = "post" /\ \A k \in Key : t \notin Blocked[k]
      /\ signal(n) /\ Goto(t, "begin") /\ sent' = sent /\ received' = received
  BY MqAt DEF post, mqVars
<1>2. /\ pc' \in [Thread -> Label] /\ pc'[t] = "begin"
      /\ \A u \in Thread : u # t => pc'[u] = pc[u]
  BY <1>1, GotoEffect DEF SemPart, Label
<1>3. n \in {0, 1} /\ n \in Key /\ (IsWriter(t) <=> n = 1)
  BY MqKeys
<1> HIDE DEF n
<1>4. /\ SemOK(Thread)'
      /\ \A j \in Key : j # n => count'[j] = count[j] /\ Blocked'[j] = Blocked[j]
      /\ \/ Blocked[n] = {} /\ count'[n] = count[n] + 1 /\ Blocked' = Blocked
         \/ /\ count' = count
            /\ \E u \in Thread : u \in Blocked[n] /\ Blocked'[n] = Blocked[n] \ {u}
  BY <1>1, <1>3, SignalEffect DEF SemPart
<1>5. t \notin Blocked[0] /\ t \notin Blocked[1] /\ t \notin Blocked[2]
  BY <1>1, MqKeys
<1>6. Blocked'[2] = Blocked[2] /\ count'[2] = count[2]
  BY <1>3, <1>4, MqKeys
<1>7. MqQueues' /\ MqMutex'
  <2>1. /\ \A u \in Blocked'[0] : Needs(u) = 0 /\ pc'[u] = "mutex"
        /\ \A u \in Blocked'[1] : Needs(u) = 1 /\ pc'[u] = "mutex"
        /\ \A u \in Blocked'[2] : pc'[u] = "access"
    <3>1. Blocked'[0] \subseteq Blocked[0] /\ Blocked'[1] \subseteq Blocked[1]
      BY <1>3, <1>4, MqKeys
    <3> QED
      BY Zenon, <1>2, <1>5, <1>6, <3>1, SemFacts
  <2>2. "begin" \notin Critical /\ "post" \notin Critical
    BY DEF Critical
  <2>3. \A u \in Thread : pc'[u] \in Critical => pc[u] \in Critical
    BY <1>2, <2>2
  <2> QED
    BY Zenon, <1>6, <2>1, <2>3, SemFacts, SemFactsNext
<1>8. t \in Holders /\ (t \in Fillers <=> n = 1)
  BY <1>1, <1>3, <1>5, MqKeys DEF Holders, Fillers
<1>9. /\ Cardinality(Holders \ {t}) = Cardinality(Holders) - 1
      /\ n = 1 => Cardinality(Fillers \ {t}) = Cardinality(Fillers) - 1
      /\ Cardinality(Holders) \in Nat /\ Cardinality(Fillers) \in Nat
  BY <1>8, Sizes, HoldersAreThreads
<1>10. Stored' = Stored /\ Stored \in Int
  BY Zenon, <1>1, HistTypes DEF Stored
<1>11. CASE Blocked[n] = {} /\ count'[n] = count[n] + 1 /\ Blocked' = Blocked
  <2>1. Holders' = Holders \ {t}
    BY Zenon, <1>2, <1>11 DEF Holders
  <2>2. Fillers' = Fillers \ {t}
    <3>1. \A u \in Thread : u # t => (u \in Fillers' <=> u \in Fillers)
      BY <1>2, <2>1 DEF Fillers
    <3>2. t \notin Fillers'
      BY <2>1 DEF Fillers
    <3> QED
      BY <3>1, <3>2 DEF Fillers, Holders
  <2>3. n = 0 => Fillers' = Fillers
    BY <1>8, <2>2
  <2>4. /\ n = 0 => count'[0] = count[0] + 1 /\ count'[1] = count[1]
        /\ n = 1 => count'[0] = count[0] /\ count'[1] = count[1] + 1
    BY <1>3, <1>4, <1>11, MqKeys
  <2>5. count'[0] + count'[1] + Cardinality(Holders') = count[0] + count[1] + Cardinality(Holders)
    BY <1>3, <1>9, <2>1, <2>4, SemFacts
  <2>6. Stored' - count'[1] - Cardinality(Fillers') = Stored - count[1] - Cardinality(Fillers)
    <3>1. count[1] \in Nat
      BY SemFacts
    <3>2. CASE n = 0
      BY <1>10, <2>3, <2>4, <3>2
    <3>3. CASE n = 1
      BY <1>9, <1>10, <2>2, <2>4, <3>1, <3>3
    <3> QED
      BY Zenon, <1>3, <3>2, <3>3
  <2>7. MqUnits'
    BY Zenon, <1>4, <1>10, <2>5, <2>6, UnitsKept DEF SemPart
  <2> QED
    BY Zenon, <1>2, <1>4, <1>7, <2>7 DEF SemPart
<1>12. ASSUME count' = count, NEW u \in Thread, u \in Blocked[n], Blocked'[n] = Blocked[n] \ {u}
       PROVE  SemPart'
  <2>1. Needs(u) = n /\ pc[u] = "mutex" /\ u # t /\ pc'[u] = "mutex"
    BY Zenon, <1>1, <1>2, <1>3, <1>12, SemFacts
  <2>2. u \notin Holders /\ u \notin Fillers /\ (IsWriter(u) <=> n = 0)
    BY <1>3, <1>12, <2>1, MqKeys DEF Holders, Fillers
  <2>3. Holders' = (Holders \ {t}) \cup {u}
    <3>1. ASSUME NEW v \in Thread, v # t, v # u
          PROVE  v \in Holders' <=> v \in Holders
      <4>1. v \in Blocked'[Needs(v)] <=> v \in Blocked[Needs(v)]
        BY Zenon, <1>3, <1>4, <1>12, <3>1, MqKeys
      <4> QED
        BY Zenon, <1>2, <3>1, <4>1 DEF Holders
    <3>2. t \notin Holders'
      BY <1>2 DEF Holders
    <3>3. u \in Holders'
      BY <1>12, <2>1 DEF Holders
    <3> QED
      BY Zenon, <2>1, <3>1, <3>2, <3>3 DEF Holders
  <2>4. Fillers' = IF n = 0 THEN Fillers ELSE (Fillers \ {t}) \cup {u}
    <3>1. \A v \in Thread : v # t /\ v # u => (v \in Fillers' <=> v \in Fillers)
      BY <1>2, <2>3 DEF Fillers
    <3>2. t \notin Fillers'
      BY <2>1, <2>3 DEF Fillers
    <3>3. u \in Fillers' <=> n # 0
      BY Zenon, <1>3, <2>1, <2>2, <2>3 DEF Fillers
    <3>4. Fillers \in SUBSET Thread /\ Fillers' \in SUBSET Thread
      BY DEF Fillers, Holders
    <3>5. CASE n = 0
      <4>1. \A v \in Thread : v \in Fillers' <=> v \in Fillers
        BY <1>8, <2>2, <3>1, <3>2, <3>3, <3>5
      <4> QED
        BY <3>4, <3>5, <4>1
    <3>6. CASE n = 1
      <4>1. \A v \in Thread : v \in Fillers' <=> v \in (Fillers \ {t}) \cup {u}
        BY <2>1, <3>1, <3>2, <3>3, <3>6
      <4> QED
        BY <3>4, <3>6, <4>1
    <3> QED
      BY <1>3, <3>5, <3>6
  <2>5. Cardinality(Holders') = Cardinality(Holders)
    <3>1. Holders \ {t} \in SUBSET Thread /\ u \notin Holders \ {t}
      BY <2>2, HoldersAreThreads
    <3>2. Cardinality((Holders \ {t}) \cup {u}) = Cardinality(Holders \ {t}) + 1
      BY <3>1, Sizes
    <3> QED
      BY <1>9, <2>3, <3>2
  <2>6. Cardinality(Fillers') = Cardinality(Fillers)
    <3>1. Fillers \ {t} \in SUBSET Thread /\ u \notin Fillers \ {t}
      BY Zenon, <2>2, HoldersAreThreads
    <3>2. Cardinality((Fillers \ {t}) \cup {u}) = Cardinality(Fillers \ {t}) + 1
      BY <3>1, Sizes
    <3> QED
      BY <1>3, <1>9, <2>4, <3>2
  <2>7. MqUnits'
    BY <1>10, <1>12, <2>5, <2>6 DEF SemPart, MqUnits
  <2> QED
    BY Zenon, <1>2, <1>4, <1>7, <2>7 DEF SemPart
<1> QED
  BY Zenon, <1>4, <1>11, <1>12

(* main and the exits of the threads leave all this alone. *)
LEMMA OtherSem ==
  ASSUME SemPart, UNCHANGED <<count, wait_queue, pc, sent, received>>
  PROVE  SemPart'
<1>1. SemOK(Thread)' /\ Blocked' = Blocked
  BY NoSemEffect DEF SemPart
<1>2. MqQueues' /\ MqMutex'
  BY <1>1 DEF SemPart, MqQueues, MqMutex, InRing
<1>3. Holders' = Holders /\ Fillers' = Fillers
  BY <1>1 DEF Holders, Fillers
<1>4. MqUnits'
  BY <1>3 DEF SemPart, MqUnits, Stored
<1> QED
  BY <1>1, <1>2, <1>4 DEF SemPart

-----------------------------------------------------------------------------
(* Two of the last ROUNDS + 1 messages have different slots. *)
LEMMA SlotsDiffer ==
  ASSUME NEW a \in Nat, NEW b \in Nat, NEW N \in Nat \ {0}, a < b, b - a < N
  PROVE  a % N # b % N
<1>1. a % N = a - N * (a \div N) /\ a \div N \in Nat
  OBVIOUS
<1>2. b % N = b - N * (b \div N) /\ b \div N \in Nat
  OBVIOUS
<1>3. SUFFICES ASSUME a % N = b % N PROVE FALSE
  OBVIOUS
<1> DEFINE d == (b \div N) - (a \div N)
<1>4. d \in Int /\ N * d = N * (b \div N) - N * (a \div N)
  BY <1>1, <1>2
<1>5. b - a = N * d
  BY <1>1, <1>2, <1>3, <1>4
<1> HIDE DEF d
<1>6. d > 0
  BY <1>4, <1>5
<1>7. N * d >= N
  BY <1>4, <1>6
<1> QED
  BY <1>5, <1>7

(* The remainder of a number written as a multiple and a rest. *)
LEMMA Remainder ==
  ASSUME NEW N \in Nat \ {0}, NEW q \in Nat, NEW r \in 0 .. N - 1
  PROVE  (N * q + r) % N = r
<1>1. N * q \in Nat /\ N * q + r \in Nat
  OBVIOUS
<1>2. (N * q + r) \div N = q
  OBVIOUS
<1>3. (N * q + r) % N = (N * q + r) - N * ((N * q + r) \div N)
  BY <1>1
<1> QED
  BY <1>1, <1>2, <1>3

(* The step of an index: (i + 1) % MQ_SIZE. *)
LEMMA NextSlot ==
  ASSUME NEW a \in Nat, NEW N \in Nat \ {0}
  PROVE  ((a % N) + 1) % N = (a + 1) % N
<1> DEFINE q == a \div N
           r == a % N
<1>1. q \in Nat /\ r \in 0 .. N - 1 /\ r = a - N * q /\ N * q \in Nat
  OBVIOUS
<1> HIDE DEF q, r
<1>2. a + 1 = N * q + (r + 1)
  BY <1>1
<1>3. CASE r + 1 < N
  <2> DEFINE w == r + 1
  <2>0. w \in 0 .. N - 1
    BY <1>1, <1>3
  <2>1. (N * q + w) % N = w
    BY Zenon, <1>1, <2>0, Remainder
  <2>2. (N * 0 + w) % N = w
    BY <2>0, Remainder
  <2>3. N * 0 + (r + 1) = r + 1
    BY <1>1
  <2> QED
    BY <1>2, <2>1, <2>2, <2>3 DEF r
<1>4. CASE r + 1 = N
  <2>1. (N * (q + 1) + 0) % N = 0
    BY <1>1, Remainder
  <2>2. (N * 1 + 0) % N = 0
    BY Remainder
  <2>3. N * 1 + 0 = r + 1
    BY <1>4
  <2>4. N * (q + 1) + 0 = a + 1
    <3>1. N * (q + 1) = N * q + N
      BY <1>1
    <3> QED
      BY <1>1, <1>2, <1>4, <3>1
  <2> QED
    BY <2>1, <2>2, <2>3, <2>4 DEF r
<1> QED
  BY <1>1, <1>3, <1>4

(* A remainder is a slot.                                                  *)
LEMMA SlotOf ==
  ASSUME NEW a \in Nat
  PROVE  a % (ROUNDS + 1) \in Slot
BY MqBasics

RingTypes ==
  /\ HistOK
  /\ left \in [Thread -> Nat]
  /\ queue \in [Slot -> Int] /\ head \in Slot /\ tail \in Slot
  /\ reg \in [Thread -> Slot]

RingPart == RingTypes /\ MqIndices /\ RingKeepsMessages

(* A step in which no thread begins or ends to move an index. *)
LEMMA StillRing ==
  ASSUME RingPart, left' \in [Thread -> Nat],
         UNCHANGED <<queue, head, tail, reg, sent, received>>,
         \A u \in Thread : Moving(u)' <=> Moving(u),
         \A u \in Thread : pc'[u] = "store" => pc[u] = "store"
  PROVE  RingPart'
<1>1. RingTypes'
  BY Zenon DEF RingPart, RingTypes, HistOK
<1>2. MqIndices'
  BY Zenon DEF RingPart, MqIndices
<1>3. RingKeepsMessages'
  BY DEF RingPart, RingKeepsMessages
<1> QED
  BY Zenon, <1>1, <1>2, <1>3 DEF RingPart

(* Who is at the ring or moves an index is alone. *)
LEMMA Alone ==
  ASSUME SemPart, NEW t \in Thread, pc[t] \in Critical, \A k \in Key : t \notin Blocked[k]
  PROVE  \A u \in Thread : Moving(u) => u = t
<1>1. InRing(t)
  BY Zenon, MqKeys, SemFacts
<1>2. ASSUME NEW u \in Thread, Moving(u) PROVE InRing(u)
  BY <1>2, SemFacts DEF Moving, Critical
<1> QED
  BY Zenon, <1>1, <1>2, SemFacts

(* The ring never holds more than MAX_MESSAGE_COUNT messages. *)
LEMMA StoredBound ==
  ASSUME SemPart
  PROVE  Stored <= ROUNDS
<1>1. /\ count[0] + count[1] + Cardinality(Holders) = ROUNDS
      /\ Stored = count[1] + Cardinality(Fillers)
  BY DEF SemPart, MqUnits, EMPTY, FULL
<1>2. IsFiniteSet(Holders) /\ Fillers \in SUBSET Holders
  BY HoldersAreThreads, MqBasics, FS_Subset
<1>3. Cardinality(Fillers) <= Cardinality(Holders)
  BY <1>2, FS_Subset
<1>4. Cardinality(Fillers) \in Nat /\ Cardinality(Holders) \in Nat
  BY HoldersAreThreads, Sizes
<1>5. count[0] \in Nat /\ count[1] \in Nat
  BY SemFacts
<1> QED
  BY <1>1, <1>3, <1>4, <1>5

(* What RingPart says of the indices when nobody moves one. *)
LEMMA Settled ==
  ASSUME RingPart
  PROVE  /\ Len(sent) \in Nat /\ received \in Nat /\ sent \in Seq(Int)
         /\ received <= Len(sent)
         /\ \A i \in received + 1 .. Len(sent) : queue[(i - 1) % (ROUNDS + 1)] = sent[i]
         /\ (\A u \in Thread : ~Moving(u)) =>
              tail = Len(sent) % (ROUNDS + 1) /\ head = received % (ROUNDS + 1)
<1>1. Len(sent) \in Nat /\ received \in Nat /\ sent \in Seq(Int)
  BY HistTypes DEF RingPart, RingTypes, HistOK
<1>2. /\ received <= Len(sent)
      /\ \A i \in received + 1 .. Len(sent) : queue[(i - 1) % (ROUNDS + 1)] = sent[i]
  BY MqBasics DEF RingPart, RingKeepsMessages
<1> QED
  BY <1>1, <1>2 DEF RingPart, MqIndices

(* write_message stores to a slot that holds no message. *)
LEMMA WriteRing ==
  ASSUME SemPart, RingPart, NEW t \in Thread, write_message(t)
  PROVE  RingPart' /\ SemPart'
<1> DEFINE N == ROUNDS + 1
           m == Message(t)
<1>1. /\ pc[t] = "access" /\ \A k \in Key : t \notin Blocked[k]
      /\ Goto(t, "load") /\ IsWriter(t)
      /\ queue' = [queue EXCEPT ![tail] = m] /\ sent' = Append(sent, m)
      /\ UNCHANGED <<head, tail, reg, received, left>>
  BY Zenon, MqAt DEF write_message, libVars
<1>2. pc'[t] = "load" /\ \A u \in Thread : u # t => pc'[u] = pc[u]
  BY Zenon, <1>1, GotoEffect, SemFacts DEF Label
<1>3. \A u \in Thread : ~Moving(u)
  BY Zenon, <1>1, Alone DEF Moving, Critical
<1>4. \A u \in Thread : Moving(u)' <=> u = t
  BY <1>2, <1>3 DEF Moving
<1>5. /\ Len(sent) \in Nat /\ received \in Nat /\ sent \in Seq(Int)
      /\ received <= Len(sent)
      /\ \A i \in received + 1 .. Len(sent) : queue[(i - 1) % N] = sent[i]
      /\ tail = Len(sent) % N /\ head = received % N /\ N \in Nat \ {0}
  BY <1>3, Settled, MqBasics
<1>6. m \in Int
  <2>1. left[t] \in Nat /\ t \in Int /\ ROUNDS \in Nat
    BY MqBasics DEF RingPart, RingTypes
  <2> QED
    BY <2>1 DEF Message, MAX_MESSAGE_COUNT
<1> HIDE DEF m, N
<1>7. /\ sent' \in Seq(Int) /\ Len(sent') = Len(sent) + 1 /\ sent'[Len(sent) + 1] = m
      /\ \A i \in 1 .. Len(sent) : sent'[i] = sent[i]
  BY <1>1, <1>5, <1>6, AppendProperties
<1>8. RingTypes'
  BY Zenon, <1>1, <1>5, <1>6, <1>7 DEF RingPart, RingTypes, HistOK
<1>9. SemPart' /\ Len(sent) - received < ROUNDS
  BY Zenon, <1>8, WriteSem DEF RingPart, RingTypes, Stored
<1>10. MqIndices'
  <2>1. tail' = (Len(sent') - 1) % N /\ head' = received' % N
    BY <1>1, <1>5, <1>7
  <2>2. /\ \E u \in Thread : Moving(u)' /\ IsWriter(u)
        /\ ~\E u \in Thread : Moving(u)' /\ ~IsWriter(u)
    BY Zenon, <1>1, <1>4
  <2>3. \A u \in Thread : Moving(u)' =>
          0 < IF IsWriter(u) THEN Len(sent') ELSE received'
    BY <1>1, <1>4, <1>5, <1>7
  <2>4. \A u \in Thread : pc'[u] # "store"
    BY <1>2, <1>3 DEF Moving
  <2> QED
    BY Zenon, <2>1, <2>2, <2>3, <2>4 DEF MqIndices, N
<1>11. ASSUME NEW i \in received + 1 .. Len(sent) + 1
       PROVE  queue'[(i - 1) % N] = sent'[i]
  <2>1. queue \in [Slot -> Int] /\ tail \in Slot
    BY DEF RingPart, RingTypes
  <2>2. CASE i = Len(sent) + 1
    BY <1>1, <1>5, <1>7, <2>1, <2>2
  <2>3. CASE i # Len(sent) + 1
    <3>1. i \in 1 .. Len(sent) /\ i - 1 \in Nat /\ i - 1 < Len(sent) /\ Len(sent) - (i - 1) < N
      <4>1. i \in Int /\ received + 1 <= i /\ i <= Len(sent) /\ Len(sent) - received < ROUNDS
        BY <1>5, <1>9, <1>11, <2>3
      <4>2. N = ROUNDS + 1 /\ ROUNDS \in Nat
        BY MqBasics DEF N
      <4>3. received \in Nat /\ Len(sent) \in Nat
        BY <1>5
      <4> QED
        BY ONLY <4>1, <4>2, <4>3
    <3>2. (i - 1) % N # Len(sent) % N
      BY Zenon, <1>5, <3>1, SlotsDiffer
    <3>3. queue[(i - 1) % N] = sent[i]
      BY <1>5, <1>11, <3>1
    <3>4. (i - 1) % N \in Slot
      BY <3>1, SlotOf DEF N
    <3> QED
      BY Zenon, <1>1, <1>5, <1>7, <2>1, <3>1, <3>2, <3>3, <3>4
  <2> QED
    BY <2>2, <2>3
<1>12. RingKeepsMessages'
  BY <1>1, <1>5, <1>7, <1>11, MqBasics DEF RingKeepsMessages, N
<1> QED
  BY Zenon, <1>8, <1>9, <1>10, <1>12 DEF RingPart

(* read_message takes out the oldest message and no other. *)
LEMMA ReadRing ==
  ASSUME SemPart, RingPart, NEW t \in Thread, read_message(t)
  PROVE  RingPart' /\ SemPart'
<1> DEFINE N == ROUNDS + 1
<1>1. /\ pc[t] = "access" /\ \A k \in Key : t \notin Blocked[k]
      /\ Goto(t, "load") /\ ~IsWriter(t)
      /\ queue' = [queue EXCEPT ![head] = 0] /\ received' = received + 1
      /\ UNCHANGED <<head, tail, reg, sent, left>>
  BY Zenon, MqAt DEF read_message, libVars
<1>2. pc'[t] = "load" /\ \A u \in Thread : u # t => pc'[u] = pc[u]
  BY Zenon, <1>1, GotoEffect, SemFacts DEF Label
<1>3. \A u \in Thread : ~Moving(u)
  BY Zenon, <1>1, Alone DEF Moving, Critical
<1>4. \A u \in Thread : Moving(u)' <=> u = t
  BY <1>2, <1>3 DEF Moving
<1>5. /\ Len(sent) \in Nat /\ received \in Nat
      /\ \A i \in received + 1 .. Len(sent) : queue[(i - 1) % N] = sent[i]
      /\ tail = Len(sent) % N /\ head = received % N /\ N \in Nat \ {0}
  BY Zenon, <1>3, Settled, MqBasics
<1> HIDE DEF N
<1>6. RingTypes'
  BY <1>1, <1>5 DEF RingPart, RingTypes, HistOK
<1>7. SemPart' /\ received < Len(sent)
  <2>1. SemPart' /\ Stored > 0
    BY <1>6, ReadSem DEF RingPart, RingTypes
  <2> QED
    BY <1>5, <2>1 DEF Stored
<1>8. Len(sent) - received <= ROUNDS
  <2>1. Stored <= ROUNDS
    BY Zenon, StoredBound
  <2> QED
    BY <2>1 DEF Stored
<1>9. MqIndices'
  <2>1. tail' = Len(sent') % N /\ head' = (received' - 1) % N
    BY <1>1, <1>5
  <2>2. /\ \E u \in Thread : Moving(u)' /\ ~IsWriter(u)
        /\ ~\E u \in Thread : Moving(u)' /\ IsWriter(u)
    BY Zenon, <1>1, <1>4
  <2>3. \A u \in Thread : Moving(u)' =>
          0 < IF IsWriter(u) THEN Len(sent') ELSE received'
    BY <1>1, <1>4, <1>5
  <2>4. \A u \in Thread : pc'[u] # "store"
    BY <1>2, <1>3 DEF Moving
  <2> QED
    BY Zenon, <2>1, <2>2, <2>3, <2>4 DEF MqIndices, N
<1>10. ASSUME NEW i \in received + 2 .. Len(sent)
       PROVE  queue'[(i - 1) % N] = sent[i]
  <2>1. queue \in [Slot -> Int] /\ head \in Slot
    BY DEF RingPart, RingTypes
  <2>2. i - 1 \in Nat /\ received < i - 1 /\ (i - 1) - received < N
    BY <1>5, <1>8, <1>10, MqBasics DEF N
  <2>3. received % N # (i - 1) % N
    BY Zenon, <1>5, <2>2, SlotsDiffer
  <2>4. (i - 1) % N \in Slot
    BY <2>2, SlotOf DEF N
  <2>5. queue[(i - 1) % N] = sent[i]
    BY <1>5, <1>10
  <2> QED
    BY Zenon, <1>1, <1>5, <2>1, <2>3, <2>4, <2>5
<1>11. RingKeepsMessages'
  BY <1>1, <1>5, <1>7, <1>10, MqBasics DEF RingKeepsMessages, N
<1> QED
  BY Zenon, <1>6, <1>7, <1>9, <1>11 DEF RingPart

(* The load of the index: nobody else stores to it in between. *)
LEMMA LoadRing ==
  ASSUME SemPart, RingPart, NEW t \in Thread, load(t)
  PROVE  RingPart'
<1>1. /\ pc[t] = "load" /\ Goto(t, "store") /\ \A k \in Key : t \notin Blocked[k]
      /\ reg' = [reg EXCEPT ![t] = IF IsWriter(t) THEN tail ELSE head]
      /\ UNCHANGED <<queue, head, tail, sent, received, left>>
  BY Zenon, MqAt DEF load, libVars
<1>2. pc'[t] = "store" /\ \A u \in Thread : u # t => pc'[u] = pc[u]
  BY Zenon, <1>1, GotoEffect, SemFacts DEF Label
<1>3. \A u \in Thread : Moving(u) <=> u = t
  BY Zenon, <1>1, Alone DEF Moving, Critical
<1>4. \A u \in Thread : Moving(u)' <=> Moving(u)
  BY Zenon, <1>1, <1>2 DEF Moving
<1>5. RingTypes'
  BY Zenon, <1>1 DEF RingPart, RingTypes, HistOK
<1>6. MqIndices'
  <2>1. reg'[t] = IF IsWriter(t) THEN tail ELSE head
    BY Zenon, <1>1 DEF RingPart, RingTypes
  <2>2. \A u \in Thread : pc'[u] = "store" => u = t
    BY Zenon, <1>3, <1>4 DEF Moving
  <2>3. \A u \in Thread : pc'[u] = "store" => reg'[u] = IF IsWriter(u) THEN tail' ELSE head'
    BY Zenon, <1>1, <2>1, <2>2
  <2> QED
    BY Zenon, <1>1, <1>4, <2>3 DEF RingPart, MqIndices
<1>7. RingKeepsMessages'
  BY Zenon, <1>1 DEF RingPart, RingKeepsMessages
<1> QED
  BY Zenon, <1>5, <1>6, <1>7 DEF RingPart

(* The store of the index, from the value loaded. *)
LEMMA StoreRing ==
  ASSUME SemPart, RingPart, NEW t \in Thread, store(t)
  PROVE  RingPart'
<1> DEFINE N == ROUNDS + 1
<1>1. /\ pc[t] = "store" /\ Goto(t, "unlock") /\ \A k \in Key : t \notin Blocked[k]
      /\ IF IsWriter(t) THEN tail' = Successor(reg[t]) /\ head' = head
                           ELSE head' = Successor(reg[t]) /\ tail' = tail
      /\ UNCHANGED <<queue, reg, sent, received, left>>
  BY Zenon, MqAt DEF store, libVars
<1>2. pc'[t] = "unlock" /\ \A u \in Thread : u # t => pc'[u] = pc[u]
  BY Zenon, <1>1, GotoEffect, SemFacts DEF Label
<1>3. \A u \in Thread : Moving(u) <=> u = t
  BY Zenon, <1>1, Alone DEF Moving, Critical
<1>4. \A u \in Thread : ~Moving(u)'
  BY <1>2, <1>3 DEF Moving
<1>5. Successor(reg[t]) = (reg[t] + 1) % N /\ N \in Nat \ {0}
  BY MqBasics DEF Successor
<1>6. Len(sent) \in Nat /\ received \in Nat
  BY Zenon, Settled
<1>7. /\ 0 < IF IsWriter(t) THEN Len(sent) ELSE received
      /\ reg[t] = IF IsWriter(t) THEN tail ELSE head
      /\ tail = IF IsWriter(t) THEN (Len(sent) - 1) % N ELSE Len(sent) % N
      /\ head = IF ~IsWriter(t) THEN (received - 1) % N ELSE received % N
  BY <1>1, <1>3 DEF RingPart, MqIndices
<1> HIDE DEF N
<1>8. \A a \in Nat : 0 < a => (((a - 1) % N) + 1) % N = a % N
  <2> SUFFICES ASSUME NEW a \in Nat, 0 < a PROVE (((a - 1) % N) + 1) % N = a % N
    OBVIOUS
  <2>1. a - 1 \in Nat /\ (a - 1) + 1 = a
    OBVIOUS
  <2> QED
    BY Zenon, <1>5, <2>1, NextSlot
<1>9. tail' = Len(sent) % N /\ head' = received % N
  <2>1. CASE IsWriter(t)
    BY Zenon, <1>1, <1>5, <1>6, <1>7, <1>8, <2>1
  <2>2. CASE ~IsWriter(t)
    BY ZenonT(30), <1>1, <1>5, <1>6, <1>7, <1>8, <2>2
  <2> QED
    BY Zenon, <2>1, <2>2
<1>10. RingTypes'
  <2>1. tail' \in Slot /\ head' \in Slot
    BY Zenon, <1>6, <1>9, SlotOf DEF N
  <2> QED
    BY <1>1, <2>1 DEF RingPart, RingTypes, HistOK
<1>11. MqIndices'
  BY Zenon, <1>1, <1>4, <1>9 DEF MqIndices, N, Moving
<1>12. RingKeepsMessages'
  BY Zenon, <1>1 DEF RingPart, RingKeepsMessages
<1> QED
  BY <1>10, <1>11, <1>12 DEF RingPart

(* A step outside the ring. *)
LEMMA OutsideRing ==
  ASSUME SemPart, RingPart, NEW t \in Thread,
         begin(t) \/ mutex(t) \/ unlock(t) \/ post(t)
  PROVE  RingPart'
<1>1. \E l \in Label : Goto(t, l) /\ l \notin {"load", "store"}
  BY ZenonT(30) DEF begin, mutex, unlock, post, Label
<1>2. pc[t] \notin {"load", "store"}
  BY MqAt DEF begin, mutex, unlock, post
<1>3. pc'[t] \notin {"load", "store"} /\ \A u \in Thread : u # t => pc'[u] = pc[u]
  BY Zenon, <1>1, GotoEffect, SemFacts
<1>4. UNCHANGED <<queue, head, tail, reg, sent, received>>
  BY DEF begin, mutex, unlock, post, mqVars
<1>5. left' \in [Thread -> Nat]
  <2>1. left' = left \/ turn(t)
    BY Zenon DEF begin, mutex, unlock, post
  <2> QED
    BY <2>1 DEF turn, RingPart, RingTypes
<1>6. \A u \in Thread : Moving(u)' <=> Moving(u)
  BY <1>2, <1>3 DEF Moving
<1>7. \A u \in Thread : pc'[u] = "store" => pc[u] = "store"
  BY <1>3
<1> QED
  BY Zenon, <1>4, <1>5, <1>6, <1>7, StillRing

MqInv == SemPart /\ RingPart

(* The initial state: MAX_MESSAGE_COUNT units of EMPTY, an empty ring. *)
LEMMA MqInit == Init => MqInv
<1> SUFFICES ASSUME Init PROVE SemPart /\ RingPart
  BY DEF Init, MqInv
<1> USE DEF Init, LibInit
<1>1. /\ count = [k \in Key |-> CASE k = 0 -> ROUNDS [] k = 2 -> 1 [] OTHER -> 0]
      /\ wait_queue = [k \in Key |-> <<>>]
      /\ pc = [t \in Thread |-> "begin"]
  BY DEF Key, EMPTY, WRITE_MUTEX, MAX_MESSAGE_COUNT
<1>2. count[0] = ROUNDS /\ count[1] = 0 /\ count[2] = 1
  <2>1. 1 # 0 /\ 2 # 0 /\ 1 # 2 /\ 0 # 2
    OBVIOUS
  <2>2. count[0] = ROUNDS
    BY <1>1, <2>1, MqKeys, Zenon
  <2>3. count[1] = 0
    BY <1>1, <2>1, MqKeys, Zenon
  <2>4. count[2] = 1
    BY <1>1, <2>1, MqKeys, Zenon
  <2> QED
    BY <2>2, <2>3, <2>4
<1>3. count \in Value
  <2>1. \A k \in Key : (CASE k = 0 -> ROUNDS [] k = 2 -> 1 [] OTHER -> 0) \in {ROUNDS, 1, 0}
    BY Zenon
  <2>2. {ROUNDS, 1, 0} \subseteq Nat
    BY MqBasics
  <2> QED
    BY <1>1, <2>1, <2>2, Zenon DEF Value
<1>4. SemOK(Thread)
  BY <1>1, <1>3, EmptyQueue DEF SemOK
<1>5. \A k \in Key : Blocked[k] = {}
  BY <1>1, EmptyQueue DEF Blocked
<1>6. pc \in [Thread -> Label] /\ \A t \in Thread : pc[t] = "begin"
  BY <1>1 DEF Label
<1>7. MqQueues
  BY <1>5, MqKeys DEF MqQueues, EMPTY, FULL, WRITE_MUTEX
<1>8. MqMutex
  BY <1>2, <1>5, <1>6, MqKeys DEF MqMutex, InRing, Critical, WRITE_MUTEX
<1>9. Holders = {} /\ Fillers = {}
  BY <1>6 DEF Holders, Fillers
<1>10. sent = <<>> /\ Len(sent) = 0 /\ received = 0 /\ sent \in Seq(Int)
  OBVIOUS
<1>11. MqUnits
  BY <1>2, <1>9, <1>10, FS_EmptySet, MqBasics DEF MqUnits, Stored, EMPTY, FULL
<1>12. RingTypes
  <2>1. /\ queue \in [Slot -> Int] /\ head \in Slot /\ tail \in Slot
        /\ reg \in [Thread -> Slot]
    BY MqBasics
  <2>2. left \in [Thread -> Nat]
    BY MqBasics
  <2> QED
    BY <1>10, <2>1, <2>2 DEF RingTypes, HistOK
<1>13. MqIndices
  <2>1. 0 % (ROUNDS + 1) = 0
    BY MqBasics
  <2> QED
    BY <1>6, <1>10, <2>1 DEF MqIndices, Moving
<1>14. RingKeepsMessages
  BY <1>10 DEF RingKeepsMessages
<1> QED
  BY Zenon, <1>4, <1>6, <1>7, <1>8, <1>11, <1>12, <1>13, <1>14 DEF SemPart, RingPart

(* A step in which mq does nothing that concerns the ring. *)
LEMMA MqQuiet ==
  ASSUME SemPart, RingPart,
         UNCHANGED <<count, wait_queue, pc, left, queue, head, tail, reg, sent, received>>
  PROVE  SemPart' /\ RingPart'
<1>1. SemPart'
  BY OtherSem
<1>2. left' \in [Thread -> Nat] /\ \A u \in Thread : Moving(u)' <=> Moving(u)
  BY DEF RingPart, RingTypes, Moving
<1> QED
  BY <1>1, <1>2, StillRing

(* Every step of mq. *)
LEMMA MqThread ==
  ASSUME SemPart, RingPart, NEW t \in Thread, thread(t)
  PROVE  SemPart' /\ RingPart'
<1>1. HistOK
  BY DEF RingPart, RingTypes
<1>2. CASE begin(t)
  BY <1>1, <1>2, BeginSem, OutsideRing
<1>3. CASE mutex(t)
  BY <1>1, <1>3, MutexSem, OutsideRing
<1>4. CASE write_message(t)
  BY <1>4, WriteRing
<1>5. CASE read_message(t)
  BY <1>5, ReadRing
<1>6. CASE load(t)
  BY <1>6, IndexSem, LoadRing
<1>7. CASE store(t)
  BY <1>7, IndexSem, StoreRing
<1>8. CASE unlock(t)
  BY <1>8, UnlockSem, OutsideRing
<1>9. CASE post(t)
  BY Zenon, <1>1, <1>9, PostSem, OutsideRing
<1>10. CASE exit(t) /\ UNCHANGED mqVars
  <2>1. UNCHANGED <<count, wait_queue, pc, left, queue, head, tail, reg, sent, received>>
    BY <1>10 DEF exit, sys_exit, mqVars
  <2> QED
    BY <2>1, MqQuiet
<1> QED
  BY Zenon, <1>2, <1>3, <1>4, <1>5, <1>6, <1>7, <1>8, <1>9, <1>10 DEF thread

(* Every step of mq keeps the invariant.                                   *)
LEMMA MqStep == MqInv /\ [Next]_vars => MqInv'
<1> SUFFICES ASSUME SemPart, RingPart, [Next]_vars PROVE SemPart' /\ RingPart'
  BY DEF MqInv
<1>1. CASE UNCHANGED vars
  BY <1>1, MqQuiet DEF vars, threadVars, libVars, mqVars
<1>2. CASE main /\ UNCHANGED mqVars
  <2>1. UNCHANGED <<count, wait_queue, pc, left, queue, head, tail, reg, sent, received>>
    BY <1>2 DEF main, fork, join, mqVars
  <2> QED
    BY <2>1, MqQuiet
<1>3. ASSUME NEW t \in Thread, thread(t) PROVE SemPart' /\ RingPart'
  BY <1>3, MqThread
<1> QED
  BY <1>1, <1>2, <1>3 DEF Next

(* The invariant accounts for the units of EMPTY and FULL. *)
LEMMA UnitsFollow == MqInv => UnitsConserved
<1> SUFFICES ASSUME SemPart PROVE UnitsConserved
  BY DEF MqInv
<1>1. {t \in Thread : Between(t)} = Holders
  <2>1. ASSUME NEW t \in Thread
        PROVE  Between(t) <=> pc[t] # "begin" /\ t \notin Blocked[Needs(t)]
    <3>1. Needs(t) \in Key
      BY MqKeys
    <3> QED
      BY <3>1 DEF Between, Blocked
  <2> QED
    BY <2>1 DEF Holders
<1> QED
  BY <1>1 DEF UnitsConserved, SemPart, MqUnits, MAX_MESSAGE_COUNT

(* The ring keeps every message until it is taken out, and none is taken   *)
(* out twice: for any number of writers and readers, and any size of the   *)
(* ring that leaves one slot free.                                         *)
THEOREM RingKept == Spec => []RingKeepsMessages
<1>1. MqInv => RingKeepsMessages
  BY Zenon DEF MqInv, RingPart
<1> QED
  BY <1>1, MqInit, MqStep, PTL DEF Spec

(* The units of EMPTY and FULL, with those in the hands of threads between *)
(* their first wait and their last signal, are always MAX_MESSAGE_COUNT.   *)
THEOREM UnitsBalanced == Spec => []UnitsConserved
BY UnitsFollow, MqInit, MqStep, PTL DEF Spec

-----------------------------------------------------------------------------
(* The program sh: lines and the keys they are made of.                    *)

(* A set of numbers in ascending order. *)
Listing(pos, S) ==
  /\ pos \in Seq(Nat)
  /\ \A i, j \in 1 .. Len(pos) : i < j => pos[i] < pos[j]
  /\ S = {pos[i] : i \in 1 .. Len(pos)}

Ranked(S, n) == CHOOSE e \in S : Cardinality({m \in S : m < e}) = n - 1

(* As many numbers as the list is long, and r - 1 before the r-th.         *)
LEMMA ListingCounts ==
  ASSUME NEW pos, NEW S, Listing(pos, S)
  PROVE  /\ Cardinality(S) = Len(pos) /\ Len(pos) \in Nat
         /\ \A r \in 1 .. Len(pos) : Cardinality({m \in S : m < pos[r]}) = r - 1
<1>1. Len(pos) \in Nat /\ \A i \in 1 .. Len(pos) : pos[i] \in Nat
  BY ElementOfSeq, LenProperties DEF Listing
<1>2. \A i, j \in 1 .. Len(pos) : i < j => pos[i] < pos[j]
  BY DEF Listing
<1>3. S = {pos[i] : i \in 1 .. Len(pos)}
  BY DEF Listing
<1>4. ASSUME NEW n \in 0 .. Len(pos)
      PROVE  Cardinality({pos[i] : i \in 1 .. n}) = n
  <2> DEFINE T == {pos[i] : i \in 1 .. n}
             b == [i \in 1 .. n |-> pos[i]]
  <2>1. \A i, j \in 1 .. n : i # j => pos[i] # pos[j]
    BY <1>1, <1>2
  <2>2. b \in Bijection(1 .. n, T)
    <3>1. b \in [1 .. n -> T]
      OBVIOUS
    <3>2. \A x, y \in 1 .. n : b[x] = b[y] => x = y
      BY <2>1
    <3>3. \A t \in T : \E x \in 1 .. n : b[x] = t
      OBVIOUS
    <3> HIDE DEF b, T
    <3> QED BY <3>1, <3>2, <3>3, Fun_IsBij
  <2>3. ExistsBijection(1 .. n, T)
    BY <2>2 DEF ExistsBijection
  <2>4. IsFiniteSet(1 .. n) /\ Cardinality(1 .. n) = n
    <3>1. n \in Nat
      BY <1>1
    <3>2. IsFiniteSet(1 .. n) /\ Cardinality(1 .. n) = IF 1 > n THEN 0 ELSE n - 1 + 1
      BY <3>1, FS_Interval
    <3> QED BY <3>1, <3>2
  <2> HIDE DEF T
  <2> QED BY <2>3, <2>4, FS_Bijection DEF T
<1>5. ASSUME NEW r \in 1 .. Len(pos)
      PROVE  Cardinality({m \in S : m < pos[r]}) = r - 1
  <2>1. {m \in S : m < pos[r]} = {pos[i] : i \in 1 .. r - 1}
    <3>1. ASSUME NEW i \in 1 .. Len(pos), pos[i] < pos[r] PROVE i \in 1 .. r - 1
      BY <1>1, <1>2, <3>1
    <3>2. ASSUME NEW i \in 1 .. r - 1 PROVE i \in 1 .. Len(pos) /\ pos[i] < pos[r]
      BY <1>1, <1>2
    <3> QED BY <1>3, <3>1, <3>2
  <2>2. r - 1 \in 0 .. Len(pos)
    BY <1>1
  <2> QED BY Zenon, <2>1, <2>2, <1>4
<1> QED BY <1>1, <1>3, <1>4, <1>5

(* The number of a rank is the one at that place of the list.              *)
LEMMA ListingRanks ==
  ASSUME NEW pos, NEW S, Listing(pos, S), NEW r \in 1 .. Len(pos)
  PROVE  Ranked(S, r) = pos[r]
<1> DEFINE P(e) == e \in S /\ Cardinality({m \in S : m < e}) = r - 1
<1>1. P(pos[r])
  <2>1. pos[r] \in S
    BY DEF Listing
  <2> QED BY <2>1, ListingCounts
<1>2. ASSUME NEW e, P(e) PROVE e = pos[r]
  <2>1. PICK i \in 1 .. Len(pos) : e = pos[i]
    BY <1>2 DEF Listing
  <2>2. Cardinality({m \in S : m < pos[i]}) = i - 1
    BY ListingCounts
  <2>3. i - 1 = r - 1
    BY <2>1, <2>2, <1>2
  <2>4. i \in Int /\ r \in Int
    OBVIOUS
  <2>5. i = r
    BY ONLY <2>3, <2>4
  <2> QED BY <2>1, <2>5
<1>3. Ranked(S, r) = CHOOSE e : P(e)
  BY Zenon DEF Ranked
<1> HIDE DEF P
<1>4. P(CHOOSE e : P(e))
  BY <1>1, Zenon
<1> QED BY <1>2, <1>3, <1>4, Zenon

-----------------------------------------------------------------------------
(* The words and the backspaces after a place, up to another.              *)
Words(keys, i, j) == Cardinality({k \in i + 1 .. j : keys[k] # "backspace"})
Backs(keys, i, j) == Cardinality({k \in i + 1 .. j : keys[k] = "backspace"})

(* A line holds the words kept, and after each word kept there are as many *)
(* words more than backspaces as words follow it in the line.              *)
Spells(X, pos, keys, l) ==
  /\ keys \in Seq(X)
  /\ Listing(pos, Kept(keys))
  /\ l = [r \in 1 .. Len(pos) |-> keys[pos[r]]]
  /\ \A r \in 1 .. Len(pos) :
       Words(keys, pos[r], Len(keys)) = Backs(keys, pos[r], Len(keys)) + (Len(pos) - r)

(* The line is then what editing should leave.                             *)
LEMMA SpellsEdited ==
  ASSUME NEW X, NEW pos, NEW keys, NEW l, Spells(X, pos, keys, l)
  PROVE  Edited(keys) = l
<1>1. Listing(pos, Kept(keys)) /\ l = [r \in 1 .. Len(pos) |-> keys[pos[r]]]
  BY DEF Spells
<1>2. Cardinality(Kept(keys)) = Len(pos)
  BY Zenon, <1>1, ListingCounts
<1>3. \A r \in 1 .. Len(pos) : Ranked(Kept(keys), r) = pos[r]
  BY <1>1, ListingRanks
<1>4. Edited(keys) = [r \in 1 .. Cardinality(Kept(keys)) |-> keys[Ranked(Kept(keys), r)]]
  BY Zenon DEF Edited, Ranked
<1> QED BY Zenon, <1>1, <1>2, <1>3, <1>4

(* What one more key adds to the counts.                                   *)
LEMMA CountsGrow ==
  ASSUME NEW i \in Nat, NEW n \in Nat, i <= n, NEW A, NEW B,
         A \subseteq i + 1 .. n, B = A \/ B = A \cup {n + 1}
  PROVE  /\ Cardinality(A) \in Nat
         /\ Cardinality(B) = IF n + 1 \in B THEN Cardinality(A) + 1 ELSE Cardinality(A)
<1>1. IsFiniteSet(A)
  <2>1. A \in SUBSET Nat /\ \A s \in A : s <= n
    OBVIOUS
  <2> QED BY <2>1, FS_BoundedSetOfNaturals
<1>2. n + 1 \notin A
  OBVIOUS
<1>3. Cardinality(A) \in Nat /\ Cardinality(A \cup {n + 1}) = Cardinality(A) + 1
  BY <1>1, <1>2, FS_CardinalityType, FS_AddElement
<1> QED BY Zenon, <1>2, <1>3

(* The words and backspaces when one more key was typed.                   *)
LEMMA OneMoreKey ==
  ASSUME NEW X, NEW keys \in Seq(X), NEW key \in X, NEW i \in 0 .. Len(keys)
  PROVE  LET q == Append(keys, key)
             n == Len(keys)
         IN /\ Words(keys, i, n) \in Nat /\ Backs(keys, i, n) \in Nat
            /\ \A j \in i .. n : Words(q, i, j) = Words(keys, i, j)
                               /\ Backs(q, i, j) = Backs(keys, i, j)
            /\ key = "backspace" => /\ Words(q, i, n + 1) = Words(keys, i, n)
                                    /\ Backs(q, i, n + 1) = Backs(keys, i, n) + 1
            /\ key # "backspace" => /\ Words(q, i, n + 1) = Words(keys, i, n) + 1
                                    /\ Backs(q, i, n + 1) = Backs(keys, i, n)
<1> DEFINE q == Append(keys, key)
           n == Len(keys)
           Bs(s, j) == {k \in i + 1 .. j : s[k] = "backspace"}
           Ws(s, j) == {k \in i + 1 .. j : s[k] # "backspace"}
<1>1. n \in Nat /\ i \in Nat /\ i <= n
  BY LenProperties
<1>2. q[n + 1] = key /\ \A k \in 1 .. n : q[k] = keys[k]
  BY <1>1, AppendProperties
<1>3. \A j \in i .. n : Ws(q, j) = Ws(keys, j) /\ Bs(q, j) = Bs(keys, j)
  <2> HIDE DEF q, n
  <2> QED BY <1>1, <1>2
<1>4. Ws(keys, n) \subseteq i + 1 .. n /\ Bs(keys, n) \subseteq i + 1 .. n
  OBVIOUS
<1>5. /\ key = "backspace" => /\ Ws(q, n + 1) = Ws(keys, n) /\ n + 1 \notin Ws(q, n + 1)
                              /\ Bs(q, n + 1) = Bs(keys, n) \cup {n + 1}
                              /\ n + 1 \in Bs(q, n + 1)
      /\ key # "backspace" => /\ Ws(q, n + 1) = Ws(keys, n) \cup {n + 1}
                              /\ n + 1 \in Ws(q, n + 1)
                              /\ Bs(q, n + 1) = Bs(keys, n) /\ n + 1 \notin Bs(q, n + 1)
  <2> HIDE DEF q, n
  <2> QED BY <1>1, <1>2
<1>6. \A s, j : Words(s, i, j) = Cardinality(Ws(s, j)) /\ Backs(s, i, j) = Cardinality(Bs(s, j))
  BY Zenon DEF Words, Backs
<1> HIDE DEF q, n, Ws, Bs
<1>7. /\ Cardinality(Ws(keys, n)) \in Nat
      /\ Cardinality(Ws(q, n + 1)) = IF n + 1 \in Ws(q, n + 1) THEN Cardinality(Ws(keys, n)) + 1
                                     ELSE Cardinality(Ws(keys, n))
  BY <1>1, <1>4, <1>5, CountsGrow
<1>8. /\ Cardinality(Bs(keys, n)) \in Nat
      /\ Cardinality(Bs(q, n + 1)) = IF n + 1 \in Bs(q, n + 1) THEN Cardinality(Bs(keys, n)) + 1
                                     ELSE Cardinality(Bs(keys, n))
  BY <1>1, <1>4, <1>5, CountsGrow
<1>9. /\ Words(keys, i, n) \in Nat /\ Backs(keys, i, n) \in Nat
      /\ \A j \in i .. n : Words(q, i, j) = Words(keys, i, j) /\ Backs(q, i, j) = Backs(keys, i, j)
  BY <1>3, <1>6, <1>7, <1>8
<1>10. /\ key = "backspace" => /\ Words(q, i, n + 1) = Words(keys, i, n)
                               /\ Backs(q, i, n + 1) = Backs(keys, i, n) + 1
       /\ key # "backspace" => /\ Words(q, i, n + 1) = Words(keys, i, n) + 1
                               /\ Backs(q, i, n + 1) = Backs(keys, i, n)
  BY <1>5, <1>6, <1>7, <1>8
<1> QED BY <1>9, <1>10 DEF q, n

(* A word is erased by a later key, or was before.                         *)
LEMMA ErasedBy ==
  ASSUME NEW keys, NEW X, keys \in Seq(X)
  PROVE  /\ Erased(keys) = {i \in 1 .. Len(keys) : \E j \in i .. Len(keys) :
                                Words(keys, i, j) < Backs(keys, i, j)}
         /\ Kept(keys) = {i \in 1 .. Len(keys) : keys[i] # "backspace" /\ i \notin Erased(keys)}
<1>1. DOMAIN keys = 1 .. Len(keys)
  BY LenProperties
<1>2. Erased(keys) = {i \in DOMAIN keys : \E j \in i .. Len(keys) :
                                Words(keys, i, j) < Backs(keys, i, j)}
  BY Zenon DEF Erased, Words, Backs
<1> QED BY <1>1, <1>2, Zenon DEF Kept

(* With one more key a word is erased that was, or that the key erases.    *)
LEMMA ErasedAppend ==
  ASSUME NEW X, NEW keys \in Seq(X), NEW key \in X
  PROVE  LET q == Append(keys, key)
             n == Len(keys)
         IN /\ \A i \in 1 .. n : i \in Erased(q) <=>
                 i \in Erased(keys) \/ Words(q, i, n + 1) < Backs(q, i, n + 1)
            /\ n + 1 \notin Erased(q)
<1> DEFINE q == Append(keys, key)
           n == Len(keys)
           E(s, i, j) == Words(s, i, j) < Backs(s, i, j)
<1>1. n \in Nat /\ q \in Seq(X) /\ Len(q) = n + 1
  BY LenProperties, AppendProperties
<1>2. /\ Erased(q) = {i \in 1 .. n + 1 : \E j \in i .. n + 1 : E(q, i, j)}
      /\ Erased(keys) = {i \in 1 .. n : \E j \in i .. n : E(keys, i, j)}
  BY <1>1, ErasedBy, Zenon
<1>3. \A i \in 1 .. n : \A j \in i .. n : E(q, i, j) <=> E(keys, i, j)
  <2> SUFFICES ASSUME NEW i \in 1 .. n, NEW j \in i .. n PROVE E(q, i, j) <=> E(keys, i, j)
    OBVIOUS
  <2>1. i \in 0 .. Len(keys)
    BY <1>1
  <2>2. Words(q, i, j) = Words(keys, i, j) /\ Backs(q, i, j) = Backs(keys, i, j)
    BY <2>1, OneMoreKey
  <2> HIDE DEF q, n
  <2> QED BY <2>2
<1>4. ~E(q, n + 1, n + 1)
  <2>1. {k \in (n + 1) + 1 .. n + 1 : q[k] # "backspace"} = {}
    BY <1>1
  <2>2. {k \in (n + 1) + 1 .. n + 1 : q[k] = "backspace"} = {}
    BY <1>1
  <2>3. Words(q, n + 1, n + 1) = 0 /\ Backs(q, n + 1, n + 1) = 0
    <3> HIDE DEF q, n
    <3> QED BY <2>1, <2>2, FS_EmptySet, Zenon DEF Words, Backs
  <2> QED BY <2>3
<1> HIDE DEF q, n, E
<1>5. ASSUME NEW i \in 1 .. n
      PROVE  i \in Erased(q) <=> i \in Erased(keys) \/ E(q, i, n + 1)
  <2>1. i .. n + 1 = (i .. n) \cup {n + 1} /\ i \in 1 .. n + 1
    BY <1>1
  <2>2. i \in Erased(q) <=> \E j \in (i .. n) \cup {n + 1} : E(q, i, j)
    BY <2>1, <1>2, Zenon
  <2>3. i \in Erased(keys) <=> \E j \in i .. n : E(keys, i, j)
    BY <1>2, Zenon
  <2> QED BY <2>2, <2>3, <1>3, Zenon
<1>6. n + 1 \notin Erased(q)
  <2>1. (n + 1) .. (n + 1) = {n + 1}
    BY <1>1
  <2> QED BY <2>1, <1>2, <1>4, Zenon
<1> QED BY <1>5, <1>6, Zenon DEF q, n, E

(* No key leaves the empty line.                                           *)
LEMMA SpellsNothing ==
  ASSUME NEW X
  PROVE  Spells(X, <<>>, <<>>, <<>>)
<1>1. Kept(<<>>) = {}
  BY DEF Kept
<1>2. <<>> \in Seq(X) /\ <<>> \in Seq(Nat) /\ Len(<<>>) = 0
  BY EmptySeq
<1>3. Listing(<<>>, {})
  BY <1>2 DEF Listing
<1>4. <<>> = [r \in 1 .. Len(<<>>) |-> <<>>[<<>>[r]]]
  BY <1>2
<1> QED BY <1>1, <1>2, <1>3, <1>4 DEF Spells

(* A word goes to the end of the line.                                     *)
LEMMA SpellsWord ==
  ASSUME NEW X, NEW pos, NEW keys, NEW l, Spells(X, pos, keys, l),
         NEW key \in X, key # "backspace"
  PROVE  Spells(X, Append(pos, Len(keys) + 1), Append(keys, key), Append(l, key))
<1> DEFINE q == Append(keys, key)
           n == Len(keys)
           z == Len(pos)
           to == Append(pos, n + 1)
<1>1. /\ keys \in Seq(X) /\ n \in Nat /\ q \in Seq(X) /\ Len(q) = n + 1
      /\ q[n + 1] = key /\ \A k \in 1 .. n : q[k] = keys[k]
  <2>1. keys \in Seq(X)
    BY DEF Spells
  <2> QED BY <2>1, LenProperties, AppendProperties
<1>2. /\ Listing(pos, Kept(keys)) /\ l = [r \in 1 .. z |-> keys[pos[r]]]
      /\ \A r \in 1 .. z : Words(keys, pos[r], n) = Backs(keys, pos[r], n) + (z - r)
  BY DEF Spells
<1>3. Kept(keys) = {i \in 1 .. n : keys[i] # "backspace" /\ i \notin Erased(keys)}
  BY Zenon, <1>1, ErasedBy
<1>4. /\ pos \in Seq(Nat) /\ z \in Nat
      /\ \A r \in 1 .. z : pos[r] \in Kept(keys)
      /\ \A i, j \in 1 .. z : i < j => pos[i] < pos[j]
      /\ Kept(keys) = {pos[i] : i \in 1 .. z}
  BY Zenon, <1>2, LenProperties DEF Listing
<1>5. /\ to \in Seq(Nat) /\ Len(to) = z + 1 /\ to[z + 1] = n + 1
      /\ \A r \in 1 .. z : to[r] = pos[r]
  BY <1>1, <1>4, AppendProperties
<1>6. \A r \in 1 .. z : pos[r] \in 1 .. n
  BY Zenon, <1>3, <1>4
<1>7. ASSUME NEW i \in 1 .. n PROVE i \in Erased(q) <=> i \in Erased(keys)
  <2>1. i \in 0 .. Len(keys)
    BY <1>1
  <2>2. /\ Words(keys, i, n) \in Nat /\ Backs(keys, i, n) \in Nat
        /\ Words(q, i, n + 1) = Words(keys, i, n) + 1
        /\ Backs(q, i, n + 1) = Backs(keys, i, n)
    BY Zenon, <2>1, <1>1, OneMoreKey
  <2>3. i \in Erased(q) <=> i \in Erased(keys) \/ Words(q, i, n + 1) < Backs(q, i, n + 1)
    BY <1>1, ErasedAppend
  <2>4. Words(keys, i, n) < Backs(keys, i, n) => i \in Erased(keys)
    <3>1. n \in i .. n
      BY <1>1
    <3> QED BY Zenon, <3>1, <1>1, ErasedBy
  <2> HIDE DEF q, n
  <2> QED BY <2>2, <2>3, <2>4
<1>8. n + 1 \notin Erased(q)
  BY Zenon, <1>1, ErasedAppend
<1>9. Kept(q) = Kept(keys) \cup {n + 1}
  <2>1. Kept(q) = {i \in 1 .. n + 1 : q[i] # "backspace" /\ i \notin Erased(q)}
    BY Zenon, <1>1, ErasedBy
  <2> HIDE DEF q, n
  <2> QED BY <2>1, <1>1, <1>3, <1>7, <1>8
<1> HIDE DEF to
<1>10. Listing(to, Kept(q))
  <2>1. \A i, j \in 1 .. Len(to) : i < j => to[i] < to[j]
    <3> SUFFICES ASSUME NEW i \in 1 .. z + 1, NEW j \in 1 .. z + 1, i < j PROVE to[i] < to[j]
      BY <1>5
    <3>1. i \in 1 .. z /\ to[i] = pos[i] /\ pos[i] \in 1 .. n
      BY <1>4, <1>5, <1>6
    <3>2. j \in 1 .. z \/ j = z + 1
      BY <1>4
    <3>3. CASE j \in 1 .. z
      BY Zenon, <3>1, <3>3, <1>4, <1>5
    <3>4. CASE j = z + 1
      BY <3>1, <3>4, <1>1, <1>5
    <3> QED BY <3>2, <3>3, <3>4
  <2>2. Kept(q) = {to[i] : i \in 1 .. Len(to)}
    <3>1. 1 .. Len(to) = (1 .. z) \cup {z + 1}
      BY <1>4, <1>5
    <3>2. \A i \in 1 .. z : to[i] = pos[i]
      BY Zenon, <1>5
    <3>3. to[z + 1] = n + 1 /\ Kept(keys) = {pos[i] : i \in 1 .. z}
      BY Zenon, <1>4, <1>5
    <3> HIDE DEF n, z, q
    <3> QED BY ONLY Zenon, <3>1, <3>2, <3>3, <1>9
  <2> QED BY <2>1, <2>2, <1>5 DEF Listing
<1>11. Append(l, key) = [r \in 1 .. Len(to) |-> q[to[r]]]
  <2>1. l \in Seq(X) /\ Len(l) = z
    <3>1. \A r \in 1 .. z : keys[pos[r]] \in X
      BY Zenon, <1>1, <1>6, ElementOfSeq
    <3>2. l = [r \in 1 .. z |-> keys[pos[r]]]
      BY <1>2
    <3> HIDE DEF z
    <3> QED BY <3>1, <3>2, <1>4, IsASeq, LenProperties
  <2> DEFINE m == Append(l, key)
  <2>2. /\ m \in Seq(X) /\ Len(m) = z + 1 /\ m[z + 1] = key
        /\ \A r \in 1 .. z : m[r] = l[r]
    BY <2>1, AppendProperties
  <2>3. m = [r \in 1 .. z + 1 |-> m[r]]
    BY Zenon, <2>2, LenProperties
  <2> HIDE DEF m, n, z, q
  <2>4. \A r \in 1 .. z + 1 : m[r] = q[to[r]]
    <3> SUFFICES ASSUME NEW r \in 1 .. z + 1 PROVE m[r] = q[to[r]]
      OBVIOUS
    <3>1. CASE r = z + 1
      BY <3>1, <2>2, <1>1, <1>5
    <3>2. CASE r \in 1 .. z
      <4>1. m[r] = l[r] /\ l[r] = keys[pos[r]] /\ to[r] = pos[r] /\ pos[r] \in 1 .. n
        BY Zenon, <3>2, <2>2, <1>2, <1>5, <1>6
      <4> QED BY Zenon, <4>1, <1>1
    <3> QED BY <3>1, <3>2, <1>4
  <2> QED BY Zenon, <2>3, <2>4, <1>5 DEF m
<1>12. ASSUME NEW r \in 1 .. Len(to)
       PROVE  Words(q, to[r], Len(q)) = Backs(q, to[r], Len(q)) + (Len(to) - r)
  <2>1. CASE r = z + 1
    <3>1. {k \in (n + 1) + 1 .. n + 1 : q[k] # "backspace"} = {}
      BY <1>1
    <3>2. {k \in (n + 1) + 1 .. n + 1 : q[k] = "backspace"} = {}
      BY <1>1
    <3>3. Words(q, n + 1, n + 1) = 0 /\ Backs(q, n + 1, n + 1) = 0
      <4> HIDE DEF q, n
      <4> QED BY <3>1, <3>2, FS_EmptySet, Zenon DEF Words, Backs
    <3>4. 0 = 0 + ((z + 1) - (z + 1))
      BY <1>4
    <3> HIDE DEF q, n, z
    <3>5. to[r] = n + 1 /\ Len(q) = n + 1 /\ Len(to) = z + 1
      BY <2>1, <1>1, <1>5
    <3> QED BY Zenon, <2>1, <3>3, <3>4, <3>5
  <2>2. CASE r # z + 1
    <3>1. r \in 1 .. z /\ to[r] = pos[r] /\ pos[r] \in 0 .. Len(keys)
      BY <2>2, <1>1, <1>4, <1>5, <1>6
    <3>2. /\ Words(keys, pos[r], n) \in Nat /\ Backs(keys, pos[r], n) \in Nat
          /\ Words(q, pos[r], n + 1) = Words(keys, pos[r], n) + 1
          /\ Backs(q, pos[r], n + 1) = Backs(keys, pos[r], n)
      BY <3>1, <1>1, OneMoreKey
    <3>3. Words(keys, pos[r], n) = Backs(keys, pos[r], n) + (z - r)
      BY <3>1, <1>2
    <3> HIDE DEF q, n, z
    <3>4. Words(q, pos[r], n + 1) = Backs(q, pos[r], n + 1) + ((z + 1) - r)
      <4> DEFINE w == Words(keys, pos[r], n)
                 b == Backs(keys, pos[r], n)
      <4>1. w \in Nat /\ b \in Nat /\ w = b + (z - r) /\ r \in Nat /\ z \in Nat
        BY <3>1, <3>2, <3>3, <1>4
      <4>2. Words(q, pos[r], n + 1) = w + 1 /\ Backs(q, pos[r], n + 1) = b
        BY Zenon, <3>2
      <4> HIDE DEF w, b
      <4>3. w + 1 = b + ((z + 1) - r)
        BY ONLY <4>1
      <4> QED BY Zenon, <4>2, <4>3
    <3>5. Len(q) = n + 1 /\ Len(to) = z + 1
      BY Zenon, <1>1, <1>5
    <3> QED BY Zenon, <3>1, <3>4, <3>5
  <2> QED BY Zenon, <2>1, <2>2
<1> QED BY Zenon, <1>1, <1>10, <1>11, <1>12 DEF Spells, to

(* A backspace takes the last word of the line, if there is one.           *)
LEMMA SpellsBack ==
  ASSUME NEW X, NEW pos, NEW keys, NEW l, Spells(X, pos, keys, l), "backspace" \in X
  PROVE  /\ l = <<>> <=> Len(pos) = 0
         /\ l = <<>> => Spells(X, pos, Append(keys, "backspace"), l)
         /\ l # <<>> => Spells(X, SubSeq(pos, 1, Len(pos) - 1), Append(keys, "backspace"),
                               SubSeq(l, 1, Len(l) - 1))
<1> DEFINE q == Append(keys, "backspace")
           n == Len(keys)
           z == Len(pos)
<1>1. /\ keys \in Seq(X) /\ n \in Nat /\ q \in Seq(X) /\ Len(q) = n + 1
      /\ q[n + 1] = "backspace" /\ \A k \in 1 .. n : q[k] = keys[k]
  <2>1. keys \in Seq(X)
    BY Zenon DEF Spells
  <2> QED BY <2>1, LenProperties, AppendProperties
<1>2. /\ Listing(pos, Kept(keys)) /\ l = [r \in 1 .. z |-> keys[pos[r]]]
      /\ \A r \in 1 .. z : Words(keys, pos[r], n) = Backs(keys, pos[r], n) + (z - r)
  BY DEF Spells
<1>3. Kept(keys) = {i \in 1 .. n : keys[i] # "backspace" /\ i \notin Erased(keys)}
  BY Zenon, <1>1, ErasedBy
<1>4. /\ pos \in Seq(Nat) /\ z \in Nat
      /\ \A r \in 1 .. z : pos[r] \in Kept(keys)
      /\ \A i, j \in 1 .. z : i < j => pos[i] < pos[j]
      /\ Kept(keys) = {pos[i] : i \in 1 .. z}
  BY Zenon, <1>2, LenProperties DEF Listing
<1>5. \A r \in 1 .. z : pos[r] \in 1 .. n
  BY Zenon, <1>3, <1>4
<1>6. l \in Seq(X) /\ Len(l) = z
  <2>1. \A r \in 1 .. z : keys[pos[r]] \in X
    BY Zenon, <1>1, <1>5, ElementOfSeq
  <2>2. l = [r \in 1 .. z |-> keys[pos[r]]]
    BY Zenon, <1>2
  <2>3. [r \in 1 .. z |-> keys[pos[r]]] \in Seq(X)
    <3> HIDE DEF z
    <3> QED BY <2>1, <1>4, IsASeq
  <2>4. DOMAIN l = 1 .. z
    BY <2>2
  <2> HIDE DEF z
  <2> QED BY <2>2, <2>3, <2>4, <1>4, LenProperties
<1>7. l = <<>> <=> z = 0
  BY Zenon, <1>6, EmptySeq
<1>8. ASSUME NEW r \in 1 .. z
      PROVE  /\ Words(q, pos[r], n + 1) + 1 = Backs(q, pos[r], n + 1) + (z - r)
             /\ Words(q, pos[r], n + 1) \in Nat /\ Backs(q, pos[r], n + 1) \in Nat
             /\ pos[r] \in Erased(q) <=> r = z
  <2>1. pos[r] \in 0 .. Len(keys) /\ pos[r] \in 1 .. n
    BY <1>1, <1>5
  <2>2. /\ Words(keys, pos[r], n) \in Nat /\ Backs(keys, pos[r], n) \in Nat
        /\ Words(q, pos[r], n + 1) = Words(keys, pos[r], n)
        /\ Backs(q, pos[r], n + 1) = Backs(keys, pos[r], n) + 1
    BY Zenon, <2>1, <1>1, OneMoreKey
  <2>3. Words(keys, pos[r], n) = Backs(keys, pos[r], n) + (z - r)
    BY Zenon, <1>2
  <2>4. pos[r] \in Erased(q) <=> pos[r] \in Erased(keys)
                                  \/ Words(q, pos[r], n + 1) < Backs(q, pos[r], n + 1)
    BY Zenon, <2>1, <1>1, ErasedAppend
  <2>5. pos[r] \notin Erased(keys)
    BY Zenon, <1>3, <1>4
  <2> DEFINE w == Words(q, pos[r], n + 1)
             b == Backs(q, pos[r], n + 1)
  <2>6. w \in Nat /\ b \in Nat /\ w + 1 = b + (z - r)
    <3> HIDE DEF q, n, z
    <3> QED BY <2>2, <2>3, <1>4
  <2>7. r \in Nat /\ r <= z
    BY <1>4
  <2> HIDE DEF w, b, z
  <2>8. w < b <=> r = z
    BY <2>6, <2>7, <1>4
  <2> QED BY Zenon, <2>4, <2>5, <2>6, <2>8 DEF w, b
<1>9. ASSUME NEW i \in 1 .. n, i \in Erased(keys) PROVE i \in Erased(q)
  BY Zenon, <1>1, <1>9, ErasedAppend
<1>10. Kept(q) = {pos[r] : r \in 1 .. z - 1}
  <2>1. Kept(q) = {i \in 1 .. n + 1 : q[i] # "backspace" /\ i \notin Erased(q)}
    BY Zenon, <1>1, ErasedBy
  <2> HIDE DEF q, n, z
  <2>2. ASSUME NEW i \in Kept(q) PROVE \E r \in 1 .. z - 1 : i = pos[r]
    <3>1. i \in 1 .. n /\ q[i] = keys[i] /\ q[i] # "backspace" /\ i \notin Erased(q)
      BY <2>1, <1>1
    <3>2. i \in Kept(keys)
      BY Zenon, <3>1, <1>3, <1>9
    <3>3. PICK r \in 1 .. z : i = pos[r]
      BY Zenon, <3>2, <1>4
    <3>4. r # z
      BY Zenon, <3>1, <3>3, <1>8
    <3> QED BY <3>3, <3>4, <1>4
  <2>3. ASSUME NEW r \in 1 .. z - 1 PROVE pos[r] \in Kept(q)
    <3>1. r \in 1 .. z /\ r # z
      BY <1>4
    <3>2. pos[r] \notin Erased(q) /\ pos[r] \in 1 .. n /\ keys[pos[r]] # "backspace"
      BY Zenon, <3>1, <1>3, <1>4, <1>5, <1>8
    <3> QED BY <3>2, <2>1, <1>1
  <2> QED BY Zenon, <2>2, <2>3
<1>11. CASE z = 0
  <2>1. Kept(q) = {pos[r] : r \in 1 .. z} /\ 1 .. z = {}
    BY <1>10, <1>11
  <2>2. Listing(pos, Kept(q)) /\ l = [r \in 1 .. z |-> q[pos[r]]]
    <3> HIDE DEF q
    <3> QED BY Zenon, <2>1, <1>2, <1>4 DEF Listing
  <2>3. Spells(X, pos, q, l)
    BY Zenon, <2>1, <2>2, <1>1 DEF Spells
  <2> QED BY <2>3, <1>7, <1>11
<1>12. CASE z > 0
  <2> DEFINE to == SubSeq(pos, 1, z - 1)
             m == SubSeq(l, 1, Len(l) - 1)
  <2>1. /\ to \in Seq(Nat) /\ Len(to) = z - 1 /\ z - 1 \in Nat
        /\ \A r \in 1 .. z - 1 : to[r] = pos[r] /\ r \in 1 .. z
    <3>1. z - 1 \in Nat /\ \A r \in 1 .. z - 1 : r \in 1 .. z
      BY <1>4, <1>12
    <3>2. \A r \in 1 .. z - 1 : pos[r] \in Nat
      BY Zenon, <3>1, <1>4, ElementOfSeq
    <3>3. /\ to \in Seq(Nat) /\ Len(to) = IF 1 <= z - 1 THEN z - 1 - 1 + 1 ELSE 0
          /\ \A r \in 1 .. z - 1 - 1 + 1 : to[r] = pos[1 + r - 1]
      BY <3>1, <3>2, SubSeqProperties
    <3> HIDE DEF to, z
    <3> QED BY <3>1, <3>3
  <2>2. m = [r \in 1 .. z - 1 |-> l[r]]
    BY <1>4, <1>6, <1>12, SubSeqProperties
  <2> HIDE DEF to, m, q, n, z
  <2>3. Listing(to, Kept(q))
    <3>1. \A i, j \in 1 .. z - 1 : i < j => to[i] < to[j]
      BY Zenon, <2>1, <1>4
    <3>2. Kept(q) = {to[r] : r \in 1 .. z - 1}
      BY Zenon, <2>1, <1>10
    <3> QED BY Zenon, <3>1, <3>2, <2>1 DEF Listing
  <2>4. m = [r \in 1 .. Len(to) |-> q[to[r]]]
    <3>1. \A r \in 1 .. z - 1 : l[r] = q[to[r]]
      BY Zenon, <2>1, <1>1, <1>2, <1>5
    <3> QED BY Zenon, <3>1, <2>1, <2>2
  <2>5. ASSUME NEW r \in 1 .. Len(to)
        PROVE  Words(q, to[r], Len(q)) = Backs(q, to[r], Len(q)) + (Len(to) - r)
    <3>1. r \in 1 .. z /\ to[r] = pos[r]
      BY Zenon, <2>1
    <3>2. /\ Words(q, pos[r], n + 1) + 1 = Backs(q, pos[r], n + 1) + (z - r)
          /\ Words(q, pos[r], n + 1) \in Nat /\ Backs(q, pos[r], n + 1) \in Nat
      BY Zenon, <3>1, <1>8
    <3>3. Len(q) = n + 1 /\ Len(to) = z - 1 /\ r \in Nat /\ z \in Nat
      BY <2>1, <1>1, <1>4
    <3> DEFINE w == Words(q, pos[r], n + 1)
               b == Backs(q, pos[r], n + 1)
    <3>4. w \in Nat /\ b \in Nat /\ w + 1 = b + (z - r)
      BY <3>2
    <3> HIDE DEF w, b
    <3>5. w = b + (z - 1 - r)
      BY ONLY <3>3, <3>4
    <3> QED BY Zenon, <3>1, <3>3, <3>5 DEF w, b
  <2>6. Spells(X, to, q, m)
    BY Zenon, <2>3, <2>4, <2>5, <1>1 DEF Spells
  <2> QED BY <2>6, <1>7, <1>12 DEF to, m, q, z
<1> QED BY <1>4, <1>11, <1>12

(* The line is a list of keys.                                             *)
LEMMA SpellsType ==
  ASSUME NEW X, NEW pos, NEW keys, NEW l, Spells(X, pos, keys, l)
  PROVE  l \in Seq(X)
<1>1. keys \in Seq(X) /\ Listing(pos, Kept(keys)) /\ l = [r \in 1 .. Len(pos) |-> keys[pos[r]]]
  BY DEF Spells
<1>2. Kept(keys) \subseteq 1 .. Len(keys)
  BY Zenon, <1>1, ErasedBy
<1>3. Len(pos) \in Nat /\ \A r \in 1 .. Len(pos) : pos[r] \in 1 .. Len(keys)
  BY Zenon, <1>1, <1>2, LenProperties DEF Listing
<1>4. \A r \in 1 .. Len(pos) : keys[pos[r]] \in X
  BY <1>1, <1>3, ElementOfSeq
<1> QED BY <1>1, <1>3, <1>4, IsASeq

-----------------------------------------------------------------------------
(* The lines told, and the keys since the last of them.                    *)
EndsIn(keys) == {n \in DOMAIN keys : keys[n] = "enter"}
Before(ends, r) == IF r = 1 THEN 0 ELSE ends[r - 1]

Told(X, ends, keys, lines) ==
  /\ keys \in Seq(X)
  /\ Listing(ends, EndsIn(keys))
  /\ lines \in Seq({"sh", "fact"} \X Seq(X)) /\ Len(lines) = Len(ends)
  /\ \A r \in 1 .. Len(ends) :
       lines[r][2] = Edited(SubSeq(keys, 1 + Before(ends, r), ends[r] - 1))

Current(ends, keys) == SubSeq(keys, 1 + Before(ends, Len(ends) + 1), Len(keys))

(* Where the lines are among the keys.                                     *)
LEMMA EndsPlaced ==
  ASSUME NEW X, NEW keys \in Seq(X), NEW ends, Listing(ends, EndsIn(keys))
  PROVE  /\ Len(ends) \in Nat
         /\ \A r \in 1 .. Len(ends) : ends[r] \in 1 .. Len(keys)
         /\ \A r \in 1 .. Len(ends) + 1 : Before(ends, r) \in 0 .. Len(keys)
<1>1. Len(ends) \in Nat /\ Len(keys) \in Nat /\ DOMAIN keys = 1 .. Len(keys)
  BY LenProperties DEF Listing
<1>2. \A r \in 1 .. Len(ends) : ends[r] \in 1 .. Len(keys)
  BY <1>1 DEF Listing, EndsIn
<1>3. ASSUME NEW r \in 1 .. Len(ends) + 1 PROVE Before(ends, r) \in 0 .. Len(keys)
  <2>1. CASE r = 1
    BY <2>1, <1>1 DEF Before
  <2>2. CASE r # 1
    <3>1. r - 1 \in 1 .. Len(ends)
      BY <2>2, <1>1
    <3> QED BY <3>1, <2>2, <1>1, <1>2 DEF Before
  <2> QED BY <2>1, <2>2
<1> QED BY Zenon, <1>1, <1>2, <1>3

(* A part of the keys is the same when one more is read.                   *)
LEMMA SubSeqStays ==
  ASSUME NEW X, NEW keys \in Seq(X), NEW key \in X, NEW a \in Nat \ {0}, NEW b \in Int,
         b <= Len(keys)
  PROVE  /\ SubSeq(Append(keys, key), a, b) = SubSeq(keys, a, b)
         /\ SubSeq(keys, a, b) \in Seq(X)
         /\ a <= Len(keys) + 1 =>
              SubSeq(Append(keys, key), a, Len(keys) + 1) = Append(SubSeq(keys, a, Len(keys)), key)
<1> DEFINE q == Append(keys, key)
           n == Len(keys)
<1>1. /\ n \in Nat /\ q \in Seq(X) /\ Len(q) = n + 1
      /\ q[n + 1] = key /\ \A k \in 1 .. n : q[k] = keys[k] /\ keys[k] \in X
  BY LenProperties, AppendProperties, ElementOfSeq
<1> HIDE DEF q, n
<1>2. \A i \in a .. b : i \in 1 .. n
  BY <1>1 DEF n
<1>3. \A s : SubSeq(s, a, b) = [i \in 1 .. b - a + 1 |-> s[i + a - 1]]
  OBVIOUS
<1>4. SubSeq(q, a, b) = SubSeq(keys, a, b)
  <2>1. ASSUME NEW i \in 1 .. b - a + 1 PROVE q[i + a - 1] = keys[i + a - 1]
    <3>1. i + a - 1 \in 1 .. n
      BY <1>2
    <3> QED BY <3>1, <1>1
  <2> QED BY Zenon, <2>1, <1>3
<1>5. SubSeq(keys, a, b) \in Seq(X)
  <2>1. \A i \in a .. b : keys[i] \in X
    BY Zenon, <1>1, <1>2
  <2> QED BY <2>1, SubSeqProperties
<1>6. ASSUME a <= n + 1 PROVE SubSeq(q, a, n + 1) = Append(SubSeq(keys, a, n), key)
  <2> DEFINE s == SubSeq(keys, a, n)
             t == Append(s, key)
             u == SubSeq(q, a, n + 1)
  <2>1. \A i \in a .. n : i \in 1 .. n /\ keys[i] \in X
    BY <1>1
  <2>2. /\ s \in Seq(X) /\ Len(s) = IF a <= n THEN n - a + 1 ELSE 0
        /\ \A i \in 1 .. n - a + 1 : s[i] = keys[a + i - 1]
    BY <2>1, <1>1, SubSeqProperties
  <2> DEFINE z == n - a + 1
  <2>3. z \in Nat /\ Len(s) = z
    BY <2>2, <1>1, <1>6
  <2> HIDE DEF s
  <2>4. /\ t \in Seq(X) /\ Len(t) = z + 1 /\ t[z + 1] = key
        /\ \A i \in 1 .. z : t[i] = s[i]
    BY <2>2, <2>3, AppendProperties
  <2>5. \A i \in a .. n + 1 : q[i] \in X
    BY <1>1
  <2>6. /\ u \in Seq(X) /\ Len(u) = IF a <= n + 1 THEN n + 1 - a + 1 ELSE 0
        /\ \A i \in 1 .. n + 1 - a + 1 : u[i] = q[a + i - 1]
    BY <2>5, <1>1, SubSeqProperties
  <2> HIDE DEF t, u
  <2>7. Len(u) = z + 1
    BY <2>6, <1>1, <1>6
  <2>8. ASSUME NEW i \in 1 .. z + 1 PROVE u[i] = t[i]
    <3>1. u[i] = q[a + i - 1]
      BY <2>6, <1>1
    <3>2. CASE i = z + 1
      <4>1. a + i - 1 = n + 1
        BY <3>2, <1>1
      <4> QED BY Zenon, <4>1, <3>1, <3>2, <2>4, <1>1
    <3>3. CASE i # z + 1
      <4>1. i \in 1 .. z /\ i \in 1 .. n - a + 1 /\ a + i - 1 \in 1 .. n
        BY <3>3, <2>3, <1>1
      <4> QED BY Zenon, <4>1, <3>1, <2>2, <2>4, <1>1
    <3> QED BY Zenon, <3>2, <3>3
  <2>9. u = [i \in 1 .. z + 1 |-> u[i]] /\ t = [i \in 1 .. z + 1 |-> t[i]]
    BY Zenon, <2>4, <2>6, <2>7, LenProperties
  <2> QED BY Zenon, <2>8, <2>9 DEF t, u, s
<1> QED BY Zenon, <1>4, <1>5, <1>6 DEF q, n

(* A key goes to the line being read.                                      *)
LEMMA ToldKey ==
  ASSUME NEW X, NEW ends, NEW keys, NEW lines, Told(X, ends, keys, lines),
         NEW key \in X, key # "enter"
  PROVE  /\ Told(X, ends, Append(keys, key), lines)
         /\ Current(ends, Append(keys, key)) = Append(Current(ends, keys), key)
<1> DEFINE q == Append(keys, key)
           n == Len(keys)
<1>1. keys \in Seq(X) /\ Listing(ends, EndsIn(keys))
  BY Zenon DEF Told
<1>2. /\ n \in Nat /\ q \in Seq(X) /\ Len(q) = n + 1 /\ DOMAIN keys = 1 .. n /\ DOMAIN q = 1 .. n + 1
      /\ q[n + 1] = key /\ \A k \in 1 .. n : q[k] = keys[k]
  BY <1>1, LenProperties, AppendProperties
<1>3. EndsIn(q) = EndsIn(keys)
  <2> HIDE DEF q, n
  <2> QED BY <1>2 DEF EndsIn
<1>4. /\ Len(ends) \in Nat
      /\ \A r \in 1 .. Len(ends) : ends[r] \in 1 .. n
      /\ \A r \in 1 .. Len(ends) + 1 : Before(ends, r) \in 0 .. n
  BY <1>1, EndsPlaced
<1>5. ASSUME NEW r \in 1 .. Len(ends)
      PROVE  lines[r][2] = Edited(SubSeq(q, 1 + Before(ends, r), ends[r] - 1))
  <2> DEFINE a == 1 + Before(ends, r)
             b == ends[r] - 1
  <2>1. a \in Nat \ {0} /\ b \in Int /\ b <= n
    BY <1>2, <1>4
  <2>2. lines[r][2] = Edited(SubSeq(keys, a, b))
    BY Zenon DEF Told
  <2> HIDE DEF a, b
  <2>3. SubSeq(q, a, b) = SubSeq(keys, a, b)
    BY <2>1, <1>1, SubSeqStays
  <2> HIDE DEF q
  <2> QED BY <2>2, <2>3, Zenon DEF a, b
<1>6. Told(X, ends, q, lines)
  <2> HIDE DEF q
  <2> QED BY Zenon, <1>2, <1>3, <1>5 DEF Told
<1>7. Current(ends, q) = Append(Current(ends, keys), key)
  <2> DEFINE a == 1 + Before(ends, Len(ends) + 1)
  <2>1. a \in Nat \ {0} /\ a <= n + 1 /\ n \in Int /\ n <= n
    BY <1>2, <1>4
  <2> HIDE DEF a
  <2>2. SubSeq(q, a, n + 1) = Append(SubSeq(keys, a, n), key)
    BY <2>1, <1>1, SubSeqStays
  <2> QED BY Zenon, <2>2, <1>2 DEF Current, a
<1> QED BY Zenon, <1>6, <1>7

(* The key enter ends the line being read.                                 *)
LEMMA ToldEnter ==
  ASSUME NEW X, NEW ends, NEW keys, NEW lines, Told(X, ends, keys, lines), "enter" \in X,
         NEW who \in {"sh", "fact"}, NEW l \in Seq(X), l = Edited(Current(ends, keys))
  PROVE  LET to == Append(ends, Len(keys) + 1)
         IN /\ Told(X, to, Append(keys, "enter"), Append(lines, <<who, l>>))
            /\ Current(to, Append(keys, "enter")) = <<>>
<1> DEFINE q == Append(keys, "enter")
           n == Len(keys)
           z == Len(ends)
           to == Append(ends, n + 1)
           P == {"sh", "fact"} \X Seq(X)
           told2 == Append(lines, <<who, l>>)
<1>1. /\ keys \in Seq(X) /\ Listing(ends, EndsIn(keys))
      /\ lines \in Seq(P) /\ Len(lines) = z /\ ends \in Seq(Nat)
  BY Zenon DEF Told, Listing
<1>2. /\ n \in Nat /\ q \in Seq(X) /\ Len(q) = n + 1 /\ DOMAIN keys = 1 .. n /\ DOMAIN q = 1 .. n + 1
      /\ q[n + 1] = "enter" /\ \A k \in 1 .. n : q[k] = keys[k]
  BY <1>1, LenProperties, AppendProperties
<1>3. EndsIn(q) = EndsIn(keys) \cup {n + 1}
  <2> HIDE DEF q, n
  <2> QED BY <1>2 DEF EndsIn
<1>4. /\ z \in Nat
      /\ \A r \in 1 .. z : ends[r] \in 1 .. n
      /\ \A r \in 1 .. z + 1 : Before(ends, r) \in 0 .. n
  BY Zenon, <1>1, EndsPlaced
<1>5. /\ to \in Seq(Nat) /\ Len(to) = z + 1 /\ to[z + 1] = n + 1
      /\ \A r \in 1 .. z : to[r] = ends[r]
  BY <1>1, <1>2, AppendProperties
<1>6. /\ told2 \in Seq(P) /\ Len(told2) = z + 1 /\ told2[z + 1] = <<who, l>>
      /\ \A r \in 1 .. z : told2[r] = lines[r]
  <2>1. <<who, l>> \in P
    BY Zenon
  <2> HIDE DEF P
  <2> QED BY <2>1, <1>1, AppendProperties
<1> HIDE DEF to, told2
<1>7. Listing(to, EndsIn(q))
  <2>1. \A i, j \in 1 .. z + 1 : i < j => to[i] < to[j]
    <3> SUFFICES ASSUME NEW i \in 1 .. z + 1, NEW j \in 1 .. z + 1, i < j PROVE to[i] < to[j]
      OBVIOUS
    <3>1. i \in 1 .. z /\ to[i] = ends[i] /\ ends[i] \in 1 .. n
      BY <1>4, <1>5
    <3>2. CASE j \in 1 .. z
      BY Zenon, <3>1, <3>2, <1>1, <1>5 DEF Listing
    <3>3. CASE j = z + 1
      BY <3>1, <3>3, <1>2, <1>5
    <3>4. j \in 1 .. z \/ j = z + 1
      <4>1. z \in Nat
        BY <1>4
      <4> HIDE DEF z
      <4> QED BY <4>1
    <3> QED BY Zenon, <3>2, <3>3, <3>4
  <2>2. EndsIn(q) = {to[i] : i \in 1 .. z + 1}
    <3>1. 1 .. z + 1 = (1 .. z) \cup {z + 1}
      BY <1>4
    <3>2. EndsIn(keys) = {ends[i] : i \in 1 .. z}
      BY <1>1 DEF Listing
    <3>3. to[z + 1] = n + 1 /\ \A r \in 1 .. z : to[r] = ends[r]
      BY Zenon, <1>5
    <3> HIDE DEF q, n, z
    <3> QED BY ONLY Zenon, <3>1, <3>2, <3>3, <1>3
  <2> QED BY Zenon, <2>1, <2>2, <1>5 DEF Listing
<1>8. ASSUME NEW r \in 1 .. z + 1
      PROVE  told2[r][2] = Edited(SubSeq(q, 1 + Before(to, r), to[r] - 1))
  <2>1. Before(to, r) = Before(ends, r)
    <3>1. CASE r = 1
      BY <3>1 DEF Before
    <3>2. CASE r # 1
      <4>1. r - 1 \in 1 .. z
        BY <3>2, <1>4
      <4> QED BY Zenon, <4>1, <3>2, <1>5 DEF Before
    <3> QED BY <3>1, <3>2
  <2> DEFINE a == 1 + Before(ends, r)
  <2>2. a \in Nat \ {0} /\ Before(ends, r) \in Int
    BY <1>4
  <2>3. CASE r = z + 1
    <3>1. to[r] - 1 = n /\ told2[r][2] = l /\ n \in Int /\ n <= n
      BY <2>3, <1>2, <1>5, <1>6
    <3> HIDE DEF a
    <3>2. SubSeq(q, a, n) = SubSeq(keys, a, n)
      BY <3>1, <2>2, <1>1, SubSeqStays
    <3>3. l = Edited(SubSeq(keys, a, n))
      BY <2>3, Zenon DEF Current, a
    <3>4. Edited(SubSeq(q, 1 + Before(to, r), to[r] - 1)) = Edited(SubSeq(q, a, n))
      BY <3>1, <2>1, Zenon DEF a
    <3> HIDE DEF q, n
    <3> QED BY <3>1, <3>2, <3>3, <3>4, Zenon
  <2>4. CASE r # z + 1
    <3>1. r \in 1 .. z
      BY <2>4, <1>4
    <3> DEFINE b == ends[r] - 1
    <3>2. to[r] = ends[r] /\ told2[r] = lines[r]
      BY Zenon, <3>1, <1>5, <1>6
    <3>3. lines[r][2] = Edited(SubSeq(keys, a, b))
      BY <3>1, Zenon DEF Told
    <3>4. b \in Int /\ b <= n
      BY <3>1, <1>2, <1>4
    <3>5. Edited(SubSeq(q, 1 + Before(to, r), to[r] - 1)) = Edited(SubSeq(q, a, b))
      BY <3>2, <2>1, Zenon
    <3> HIDE DEF a, b
    <3>6. SubSeq(q, a, b) = SubSeq(keys, a, b)
      BY <3>4, <2>2, <1>1, SubSeqStays
    <3> HIDE DEF q, n
    <3> QED BY <3>2, <3>3, <3>5, <3>6, Zenon
  <2> QED BY Zenon, <2>3, <2>4
<1>9. Told(X, to, q, told2)
  <2> HIDE DEF q, z
  <2> QED BY Zenon, <1>2, <1>5, <1>6, <1>7, <1>8 DEF Told
<1>10. Current(to, q) = <<>>
  <2>1. Before(to, Len(to) + 1) = n + 1
    BY <1>4, <1>5 DEF Before
  <2>2. SubSeq(q, 1 + (n + 1), n + 1) = <<>>
    <3> HIDE DEF q
    <3> QED BY <1>2, SubSeqEmpty
  <2> QED BY Zenon, <2>1, <2>2, <1>2 DEF Current
<1> QED BY Zenon, <1>9, <1>10 DEF to, told2

(* The lines told are those that the keys spell.                           *)
LEMMA ToldFaithful ==
  ASSUME NEW X, NEW ends, NEW keys, NEW lines, Told(X, ends, keys, lines)
  PROVE  [n \in DOMAIN lines |-> lines[n][2]]
           = [n \in 1 .. Cardinality(EndsIn(keys)) |->
                LET e == Ranked(EndsIn(keys), n)
                    before == {m \in EndsIn(keys) : m < e}
                IN Edited(SubSeq(keys, 1 + IF before = {} THEN 0 ELSE CHOOSE m \in before :
                                             \A k \in before : k <= m, e - 1))]
<1> DEFINE z == Len(ends)
           before(e) == {m \in EndsIn(keys) : m < e}
           start(e) == IF before(e) = {} THEN 0 ELSE CHOOSE m \in before(e) :
                                                       \A k \in before(e) : k <= m
<1>1. /\ keys \in Seq(X) /\ Listing(ends, EndsIn(keys)) /\ Len(lines) = z
      /\ DOMAIN lines = 1 .. z
  BY Zenon, LenProperties DEF Told
<1>2. Cardinality(EndsIn(keys)) = z /\ z \in Nat
  BY Zenon, <1>1, ListingCounts
<1>3. /\ \A i, j \in 1 .. z : i < j => ends[i] < ends[j]
      /\ EndsIn(keys) = {ends[i] : i \in 1 .. z}
      /\ \A i \in 1 .. z : ends[i] \in Int
  <2>1. \A i \in 1 .. z : ends[i] \in 1 .. Len(keys)
    BY Zenon, <1>1, EndsPlaced
  <2> QED BY <2>1, <1>1 DEF Listing
<1>4. ASSUME NEW r \in 1 .. z PROVE start(ends[r]) = Before(ends, r)
  <2>1. before(ends[r]) = {ends[i] : i \in 1 .. r - 1}
    <3> HIDE DEF z
    <3>1. ASSUME NEW i \in 1 .. z, ends[i] < ends[r] PROVE i \in 1 .. r - 1
      BY <3>1, <1>2, <1>3
    <3>2. ASSUME NEW i \in 1 .. r - 1 PROVE i \in 1 .. z /\ ends[i] < ends[r]
      BY <1>2, <1>3
    <3> QED BY Zenon, <3>1, <3>2, <1>3
  <2>2. CASE r = 1
    <3>1. before(ends[r]) = {}
      BY <2>1, <2>2
    <3> QED BY <3>1, <2>2, Zenon DEF Before
  <2>3. CASE r # 1
    <3> DEFINE last == ends[r - 1]
               P(m) == m \in before(ends[r]) /\ \A k \in before(ends[r]) : k <= m
    <3>1. r - 1 \in 1 .. r - 1 /\ r - 1 \in 1 .. z /\ last \in Int
      <4>1. r - 1 \in 1 .. r - 1 /\ r - 1 \in 1 .. z
        BY <2>3, <1>2
      <4> QED BY <4>1, <1>3
    <3>2. \A i \in 1 .. r - 1 : ends[i] <= last /\ ends[i] \in Int
      <4> SUFFICES ASSUME NEW i \in 1 .. r - 1 PROVE ends[i] <= last /\ ends[i] \in Int
        OBVIOUS
      <4>1. i \in 1 .. z /\ (i < r - 1 \/ i = r - 1)
        BY <1>2
      <4> QED BY <4>1, <3>1, <1>3
    <3>3. P(last)
      <4> HIDE DEF last
      <4> QED BY Zenon, <3>1, <3>2, <2>1 DEF last
    <3>4. ASSUME NEW m, P(m) PROVE m = last
      <4>1. PICK i \in 1 .. r - 1 : m = ends[i]
        BY Zenon, <3>4, <2>1
      <4>2. m \in Int /\ m <= last /\ last <= m
        BY Zenon, <4>1, <3>2, <3>3, <3>4
      <4> HIDE DEF last
      <4> QED BY <4>2, <3>1
    <3>5. start(ends[r]) = CHOOSE m : P(m)
      <4>1. before(ends[r]) # {}
        BY <3>3
      <4> HIDE DEF before
      <4> QED BY <4>1, Zenon
    <3>6. (CHOOSE m : P(m)) = last
      <4> HIDE DEF P, last
      <4> QED BY <3>3, <3>4, Zenon
    <3> HIDE DEF start, P
    <3> QED BY <3>5, <3>6, <2>3, Zenon DEF Before
  <2> QED BY Zenon, <2>2, <2>3
<1>5. ASSUME NEW r \in 1 .. z
      PROVE  lines[r][2] = Edited(SubSeq(keys, 1 + start(Ranked(EndsIn(keys), r)),
                                         Ranked(EndsIn(keys), r) - 1))
  <2>1. Ranked(EndsIn(keys), r) = ends[r]
    BY <1>1, ListingRanks
  <2>2. lines[r][2] = Edited(SubSeq(keys, 1 + Before(ends, r), ends[r] - 1))
    BY Zenon DEF Told
  <2> HIDE DEF start
  <2> QED BY <2>1, <2>2, <1>4, Zenon
<1> HIDE DEF z
<1> QED BY <1>1, <1>2, <1>5, Zenon

(* Nobody reads, and no key was read after the last line; or a line is     *)
(* being read, which is what the keys after the last one spell.            *)
Waiting(X, keys, lines) ==
  \E ends : Told(X, ends, keys, lines) /\ Current(ends, keys) = <<>>
Typing(X, keys, l, lines) ==
  \E ends, pos : Told(X, ends, keys, lines) /\ Spells(X, pos, Current(ends, keys), l)

(* A new line is empty.                                                    *)
LEMMA LineBegins ==
  ASSUME NEW X, NEW keys, NEW lines, Waiting(X, keys, lines)
  PROVE  Typing(X, keys, <<>>, lines)
BY SpellsNothing, Zenon DEF Waiting, Typing

(* A key edits the line.                                                   *)
LEMMA LineEdited ==
  ASSUME NEW X, NEW keys, NEW l, NEW lines, Typing(X, keys, l, lines),
         NEW key \in X, key # "enter"
  PROVE  Typing(X, Append(keys, key),
                IF key # "backspace" THEN Append(l, key)
                ELSE IF l = <<>> THEN l
                ELSE SubSeq(l, 1, Len(l) - 1), lines)
<1>1. PICK ends, pos : Told(X, ends, keys, lines) /\ Spells(X, pos, Current(ends, keys), l)
  BY Zenon DEF Typing
<1>2. /\ Told(X, ends, Append(keys, key), lines)
      /\ Current(ends, Append(keys, key)) = Append(Current(ends, keys), key)
  BY <1>1, ToldKey
<1>3. CASE key # "backspace"
  <2>1. Spells(X, Append(pos, Len(Current(ends, keys)) + 1), Append(Current(ends, keys), key),
               Append(l, key))
    BY <1>1, <1>3, SpellsWord
  <2>2. Typing(X, Append(keys, key), Append(l, key), lines)
    BY <2>1, <1>2, Zenon DEF Typing
  <2> QED BY <2>2, <1>3, Zenon
<1>4. CASE key = "backspace"
  <2>1. "backspace" \in X
    BY <1>4
  <2>2. CASE l = <<>>
    <3>1. Spells(X, pos, Append(Current(ends, keys), key), l)
      BY Zenon, <2>1, <2>2, <1>1, <1>4, SpellsBack
    <3>2. Typing(X, Append(keys, key), l, lines)
      BY <3>1, <1>2, Zenon DEF Typing
    <3> QED BY <3>2, <2>2, <1>4, Zenon
  <2>3. CASE l # <<>>
    <3>1. Spells(X, SubSeq(pos, 1, Len(pos) - 1), Append(Current(ends, keys), key),
                 SubSeq(l, 1, Len(l) - 1))
      BY Zenon, <2>1, <2>3, <1>1, <1>4, SpellsBack
    <3>2. Typing(X, Append(keys, key), SubSeq(l, 1, Len(l) - 1), lines)
      BY <3>1, <1>2, Zenon DEF Typing
    <3> QED BY <3>2, <2>3, <1>4, Zenon
  <2> QED BY <2>2, <2>3
<1> QED BY <1>3, <1>4

(* The line is told at its end.                                            *)
LEMMA LineEnds ==
  ASSUME NEW X, NEW keys, NEW l, NEW lines, Typing(X, keys, l, lines), "enter" \in X,
         NEW who \in {"sh", "fact"}
  PROVE  Waiting(X, Append(keys, "enter"), Append(lines, <<who, l>>))
<1>1. PICK ends, pos : Told(X, ends, keys, lines) /\ Spells(X, pos, Current(ends, keys), l)
  BY Zenon DEF Typing
<1>2. l \in Seq(X) /\ l = Edited(Current(ends, keys))
  BY Zenon, <1>1, SpellsType, SpellsEdited
<1> DEFINE to == Append(ends, Len(keys) + 1)
<1>3. /\ Told(X, to, Append(keys, "enter"), Append(lines, <<who, l>>))
      /\ Current(to, Append(keys, "enter")) = <<>>
  BY <1>1, <1>2, ToldEnter
<1> HIDE DEF to
<1> QED BY <1>3, Zenon DEF Waiting

(* Lines told are lists of pairs.                                          *)
LEMMA LinesType ==
  ASSUME NEW X, NEW keys, NEW l, NEW lines, Typing(X, keys, l, lines) \/ Waiting(X, keys, lines)
  PROVE  lines \in Seq({"sh", "fact"} \X Seq(X))
BY Zenon DEF Typing, Waiting, Told

(* The line being read is a list of keys.                                  *)
LEMMA LineType ==
  ASSUME NEW X, NEW keys, NEW l, NEW lines, Typing(X, keys, l, lines)
  PROVE  l \in Seq(X)
<1>1. PICK ends, pos : Spells(X, pos, Current(ends, keys), l)
  BY Zenon DEF Typing
<1> QED BY <1>1, SpellsType

-----------------------------------------------------------------------------
(* Whose line is next.                                                     *)
LastRuns(lines) ==
  Len(lines) > 0 /\ lines[Len(lines)][1] = "sh" /\ Runs(lines[Len(lines)][2])
Owners(lines) ==
  \A n \in DOMAIN lines :
    (lines[n][1] = "fact") <=> (n > 1 /\ lines[n - 1][1] = "sh" /\ Runs(lines[n - 1][2]))

Entitled(who, lines) == (who = "fact") <=> LastRuns(lines)
Grown(more, who, l) ==
  /\ Owners(more)
  /\ LastRuns(more) <=> who = "sh" /\ Runs(l)
  /\ more # <<>> /\ more[Len(more)] = <<who, l>>

(* One more line, of the program just when the last one ran it.            *)
LEMMA OwnersGrow ==
  ASSUME NEW X, NEW lines \in Seq({"sh", "fact"} \X X), NEW who \in {"sh", "fact"}, NEW l \in X,
         Owners(lines), Entitled(who, lines)
  PROVE  Grown(Append(lines, <<who, l>>), who, l)
<1> DEFINE more == Append(lines, <<who, l>>)
           z == Len(lines)
           P == {"sh", "fact"} \X X
           O(q, n) == (q[n][1] = "fact") <=> (n > 1 /\ q[n - 1][1] = "sh" /\ Runs(q[n - 1][2]))
<1>1. <<who, l>> \in P
  OBVIOUS
<1> HIDE DEF P
<1>2. /\ z \in Nat /\ DOMAIN lines = 1 .. z
      /\ more \in Seq(P) /\ Len(more) = z + 1 /\ DOMAIN more = 1 .. z + 1
      /\ more[z + 1] = <<who, l>>
      /\ \A n \in 1 .. z : more[n] = lines[n]
  BY <1>1, AppendProperties, LenProperties DEF P
<1>3. more[z + 1][1] = who /\ more[z + 1][2] = l
  BY <1>2
<1>4. ASSUME NEW n \in 1 .. z PROVE O(more, n)
  <2>1. O(lines, n)
    BY Zenon, <1>2 DEF Owners
  <2>2. CASE n = 1
    BY <2>1, <2>2, <1>2
  <2>3. CASE n # 1
    <3>1. n - 1 \in 1 .. z /\ more[n - 1] = lines[n - 1] /\ more[n] = lines[n]
      BY <2>3, <1>2
    <3> HIDE DEF more
    <3> QED BY <3>1, <2>1, Zenon
  <2> QED BY Zenon, <2>2, <2>3
<1>5. O(more, z + 1)
  <2>1. CASE z = 0
    BY <2>1, <1>2, <1>3 DEF Entitled, LastRuns
  <2>2. CASE z > 0
    <3>1. z \in 1 .. z /\ (z + 1) - 1 = z /\ z + 1 > 1
      BY <2>2, <1>2
    <3>2. more[(z + 1) - 1] = lines[z]
      <4> HIDE DEF more, z
      <4> QED BY <3>1, <1>2, Zenon
    <3>3. LastRuns(lines) <=> lines[z][1] = "sh" /\ Runs(lines[z][2])
      BY Zenon, <2>2 DEF LastRuns
    <3> HIDE DEF more, z
    <3> QED BY <3>1, <3>2, <3>3, <1>3, Zenon DEF Entitled
  <2>3. z = 0 \/ z > 0
    BY <1>2
  <2> QED BY <2>1, <2>2, <2>3, Zenon
<1>6. Owners(more)
  <2>1. \A n \in 1 .. z + 1 : n \in 1 .. z \/ n = z + 1
    BY <1>2
  <2> HIDE DEF more, z
  <2> QED BY <2>1, <1>2, <1>4, <1>5, Zenon DEF Owners
<1>7. LastRuns(more) <=> who = "sh" /\ Runs(l)
  <2>1. Len(more) > 0 /\ more[Len(more)] = more[z + 1]
    BY <1>2
  <2> HIDE DEF more, z
  <2> QED BY <2>1, <1>3, Zenon DEF LastRuns
<1>8. more # <<>> /\ more[Len(more)] = <<who, l>>
  BY <1>2, EmptySeq
<1> HIDE DEF more
<1>9. Grown(more, who, l)
  BY <1>6, <1>7, <1>8, Zenon DEF Grown
<1> QED BY <1>9 DEF more

-----------------------------------------------------------------------------
(* The invariant of the shell.                                             *)
Letters == {tape[i] : i \in Nat}

Reading == sh = "read" \/ fact = "read"

Turns ==
  /\ sh \in {"prompt", "read", "command", "wait", "done", "halted"}
  /\ fact \in {"none", "start", "read", "line", "0", "1"}
  /\ sh = "wait" <=> fact # "none"
  /\ sh = "command" => told # <<>> /\ told[Len(told)] = <<"sh", line>>
  /\ sh \in {"prompt", "read"} => ~LastRuns(told)
  /\ fact \in {"start", "read"} => LastRuns(told)
  /\ fact \in {"line", "0", "1"} => ~LastRuns(told)
  /\ Owners(told)

KeysOK == popped \in Seq(Nat) /\ INPUT_BUF \in Seq(Nat) /\ fifo \in Seq(Nat) /\ typed \in Nat

ShellInv ==
  /\ KeysOK
  /\ Reading => Typing(Letters, Keys, line, told)
  /\ ~Reading => Waiting(Letters, Keys, told)
  /\ Turns

(* The invariant holds initially.                                          *)
LEMMA ShellStarts == ShellInit => ShellInv
<1> SUFFICES ASSUME ShellInit PROVE ShellInv
  OBVIOUS
<1>1. /\ fifo = <<>> /\ typed = 0 /\ INPUT_BUF = <<>> /\ popped = <<>>
      /\ sh = "prompt" /\ fact = "none" /\ told = <<>>
  BY DEF ShellInit, ConsoleInit, PortInit
<1>2. KeysOK
  BY <1>1 DEF KeysOK
<1>3. Keys = <<>>
  BY <1>1 DEF Keys
<1>4. Told(Letters, <<>>, <<>>, <<>>)
  <2>1. EndsIn(<<>>) = {} /\ Len(<<>>) = 0
    BY DEF EndsIn
  <2>2. \A S : <<>> \in Seq(S)
    BY EmptySeq
  <2>3. Listing(<<>>, {})
    BY <2>1, <2>2 DEF Listing
  <2> QED BY <2>1, <2>2, <2>3 DEF Told
<1>5. Current(<<>>, <<>>) = <<>>
  <2>1. Len(<<>>) = 0 /\ Before(<<>>, 1) = 0 /\ SubSeq(<<>>, 1, 0) = <<>>
    BY DEF Before
  <2> QED BY <2>1 DEF Current
<1>6. Waiting(Letters, Keys, told)
  BY <1>1, <1>3, <1>4, <1>5, Zenon DEF Waiting
<1>7. Turns
  <2>1. Len(<<>>) = 0 /\ DOMAIN <<>> = {}
    OBVIOUS
  <2>2. Owners(<<>>) /\ ~LastRuns(<<>>)
    BY <2>1 DEF Owners, LastRuns
  <2> QED BY <2>2, <1>1 DEF Turns
<1> QED BY Zenon, <1>1, <1>2, <1>6, <1>7 DEF ShellInv, Reading

(* A read takes the next key.                                              *)
LEMMA KeyRead ==
  ASSUME KeysOK, try_pop_key, tape' = tape
  PROVE  /\ KeysOK' /\ Letters' = Letters
         /\ tape[Head(INPUT_BUF)] \in Letters
         /\ Keys' = Append(Keys, tape[Head(INPUT_BUF)])
<1> DEFINE h == Head(INPUT_BUF)
           z == Len(popped)
<1>1. h \in Nat /\ Tail(INPUT_BUF) \in Seq(Nat)
  BY Zenon, HeadTailProperties DEF KeysOK, try_pop_key
<1>2. /\ popped' \in Seq(Nat) /\ Len(popped') = z + 1 /\ popped'[z + 1] = h
      /\ \A n \in 1 .. z : popped'[n] = popped[n]
      /\ z \in Nat /\ \A n \in 1 .. z : popped[n] \in Nat
  <2>1. popped \in Seq(Nat) /\ popped' = Append(popped, h)
    BY DEF KeysOK, try_pop_key
  <2> HIDE DEF h
  <2> QED BY <2>1, <1>1, AppendProperties, LenProperties, ElementOfSeq
<1>3. KeysOK'
  BY Zenon, <1>1, <1>2 DEF KeysOK, try_pop_key
<1>4. Letters' = Letters /\ tape[h] \in Letters
  BY <1>1 DEF Letters
<1>5. Keys' = [n \in 1 .. Len(popped') |-> tape[popped'[n]]] /\ Keys = [n \in 1 .. z |-> tape[popped[n]]]
  BY DEF Keys
<1>6. Keys \in Seq(Letters) /\ Len(Keys) = z
  <2>1. \A n \in 1 .. z : tape[popped[n]] \in Letters
    BY <1>2 DEF Letters
  <2>2. [n \in 1 .. z |-> tape[popped[n]]] \in Seq(Letters)
    <3> HIDE DEF z
    <3> QED BY <2>1, <1>2, IsASeq
  <2>3. DOMAIN Keys = 1 .. z
    BY Zenon, <1>5
  <2> HIDE DEF z
  <2> QED BY <2>2, <2>3, <1>2, <1>5, LenProperties
<1> DEFINE q == Append(Keys, tape[h])
<1> HIDE DEF h, z
<1>7. /\ q \in Seq(Letters) /\ Len(q) = z + 1 /\ q[z + 1] = tape[h]
      /\ \A n \in 1 .. z : q[n] = Keys[n]
  BY <1>4, <1>6, AppendProperties
<1>8. q = [n \in 1 .. z + 1 |-> q[n]]
  BY Zenon, <1>7, LenProperties
<1> HIDE DEF q
<1>9. ASSUME NEW n \in 1 .. z + 1 PROVE q[n] = tape[popped'[n]]
  <2>1. CASE n = z + 1
    BY Zenon, <2>1, <1>2, <1>7
  <2>2. CASE n # z + 1
    <3>1. n \in 1 .. z
      BY <2>2, <1>2
    <3> QED BY Zenon, <3>1, <1>2, <1>5, <1>7
  <2> QED BY Zenon, <2>1, <2>2
<1>10. Keys' = q
  BY Zenon, <1>2, <1>5, <1>8, <1>9
<1> QED BY Zenon, <1>3, <1>4, <1>10 DEF q, h

(* The loop of read_line.                                                  *)
LEMMA LineRead ==
  ASSUME KeysOK, Typing(Letters, Keys, line, told), Owners(told), NEW who \in {"sh", "fact"},
         NEW ACTION then, read_line(who, then), Entitled(who, told)
  PROVE  /\ KeysOK'
         /\ \/ /\ then /\ line' = line /\ told' = Append(told, <<who, line>>)
               /\ Waiting(Letters', Keys', told') /\ Grown(told', who, line)
            \/ /\ UNCHANGED <<sh, fact, told>>
               /\ Typing(Letters', Keys', line', told')
<1> DEFINE key == tape[Head(INPUT_BUF)]
<1>1. tape' = tape /\ try_pop_key
  BY DEF read_line
<1>2. KeysOK' /\ Letters' = Letters /\ key \in Letters /\ Keys' = Append(Keys, key)
  BY Zenon, <1>1, KeyRead
<1>3. told \in Seq({"sh", "fact"} \X Seq(Letters)) /\ line \in Seq(Letters)
  BY Zenon, LinesType, LineType
<1>4. CASE key = "enter"
  <2>1. told' = Append(told, <<who, line>>) /\ then /\ line' = line
    BY <1>4 DEF read_line
  <2>2. Waiting(Letters, Append(Keys, "enter"), Append(told, <<who, line>>))
    BY Zenon, <1>2, <1>4, LineEnds
  <2>3. Waiting(Letters', Keys', told')
    BY <2>1, <2>2, <1>2, <1>4, Zenon
  <2>4. Grown(Append(told, <<who, line>>), who, line)
    BY <1>3, OwnersGrow
  <2>5. Grown(told', who, line)
    BY <2>1, <2>4
  <2> HIDE DEF key
  <2> QED BY Zenon, <2>1, <2>3, <2>5, <1>2
<1>5. CASE key # "enter"
  <2>1. line' = edit(key) /\ UNCHANGED <<sh, fact, told>>
    BY <1>5 DEF read_line
  <2> HIDE DEF key
  <2>2. Typing(Letters, Append(Keys, key), edit(key), told)
    <3> DEFINE e == IF key # "backspace" THEN Append(line, key)
                    ELSE IF line = <<>> THEN line
                    ELSE SubSeq(line, 1, Len(line) - 1)
    <3>1. Typing(Letters, Append(Keys, key), e, told)
      BY <1>2, <1>5, LineEdited
    <3>2. edit(key) = e
      BY Zenon DEF edit
    <3> QED BY <3>1, <3>2, Zenon
  <2>3. Typing(Letters', Keys', line', told')
    BY <2>1, <2>2, <1>2, Zenon
  <2> QED BY Zenon, <2>1, <2>3, <1>2
<1> QED BY Zenon, <1>4, <1>5

(* The command to run a program with a path that exists is the one that    *)
(* starts it.                                                              *)
LEMMA CommandRuns ==
  /\ NextStep \in {"prompt", "wait", "done", "halted"}
  /\ NextStep = "wait" <=> Runs(line)
<1>1. NextStep \in {"prompt", "wait", "done", "halted"}
  BY Zenon DEF NextStep
<1>2. Runs(line) => Op = "run" /\ HasPath /\ line[2] \in File
  <2>1. Len(<<>>) = 0
    OBVIOUS
  <2>2. Len(line) > 1 => line # <<>>
    BY <2>1
  <2> QED BY <2>2, Zenon DEF Runs, Op, HasPath
<1>3. Op = "run" /\ HasPath /\ line[2] \in File => Runs(line)
  <2>1. Op = "run" => line[1] = "run"
    BY DEF Op
  <2> QED BY <2>1, Zenon DEF Runs, HasPath
<1>4. Op = "run" /\ HasPath /\ line[2] \in File => NextStep = "wait"
  <2>1. "run" # "exit" /\ "run" # "cat"
    OBVIOUS
  <2> HIDE DEF Op
  <2> QED BY <2>1, Zenon DEF NextStep
<1>5. NextStep = "wait" => Op = "run" /\ HasPath /\ line[2] \in File
  <2>1. "wait" # "done" /\ "wait" # "prompt" /\ "wait" # "halted"
    OBVIOUS
  <2> QED BY <2>1, Zenon DEF NextStep
<1> QED BY Zenon, <1>1, <1>2, <1>3, <1>4, <1>5

(* Steps that read no key.                                                 *)
LEMMA KeysStay ==
  ASSUME UNCHANGED <<popped, tape>>
  PROVE  Keys' = Keys /\ Letters' = Letters
BY DEF Keys, Letters

(* Keys arrive without a change to what is read.                           *)
LEMMA ArriveStep ==
  ASSUME ShellInv, keyboard \/ serial_handler
  PROVE  ShellInv'
<1>1. UNCHANGED <<popped, tape, sh, fact, line, told>>
  BY DEF keyboard, serial_handler, type, receive, shellVars
<1>2. Keys' = Keys /\ Letters' = Letters
  BY <1>1, KeysStay
<1>3. KeysOK'
  <2>1. popped \in Seq(Nat) /\ INPUT_BUF \in Seq(Nat) /\ fifo \in Seq(Nat) /\ typed \in Nat
    BY DEF ShellInv, KeysOK
  <2>2. CASE keyboard
    <3>1. typed' \in Nat /\ fifo' = Append(fifo, typed') /\ INPUT_BUF' = INPUT_BUF
      BY <2>1, <2>2 DEF keyboard, type
    <3>2. fifo' \in Seq(Nat)
      BY Zenon, <3>1, <2>1, AppendProperties
    <3> QED BY Zenon, <3>1, <3>2, <2>1, <1>1 DEF KeysOK
  <2>3. CASE serial_handler
    <3>1. fifo # <<>> /\ fifo' = Tail(fifo) /\ typed' = typed
      BY <2>3 DEF serial_handler, receive
    <3>2. Head(fifo) \in Nat /\ fifo' \in Seq(Nat)
      BY Zenon, <3>1, <2>1, HeadTailProperties
    <3>3. INPUT_BUF' = INPUT_BUF \/ INPUT_BUF' = Append(INPUT_BUF, Head(fifo))
      BY <2>3, Zenon DEF serial_handler, receive, push_key
    <3>4. INPUT_BUF' \in Seq(Nat)
      <4>1. ASSUME NEW h \in Nat PROVE Append(INPUT_BUF, h) \in Seq(Nat)
        BY <2>1, AppendProperties
      <4> QED BY Zenon, <4>1, <3>2, <3>3, <2>1
    <3> QED BY Zenon, <3>1, <3>2, <3>4, <2>1, <1>1 DEF KeysOK
  <2> QED BY <2>2, <2>3
<1>4. Turns'
  BY <1>1 DEF ShellInv, Turns
<1>5. (Reading => Typing(Letters, Keys, line, told))'
  BY <1>1, <1>2 DEF ShellInv, Reading
<1>6. (~Reading => Waiting(Letters, Keys, told))'
  BY Zenon, <1>1, <1>2 DEF ShellInv, Reading
<1> QED BY Zenon, <1>3, <1>4, <1>5, <1>6 DEF ShellInv

(* The steps of sh and of its program keep the invariant.                  *)
LEMMA ProgramStep ==
  ASSUME ShellInv, Interactive \/ Program
  PROVE  ShellInv'
<1>1. KeysOK /\ Turns /\ Owners(told)
  BY DEF ShellInv, Turns
<1>2. ASSUME UNCHANGED <<consoleVars, tape>>
      PROVE  KeysOK' /\ Keys' = Keys /\ Letters' = Letters
  <2>1. UNCHANGED <<popped, tape, INPUT_BUF, fifo, typed>>
    BY <1>2 DEF consoleVars
  <2> QED BY Zenon, <2>1, <1>1, KeysStay DEF KeysOK
<1>3. ASSUME ~Reading, UNCHANGED <<consoleVars, tape, told>>, ~Reading'
      PROVE  ShellInv' <=> Turns'
  <2>1. Waiting(Letters, Keys, told) /\ told' = told
    BY <1>3 DEF ShellInv
  <2>2. KeysOK' /\ Keys' = Keys /\ Letters' = Letters
    BY <1>2, <1>3
  <2>3. Waiting(Letters', Keys', told')
    BY Zenon, <2>1, <2>2
  <2> QED BY Zenon, <2>2, <2>3, <1>3 DEF ShellInv
<1>4. ASSUME ~Reading, UNCHANGED <<consoleVars, tape, told>>, Reading', line' = <<>>
      PROVE  ShellInv' <=> Turns'
  <2>1. Typing(Letters, Keys, <<>>, told) /\ told' = told
    BY <1>4, LineBegins DEF ShellInv
  <2>2. KeysOK' /\ Keys' = Keys /\ Letters' = Letters
    BY <1>2, <1>4
  <2>3. Typing(Letters', Keys', line', told')
    BY Zenon, <2>1, <2>2, <1>4
  <2> QED BY Zenon, <2>2, <2>3, <1>4 DEF ShellInv
<1>5. CASE prompt
  <2>1. /\ sh = "prompt" /\ sh' = "read" /\ line' = <<>> /\ fact' = fact /\ told' = told
        /\ UNCHANGED <<consoleVars, tape, told>>
    BY <1>5 DEF prompt
  <2>2. fact = "none"
    BY Zenon, <2>1, <1>1 DEF Turns
  <2>3. Turns'
    BY Zenon, <2>1, <2>2, <1>1 DEF Turns
  <2> QED BY Zenon, <2>1, <2>2, <2>3, <1>4 DEF Reading
<1>6. CASE command
  <2>1. /\ sh = "command" /\ sh' = NextStep /\ fact' = IF NextStep = "wait" THEN "start" ELSE fact
        /\ line' = line /\ told' = told /\ UNCHANGED <<consoleVars, tape, told>>
    BY <1>6 DEF command
  <2>2. fact = "none" /\ told # <<>> /\ told[Len(told)] = <<"sh", line>>
    BY Zenon, <2>1, <1>1 DEF Turns
  <2>3. LastRuns(told) <=> Runs(line)
    <3>1. ~Reading
      BY Zenon, <2>1, <2>2 DEF Reading
    <3>2. told \in Seq({"sh", "fact"} \X Seq(Letters))
      BY Zenon, <3>1, LinesType DEF ShellInv
    <3>3. Len(told) > 0
      BY <3>2, <2>2, EmptySeq, LenProperties
    <3> QED BY <3>3, <2>2 DEF LastRuns
  <2>4. sh' \in {"prompt", "wait", "done", "halted"} /\ (sh' = "wait" <=> LastRuns(told))
    BY <2>1, <2>3, CommandRuns
  <2>5. fact' = IF sh' = "wait" THEN "start" ELSE "none"
    BY <2>1, <2>2
  <2>6. Turns'
    BY Zenon, <2>1, <2>4, <2>5, <1>1 DEF Turns
  <2> QED BY Zenon, <2>1, <2>2, <2>4, <2>5, <2>6, <1>3 DEF Reading
<1>7. CASE wait_pid
  <2>1. /\ sh = "wait" /\ fact \in {"0", "1"} /\ sh' = "prompt" /\ fact' = "none"
        /\ line' = line /\ told' = told /\ UNCHANGED <<consoleVars, tape, told>>
    BY Zenon, <1>7 DEF wait_pid
  <2>2. Turns'
    BY Zenon, <2>1, <1>1 DEF Turns
  <2> QED BY Zenon, <2>1, <2>2, <1>3 DEF Reading
<1>8. CASE fact_start
  <2>1. /\ fact = "start" /\ fact' = "read" /\ sh' = sh /\ line' = <<>> /\ told' = told
        /\ UNCHANGED <<consoleVars, tape, told>>
    BY Zenon, <1>8 DEF fact_start
  <2>2. sh = "wait"
    BY Zenon, <2>1, <1>1 DEF Turns
  <2>3. Turns'
    BY Zenon, <2>1, <2>2, <1>1 DEF Turns
  <2> QED BY Zenon, <2>1, <2>2, <2>3, <1>4 DEF Reading
<1>9. CASE fact_exit
  <2>1. /\ fact = "line" /\ fact' \in {"0", "1"} /\ sh' = sh /\ line' = line /\ told' = told
        /\ UNCHANGED <<consoleVars, tape, told>>
    BY <1>9 DEF fact_exit
  <2>2. sh = "wait"
    BY Zenon, <2>1, <1>1 DEF Turns
  <2>3. Turns'
    BY Zenon, <2>1, <2>2, <1>1 DEF Turns
  <2> QED BY Zenon, <2>1, <2>2, <2>3, <1>3 DEF Reading
<1>10. CASE read
  <2> DEFINE then == sh' = "command" /\ UNCHANGED fact
  <2>1. sh = "read" /\ read_line("sh", then)
    BY Zenon, <1>10 DEF read
  <2>2. fact = "none" /\ ~LastRuns(told) /\ Reading /\ Typing(Letters, Keys, line, told)
    BY Zenon, <2>1, <1>1 DEF Turns, Reading, ShellInv
  <2>3. /\ KeysOK'
        /\ \/ /\ then /\ line' = line /\ told' = Append(told, <<"sh", line>>)
              /\ Waiting(Letters', Keys', told') /\ Grown(told', "sh", line)
           \/ /\ UNCHANGED <<sh, fact, told>>
              /\ Typing(Letters', Keys', line', told')
    <3> HIDE DEF then
    <3>1. "sh" \in {"sh", "fact"} /\ Entitled("sh", told)
      BY Zenon, <2>2 DEF Entitled
    <3> QED BY Zenon, <3>1, <2>1, <2>2, <1>1, LineRead
  <2>4. CASE /\ then /\ line' = line
             /\ Waiting(Letters', Keys', told') /\ Grown(told', "sh", line)
    <3>1. sh' = "command" /\ fact' = "none" /\ ~Reading'
      BY Zenon, <2>2, <2>4 DEF Reading
    <3>2. Turns'
      BY Zenon, <3>1, <2>4 DEF Turns, Grown
    <3> QED BY Zenon, <3>1, <3>2, <2>3, <2>4 DEF ShellInv
  <2>5. CASE UNCHANGED <<sh, fact, told>> /\ Typing(Letters', Keys', line', told')
    <3>1. Reading' /\ Turns'
      BY Zenon, <2>1, <2>2, <2>5, <1>1 DEF Reading, Turns
    <3> QED BY Zenon, <3>1, <2>3, <2>5 DEF ShellInv
  <2> QED BY Zenon, <2>3, <2>4, <2>5
<1>11. CASE fact_read
  <2> DEFINE then == fact' = "line" /\ UNCHANGED sh
  <2>1. fact = "read" /\ read_line("fact", then)
    BY Zenon, <1>11 DEF fact_read
  <2>2. sh = "wait" /\ LastRuns(told) /\ Reading /\ Typing(Letters, Keys, line, told)
    BY Zenon, <2>1, <1>1 DEF Turns, Reading, ShellInv
  <2>3. /\ KeysOK'
        /\ \/ /\ then /\ line' = line /\ told' = Append(told, <<"fact", line>>)
              /\ Waiting(Letters', Keys', told') /\ Grown(told', "fact", line)
           \/ /\ UNCHANGED <<sh, fact, told>>
              /\ Typing(Letters', Keys', line', told')
    <3> HIDE DEF then
    <3>1. "fact" \in {"sh", "fact"} /\ Entitled("fact", told)
      BY Zenon, <2>2 DEF Entitled
    <3> QED BY Zenon, <3>1, <2>1, <2>2, <1>1, LineRead
  <2>4. CASE /\ then /\ line' = line
             /\ Waiting(Letters', Keys', told') /\ Grown(told', "fact", line)
    <3>1. fact' = "line" /\ sh' = "wait" /\ ~Reading'
      BY Zenon, <2>2, <2>4 DEF Reading
    <3>2. Turns'
      BY Zenon, <3>1, <2>4 DEF Turns, Grown
    <3> QED BY Zenon, <3>1, <3>2, <2>3, <2>4 DEF ShellInv
  <2>5. CASE UNCHANGED <<sh, fact, told>> /\ Typing(Letters', Keys', line', told')
    <3>1. Reading' /\ Turns'
      BY Zenon, <2>1, <2>2, <2>5, <1>1 DEF Reading, Turns
    <3> QED BY Zenon, <3>1, <2>3, <2>5 DEF ShellInv
  <2> QED BY Zenon, <2>3, <2>4, <2>5
<1> QED BY ZenonT(30), <1>5, <1>6, <1>7, <1>8, <1>9, <1>10, <1>11 DEF Interactive, Program

(* Every step keeps the invariant.                                         *)
LEMMA ShellMoves == ShellInv /\ [ShellNext]_shVars => ShellInv'
<1> SUFFICES ASSUME ShellInv, [ShellNext]_shVars PROVE ShellInv'
  OBVIOUS
<1>1. CASE ShellNext
  BY Zenon, <1>1, ArriveStep, ProgramStep DEF ShellNext
<1>2. CASE UNCHANGED shVars
  <2>1. UNCHANGED <<popped, tape, INPUT_BUF, fifo, typed, sh, fact, line, told>>
    BY <1>2 DEF shVars, consoleVars, shellVars
  <2>2. Keys' = Keys /\ Letters' = Letters
    BY Zenon, <2>1, KeysStay
  <2>3. KeysOK' /\ Turns'
    BY <2>1 DEF ShellInv, KeysOK, Turns
  <2> QED BY Zenon, <2>1, <2>2, <2>3 DEF ShellInv, Reading
<1> QED BY <1>1, <1>2

(* The lines are then what the keys spell, and their readers those that    *)
(* they are meant for.                                                     *)
LEMMA ShellFollows == ShellInv => LinesFaithful
<1> SUFFICES ASSUME ShellInv PROVE LinesFaithful
  OBVIOUS
<1>1. PICK ends : Told(Letters, ends, Keys, told)
  BY Zenon DEF ShellInv, Waiting, Typing
<1>2. Ends = EndsIn(Keys)
  BY Zenon DEF Ends, EndsIn
<1> DEFINE chosen(n) == CHOOSE e \in Ends : Cardinality({m \in Ends : m < e}) = n - 1
<1>3. [n \in DOMAIN told |-> told[n][2]]
        = [n \in 1 .. Cardinality(Ends) |-> Edited(Since(chosen(n)))]
  <2>1. [n \in DOMAIN told |-> told[n][2]]
           = [n \in 1 .. Cardinality(EndsIn(Keys)) |->
                LET e == Ranked(EndsIn(Keys), n)
                    before == {m \in EndsIn(Keys) : m < e}
                IN Edited(SubSeq(Keys, 1 + IF before = {} THEN 0 ELSE CHOOSE m \in before :
                                             \A k \in before : k <= m, e - 1))]
    BY <1>1, ToldFaithful
  <2>2. \A n : Ranked(EndsIn(Keys), n) = chosen(n)
    BY <1>2, Zenon DEF Ranked
  <2>3. \A n : Edited(Since(Ranked(EndsIn(Keys), n))) =
          LET e == Ranked(EndsIn(Keys), n)
              before == {m \in EndsIn(Keys) : m < e}
          IN Edited(SubSeq(Keys, 1 + IF before = {} THEN 0 ELSE CHOOSE m \in before :
                                       \A k \in before : k <= m, e - 1))
    BY Zenon DEF Since, Ends, EndsIn
  <2> DEFINE told2 == [n \in DOMAIN told |-> told[n][2]]
             z == Cardinality(EndsIn(Keys))
  <2>4. told2 = [n \in 1 .. z |-> Edited(Since(Ranked(EndsIn(Keys), n)))]
    <3> HIDE DEF told2, z
    <3> QED BY <2>1, <2>3, Zenon DEF told2, z
  <2>5. told2 = [n \in 1 .. z |-> Edited(Since(chosen(n)))]
    <3> HIDE DEF told2, z, chosen
    <3> QED BY <2>2, <2>4, Zenon
  <2> QED BY <2>5, <1>2, Zenon
<1>4. Owners(told)
  BY DEF ShellInv, Turns
<1> QED BY <1>3, <1>4, Zenon DEF LinesFaithful, Owners

(* The lines of sh and of the program it runs are what was typed for them, *)
(* whoever types whatever when, and however small the queue of keys is.    *)
THEOREM ShellLines == ShellInit /\ [][ShellNext]_shVars => []LinesFaithful
<1>1. ShellInit => ShellInv
  BY ShellStarts
<1>2. ShellInv /\ [ShellNext]_shVars => ShellInv'
  BY ShellMoves
<1>3. ShellInv => LinesFaithful
  BY ShellFollows
<1> QED BY <1>1, <1>2, <1>3, PTL
=============================================================================
