---------------------------- MODULE MessageQueue ----------------------------
(***************************************************************************)
(* The program mq: writers and readers of a ring of messages, kept apart   *)
(* by three semaphores.  Each step is one system call or one access to     *)
(* memory, so that the clock may preempt a thread between any two of them; *)
(* only the load of the index with which the ring is accessed is part of   *)
(* that access, as both are made under the mutex.                          *)
(***************************************************************************)
EXTENDS UserThreads, FiniteSets

EMPTY == 0
FULL == 1
WRITE_MUTEX == 2
MAX_MESSAGE_COUNT == ROUNDS
MQ_SIZE == MAX_MESSAGE_COUNT + 1
Slot == 0 .. MQ_SIZE - 1

VARIABLES
  queue, head, tail,   \* MQ
  reg,                 \* the index a thread has loaded
  sent,                \* history: the messages stored, in order
  received             \* history: the number of messages taken out

mqVars == <<queue, head, tail, reg, sent, received>>
vars == <<threadVars, mqVars>>

IsWriter(t) == t < THREAD_COUNT \div 2
Critical == {"access", "load", "store", "unlock"}

Init ==
  /\ LibInit([k \in Key |-> CASE k = EMPTY -> MAX_MESSAGE_COUNT
                              [] k = WRITE_MUTEX -> 1
                              [] OTHER -> 0], "begin")
  /\ queue = [s \in Slot |-> 0]
  /\ head = 0 /\ tail = 0
  /\ reg = [t \in Thread |-> 0]
  /\ sent = <<>>
  /\ received = 0

-----------------------------------------------------------------------------
(* The semaphore a message needs before the ring is touched, and the one   *)
(* it feeds afterwards.                                                    *)
Needs(t) == IF IsWriter(t) THEN EMPTY ELSE FULL
Feeds(t) == IF IsWriter(t) THEN FULL ELSE EMPTY

(* EMPTY.wait() of write_message, FULL.wait() of read_message. *)
begin(t) ==
  /\ At(t, "begin")
  /\ turn(t)
  /\ wait(t, Needs(t))
  /\ Goto(t, "mutex")
  /\ UNCHANGED mqVars

mutex_skipped(t) ==
  /\ At(t, "mutex")
  /\ Goto(t, "access")
  /\ UNCHANGED <<libVars, mqVars, left>>

(* WRITE_MUTEX.wait() *)
mutex(t) ==
  /\ At(t, "mutex")
  /\ wait(t, WRITE_MUTEX)
  /\ Goto(t, "access")
  /\ UNCHANGED <<mqVars, left>>

(* main's argument: write_message(i + j). *)
Message(t) == t + MAX_MESSAGE_COUNT - left[t] - 1

(* write_message: MQ.queue[MQ.tail] = message *)
write_message(t) ==
  /\ At(t, "access") /\ IsWriter(t)
  /\ queue' = [queue EXCEPT ![tail] = Message(t)]
  /\ sent' = Append(sent, Message(t))
  /\ Goto(t, "load")
  /\ UNCHANGED <<libVars, head, tail, reg, received, left>>

(* read_message: MQ.queue[MQ.head] = 0 *)
read_message(t) ==
  /\ At(t, "access") /\ ~IsWriter(t)
  /\ queue' = [queue EXCEPT ![head] = 0]
  /\ received' = received + 1
  /\ Goto(t, "load")
  /\ UNCHANGED <<libVars, head, tail, reg, sent, left>>

(* The load and the store of MQ.tail = (MQ.tail + 1) % MQ_SIZE, or of head. *)
load(t) ==
  /\ At(t, "load")
  /\ reg' = [reg EXCEPT ![t] = IF IsWriter(t) THEN tail ELSE head]
  /\ Goto(t, "store")
  /\ UNCHANGED <<libVars, queue, head, tail, sent, received, left>>

Successor(i) == (i + 1) % MQ_SIZE

store(t) ==
  /\ At(t, "store")
  /\ IF IsWriter(t)
     THEN tail' = Successor(reg[t]) /\ UNCHANGED head
     ELSE head' = Successor(reg[t]) /\ UNCHANGED tail
  /\ Goto(t, "unlock")
  /\ UNCHANGED <<libVars, queue, reg, sent, received, left>>

(* WRITE_MUTEX.signal() *)
unlock(t) ==
  /\ At(t, "unlock")
  /\ signal(WRITE_MUTEX)
  /\ Goto(t, "post")
  /\ UNCHANGED <<mqVars, left>>

(* FULL.signal() of write_message, EMPTY.signal() of read_message. *)
post(t) ==
  /\ At(t, "post")
  /\ signal(Feeds(t))
  /\ Goto(t, "begin")
  /\ UNCHANGED <<mqVars, left>>

thread(t) ==
  \/ begin(t) \/ mutex(t) \/ write_message(t) \/ read_message(t)
  \/ load(t) \/ store(t) \/ unlock(t) \/ post(t)
  \/ exit(t) /\ UNCHANGED mqVars

Next ==
  \/ main /\ UNCHANGED mqVars
  \/ \E t \in Thread : thread(t)

Spec == Init /\ [][Next]_vars

-----------------------------------------------------------------------------
(* The ring keeps every message until it is taken out: the i-th message    *)
(* stored is still in its slot as long as fewer than i were taken, and no  *)
(* reader takes more than was stored.  A writer that overtook the readers, *)
(* or two threads in the ring at once, would break it.                     *)
RingKeepsMessages ==
  /\ received <= Len(sent)
  /\ \A i \in received + 1 .. Len(sent) : queue[(i - 1) % MQ_SIZE] = sent[i]

(* The semaphores account for the ring: the units of EMPTY and FULL, with  *)
(* those held by threads between their first wait and their last signal,   *)
(* are the ring's capacity.  A unit lost or given twice breaks it.         *)
Between(t) == pc[t] # "begin" /\ t \notin Range(wait_queue[Needs(t)])
UnitsConserved ==
  count[EMPTY] + count[FULL] + Cardinality({t \in Thread : Between(t)})
    = MAX_MESSAGE_COUNT

(* What main prints at its end: a queue of zeros, as every message written *)
(* was taken out.                                                          *)
AllTaken == queue = [s \in Slot |-> 0] /\ received = Len(sent)
=============================================================================
