------------------------ MODULE ProcessManagerProofs ------------------------
(***************************************************************************)
(* The inductive invariant of the process manager, for any number of       *)
(* processes, keys, counts and exit codes, and that every step preserves   *)
(* it; the theorems that follow: its invariants, its action properties,    *)
(* and that its semaphores implement Dijkstra's.                           *)
(***************************************************************************)
EXTENDS MCProcessManager, SequenceTheorems, FiniteSetTheorems, TLAPS

-----------------------------------------------------------------------------
(* Sequences as queues.                                                    *)

(* The positions and the members of a queue. *)
LEMMA QueueBasics ==
  ASSUME NEW S, NEW q \in Seq(S)
  PROVE  /\ Len(q) \in Nat /\ DOMAIN q = 1 .. Len(q)
         /\ q = <<>> <=> Len(q) = 0
         /\ Range(q) \subseteq S
         /\ \A i \in 1 .. Len(q) : q[i] \in S /\ q[i] \in Range(q)
<1>1. Len(q) \in Nat /\ DOMAIN q = 1 .. Len(q)
  BY LenProperties
<1>2. \A i \in 1 .. Len(q) : q[i] \in S /\ q[i] \in Range(q)
  BY <1>1, ElementOfSeq DEF Range
<1> QED BY <1>1, <1>2, EmptySeq, RangeOfSeq

(* The empty queue has no members. *)
LEMMA EmptyQueue ==
  ASSUME NEW S
  PROVE  /\ <<>> \in Seq(S) /\ Len(<<>>) = 0
         /\ Range(<<>>) = {} /\ IsInjective(<<>>)
BY EmptySeq DEF Range, IsInjective

(* A function on an initial interval of the numbers is a queue. *)
LEMMA EnumeratedQueue ==
  ASSUME NEW S, NEW n \in Nat, NEW w \in [1 .. n -> S]
  PROVE  w \in Seq(S)
BY SeqDef

(* Taking the first element and rotating nothing behind leaves the tail. *)
LEMMA RotateNone ==
  ASSUME NEW S, NEW q \in Seq(S), q # <<>>
  PROVE  SubSeq(q, 2, Len(q)) \o SubSeq(q, 1, 0) = Tail(q)
<1>1. SubSeq(q, 2, Len(q)) = Tail(q) /\ SubSeq(q, 1, 0) = <<>>
  BY TailIsSubSeq, SubSeqEmpty, LenProperties
<1>2. Tail(q) \in Seq(S)
  BY HeadTailProperties
<1> QED BY <1>1, <1>2, ConcatEmptySeq

(* What Append does to the members of a queue. *)
LEMMA AppendMembers ==
  ASSUME NEW S, NEW q \in Seq(S), NEW e \in S
  PROVE  /\ Append(q, e) \in Seq(S)
         /\ Append(q, e) # <<>>
         /\ Range(Append(q, e)) = Range(q) \cup {e}
         /\ IsInjective(q) /\ e \notin Range(q) => IsInjective(Append(q, e))
         /\ Len(Append(q, e)) = Len(q) + 1
         /\ \A i \in 1 .. Len(q) : Append(q, e)[i] = q[i]
         /\ Append(q, e)[Len(q) + 1] = e
<1> DEFINE r == Append(q, e)
<1>1. /\ r \in Seq(S) /\ r # <<>>
      /\ Len(r) = Len(q) + 1 /\ Len(q) \in Nat
      /\ \A i \in 1 .. Len(q) : r[i] = q[i]
      /\ r[Len(q) + 1] = e
  BY AppendProperties, LenProperties
<1>2. DOMAIN q = 1 .. Len(q) /\ DOMAIN r = 1 .. Len(q) + 1
  BY <1>1, LenProperties
<1> HIDE DEF r
<1>3. Range(r) = Range(q) \cup {e}
  <2>1. ASSUME NEW x \in Range(r) PROVE x \in Range(q) \cup {e}
    BY <1>1, <1>2 DEF Range
  <2>2. ASSUME NEW x \in Range(q) PROVE x \in Range(r)
    BY <1>1, <1>2 DEF Range
  <2>3. e \in Range(r)
    BY <1>1, <1>2 DEF Range
  <2> QED BY <2>1, <2>2, <2>3
<1>4. IsInjective(q) /\ e \notin Range(q) => IsInjective(r)
  BY <1>1, <1>2 DEF Range, IsInjective
<1> QED BY <1>1, <1>3, <1>4 DEF r

(* What popping the front does to the members of a queue. *)
LEMMA TailMembers ==
  ASSUME NEW S, NEW q \in Seq(S), q # <<>>
  PROVE  /\ Head(q) \in S /\ Head(q) \in Range(q) /\ Head(q) = q[1]
         /\ Tail(q) \in Seq(S)
         /\ Range(q) = Range(Tail(q)) \cup {Head(q)}
         /\ IsInjective(q) => /\ Head(q) \notin Range(Tail(q))
                              /\ IsInjective(Tail(q))
         /\ Len(Tail(q)) = Len(q) - 1
         /\ \A i \in 1 .. Len(q) - 1 : Tail(q)[i] = q[i + 1]
<1> DEFINE r == Tail(q)
<1>1. /\ Head(q) \in S /\ Head(q) = q[1]
      /\ r \in Seq(S) /\ Len(q) \in Nat /\ Len(q) >= 1 /\ Len(r) = Len(q) - 1
      /\ \A i \in 1 .. Len(r) : r[i] = q[i + 1]
  BY HeadTailProperties, LenProperties, EmptySeq
<1>2. DOMAIN q = 1 .. Len(q) /\ DOMAIN r = 1 .. Len(q) - 1
  BY <1>1, LenProperties
<1> HIDE DEF r
<1>3. Range(q) = Range(r) \cup {Head(q)}
  <2>1. ASSUME NEW i \in 1 .. Len(q) PROVE q[i] \in Range(r) \cup {Head(q)}
    <3>1. CASE i = 1
      BY <3>1, <1>1
    <3>2. CASE i # 1
      <4>1. i - 1 \in 1 .. Len(r) /\ r[i - 1] = q[i]
        BY <3>2, <1>1
      <4> QED BY Zenon, <4>1, <1>1, <1>2 DEF Range
    <3> QED BY <3>1, <3>2
  <2>2. ASSUME NEW x \in Range(r) PROVE x \in Range(q)
    <3>1. PICK i \in DOMAIN r : x = r[i]
      BY Zenon, <2>2 DEF Range
    <3>2. i + 1 \in 1 .. Len(q) /\ q[i + 1] = x
      BY <1>1, <1>2, <3>1
    <3> QED BY Zenon, <1>1, <1>2, <3>2 DEF Range
  <2>3. Head(q) \in Range(q)
    BY <1>1, <1>2 DEF Range
  <2> QED BY <2>1, <2>2, <2>3, <1>2 DEF Range
<1>4. ASSUME IsInjective(q)
      PROVE  Head(q) \notin Range(r) /\ IsInjective(r)
  <2>1. ASSUME NEW i \in 1 .. Len(q) - 1
        PROVE  i + 1 \in DOMAIN q /\ 1 \in DOMAIN q /\ r[i] = q[i + 1]
    BY <1>1, <1>2
  <2>2. ASSUME NEW i \in 1 .. Len(q) - 1 PROVE r[i] # Head(q)
    BY <2>1, <1>1, <1>4 DEF IsInjective
  <2>3. ASSUME NEW i \in 1 .. Len(q) - 1, NEW j \in 1 .. Len(q) - 1, r[i] = r[j]
        PROVE  i = j
    <3>1. i + 1 = j + 1
      BY <2>1, <2>3, <1>4 DEF IsInjective
    <3> QED BY <3>1
  <2> QED BY <2>2, <2>3, <1>2 DEF Range, IsInjective
<1> QED BY <1>1, <1>3, <1>4 DEF r

(* Concatenation joins the members of two queues. *)
LEMMA ConcatMembers ==
  ASSUME NEW S, NEW q \in Seq(S), NEW w \in Seq(S)
  PROVE  /\ q \o w \in Seq(S)
         /\ Range(q \o w) = Range(q) \cup Range(w)
         /\ q # <<>> => q \o w # <<>>
         /\ IsInjective(q) /\ IsInjective(w) /\ Range(q) \cap Range(w) = {}
              => IsInjective(q \o w)
<1> DEFINE r == q \o w
<1>1. /\ r \in Seq(S) /\ Len(r) = Len(q) + Len(w)
      /\ Len(q) \in Nat /\ Len(w) \in Nat
      /\ \A i \in 1 .. Len(r) :
           r[i] = IF i <= Len(q) THEN q[i] ELSE w[i - Len(q)]
  BY ConcatProperties, LenProperties
<1>2. /\ DOMAIN q = 1 .. Len(q) /\ DOMAIN w = 1 .. Len(w)
      /\ DOMAIN r = 1 .. Len(q) + Len(w)
  BY <1>1, LenProperties
<1>3. Range(r) = Range(q) \cup Range(w)
  BY RangeConcatenation
<1>4. q # <<>> => r # <<>>
  BY <1>1, EmptySeq
<1> HIDE DEF r
<1>5. ASSUME IsInjective(q), IsInjective(w), Range(q) \cap Range(w) = {},
             NEW i \in 1 .. Len(r), NEW j \in 1 .. Len(r), r[i] = r[j]
      PROVE  i = j
  <2>1. CASE i <= Len(q) /\ j <= Len(q)
    BY <2>1, <1>1, <1>2, <1>5 DEF IsInjective
  <2>2. CASE i > Len(q) /\ j > Len(q)
    <3>1. i - Len(q) \in 1 .. Len(w) /\ j - Len(q) \in 1 .. Len(w)
      BY <2>2, <1>1
    <3>2. w[i - Len(q)] = w[j - Len(q)]
      BY <2>2, <1>1, <1>5
    <3>3. i - Len(q) = j - Len(q)
      BY <3>1, <3>2, <1>2, <1>5 DEF IsInjective
    <3> QED BY <3>3, <1>1
  <2>3. ASSUME NEW k \in 1 .. Len(r), NEW l \in 1 .. Len(r),
               k <= Len(q), l > Len(q)
        PROVE  r[k] # r[l]
    <3>1. k \in DOMAIN q /\ l - Len(q) \in DOMAIN w
      BY <2>3, <1>1, <1>2
    <3>2. r[k] = q[k] /\ r[l] = w[l - Len(q)]
      BY <2>3, <1>1
    <3>3. r[k] \in Range(q) /\ r[l] \in Range(w)
      BY <3>1, <3>2 DEF Range
    <3> QED BY <3>3, <1>5
  <2> QED BY <2>1, <2>2, <2>3, <1>1, <1>5
<1>6. DOMAIN r = 1 .. Len(r)
  BY <1>1, <1>2
<1> QED BY <1>1, <1>3, <1>4, <1>5, <1>6 DEF r, IsInjective

(* A queue of two. *)
LEMMA PairMembers ==
  ASSUME NEW S, NEW a \in S, NEW b \in S, a # b
  PROVE  /\ <<a, b>> \in Seq(S)
         /\ Range(<<a, b>>) = {a, b}
         /\ IsInjective(<<a, b>>)
<1>1. DOMAIN <<a, b>> = {1, 2} /\ <<a, b>>[1] = a /\ <<a, b>>[2] = b
  OBVIOUS
<1>2. Range(<<a, b>>) = {a, b}
  BY <1>1 DEF Range
<1>3. IsInjective(<<a, b>>)
  BY <1>1 DEF IsInjective
<1>4. <<a, b>> \in Seq(S)
  OBVIOUS
<1> QED BY <1>2, <1>3, <1>4

-----------------------------------------------------------------------------
(* The inductive invariant.                                                *)

(* ProcessId::new hands out fresh pids: the table holds those up to        *)
(* COUNTER.                                                                *)
PidsInOrder == \A p \in Pid : status[p] = "Absent" <=> p > counter

(* The kernel process never blocks and never exits. *)
KernelRunnable == status[KERNEL_PID] \in {"Running", "Ready"}

DeadHasCode == \A p \in Pid : status[p] = "Dead" => exit_code[p] \in ExitCodes

(* What a process that has not returned is waiting for. *)
WaiterCall == \A p, q \in Pid : AwaitsExit(p, q) => call[p] = <<"wait", q>>

BlockedCall ==
  \A p \in Pid :
    status[p] = "Blocked" =>
       \/ call[p] = NoCall
       \/ \E q \in Pid : AwaitsExit(p, q) /\ call[p] = <<"wait", q>>

AbsentCall == \A p \in Pid : status[p] = "Absent" => call[p] = NoCall

PidCall == \A p \in Pid : call[p][1] = "pid" => call[p][2] \in Pid

(* No call is not a call that returns a pid.                               *)
LEMMA NoCallNoPid == NoCall[1] # "pid"
BY DEF NoCall

CallTracked == WaiterCall /\ BlockedCall /\ AbsentCall /\ PidCall

IInv ==
  /\ TypeOK
  /\ ReadyQueueExact
  /\ SwitchTotal
  /\ BlockedHasOneWaker
  /\ NoWaiterOnDead
  /\ NoUnitWhileWaiting
  /\ PidsInOrder
  /\ KernelRunnable
  /\ DeadHasCode
  /\ CallTracked
  /\ WaitReturnsExitCode
  /\ CreateReturnsPid

-----------------------------------------------------------------------------
(* The dispatcher.                                                         *)

(* The processor is handed to a ready process of st, and every process     *)
(* sees in rax what ctx holds for it.                                      *)
Dispatched(st, ctx) ==
  /\ status' \in [Pid -> Status] /\ context' \in [Pid -> Int]
  /\ ready_queue' \in Seq(Pid) /\ current' \in Pid /\ rax' \in Int
  /\ halted' = halted
  /\ ReadyQueueExact'
  /\ KernelRunnable'
  /\ \A p \in Pid : Value(p)' = ctx[p]
  /\ \A p \in Pid : Returned(p)' <=> st[p] = "Ready"
  /\ \A p \in Pid : status'[p] = "Absent" <=> st[p] = "Absent"
  /\ \A p \in Pid : status'[p] = "Blocked" <=> st[p] = "Blocked"
  /\ \A p \in Pid : status'[p] = "Dead" <=> st[p] = "Dead"

(* Entered with a queue that is exact and holds the kernel process,        *)
(* switch_next resumes the process at the front: it neither panics nor     *)
(* loops, keeps the queue exact, and every process sees in rax what was    *)
(* saved for it.                                                           *)
LEMMA Dispatch ==
  ASSUME ProcessManagerAssumption,
         NEW q \in Seq(Pid), NEW st \in [Pid -> Status],
         NEW ctx \in [Pid -> Int],
         IsInjective(q),
         \A p \in Pid : p \in Range(q) <=> st[p] = "Ready",
         \A p \in Pid : st[p] # "Running",
         st[KERNEL_PID] = "Ready",
         switch_next(q, st, ctx)
  PROVE  Dispatched(st, ctx)
<1>1. KERNEL_PID \in Pid
  BY DEF ProcessManagerAssumption, KERNEL_PID, Pid
<1>2. q # <<>> /\ Len(q) \in Nat /\ Len(q) >= 1 /\ DOMAIN q = 1 .. Len(q)
  <2>1. KERNEL_PID \in Range(q)
    BY <1>1
  <2>2. /\ Len(q) \in Nat /\ DOMAIN q = 1 .. Len(q)
        /\ q = <<>> <=> Len(q) = 0
    BY QueueBasics
  <2>3. Len(q) >= 1
    BY <2>1, <2>2 DEF Range
  <2> QED BY <2>2, <2>3
<1>3. /\ Head(q) = q[1] /\ Head(q) \in Pid /\ Tail(q) \in Seq(Pid)
      /\ Head(q) \in Range(q)
      /\ Range(q) = Range(Tail(q)) \cup {Head(q)}
      /\ Head(q) \notin Range(Tail(q)) /\ IsInjective(Tail(q))
  BY <1>2, TailMembers
<1>4. \A i \in 1 .. Len(q) : q[i] \in Pid /\ st[q[i]] = "Ready"
  BY <1>2, QueueBasics
<1>5. /\ context' = ctx /\ halted' = halted
      /\ current' = Head(q) /\ rax' = ctx[Head(q)]
      /\ status' = [st EXCEPT ![Head(q)] = "Running"]
      /\ ready_queue' = Tail(q)
  <2> DEFINE ready == {i \in 1 .. Len(q) : st[q[i]] = "Ready"}
  <2>1. 1 \in ready /\ ready # {} /\ \A i \in ready : i \in Nat /\ i >= 1
    BY <1>2, <1>4
  <2>2. PICK i \in ready :
          /\ \A j \in ready : i <= j
          /\ current' = q[i]
          /\ status' = [st EXCEPT ![q[i]] = "Running"]
          /\ rax' = ctx[q[i]]
          /\ ready_queue' = SubSeq(q, i + 1, Len(q)) \o SubSeq(q, 1, i - 1)
          /\ UNCHANGED halted
    BY Zenon, <2>1 DEF switch_next
  <2>3. i = 1
    BY <2>1, <2>2
  <2>4. SubSeq(q, 2, Len(q)) \o SubSeq(q, 1, 0) = Tail(q)
    BY Zenon, <1>2, RotateNone
  <2>5. context' = ctx
    BY DEF switch_next
  <2> QED BY <2>2, <2>3, <2>4, <2>5, <1>3
<1>6. \A p \in Pid : status'[p] = IF p = Head(q) THEN "Running" ELSE st[p]
  BY <1>5
<1>7. st[Head(q)] = "Ready"
  BY <1>3
<1>8. ReadyQueueExact'
  BY <1>3, <1>5, <1>6, <1>7 DEF ReadyQueueExact
<1>9. \A p \in Pid : Value(p)' = ctx[p]
  BY <1>5 DEF Value
<1>10. KernelRunnable'
  BY <1>1, <1>6 DEF KernelRunnable
<1>11. \A p \in Pid : Returned(p)' <=> st[p] = "Ready"
  BY <1>6, <1>7 DEF Returned
<1>12. status' \in [Pid -> Status] /\ rax' \in Int
  BY <1>3, <1>5 DEF Status
<1> QED BY <1>3, <1>5, <1>6, <1>7, <1>8, <1>9, <1>10, <1>11, <1>12 DEF Dispatched

-----------------------------------------------------------------------------
(* Every action preserves the inductive invariant.                         *)

(* The invariant holds when init has created the kernel process.           *)
LEMMA InitInv ==
  ASSUME ProcessManagerAssumption, Init
  PROVE  IInv
<1>1. KERNEL_PID \in Pid /\ KERNEL_PID = 1 /\ \A p \in Pid : p \in Nat /\ p >= 1
  BY DEF ProcessManagerAssumption, KERNEL_PID, Pid
<1>2. /\ <<>> \in Seq(Pid) /\ Range(<<>>) = {} /\ IsInjective(<<>>)
      /\ Len(<<>>) = 0
  BY EmptyQueue
<1>3. TypeOK
  BY <1>1, <1>2 DEF Init, TypeOK, Status, Halts, Calls, NoCall
<1>4. ReadyQueueExact
  BY <1>1, <1>2 DEF Init, ReadyQueueExact
<1>5. BlockedHasOneWaker
  BY <1>2 DEF Init, BlockedHasOneWaker, Parked, AwaitsExit, AwaitsSignal
<1>6. NoUnitWhileWaiting
  BY <1>2 DEF Init, NoUnitWhileWaiting
<1>7. NoWaiterOnDead /\ SwitchTotal /\ DeadHasCode
  BY DEF Init, NoWaiterOnDead, SwitchTotal, DeadHasCode
<1>8. PidsInOrder /\ KernelRunnable
  BY <1>1 DEF Init, PidsInOrder, KernelRunnable
<1>9. CallTracked /\ WaitReturnsExitCode /\ CreateReturnsPid
  BY DEF Init, CallTracked, WaiterCall, BlockedCall,
        AbsentCall, PidCall, NoCall, WaitReturnsExitCode, CreateReturnsPid,
         AwaitsExit
<1> QED BY <1>3, <1>4, <1>5, <1>6, <1>7, <1>8, <1>9 DEF IInv

(* switch_next keeps the invariant.                                        *)
LEMMA SwitchInv ==
  ASSUME ProcessManagerAssumption, IInv, switch
  PROVE  IInv'
<1> DEFINE q == Append(ready_queue, current)
           st == SavedStatus
           ctx == SavedContext(rax)
<1>1. /\ st = [status EXCEPT ![current] = "Ready"]
      /\ ctx = [context EXCEPT ![current] = rax]
  BY DEF IInv, ReadyQueueExact, TypeOK, SavedStatus, SavedContext
<1>2. /\ q \in Seq(Pid) /\ IsInjective(q)
      /\ Range(q) = Range(ready_queue) \cup {current}
  BY AppendMembers DEF IInv, TypeOK, ReadyQueueExact
<1>3. st \in [Pid -> Status] /\ ctx \in [Pid -> Int]
  BY <1>1 DEF IInv, TypeOK, Status
<1>4. /\ \A p \in Pid : p \in Range(q) <=> st[p] = "Ready"
      /\ \A p \in Pid : st[p] # "Running"
  BY <1>1, <1>2 DEF IInv, TypeOK, ReadyQueueExact
<1>5. st[KERNEL_PID] = "Ready"
  BY <1>1 DEF IInv, TypeOK, ReadyQueueExact, KernelRunnable,
              ProcessManagerAssumption, KERNEL_PID, Pid
<1>6. switch_next(q, st, ctx)
  BY DEF switch
<1> HIDE DEF q, st, ctx
<1>7. Dispatched(st, ctx)
  BY <1>2, <1>3, <1>4, <1>5, <1>6, Dispatch
<1>8. \A p \in Pid : ctx[p] = Value(p)
  BY <1>1 DEF Value, IInv, TypeOK
<1>9. /\ \A p \in Pid : st[p] = "Ready" <=> Returned(p)
      /\ \A p \in Pid : st[p] = "Absent" <=> status[p] = "Absent"
      /\ \A p \in Pid : st[p] = "Blocked" <=> status[p] = "Blocked"
      /\ \A p \in Pid : st[p] = "Dead" <=> status[p] = "Dead"
  BY <1>1 DEF Returned, IInv, TypeOK, ReadyQueueExact
<1>10. UNCHANGED <<counter, exit_code, family, semVars, mainVars,
                  waiting_processes, call>>
  BY DEF switch
<1>11. TypeOK' /\ ReadyQueueExact' /\ KernelRunnable' /\ SwitchTotal'
  BY <1>7, <1>10 DEF IInv, TypeOK, SwitchTotal, Dispatched, semVars, mainVars
<1>12. BlockedHasOneWaker'
  BY Zenon, <1>7, <1>9, <1>10
  DEF IInv, BlockedHasOneWaker, Parked, AwaitsExit, AwaitsSignal, Dispatched,
      semVars
<1>13. NoUnitWhileWaiting'
  BY <1>10 DEF IInv, NoUnitWhileWaiting, semVars
<1>14. NoWaiterOnDead' /\ DeadHasCode' /\ PidsInOrder'
  BY <1>7, <1>9, <1>10 DEF IInv, NoWaiterOnDead, DeadHasCode, PidsInOrder,
                           still_alive, Exists, Dispatched
<1>15. CallTracked'
  BY <1>7, <1>9, <1>10 DEF IInv, CallTracked, WaiterCall, BlockedCall,
        AbsentCall, PidCall, AwaitsExit, Dispatched
<1>16. /\ \A p \in Pid : Value(p)' = Value(p)
       /\ \A p \in Pid : Returned(p)' <=> Returned(p)
       /\ \A p \in Pid : Exists(p)' <=> Exists(p)
       /\ \A p \in Pid : status'[p] = "Dead" <=> status[p] = "Dead"
  BY <1>7, <1>8, <1>9 DEF Dispatched, Exists
<1>17. WaitReturnsExitCode'
  BY <1>10, <1>16 DEF IInv, WaitReturnsExitCode
<1>18. CreateReturnsPid'
  BY <1>10, <1>16 DEF IInv, CreateReturnsPid, CallTracked, PidCall
<1> QED BY <1>11, <1>12, <1>13, <1>14, <1>15, <1>17, <1>18 DEF IInv

(* Stopping the machine, by shutdown or by a panic outside switch_next. *)
LEMMA HaltInv ==
  ASSUME IInv, halted' \in {"off", "open_panic", "wait_panic"},
         UNCHANGED <<procVars, ready_queue, current, rax, semVars, mainVars,
                     waiting_processes, call>>
  PROVE  IInv'
<1>1. TypeOK' /\ SwitchTotal'
  BY DEF IInv, TypeOK, Halts, SwitchTotal, procVars, semVars, mainVars
<1>2. ReadyQueueExact' /\ KernelRunnable' /\ PidsInOrder' /\ DeadHasCode'
  BY DEF IInv, ReadyQueueExact, KernelRunnable, PidsInOrder, DeadHasCode,
         procVars
<1>3. BlockedHasOneWaker' /\ NoUnitWhileWaiting' /\ NoWaiterOnDead'
  BY DEF IInv, BlockedHasOneWaker, Parked, AwaitsExit, AwaitsSignal, NoWaiterOnDead,
         NoUnitWhileWaiting, still_alive, Exists, procVars, semVars
<1>4. CallTracked' /\ WaitReturnsExitCode' /\ CreateReturnsPid'
  BY DEF IInv, CallTracked, WaiterCall, BlockedCall,
        AbsentCall, PidCall, WaitReturnsExitCode, CreateReturnsPid, AwaitsExit,
         Value, Returned, Exists, procVars
<1> QED BY <1>1, <1>2, <1>3, <1>4 DEF IInv

(* A process added by spawn: it is fresh, and goes to the back of an exact *)
(* queue.                                                                  *)
LEMMA SpawnedInv ==
  ASSUME ProcessManagerAssumption, IInv, CanCreate, add_spawned(counter + 1),
         \/ rax' = rax /\ call' = call
         \/ /\ rax' = counter + 1
            /\ call' = [call EXCEPT ![current] = <<"pid", counter + 1>>],
         main' \in {"spawn", "wait"}, init' \in Pid \cup {0}
  PROVE  IInv'
<1> PICK child \in Nat : child = counter + 1
  BY DEF IInv, TypeOK, Pid
<1>1. /\ child \in Pid /\ child \in Nat /\ counter \in Nat /\ child > counter
      /\ status[child] = "Absent"
  BY DEF IInv, TypeOK, PidsInOrder, CanCreate, Pid, ProcessManagerAssumption
<1>2. /\ status' = [status EXCEPT ![child] = "Ready"] /\ counter' = child
      /\ ready_queue' = Append(ready_queue, child)
      /\ UNCHANGED <<exit_code, context, family, current, halted, semVars,
                     waiting_processes>>
  BY DEF add_spawned
<1>3. /\ ready_queue' \in Seq(Pid) /\ IsInjective(ready_queue')
      /\ Range(ready_queue') = Range(ready_queue) \cup {child}
  BY <1>1, <1>2, AppendMembers DEF IInv, TypeOK, ReadyQueueExact
<1>4. current \in Pid /\ status[current] = "Running" /\ current # child
  BY <1>1 DEF IInv, TypeOK, ReadyQueueExact
<1>5. /\ \A p \in Pid : status'[p] = IF p = child THEN "Ready" ELSE status[p]
      /\ status' \in [Pid -> Status]
  BY <1>1, <1>2 DEF IInv, TypeOK, Status
<1>6. /\ call' \in [Pid -> Calls] /\ rax' \in Int
      /\ \A p \in Pid \ {current} : call'[p] = call[p]
      /\ \/ call'[current] = call[current] /\ rax' = rax
         \/ call'[current] = <<"pid", child>> /\ rax' = child
  <2>1. <<"pid", child>> \in Calls
    BY <1>1 DEF Calls
  <2>2. call \in [Pid -> Calls] /\ rax \in Int
    BY DEF IInv, TypeOK
  <2>3. CASE rax' = rax /\ call' = call
    BY <2>2, <2>3
  <2>4. CASE rax' = child /\ call' = [call EXCEPT ![current] = <<"pid", child>>]
    BY <1>1, <1>4, <2>1, <2>2, <2>4
  <2> QED BY <2>3, <2>4
<1>7. TypeOK'
  BY Zenon, <1>1, <1>2, <1>3, <1>5, <1>6 DEF IInv, TypeOK, semVars
<1>8. ReadyQueueExact' /\ SwitchTotal' /\ KernelRunnable' /\ DeadHasCode'
  BY <1>1, <1>2, <1>3, <1>5
  DEF IInv, ReadyQueueExact, SwitchTotal, KernelRunnable, DeadHasCode,
      KERNEL_PID, Pid, ProcessManagerAssumption
<1>9. BlockedHasOneWaker'
  BY Zenon, <1>1, <1>2, <1>5
  DEF IInv, BlockedHasOneWaker, Parked, AwaitsExit, AwaitsSignal, semVars
<1>10. NoUnitWhileWaiting'
  BY <1>2 DEF IInv, NoUnitWhileWaiting, semVars
<1>11. NoWaiterOnDead'
  BY <1>2, <1>5 DEF IInv, NoWaiterOnDead, still_alive, Exists
<1>12. PidsInOrder'
  <2>1. \A p \in Pid : p \in Nat
    BY DEF Pid
  <2> QED BY <1>1, <1>2, <1>5, <2>1 DEF IInv, PidsInOrder
<1>13. CallTracked'
  <2>1. \A p, q \in Pid : AwaitsExit(p, q) => p # current
    BY Zenon, <1>4 DEF IInv, BlockedHasOneWaker, Parked
  <2>2. \A p, q \in Pid : AwaitsExit(p, q)' <=> AwaitsExit(p, q)
    BY <1>2 DEF AwaitsExit
  <2> QED BY <1>1, <1>4, <1>5, <1>6, <2>1, <2>2 DEF IInv, CallTracked, WaiterCall, BlockedCall,
        AbsentCall, PidCall
<1>14. WaitReturnsExitCode' /\ CreateReturnsPid'
  <2>1. \A p \in Pid \ {current} : Value(p)' = Value(p)
    BY <1>2 DEF Value
  <2>2. \A p \in Pid : p = current => Value(p)' = rax' /\ Value(p) = rax
    BY <1>2 DEF Value
  <2>3. \A p \in Pid \ {child} : Returned(p)' <=> Returned(p)
    BY <1>5 DEF Returned
  <2>4. call'[child] = NoCall
    BY <1>1, <1>4, <1>6 DEF IInv, CallTracked, AbsentCall
  <2>5. \A p \in Pid : Exists(p) => Exists(p)'
    BY <1>5 DEF Exists
  <2>6. Exists(child)'
    BY <1>1, <1>5 DEF Exists
  <2>7. \A q \in Pid : status[q] = "Dead" => status'[q] = "Dead"
    BY <1>1, <1>5
  <2>8. WaitReturnsExitCode'
    BY <1>2, <1>4, <1>6, <2>1, <2>2, <2>3, <2>4, <2>7
    DEF IInv, WaitReturnsExitCode, NoCall
  <2>9. CreateReturnsPid'
    <3> SUFFICES ASSUME NEW p \in Pid, Returned(p)'
                 PROVE  /\ call'[p][1] = "pid" =>
                             Value(p)' = call'[p][2] /\ Exists(call[p][2])'
                        /\ call'[p][1] = "child" => Value(p)' = 0
      BY DEF CreateReturnsPid
    <3>1. CASE p = child
      BY <3>1, <2>4 DEF NoCall
    <3>2. CASE p = current /\ call'[current] = <<"pid", child>> /\ rax' = child
      <4>1. call'[p][1] = "pid" /\ call'[p][2] = child /\ Value(p)' = child
        BY <3>2, <2>2
      <4>2. Exists(call[p][2])'
        BY <4>1, <1>1, <1>5 DEF Exists
      <4> QED BY <4>1, <4>2
    <3>3. CASE p # child /\ call'[p] = call[p] /\ Value(p)' = Value(p)
      BY <3>3, <2>3, <2>5 DEF IInv, CreateReturnsPid, CallTracked, PidCall
    <3> QED BY <1>4, <1>6, <2>1, <2>2, <3>1, <3>2, <3>3
  <2> QED BY <2>8, <2>9
<1> QED BY <1>7, <1>8, <1>9, <1>10, <1>11, <1>12, <1>13, <1>14 DEF IInv

(* fork: parent and child are saved with their results and both queued. *)
LEMMA ForkInv ==
  ASSUME ProcessManagerAssumption, IInv, sys_fork
  PROVE  IInv'
<1> PICK child \in Nat : child = counter + 1
  BY DEF IInv, TypeOK, Pid
<1> DEFINE q == ready_queue \o <<child, current>>
           st == [SavedStatus EXCEPT ![child] = "Ready"]
           ctx == ForkedContext(child)
<1>1. /\ child \in Pid /\ counter \in Nat /\ status[child] = "Absent"
      /\ current \in Pid /\ status[current] = "Running" /\ current # child
      /\ current # KERNEL_PID /\ KERNEL_PID \in Pid
      /\ status[KERNEL_PID] = "Ready"
  BY DEF IInv, TypeOK, PidsInOrder, ReadyQueueExact, KernelRunnable, sys_fork,
         InUser, CanCreate, KERNEL_PID, Pid, ProcessManagerAssumption
<1>2. /\ counter' = child
      /\ family' = [family EXCEPT ![child] = family[current]]
      /\ call' = [call EXCEPT ![current] = <<"pid", child>>,
                              ![child] = <<"child", 0>>]
      /\ switch_next(q, st, ctx)
      /\ UNCHANGED <<exit_code, semVars, mainVars, waiting_processes>>
  BY DEF sys_fork
<1>3. /\ st \in [Pid -> Status] /\ ctx \in [Pid -> Int]
      /\ \A p \in Pid : st[p] = IF p \in {child, current} THEN "Ready"
                                ELSE status[p]
      /\ \A p \in Pid : ctx[p] = IF p = child THEN 0 ELSE
                                 IF p = current THEN child ELSE Value(p)
  BY <1>1 DEF IInv, TypeOK, SavedStatus, SavedContext, ForkedContext, Status, Value
<1>4. /\ q \in Seq(Pid) /\ IsInjective(q)
      /\ Range(q) = Range(ready_queue) \cup {child, current}
  <2>1. /\ <<child, current>> \in Seq(Pid) /\ IsInjective(<<child, current>>)
        /\ Range(<<child, current>>) = {child, current}
    BY <1>1, PairMembers
  <2>2. Range(ready_queue) \cap {child, current} = {}
    BY <1>1 DEF IInv, ReadyQueueExact
  <2>3. ready_queue \in Seq(Pid) /\ IsInjective(ready_queue)
    BY DEF IInv, TypeOK, ReadyQueueExact
  <2> DEFINE w == <<child, current>>
  <2> HIDE DEF w
  <2>4. w \in Seq(Pid) /\ IsInjective(w) /\ Range(w) = {child, current}
    BY <2>1 DEF w
  <2>5. /\ ready_queue \o w \in Seq(Pid) /\ IsInjective(ready_queue \o w)
        /\ Range(ready_queue \o w) = Range(ready_queue) \cup {child, current}
    BY <2>2, <2>3, <2>4, ConcatMembers
  <2> QED BY <2>5 DEF w
<1>5. /\ \A p \in Pid : p \in Range(q) <=> st[p] = "Ready"
      /\ \A p \in Pid : st[p] # "Running"
      /\ st[KERNEL_PID] = "Ready"
  BY Zenon, <1>1, <1>3, <1>4 DEF IInv, ReadyQueueExact
<1> HIDE DEF q, st, ctx
<1>6. Dispatched(st, ctx)
  BY Zenon, <1>2, <1>3, <1>4, <1>5, Dispatch
<1>7. /\ \A p \in Pid : call'[p] = IF p = child THEN <<"child", 0>> ELSE
                                   IF p = current THEN <<"pid", child>>
                                   ELSE call[p]
      /\ call' \in [Pid -> Calls]
  <2>1. <<"child", 0>> \in Calls /\ <<"pid", child>> \in Calls
    BY DEF Calls
  <2>2. call \in [Pid -> Calls]
    BY DEF IInv, TypeOK
  <2> QED BY <1>1, <1>2, <2>1, <2>2
<1>8. /\ \A p \in Pid : /\ status'[p] = "Absent" <=>
                              status[p] = "Absent" /\ p # child
                        /\ status'[p] = "Blocked" <=> status[p] = "Blocked"
                        /\ status'[p] = "Dead" <=> status[p] = "Dead"
      /\ \A p \in Pid : Returned(p)' <=> p = child \/ Returned(p)
      /\ \A p \in Pid : Value(p)' = IF p = child THEN 0 ELSE
                                    IF p = current THEN child ELSE Value(p)
  <2>1. \A p \in Pid : /\ status'[p] = "Absent" <=>
                             status[p] = "Absent" /\ p # child
                       /\ status'[p] = "Blocked" <=> status[p] = "Blocked"
                       /\ status'[p] = "Dead" <=> status[p] = "Dead"
    BY Zenon, <1>1, <1>3, <1>6 DEF Dispatched
  <2>2. \A p \in Pid : st[p] = "Ready" <=> p = child \/ Returned(p)
    BY <1>1, <1>3 DEF Returned, IInv, ReadyQueueExact
  <2>3. \A p \in Pid : Returned(p)' <=> p = child \/ Returned(p)
    BY <1>6, <2>2 DEF Dispatched
  <2>4. \A p \in Pid : Value(p)' = IF p = child THEN 0 ELSE
                                   IF p = current THEN child ELSE Value(p)
    BY <1>3, <1>6 DEF Dispatched
  <2> QED BY <2>1, <2>3, <2>4
<1>9. TypeOK' /\ ReadyQueueExact' /\ KernelRunnable' /\ SwitchTotal'
  BY Zenon, <1>1, <1>2, <1>6, <1>7
  DEF IInv, TypeOK, SwitchTotal, Dispatched, semVars, mainVars
<1>10. BlockedHasOneWaker'
  BY <1>2, <1>8
  DEF IInv, BlockedHasOneWaker, Parked, AwaitsExit, AwaitsSignal, semVars
<1>11. NoUnitWhileWaiting'
  <2>1. ASSUME NEW s \in SemId, NEW i \in 1 .. Len(wait_queue[s])
        PROVE  /\ wait_queue[s][i] \in Pid /\ wait_queue[s][i] # child
    <3>1. wait_queue[s] \in Seq(Pid)
      BY DEF IInv, TypeOK
    <3>2. wait_queue[s][i] \in Pid /\ wait_queue[s][i] \in Range(wait_queue[s])
      BY <3>1, QueueBasics
    <3> QED BY <1>1, <3>2 DEF IInv, BlockedHasOneWaker, Parked, AwaitsSignal
  <2> QED BY Zenon, <1>1, <1>2, <2>1 DEF IInv, TypeOK, NoUnitWhileWaiting, semVars
<1>12. NoWaiterOnDead' /\ DeadHasCode'
  BY <1>2, <1>8 DEF IInv, NoWaiterOnDead, DeadHasCode, still_alive, Exists
<1>13. PidsInOrder'
  <2>1. \A p \in Pid : p \in Nat
    BY DEF Pid
  <2> QED BY <1>1, <1>2, <1>8, <2>1 DEF IInv, PidsInOrder
<1>14. CallTracked'
  <2>1. \A p, r \in Pid : AwaitsExit(p, r) => status[p] = "Blocked"
    BY DEF IInv, BlockedHasOneWaker, Parked
  <2>2. \A p, r \in Pid : AwaitsExit(p, r)' <=> AwaitsExit(p, r)
    BY <1>2 DEF AwaitsExit
  <2> QED BY <1>1, <1>7, <1>8, <2>1, <2>2 DEF IInv, CallTracked, WaiterCall, BlockedCall,
        AbsentCall, PidCall
<1>15. WaitReturnsExitCode'
  BY <1>1, <1>2, <1>7, <1>8 DEF IInv, WaitReturnsExitCode
<1>16. CreateReturnsPid'
  <2> SUFFICES ASSUME NEW p \in Pid, Returned(p)'
               PROVE  /\ call'[p][1] = "pid" =>
                           Value(p)' = call'[p][2] /\ Exists(call[p][2])'
                      /\ call'[p][1] = "child" => Value(p)' = 0
    BY DEF CreateReturnsPid
  <2>1. CASE p = child
    BY <2>1, <1>7, <1>8
  <2>2. CASE p = current
    BY <2>2, <1>1, <1>7, <1>8 DEF Exists
  <2>3. CASE p \notin {child, current}
    BY <2>3, <1>7, <1>8 DEF IInv, CreateReturnsPid, CallTracked, PidCall, Exists
  <2> QED BY <2>1, <2>2, <2>3
<1> QED BY <1>9, <1>10, <1>11, <1>12, <1>13, <1>14, <1>15, <1>16 DEF IInv

(* The running process gives up the processor and blocks; the others keep  *)
(* their status and their registers.                                       *)
Yielded ==
  /\ status' \in [Pid -> Status] /\ context' \in [Pid -> Int]
  /\ ready_queue' \in Seq(Pid) /\ current' \in Pid /\ rax' \in Int
  /\ halted' = halted
  /\ ReadyQueueExact'
  /\ KernelRunnable'
  /\ \A p \in Pid : status'[p] = "Blocked" <=> status[p] = "Blocked" \/ p = current
  /\ \A p \in Pid : status'[p] = "Absent" <=> status[p] = "Absent"
  /\ \A p \in Pid : status'[p] = "Dead" <=> status[p] = "Dead"
  /\ \A p \in Pid : Returned(p)' <=> Returned(p) /\ p # current
  /\ \A p \in Pid \ {current} : Value(p)' = Value(p)

(* Blocking always finds another process to resume: the kernel process is  *)
(* in the queue.                                                           *)
LEMMA BlockYields ==
  ASSUME ProcessManagerAssumption, IInv, InUser, NEW r \in Int,
         switch_next(ready_queue, [SavedStatus EXCEPT ![current] = "Blocked"],
                     SavedContext(r))
  PROVE  Yielded
<1> DEFINE st == [SavedStatus EXCEPT ![current] = "Blocked"]
           ctx == SavedContext(r)
<1>1. /\ current \in Pid /\ status[current] = "Running"
      /\ status[KERNEL_PID] = "Ready" /\ KERNEL_PID \in Pid
      /\ current # KERNEL_PID
  BY DEF IInv, TypeOK, ReadyQueueExact, KernelRunnable, InUser, KERNEL_PID, Pid,
         ProcessManagerAssumption
<1>2. /\ st \in [Pid -> Status] /\ ctx \in [Pid -> Int]
      /\ \A p \in Pid : st[p] = IF p = current THEN "Blocked" ELSE status[p]
      /\ \A p \in Pid \ {current} : ctx[p] = Value(p)
  BY <1>1 DEF IInv, TypeOK, SavedStatus, SavedContext, Status, Value
<1>3. /\ ready_queue \in Seq(Pid) /\ IsInjective(ready_queue)
      /\ \A p \in Pid : p \in Range(ready_queue) <=> st[p] = "Ready"
      /\ \A p \in Pid : st[p] # "Running"
      /\ st[KERNEL_PID] = "Ready"
  BY <1>1, <1>2 DEF IInv, TypeOK, ReadyQueueExact
<1>4. switch_next(ready_queue, st, ctx)
  OBVIOUS
<1> HIDE DEF st, ctx
<1>5. Dispatched(st, ctx)
  BY <1>2, <1>3, <1>4, Dispatch
<1>6. \A p \in Pid : st[p] = "Ready" <=> Returned(p) /\ p # current
  BY <1>1, <1>2 DEF Returned, IInv, ReadyQueueExact
<1> QED BY <1>1, <1>2, <1>5, <1>6 DEF Dispatched, Yielded

(* wait_pid: the caller joins the waiters of a live process, or reads the  *)
(* exit code of a dead one.                                                *)
LEMMA WaitPidInv ==
  ASSUME ProcessManagerAssumption, IInv, NEW pid \in Pid \cup {0},
         sys_wait_pid(pid)
  PROVE  IInv'
<1>1. /\ InUser /\ current \in Pid /\ status[current] = "Running"
      /\ waiting_processes \in [Pid -> SUBSET Pid]
      /\ call \in [Pid -> Calls]
  BY DEF IInv, TypeOK, ReadyQueueExact, sys_wait_pid
<1>2. ASSUME pid \in Pid PROVE <<"wait", pid>> \in Calls
  BY <1>2 DEF Calls, Pid
<1>3. CASE still_alive(pid)
  <2>1. /\ pid \in Pid /\ status[pid] \notin {"Absent", "Dead"}
        /\ waiting_processes' = [waiting_processes EXCEPT ![pid] = @ \cup {current}]
        /\ call' = [call EXCEPT ![current] = <<"wait", pid>>]
        /\ UNCHANGED <<counter, exit_code, family, semVars, mainVars>>
    BY <1>3 DEF sys_wait_pid, still_alive, Exists
  <2>2. Yielded
    <3>1. SYS_WAITPID \in Int
      BY DEF SYS_WAITPID
    <3> QED BY Zenon, <1>1, <1>3, <3>1, BlockYields DEF sys_wait_pid
  <2>3. /\ \A p, q \in Pid : AwaitsExit(p, q)' <=>
                               AwaitsExit(p, q) \/ (p = current /\ q = pid)
        /\ \A p \in Pid, s \in SemId : AwaitsSignal(p, s)' <=> AwaitsSignal(p, s)
    <3>1. \A p, q \in Pid : AwaitsExit(p, q)' <=>
                               AwaitsExit(p, q) \/ (p = current /\ q = pid)
      BY <1>1, <2>1 DEF AwaitsExit
    <3>2. \A p \in Pid, s \in SemId : AwaitsSignal(p, s)' <=> AwaitsSignal(p, s)
      BY <2>1 DEF AwaitsSignal, semVars
    <3> QED BY <3>1, <3>2
  <2>4. /\ \A p \in Pid : call'[p] = IF p = current THEN <<"wait", pid>> ELSE call[p]
        /\ call' \in [Pid -> Calls]
    BY Zenon, <1>1, <1>2, <2>1
  <2>5. TypeOK' /\ ReadyQueueExact' /\ KernelRunnable' /\ SwitchTotal'
    BY <1>1, <2>1, <2>2, <2>4
    DEF IInv, TypeOK, SwitchTotal, Yielded, semVars, mainVars
  <2>6. BlockedHasOneWaker'
    <3>1. /\ \A q \in Pid : ~AwaitsExit(current, q)
          /\ \A s \in SemId : ~AwaitsSignal(current, s)
          /\ current \notin orphans
      BY <1>1 DEF IInv, BlockedHasOneWaker, Parked
    <3>2. UNCHANGED <<orphans, wait_queue>>
      BY <2>1 DEF semVars
    <3>3. \A p \in Pid : status'[p] = "Blocked" <=> Parked(p)'
      BY Zenon, <1>1, <2>1, <2>2, <2>3, <3>2
      DEF IInv, BlockedHasOneWaker, Parked, Yielded
    <3>4. /\ \A p, q, r \in Pid : AwaitsExit(p, q)' /\ AwaitsExit(p, r)' => q = r
          /\ \A p, q \in Pid, s \in SemId :
               ~(AwaitsExit(p, q)' /\ AwaitsSignal(p, s)')
      BY <2>3, <3>1 DEF IInv, BlockedHasOneWaker, Parked
    <3>5. /\ \A p \in Pid, s, t \in SemId :
               AwaitsSignal(p, s)' /\ AwaitsSignal(p, t)' => s = t
          /\ \A s \in SemId : IsInjective(wait_queue'[s])
      BY <2>3, <3>2 DEF IInv, BlockedHasOneWaker, Parked
    <3>6. \A p \in orphans' : /\ \A q \in Pid : ~AwaitsExit(p, q)'
                              /\ \A s \in SemId : ~AwaitsSignal(p, s)'
      BY <2>3, <3>1, <3>2 DEF IInv, TypeOK, BlockedHasOneWaker
    <3> QED BY <3>3, <3>4, <3>5, <3>6 DEF BlockedHasOneWaker
  <2>7. NoUnitWhileWaiting'
    BY <2>1 DEF IInv, NoUnitWhileWaiting, semVars
  <2>8. NoWaiterOnDead'
    BY <1>1, <2>1, <2>2 DEF IInv, NoWaiterOnDead, still_alive, Exists, Yielded
  <2>9. PidsInOrder' /\ DeadHasCode'
    BY <2>1, <2>2 DEF IInv, PidsInOrder, DeadHasCode, Yielded
  <2>10. CallTracked'
    <3>1. \A p, q \in Pid : AwaitsExit(p, q) => p # current
      BY <1>1 DEF IInv, BlockedHasOneWaker, Parked
    <3>2. WaiterCall /\ BlockedCall /\ AbsentCall /\ PidCall
      BY DEF IInv, CallTracked
    <3>3. WaiterCall'
      BY <2>3, <2>4, <3>1, <3>2 DEF WaiterCall
    <3>4. BlockedCall'
      <4> SUFFICES ASSUME NEW p \in Pid, status'[p] = "Blocked"
                   PROVE  \/ call'[p] = NoCall
                          \/ \E q \in Pid : AwaitsExit(p, q)' /\ call'[p] = <<"wait", q>>
        BY DEF BlockedCall, NoCall
      <4>1. CASE p = current
        <5>1. AwaitsExit(p, pid)' /\ call'[p] = <<"wait", pid>>
          BY <2>1, <2>3, <2>4, <4>1
        <5> QED BY <2>1, <5>1
      <4>2. CASE p # current
        <5>1. status[p] = "Blocked" /\ call'[p] = call[p]
          BY <2>2, <2>4, <4>2 DEF Yielded
        <5>2. \A q \in Pid : AwaitsExit(p, q) => AwaitsExit(p, q)'
          BY <2>3
        <5> QED BY Zenon, <3>2, <5>1, <5>2 DEF BlockedCall
      <4> QED BY <4>1, <4>2
    <3>5. \A p \in Pid : status'[p] = "Absent" => status[p] = "Absent" /\ p # current
      BY <1>1, <2>2 DEF Yielded
    <3>6. AbsentCall'
      BY <2>4, <3>2, <3>5 DEF AbsentCall, NoCall
    <3>7. PidCall'
      BY <2>4, <3>2 DEF PidCall
    <3> QED BY <3>3, <3>4, <3>6, <3>7 DEF CallTracked
  <2>11. WaitReturnsExitCode'
    BY <2>1, <2>2, <2>4 DEF IInv, WaitReturnsExitCode, Yielded
  <2>12. CreateReturnsPid'
    BY <2>1, <2>2, <2>4 DEF IInv, CreateReturnsPid, Exists, Yielded
  <2> QED BY Zenon, <2>5, <2>6, <2>7, <2>8, <2>9, <2>10, <2>11, <2>12 DEF IInv
<1>4. CASE ~still_alive(pid) /\ Exists(pid)
  <2>1. /\ pid \in Pid /\ status[pid] = "Dead" /\ exit_code[pid] \in Int
        /\ rax' = exit_code[pid]
        /\ call' = [call EXCEPT ![current] = <<"wait", pid>>]
        /\ UNCHANGED <<procVars, ready_queue, current, halted, semVars,
                       mainVars, waiting_processes>>
    BY Zenon, <1>4 DEF sys_wait_pid, still_alive, Exists, IInv, DeadHasCode,
                ProcessManagerAssumption
  <2>2. /\ \A p \in Pid : call'[p] = IF p = current THEN <<"wait", pid>> ELSE call[p]
        /\ call' \in [Pid -> Calls]
    BY Zenon, <1>1, <1>2, <2>1
  <2>3. TypeOK' /\ ReadyQueueExact' /\ KernelRunnable' /\ SwitchTotal'
    BY ZenonT(30), <2>1, <2>2
    DEF IInv, TypeOK, ReadyQueueExact, KernelRunnable, SwitchTotal, procVars,
        semVars, mainVars
  <2>4. BlockedHasOneWaker' /\ NoUnitWhileWaiting' /\ NoWaiterOnDead'
    BY <2>1
    DEF IInv, BlockedHasOneWaker, Parked, AwaitsExit, AwaitsSignal, NoWaiterOnDead,
        NoUnitWhileWaiting, still_alive, Exists, procVars, semVars
  <2>5. PidsInOrder' /\ DeadHasCode'
    BY <2>1 DEF IInv, PidsInOrder, DeadHasCode, procVars
  <2>6. CallTracked'
    <3>1. \A p, q \in Pid : AwaitsExit(p, q) => p # current
      BY <1>1 DEF IInv, BlockedHasOneWaker, Parked
    <3>2. \A p, q \in Pid : AwaitsExit(p, q)' <=> AwaitsExit(p, q)
      BY <2>1 DEF AwaitsExit
    <3>3. WaiterCall /\ BlockedCall /\ AbsentCall /\ PidCall /\ status' = status
      BY <2>1 DEF IInv, CallTracked, procVars
    <3>4. WaiterCall' /\ PidCall'
      BY <2>2, <3>1, <3>2, <3>3 DEF WaiterCall, PidCall
    <3>5. BlockedCall'
      BY <1>1, <2>2, <3>2, <3>3 DEF BlockedCall, NoCall
    <3>6. AbsentCall'
      BY <1>1, <2>2, <3>3 DEF AbsentCall, NoCall
    <3> QED BY Zenon, <3>4, <3>5, <3>6 DEF CallTracked
  <2>7. WaitReturnsExitCode' /\ CreateReturnsPid'
    <3>1. /\ \A p \in Pid : Returned(p)' <=> Returned(p)
          /\ \A p \in Pid : p # current => Value(p)' = Value(p)
          /\ \A p \in Pid : p = current => Value(p)' = exit_code[pid]
          /\ \A p \in Pid : Exists(p)' <=> Exists(p)
          /\ status' = status /\ exit_code' = exit_code
      BY <1>1, <2>1 DEF Value, Returned, Exists, procVars
    <3>2. WaitReturnsExitCode'
      BY ZenonT(30), <2>1, <2>2, <3>1 DEF IInv, WaitReturnsExitCode
    <3>3. CreateReturnsPid'
      BY <2>1, <2>2, <3>1 DEF IInv, CreateReturnsPid, CallTracked, PidCall
    <3> QED BY <3>2, <3>3
  <2> QED BY <2>3, <2>4, <2>5, <2>6, <2>7 DEF IInv
<1>5. CASE ~Exists(pid)
  BY <1>5, HaltInv DEF sys_wait_pid, still_alive, panic
<1> QED BY <1>3, <1>4, <1>5 DEF still_alive

-----------------------------------------------------------------------------
(* The system calls on semaphores preserve the inductive invariant.        *)

(* A semaphore call that returns at once changes nothing but rax and the   *)
(* semaphores.                                                             *)
LEMMA SemReturnInv ==
  ASSUME IInv, rax' \in Int, call' = [call EXCEPT ![current] = NoCall],
         UNCHANGED <<procVars, ready_queue, current, halted, mainVars,
                     waiting_processes>>,
         sems' \subseteq SemId, count' \in [SemId -> Nat],
         wait_queue' \in [SemId -> Seq(Pid)], orphans' \subseteq Pid,
         BlockedHasOneWaker', NoUnitWhileWaiting'
  PROVE  IInv'
<1>1. /\ call \in [Pid -> Calls] /\ NoCall \in Calls
      /\ current \in Pid /\ status[current] = "Running"
  BY DEF IInv, TypeOK, Calls, NoCall, ReadyQueueExact
<1>2. /\ \A p \in Pid : call'[p] = IF p = current THEN NoCall ELSE call[p]
      /\ call' \in [Pid -> Calls]
  BY <1>1
<1>3. TypeOK'
  BY Zenon, <1>2 DEF IInv, TypeOK, procVars, mainVars
<1>4. ReadyQueueExact' /\ KernelRunnable' /\ SwitchTotal' /\ PidsInOrder'
      /\ DeadHasCode' /\ NoWaiterOnDead'
  BY Zenon DEF IInv, ReadyQueueExact, KernelRunnable, SwitchTotal, PidsInOrder,
         DeadHasCode, NoWaiterOnDead, still_alive, Exists, procVars
<1>5. CallTracked'
  <2>1. \A p, q \in Pid : AwaitsExit(p, q) => p # current
    BY <1>1 DEF IInv, BlockedHasOneWaker, Parked
  <2>2. \A p, q \in Pid : AwaitsExit(p, q)' <=> AwaitsExit(p, q)
    BY Zenon DEF AwaitsExit
  <2>3. status' = status /\ WaiterCall /\ BlockedCall /\ AbsentCall /\ PidCall
    BY Zenon DEF IInv, CallTracked, procVars
  <2>4. WaiterCall' /\ BlockedCall'
    BY Zenon, <1>2, <2>1, <2>2, <2>3 DEF WaiterCall, BlockedCall
  <2>5. AbsentCall' /\ PidCall'
    BY ZenonT(30), <1>2, <2>3, NoCallNoPid DEF AbsentCall, PidCall
  <2> QED BY ZenonT(30), <2>4, <2>5 DEF CallTracked
<1>6. WaitReturnsExitCode' /\ CreateReturnsPid'
  BY <1>2
  DEF IInv, WaitReturnsExitCode, CreateReturnsPid, Value, Returned, Exists,
      NoCall, procVars
<1> QED BY Zenon, <1>3, <1>4, <1>5, <1>6 DEF IInv

(* The semaphore a call names. *)
LEMMA SemInSemId ==
  ASSUME IInv, NEW key \in Keys
  PROVE  Sem(key) \in SemId
BY DEF IInv, TypeOK, Sem, SemId

(* new_sem and remove_sem: the semaphore s starts afresh, and who waited   *)
(* on it is an orphan.                                                     *)
LEMMA SemResetInv ==
  ASSUME IInv, NEW s \in SemId, NEW value \in Nat, rax' \in Int,
         call' = [call EXCEPT ![current] = NoCall],
         UNCHANGED <<procVars, ready_queue, current, halted, mainVars,
                     waiting_processes>>,
         sems' = sems \cup {s} \/ sems' = sems \ {s},
         count' = [count EXCEPT ![s] = value],
         wait_queue' = [wait_queue EXCEPT ![s] = <<>>],
         orphans' = orphans \cup Range(wait_queue[s])
  PROVE  IInv'
<1>1. /\ wait_queue \in [SemId -> Seq(Pid)] /\ orphans \subseteq Pid
      /\ Range(wait_queue[s]) \subseteq Pid
  BY QueueBasics DEF IInv, TypeOK
<1>2. /\ \A t \in SemId : wait_queue'[t] = IF t = s THEN <<>> ELSE wait_queue[t]
      /\ Range(<<>>) = {} /\ IsInjective(<<>>) /\ Len(<<>>) = 0
      /\ <<>> \in Seq(Pid)
  BY <1>1, EmptyQueue
<1>3. /\ sems' \subseteq SemId /\ count' \in [SemId -> Nat]
      /\ wait_queue' \in [SemId -> Seq(Pid)] /\ orphans' \subseteq Pid
      /\ \A t \in SemId \ {s} : count'[t] = count[t] /\ (t \in sems' <=> t \in sems)
  BY <1>1, <1>2 DEF IInv, TypeOK
<1>4. BlockedHasOneWaker'
  <2>1. \A p, q \in Pid : AwaitsExit(p, q)' <=> AwaitsExit(p, q)
    BY DEF AwaitsExit
  <2>2. \A p \in Pid, t \in SemId :
          AwaitsSignal(p, t)' <=> AwaitsSignal(p, t) /\ t # s
    BY <1>2 DEF AwaitsSignal
  <2>3. \A p \in Pid : p \in orphans' <=> p \in orphans \/ AwaitsSignal(p, s)
    BY DEF AwaitsSignal
  <2>4. \A p \in Pid : status'[p] = "Blocked" <=> Parked(p)'
    BY <2>1, <2>2, <2>3 DEF IInv, BlockedHasOneWaker, Parked, procVars
  <2>5. /\ \A p, q, r \in Pid : AwaitsExit(p, q)' /\ AwaitsExit(p, r)' => q = r
        /\ \A p, q \in Pid, t \in SemId :
             ~(AwaitsExit(p, q)' /\ AwaitsSignal(p, t)')
        /\ \A p \in Pid, t, u \in SemId :
             AwaitsSignal(p, t)' /\ AwaitsSignal(p, u)' => t = u
    BY <2>1, <2>2 DEF IInv, BlockedHasOneWaker
  <2>6. \A t \in SemId : IsInjective(wait_queue'[t])
    BY <1>2 DEF IInv, BlockedHasOneWaker
  <2>7. \A p \in orphans' : /\ \A q \in Pid : ~AwaitsExit(p, q)'
                            /\ \A t \in SemId : ~AwaitsSignal(p, t)'
    BY Zenon, <1>3, <2>1, <2>2, <2>3 DEF IInv, BlockedHasOneWaker
  <2> QED BY Zenon, <2>4, <2>5, <2>6, <2>7 DEF BlockedHasOneWaker
<1>5. NoUnitWhileWaiting'
  <2> SUFFICES ASSUME NEW t \in SemId, NEW i \in 1 .. Len(wait_queue'[t])
               PROVE  t \in sems' /\ count'[t] = 0 /\ family'[wait_queue'[t][i]] = t[1]
    BY Zenon DEF NoUnitWhileWaiting
  <2>1. t # s
    <3>1. \A n : n \in 1 .. 0 => FALSE
      OBVIOUS
    <3> QED BY Zenon, <1>2, <3>1
  <2>2. wait_queue'[t] = wait_queue[t] /\ count'[t] = count[t] /\ (t \in sems' <=> t \in sems)
    BY Zenon, <1>2, <1>3, <2>1
  <2>3. family' = family
    BY Zenon DEF procVars
  <2> QED BY Zenon, <2>2, <2>3 DEF IInv, NoUnitWhileWaiting
<1> QED BY Zenon, <1>3, <1>4, <1>5, SemReturnInv

(* A semaphore nobody waits on may change its count. *)
LEMMA SemCountInv ==
  ASSUME IInv, rax' \in Int, call' = [call EXCEPT ![current] = NoCall],
         UNCHANGED <<procVars, ready_queue, current, halted, mainVars,
                     waiting_processes, sems, wait_queue, orphans>>,
         count' \in [SemId -> Nat],
         \A s \in SemId : count'[s] = count[s] \/ wait_queue[s] = <<>>
  PROVE  IInv'
<1>1. BlockedHasOneWaker'
  BY Zenon DEF IInv, BlockedHasOneWaker, Parked, AwaitsExit, AwaitsSignal, procVars
<1>2. NoUnitWhileWaiting'
  <2>1. Len(<<>>) = 0
    BY EmptyQueue
  <2> QED BY <2>1 DEF IInv, NoUnitWhileWaiting, procVars
<1> QED BY Zenon, <1>1, <1>2, SemReturnInv DEF IInv, TypeOK

(* Semaphore::signal with a waiter: the first one leaves the semaphore and *)
(* joins the ready queue in the same step.                                 *)
LEMMA SignalWakeInv ==
  ASSUME IInv, NEW s \in SemId, wait_queue[s] # <<>>, SignalWake(s),
         call' = [call EXCEPT ![current] = NoCall],
         UNCHANGED <<counter, exit_code, context, family, current, halted,
                     sems, orphans, mainVars, waiting_processes>>
  PROVE  IInv'
<1>1. /\ status' = [status EXCEPT ![Head(wait_queue[s])] = "Ready"]
      /\ ready_queue' = Append(ready_queue, Head(wait_queue[s]))
      /\ wait_queue' = [wait_queue EXCEPT ![s] = Tail(wait_queue[s])]
      /\ rax' \in Int /\ count' = count
  BY DEF SignalWake, SYS_SEM
<1>2. PICK h \in Pid : h = Head(wait_queue[s])
  BY Zenon, TailMembers DEF IInv, TypeOK
<1>3. /\ wait_queue[s] \in Seq(Pid) /\ Tail(wait_queue[s]) \in Seq(Pid)
      /\ IsInjective(Tail(wait_queue[s]))
      /\ Range(wait_queue[s]) = Range(Tail(wait_queue[s])) \cup {h}
      /\ h \notin Range(Tail(wait_queue[s]))
  BY SMTT(30), <1>2, TailMembers DEF IInv, TypeOK, BlockedHasOneWaker
<1>4. /\ status[h] = "Blocked" /\ AwaitsSignal(h, s)
      /\ current \in Pid /\ status[current] = "Running" /\ h # current
  BY <1>2, <1>3
  DEF IInv, TypeOK, BlockedHasOneWaker, Parked, AwaitsSignal, ReadyQueueExact
<1>5. /\ status' \in [Pid -> Status]
      /\ \A p \in Pid : status'[p] = IF p = h THEN "Ready" ELSE status[p]
  BY Zenon, <1>1, <1>2 DEF IInv, TypeOK, Status
<1>6. /\ ready_queue' \in Seq(Pid) /\ IsInjective(ready_queue')
      /\ Range(ready_queue') = Range(ready_queue) \cup {h}
  BY <1>1, <1>2, <1>4, AppendMembers DEF IInv, TypeOK, ReadyQueueExact
<1>7. /\ wait_queue' \in [SemId -> Seq(Pid)]
      /\ \A t \in SemId : wait_queue'[t] = IF t = s THEN Tail(wait_queue[s])
                                           ELSE wait_queue[t]
  BY Zenon, <1>1, <1>3 DEF IInv, TypeOK
<1>8. /\ call' \in [Pid -> Calls]
      /\ \A p \in Pid : call'[p] = IF p = current THEN NoCall ELSE call[p]
  BY Zenon, <1>4 DEF IInv, TypeOK, Calls, NoCall
<1>9. TypeOK'
  BY Zenon, <1>1, <1>5, <1>6, <1>7, <1>8 DEF IInv, TypeOK, mainVars
<1>10. ReadyQueueExact' /\ KernelRunnable' /\ SwitchTotal'
  <2>1. ReadyQueueExact'
    BY Zenon, <1>4, <1>5, <1>6 DEF IInv, ReadyQueueExact
  <2>2. KernelRunnable' /\ SwitchTotal'
    BY SMTT(30), <1>1, <1>2 DEF IInv, TypeOK, KernelRunnable, SwitchTotal
  <2> QED BY Zenon, <2>1, <2>2
<1>11. BlockedHasOneWaker'
  <2>1. \A p, q \in Pid : AwaitsExit(p, q)' <=> AwaitsExit(p, q)
    BY SMTT(30) DEF AwaitsExit
  <2>2. \A p \in Pid, t \in SemId :
          AwaitsSignal(p, t)' <=> AwaitsSignal(p, t) /\ ~(t = s /\ p = h)
    BY ZenonT(30), <1>3, <1>7 DEF AwaitsSignal
  <2>3. \A p \in Pid : status'[p] = "Blocked" <=> Parked(p)'
    <3>1. /\ \A q \in Pid : ~AwaitsExit(h, q)
          /\ \A t \in SemId : AwaitsSignal(h, t) => t = s
          /\ h \notin orphans
      BY Zenon, <1>4 DEF IInv, BlockedHasOneWaker
    <3>2. status'[h] # "Blocked" /\ ~Parked(h)'
      BY Zenon, <1>2, <1>5, <2>1, <2>2, <3>1 DEF Parked
    <3>3. \A p \in Pid \ {h} : Parked(p)' <=> Parked(p)
      BY Zenon, <2>1, <2>2 DEF Parked
    <3> QED BY Zenon, <1>5, <3>2, <3>3 DEF IInv, BlockedHasOneWaker
  <2>4. /\ \A p, q, r \in Pid : AwaitsExit(p, q)' /\ AwaitsExit(p, r)' => q = r
        /\ \A p, q \in Pid, t \in SemId :
             ~(AwaitsExit(p, q)' /\ AwaitsSignal(p, t)')
        /\ \A p \in Pid, t, u \in SemId :
             AwaitsSignal(p, t)' /\ AwaitsSignal(p, u)' => t = u
    BY ZenonT(30), <2>1, <2>2 DEF IInv, BlockedHasOneWaker
  <2>5. \A t \in SemId : IsInjective(wait_queue'[t])
    BY ZenonT(30), <1>3, <1>7 DEF IInv, BlockedHasOneWaker
  <2>6. \A p \in orphans' : /\ \A q \in Pid : ~AwaitsExit(p, q)'
                            /\ \A t \in SemId : ~AwaitsSignal(p, t)'
    BY Zenon, <2>1, <2>2 DEF IInv, TypeOK, BlockedHasOneWaker
  <2> QED BY Zenon, <2>3, <2>4, <2>5, <2>6 DEF BlockedHasOneWaker
<1>12. NoUnitWhileWaiting'
  <2>1. ASSUME NEW i \in 1 .. Len(Tail(wait_queue[s]))
        PROVE  /\ i + 1 \in 1 .. Len(wait_queue[s])
               /\ Tail(wait_queue[s])[i] = wait_queue[s][i + 1]
    <3> DEFINE q == wait_queue[s]
    <3>1. /\ Len(q) \in Nat /\ Len(Tail(q)) = Len(q) - 1
          /\ \A j \in 1 .. Len(q) - 1 : Tail(q)[j] = q[j + 1]
      BY Zenon, <1>3, TailMembers, QueueBasics
    <3> HIDE DEF q
    <3>2. i \in 1 .. Len(q) - 1
      BY <2>1, <3>1 DEF q
    <3>3. i + 1 \in 1 .. Len(q)
      BY ONLY <3>1, <3>2
    <3> QED BY Zenon, <3>1, <3>2, <3>3 DEF q
  <2> SUFFICES ASSUME NEW t \in SemId, NEW i \in 1 .. Len(wait_queue'[t])
               PROVE  /\ t \in sems /\ count[t] = 0
                      /\ family[wait_queue'[t][i]] = t[1]
    BY Zenon, <1>1 DEF NoUnitWhileWaiting
  <2>2. CASE t # s
    BY Zenon, <1>7, <2>2 DEF IInv, NoUnitWhileWaiting
  <2>3. CASE t = s
    <3>1. wait_queue'[t] = Tail(wait_queue[s])
      BY Zenon, <1>7, <2>3
    <3>2. i + 1 \in 1 .. Len(wait_queue[s]) /\ wait_queue'[t][i] = wait_queue[s][i + 1]
      BY <2>1, <3>1
    <3> QED BY Zenon, <2>3, <3>2 DEF IInv, NoUnitWhileWaiting
  <2> QED BY Zenon, <2>2, <2>3
<1>13. NoWaiterOnDead' /\ DeadHasCode' /\ PidsInOrder'
  <2>1. \A p \in Pid : /\ status'[p] = "Absent" <=> status[p] = "Absent"
                       /\ status'[p] = "Dead" <=> status[p] = "Dead"
    BY <1>4, <1>5
  <2>2. DeadHasCode' /\ PidsInOrder'
    BY <2>1 DEF IInv, DeadHasCode, PidsInOrder
  <2>3. NoWaiterOnDead'
    BY ZenonT(30), <2>1 DEF IInv, NoWaiterOnDead, still_alive, Exists
  <2> QED BY Zenon, <2>2, <2>3
<1>14. CallTracked'
  <2>1. \A p, q \in Pid : AwaitsExit(p, q) => p # current
    BY Zenon, <1>4 DEF IInv, BlockedHasOneWaker, Parked
  <2>2. \A p, q \in Pid : AwaitsExit(p, q)' <=> AwaitsExit(p, q)
    BY DEF AwaitsExit
  <2> QED BY SMTT(30), <1>4, <1>5, <1>8, <2>1, <2>2 DEF IInv, CallTracked, WaiterCall, BlockedCall,
        AbsentCall, PidCall, NoCall
<1>15. WaitReturnsExitCode' /\ CreateReturnsPid'
  <2>1. \A q \in Pid : ~AwaitsExit(h, q)
    BY Zenon, <1>4 DEF IInv, BlockedHasOneWaker
  <2>2. call'[h] = NoCall
    BY Zenon, <1>4, <1>8, <2>1 DEF IInv, CallTracked, BlockedCall
  <2>3. \A p \in Pid : p # current => Value(p)' = Value(p)
    BY Zenon DEF Value
  <2>4. \A p \in Pid : p # h => (Returned(p)' <=> Returned(p))
    BY Zenon, <1>5 DEF Returned
  <2>5. \A p \in Pid : status'[p] = "Dead" <=> status[p] = "Dead"
    BY Zenon, <1>4, <1>5
  <2>6. WaitReturnsExitCode'
    <3>1. WaitReturnsExitCode
      BY ZenonT(30) DEF IInv
    <3> QED BY <1>8, <2>2, <2>3, <2>4, <2>5, <3>1 DEF WaitReturnsExitCode, NoCall
  <2>7. CreateReturnsPid'
    <3>1. CreateReturnsPid
      BY Zenon DEF IInv
    <3> QED BY SMTT(30), <1>4, <1>5, <1>8, <2>2, <2>3, <2>4, <3>1 DEF CreateReturnsPid, NoCall, Exists
  <2> QED BY Zenon, <2>6, <2>7
<1> QED BY Zenon, <1>9, <1>10, <1>11, <1>12, <1>13, <1>14, <1>15 DEF IInv

(* sys_sem_signal keeps the invariant, whatever it finds.                  *)
LEMMA SignalInv ==
  ASSUME IInv, NEW key \in Keys, sys_sem_signal(key)
  PROVE  IInv'
<1>1. PICK s \in SemId : s = Sem(key)
  BY Zenon, SemInSemId
<1>2. CASE s \notin sems
  <2>1. SignalNotExist
    BY SMTT(30), <1>1, <1>2 DEF sys_sem_signal
  <2> QED BY <2>1, SemCountInv
          DEF sys_sem_signal, SignalNotExist, IInv, TypeOK, procVars
<1>3. CASE s \in sems /\ wait_queue[s] # <<>>
  <2>1. SignalWake(s)
    BY ZenonT(30), <1>1, <1>3 DEF sys_sem_signal
  <2> QED BY ZenonT(30), <1>3, <2>1, SignalWakeInv DEF sys_sem_signal
<1>4. CASE s \in sems /\ wait_queue[s] = <<>>
  <2>1. SignalCount(s)
    BY <1>1, <1>4 DEF sys_sem_signal
  <2>2. /\ count' \in [SemId -> Nat]
        /\ \A t \in SemId : count'[t] = count[t] \/ wait_queue[t] = <<>>
    BY SMTT(30), <1>4, <2>1 DEF SignalCount, IInv, TypeOK
  <2>3. rax' = 0 /\ status' = status /\ ready_queue' = ready_queue /\ wait_queue' = wait_queue
    BY Zenon, <2>1 DEF SignalCount
  <2>4. /\ call' = [call EXCEPT ![current] = NoCall]
        /\ counter' = counter /\ exit_code' = exit_code /\ context' = context
        /\ family' = family /\ current' = current /\ halted' = halted /\ sems' = sems
        /\ orphans' = orphans /\ mainVars' = mainVars
        /\ waiting_processes' = waiting_processes
    BY Zenon DEF sys_sem_signal
  <2>5. rax' \in Int
    BY <2>3
  <2>6. procVars' = procVars
    BY Zenon, <2>3, <2>4 DEF procVars
  <2>7. UNCHANGED <<procVars, ready_queue, current, halted, mainVars,
                    waiting_processes, sems, wait_queue, orphans>>
    BY Zenon, <2>3, <2>4, <2>6
  <2> QED BY Zenon, <2>2, <2>4, <2>5, <2>7, SemCountInv
<1> QED BY <1>2, <1>3, <1>4

(* Semaphore::wait without a unit: the caller is queued on the semaphore   *)
(* and blocks in the same step.                                            *)
LEMMA WaitBlockInv ==
  ASSUME ProcessManagerAssumption, IInv, InUser, NEW s \in SemId,
         s \in sems, count[s] = 0, s[1] = family[current], WaitBlock(s),
         call' = [call EXCEPT ![current] = NoCall],
         UNCHANGED <<counter, exit_code, family, sems, orphans, mainVars,
                     waiting_processes>>
  PROVE  IInv'
<1>1. /\ current \in Pid /\ status[current] = "Running"
      /\ wait_queue \in [SemId -> Seq(Pid)] /\ count' = count
      /\ wait_queue' = [wait_queue EXCEPT ![s] = Append(wait_queue[s], current)]
  BY SMTT(30) DEF WaitBlock, IInv, TypeOK, ReadyQueueExact
<1>2. PICK me \in Pid : me = current
  BY Zenon, <1>1
<1>3. Yielded
  <2>1. SYS_SEM \in Int
    BY DEF SYS_SEM
  <2> QED BY Zenon, <2>1, BlockYields DEF WaitBlock
<1>4. /\ \A q \in Pid : ~AwaitsExit(me, q)
      /\ \A t \in SemId : ~AwaitsSignal(me, t)
      /\ me \notin orphans
  BY Zenon, <1>1, <1>2 DEF IInv, BlockedHasOneWaker, Parked
<1>5. /\ Append(wait_queue[s], me) \in Seq(Pid)
      /\ Range(Append(wait_queue[s], me)) = Range(wait_queue[s]) \cup {me}
      /\ IsInjective(Append(wait_queue[s], me))
  <2>1. IsInjective(wait_queue[s]) /\ me \notin Range(wait_queue[s])
    BY Zenon, <1>1, <1>4 DEF IInv, BlockedHasOneWaker, AwaitsSignal
  <2> QED BY SMTT(30), <1>1, <2>1, AppendMembers
<1>6. /\ wait_queue' \in [SemId -> Seq(Pid)]
      /\ \A t \in SemId : wait_queue'[t] = IF t = s THEN Append(wait_queue[s], me)
                                           ELSE wait_queue[t]
  BY ZenonT(30), <1>1, <1>2, <1>5
<1>7. /\ call' \in [Pid -> Calls]
      /\ \A p \in Pid : call'[p] = IF p = me THEN NoCall ELSE call[p]
  BY Zenon, <1>1, <1>2 DEF IInv, TypeOK, Calls, NoCall
<1>8. TypeOK' /\ ReadyQueueExact' /\ KernelRunnable' /\ SwitchTotal'
  BY Zenon, <1>1, <1>3, <1>6, <1>7 DEF IInv, TypeOK, SwitchTotal, Yielded, mainVars
<1>9. BlockedHasOneWaker'
  <2>1. \A p, q \in Pid : AwaitsExit(p, q)' <=> AwaitsExit(p, q)
    BY Zenon DEF AwaitsExit
  <2>2. \A p \in Pid, t \in SemId :
          AwaitsSignal(p, t)' <=> AwaitsSignal(p, t) \/ (t = s /\ p = me)
    BY Zenon, <1>5, <1>6 DEF AwaitsSignal
  <2>3. \A p \in Pid : status'[p] = "Blocked" <=> Parked(p)'
    <3>1. \A p \in Pid : Parked(p)' <=> Parked(p) \/ p = me
      BY ZenonT(30), <2>1, <2>2 DEF Parked
    <3> QED BY ZenonT(30), <1>2, <1>3, <3>1 DEF IInv, BlockedHasOneWaker, Yielded
  <2>4. /\ \A p, q, r \in Pid : AwaitsExit(p, q)' /\ AwaitsExit(p, r)' => q = r
        /\ \A p, q \in Pid, t \in SemId :
             ~(AwaitsExit(p, q)' /\ AwaitsSignal(p, t)')
        /\ \A p \in Pid, t, u \in SemId :
             AwaitsSignal(p, t)' /\ AwaitsSignal(p, u)' => t = u
    <3>1. \A p, q, r \in Pid : AwaitsExit(p, q)' /\ AwaitsExit(p, r)' => q = r
      BY ZenonT(30), <2>1 DEF IInv, BlockedHasOneWaker
    <3>2. \A p, q \in Pid, t \in SemId : ~(AwaitsExit(p, q)' /\ AwaitsSignal(p, t)')
      BY ZenonT(30), <1>4, <2>1, <2>2 DEF IInv, BlockedHasOneWaker
    <3>3. \A p \in Pid, t, u \in SemId :
            AwaitsSignal(p, t)' /\ AwaitsSignal(p, u)' => t = u
      <4> SUFFICES ASSUME NEW p \in Pid, NEW t \in SemId, NEW u \in SemId,
                          AwaitsSignal(p, t)', AwaitsSignal(p, u)'
                   PROVE  t = u
        BY Zenon
      <4>1. CASE p = me
        BY Zenon, <1>4, <2>2, <4>1
      <4>2. CASE p # me
        BY Zenon, <2>2, <4>2 DEF IInv, BlockedHasOneWaker
      <4> QED BY Zenon, <4>1, <4>2
    <3> QED BY Zenon, <3>1, <3>2, <3>3
  <2>5. \A t \in SemId : IsInjective(wait_queue'[t])
    BY Zenon, <1>5, <1>6 DEF IInv, BlockedHasOneWaker
  <2>6. \A p \in orphans' : /\ \A q \in Pid : ~AwaitsExit(p, q)'
                            /\ \A t \in SemId : ~AwaitsSignal(p, t)'
    BY SMTT(30), <1>4, <2>1, <2>2 DEF IInv, TypeOK, BlockedHasOneWaker
  <2> QED BY ZenonT(30), <2>3, <2>4, <2>5, <2>6 DEF BlockedHasOneWaker
<1>10. NoUnitWhileWaiting'
  <2> SUFFICES ASSUME NEW t \in SemId, NEW i \in 1 .. Len(wait_queue'[t])
               PROVE  /\ t \in sems /\ count[t] = 0
                      /\ family[wait_queue'[t][i]] = t[1]
    BY Zenon, <1>1 DEF NoUnitWhileWaiting
  <2>1. CASE t # s
    BY Zenon, <2>1, <1>6 DEF IInv, NoUnitWhileWaiting
  <2>2. CASE t = s
    <3>1. /\ Len(wait_queue'[s]) = Len(wait_queue[s]) + 1
          /\ Len(wait_queue[s]) \in Nat
          /\ \A j \in 1 .. Len(wait_queue[s]) :
               wait_queue'[s][j] = wait_queue[s][j]
          /\ wait_queue'[s][Len(wait_queue[s]) + 1] = me
      <4> DEFINE w == wait_queue[s]
      <4>1. w \in Seq(Pid) /\ wait_queue'[s] = Append(w, me)
        BY Zenon, <1>1, <1>6
      <4> HIDE DEF w
      <4>2. /\ Len(Append(w, me)) = Len(w) + 1 /\ Len(w) \in Nat
            /\ \A j \in 1 .. Len(w) : Append(w, me)[j] = w[j]
            /\ Append(w, me)[Len(w) + 1] = me
        BY <4>1, AppendMembers, QueueBasics
      <4> QED BY <4>1, <4>2 DEF w
    <3>2. CASE i <= Len(wait_queue[s])
      BY <2>2, <3>1, <3>2 DEF IInv, NoUnitWhileWaiting
    <3>3. CASE i = Len(wait_queue[s]) + 1
      BY SMTT(30), <1>2, <2>2, <3>1, <3>3
    <3>4. \A n \in Nat : \A j \in 1 .. n + 1 : j <= n \/ j = n + 1
      OBVIOUS
    <3> QED BY Zenon, <2>2, <3>1, <3>2, <3>3, <3>4
  <2> QED BY Zenon, <2>1, <2>2
<1>11. NoWaiterOnDead' /\ DeadHasCode' /\ PidsInOrder'
  BY ZenonT(30), <1>3
  DEF IInv, NoWaiterOnDead, DeadHasCode, PidsInOrder, still_alive, Exists, Yielded
<1>12. CallTracked'
  <2>1. \A p, q \in Pid : AwaitsExit(p, q)' <=> AwaitsExit(p, q)
    BY Zenon DEF AwaitsExit
  <2>2. WaiterCall /\ BlockedCall /\ AbsentCall /\ PidCall
    BY SMTT(30) DEF IInv, CallTracked
  <2>3. WaiterCall'
    BY ZenonT(30), <1>4, <1>7, <2>1, <2>2 DEF WaiterCall
  <2>4. BlockedCall'
    BY SMTT(30), <1>2, <1>3, <1>7, <2>1, <2>2 DEF BlockedCall, NoCall, Yielded
  <2>5. AbsentCall' /\ PidCall'
    <3>1. \A p \in Pid : status'[p] = "Absent" <=> status[p] = "Absent"
      BY Zenon, <1>3 DEF Yielded
    <3>2. AbsentCall'
      BY Zenon, <1>7, <2>2, <3>1 DEF AbsentCall
    <3>3. PidCall'
      BY Zenon, <1>7, <2>2, NoCallNoPid DEF PidCall
    <3> QED BY Zenon, <3>2, <3>3
  <2> QED BY Zenon, <2>3, <2>4, <2>5 DEF CallTracked
<1>13. WaitReturnsExitCode'
  <2> SUFFICES ASSUME NEW p \in Pid, NEW q \in Pid, Returned(p)', call'[p] = <<"wait", q>>
               PROVE  status'[q] = "Dead" /\ Value(p)' = exit_code'[q]
    BY Zenon DEF WaitReturnsExitCode
  <2>1. Returned(p) /\ p # me /\ Value(p)' = Value(p)
        /\ (status'[q] = "Dead" <=> status[q] = "Dead")
    BY Zenon, <1>2, <1>3 DEF Yielded
  <2>2. call[p] = <<"wait", q>>
    BY Zenon, <1>7, <2>1
  <2>3. status[q] = "Dead" /\ Value(p) = exit_code[q]
    BY Zenon, <2>1, <2>2 DEF IInv, WaitReturnsExitCode
  <2> QED BY Zenon, <2>1, <2>3
<1>14. CreateReturnsPid'
  <2>1. \A p \in Pid : Exists(p) => Exists(p)'
    BY ZenonT(30), <1>3 DEF Exists, Yielded
  <2>2. \A p \in Pid : Returned(p)' => /\ Returned(p) /\ call'[p] = call[p]
                                      /\ Value(p)' = Value(p)
    BY Zenon, <1>2, <1>3, <1>7 DEF Yielded
  <2> SUFFICES ASSUME NEW p \in Pid, Returned(p)'
               PROVE  /\ call[p][1] = "pid" =>
                           Value(p) = call[p][2] /\ Exists(call[p][2])'
                      /\ call[p][1] = "child" => Value(p) = 0
    BY Zenon, <2>2 DEF CreateReturnsPid
  <2>3. call[p][1] = "pid" => call[p][2] \in Pid
    BY Zenon DEF IInv, CallTracked, PidCall
  <2> QED BY ZenonT(30), <2>1, <2>2, <2>3 DEF IInv, CreateReturnsPid
<1> QED BY Zenon, <1>8, <1>9, <1>10, <1>11, <1>12, <1>13, <1>14 DEF IInv

(* sys_sem_wait keeps the invariant, whatever it finds.                    *)
LEMMA WaitInv ==
  ASSUME ProcessManagerAssumption, IInv, NEW key \in Keys, sys_sem_wait(key)
  PROVE  IInv'
<1>1. PICK s \in SemId : s = Sem(key)
  BY Zenon, SemInSemId
<1>2. CASE s \notin sems
  <2>1. WaitNotExist
    BY <1>1, <1>2 DEF sys_sem_wait
  <2>2. rax' \in Int /\ count' = count /\ count' \in [SemId -> Nat]
    BY <2>1 DEF WaitNotExist, IInv, TypeOK
  <2>3. UNCHANGED <<procVars, ready_queue, current, halted, mainVars,
                    waiting_processes, sems, wait_queue, orphans>>
    BY <2>1 DEF WaitNotExist, sys_sem_wait, procVars
  <2>4. call' = [call EXCEPT ![current] = NoCall]
    BY Zenon DEF sys_sem_wait
  <2> QED BY Zenon, <2>2, <2>3, <2>4, SemCountInv
<1>3. CASE s \in sems /\ count[s] = 0
  <2>1. WaitBlock(s) /\ s[1] = family[current]
    BY Zenon, <1>1, <1>3 DEF sys_sem_wait, Sem
  <2> QED BY Zenon, <1>3, <2>1, WaitBlockInv DEF sys_sem_wait
<1>4. CASE s \in sems /\ count[s] # 0
  <2>1. WaitTake(s)
    BY <1>1, <1>4 DEF sys_sem_wait
  <2>2. wait_queue[s] = <<>>
    <3>1. wait_queue[s] \in Seq(Pid)
      BY DEF IInv, TypeOK
    <3>2. ASSUME wait_queue[s] # <<>> PROVE FALSE
      <4>1. 1 \in 1 .. Len(wait_queue[s])
        BY <3>1, <3>2, QueueBasics
      <4> QED BY <1>4, <4>1 DEF IInv, NoUnitWhileWaiting
    <3> QED BY <3>2
  <2>3. /\ count' \in [SemId -> Nat]
        /\ \A t \in SemId : count'[t] = count[t] \/ wait_queue[t] = <<>>
    BY <1>4, <2>1, <2>2 DEF WaitTake, IInv, TypeOK
  <2>4. /\ rax' = 0 /\ status' = status /\ context' = context /\ ready_queue' = ready_queue
        /\ current' = current /\ halted' = halted /\ wait_queue' = wait_queue
    BY Zenon, <2>1 DEF WaitTake
  <2>5. /\ call' = [call EXCEPT ![current] = NoCall]
        /\ counter' = counter /\ exit_code' = exit_code /\ family' = family /\ sems' = sems
        /\ orphans' = orphans /\ mainVars' = mainVars
        /\ waiting_processes' = waiting_processes
    BY Zenon DEF sys_sem_wait
  <2>6. rax' \in Int
    BY <2>4
  <2>7. procVars' = procVars
    BY Zenon, <2>4, <2>5 DEF procVars
  <2>8. UNCHANGED <<procVars, ready_queue, current, halted, mainVars,
                    waiting_processes, sems, wait_queue, orphans>>
    BY Zenon, <2>4, <2>5, <2>7
  <2> QED BY Zenon, <2>3, <2>5, <2>6, <2>8, SemCountInv
<1> QED BY <1>2, <1>3, <1>4

-----------------------------------------------------------------------------
(* Exit, and the theorems. *)

(* A set of numbers up to m has a size. *)
LEMMA BoundedCardinality ==
  ASSUME NEW m \in Nat, NEW W, W \subseteq 1 .. m
  PROVE  Cardinality(W) \in Nat
<1>1. IsFiniteSet(1 .. m)
  BY FS_Interval
<1> QED BY Zenon, <1>1, FS_Subset, FS_CardinalityType

(* The order in which the waiters are woken is a queue of them. *)
LEMMA AscendingQueue ==
  ASSUME ProcessManagerAssumption, NEW W, W \subseteq Pid, NEW w \in Ascending(W)
  PROVE  w \in Seq(Pid) /\ Range(w) = W /\ IsInjective(w)
<1>1. Cardinality(W) \in Nat
  BY Zenon, BoundedCardinality DEF ProcessManagerAssumption, Pid
<1> DEFINE n == Cardinality(W)
<1> HIDE DEF n
<1>2. /\ n \in Nat /\ w \in [1 .. n -> W] /\ Range(w) = W
      /\ \A i, j \in 1 .. n : i < j => w[i] < w[j]
  BY <1>1 DEF Ascending, n
<1>3. \A i \in 1 .. n : w[i] \in Nat
  <2>1. \A p \in Pid : p \in Nat
    BY DEF Pid
  <2>2. \A i \in 1 .. n : w[i] \in W
    BY <1>2
  <2> QED BY <2>1, <2>2
<1>4. ASSUME NEW i \in 1 .. n, NEW j \in 1 .. n, w[i] = w[j]
      PROVE  i = j
  <2>1. ~(i < j) /\ ~(j < i)
    BY <1>2, <1>3, <1>4
  <2> QED BY <1>2, <2>1
<1>5. IsInjective(w)
  BY <1>2, <1>4 DEF IsInjective
<1>6. w \in [1 .. n -> Pid]
  BY <1>2
<1>7. w \in Seq(Pid)
  BY <1>2, <1>6, EnumeratedQueue
<1> QED BY <1>2, <1>5, <1>7

(* exit: the waiters are woken with the exit code before the caller dies,  *)
(* and the semaphores it may take with it have no waiter, for a waiter is  *)
(* a live member of the family.                                            *)
LEMMA ExitInv ==
  ASSUME ProcessManagerAssumption, IInv, NEW ret \in ExitCodes, sys_exit(ret)
  PROVE  IInv'
<1>1. /\ current \in Pid /\ status[current] = "Running"
      /\ status[KERNEL_PID] = "Ready" /\ KERNEL_PID \in Pid
      /\ ret \in Int
  BY DEF IInv, TypeOK, ReadyQueueExact, KernelRunnable, sys_exit, InUser,
         KERNEL_PID, Pid, ProcessManagerAssumption
<1>2. PICK me \in Pid : me = current
  BY Zenon, <1>1
<1> DEFINE W == waiting_processes[me]
           st == ExitStatus(W)
           ctx == WokenContext(W, ret)
<1>3. PICK woken \in Ascending(W) : switch_next(ready_queue \o woken, st, ctx)
  BY Zenon, <1>2 DEF sys_exit
<1>4. /\ W \subseteq Pid /\ me \notin W
      /\ \A p \in Pid : p \in W <=> AwaitsExit(p, me)
      /\ \A p \in W : status[p] = "Blocked"
  <2>1. \A p \in Pid : AwaitsExit(p, me) => status[p] = "Blocked"
    BY Zenon DEF IInv, BlockedHasOneWaker, Parked
  <2> QED BY Zenon, <1>1, <1>2, <2>1 DEF IInv, TypeOK, AwaitsExit
<1>5. /\ st \in [Pid -> Status] /\ ctx \in [Pid -> Int]
      /\ \A p \in Pid : st[p] = IF p = me THEN "Dead"
                                ELSE IF p \in W THEN "Ready" ELSE status[p]
      /\ \A p \in Pid \ {me} : ctx[p] = IF p \in W THEN ret ELSE Value(p)
  BY <1>1, <1>2 DEF IInv, TypeOK, ExitStatus, WokenContext, Status, Value
<1> HIDE DEF st, ctx, W
<1>6. /\ ready_queue \o woken \in Seq(Pid) /\ IsInjective(ready_queue \o woken)
      /\ Range(ready_queue \o woken) = Range(ready_queue) \cup W
  <2>1. woken \in Seq(Pid) /\ Range(woken) = W /\ IsInjective(woken)
    BY Zenon, <1>4, AscendingQueue
  <2>2. /\ ready_queue \in Seq(Pid) /\ IsInjective(ready_queue)
        /\ Range(ready_queue) \cap W = {}
    BY <1>4 DEF IInv, TypeOK, ReadyQueueExact
  <2> QED BY <2>1, <2>2, ConcatMembers
<1>7. /\ \A p \in Pid : p \in Range(ready_queue \o woken) <=> st[p] = "Ready"
      /\ \A p \in Pid : st[p] # "Running"
      /\ st[KERNEL_PID] = "Ready"
  BY Zenon, <1>1, <1>2, <1>4, <1>5, <1>6 DEF IInv, ReadyQueueExact
<1>8. Dispatched(st, ctx)
  BY Zenon, <1>3, <1>5, <1>6, <1>7, Dispatch
<1>9. /\ \A p \in Pid : status'[p] = "Blocked" <=> status[p] = "Blocked" /\ p \notin W
      /\ \A p \in Pid : status'[p] = "Absent" <=> status[p] = "Absent"
      /\ \A p \in Pid : status'[p] = "Dead" <=> status[p] = "Dead" \/ p = me
      /\ \A p \in Pid : Returned(p)' <=> (Returned(p) \/ p \in W) /\ p # me
      /\ \A p \in Pid : p # me => Value(p)' = IF p \in W THEN ret ELSE Value(p)
  <2>1. /\ \A p \in Pid : st[p] = "Ready" <=> (Returned(p) \/ p \in W) /\ p # me
        /\ \A p \in Pid : st[p] = "Blocked" <=> status[p] = "Blocked" /\ p \notin W
        /\ \A p \in Pid : st[p] = "Absent" <=> status[p] = "Absent"
        /\ \A p \in Pid : st[p] = "Dead" <=> status[p] = "Dead" \/ p = me
    BY Zenon, <1>1, <1>2, <1>4, <1>5 DEF Returned, IInv, ReadyQueueExact
  <2> QED BY ZenonT(30), <1>5, <1>8, <2>1 DEF Dispatched
<1>10. /\ waiting_processes' = [waiting_processes EXCEPT ![me] = {}]
       /\ exit_code' = [exit_code EXCEPT ![me] = ret]
       /\ sems' = sems \ DroppedSems
       /\ count' = [s \in SemId |-> IF s \in DroppedSems THEN 0 ELSE count[s]]
       /\ wait_queue' = [s \in SemId |->
                           IF s \in DroppedSems THEN <<>> ELSE wait_queue[s]]
       /\ call' = [call EXCEPT ![me] = NoCall]
       /\ UNCHANGED <<counter, family, mainVars, orphans>>
  BY Zenon, <1>2 DEF sys_exit
<1>11. /\ call' \in [Pid -> Calls]
       /\ \A p \in Pid : call'[p] = IF p = me THEN NoCall ELSE call[p]
  BY Zenon, <1>10 DEF IInv, TypeOK, Calls, NoCall
<1>12. wait_queue' = wait_queue
  <2>1. ASSUME NEW s \in DroppedSems PROVE wait_queue[s] = <<>>
    <3>1. s \in SemId /\ LastOfFamily /\ s[1] = family[current]
      BY <2>1 DEF DroppedSems
    <3>2. wait_queue[s] \in Seq(Pid)
      BY Zenon, <3>1 DEF IInv, TypeOK
    <3>3. ASSUME wait_queue[s] # <<>> PROVE FALSE
      <4>1. 1 \in 1 .. Len(wait_queue[s])
        BY <3>2, <3>3, QueueBasics
      <4>2. PICK p \in Pid : p = wait_queue[s][1]
        BY Zenon, <3>2, <4>1, QueueBasics
      <4>3. p \in Range(wait_queue[s])
        BY ZenonT(30), <3>2, <4>1, <4>2, QueueBasics
      <4>4. status[p] = "Blocked"
        BY <3>1, <4>3 DEF IInv, BlockedHasOneWaker, Parked, AwaitsSignal
      <4>5. family[p] = family[current]
        BY Zenon, <3>1, <4>1, <4>2 DEF IInv, NoUnitWhileWaiting
      <4> QED BY Zenon, <1>1, <3>1, <4>4, <4>5 DEF LastOfFamily, still_alive, Exists
    <3> QED BY <3>3
  <2>2. wait_queue \in [SemId -> Seq(Pid)]
    BY Zenon DEF IInv, TypeOK
  <2> QED BY Zenon, <1>10, <2>1, <2>2
<1>13. TypeOK' /\ ReadyQueueExact' /\ KernelRunnable' /\ SwitchTotal'
  BY Zenon, <1>8, <1>10, <1>11, <1>12
  DEF IInv, TypeOK, SwitchTotal, Dispatched, mainVars
<1>14. /\ \A p, q \in Pid : AwaitsExit(p, q)' <=> AwaitsExit(p, q) /\ q # me
       /\ \A p \in Pid, s \in SemId : AwaitsSignal(p, s)' <=> AwaitsSignal(p, s)
  <2>1. \A p, q \in Pid : AwaitsExit(p, q)' <=> AwaitsExit(p, q) /\ q # me
    BY <1>10 DEF AwaitsExit, IInv, TypeOK
  <2>2. \A p \in Pid, s \in SemId : AwaitsSignal(p, s)' <=> AwaitsSignal(p, s)
    BY Zenon, <1>12 DEF AwaitsSignal
  <2> QED BY Zenon, <2>1, <2>2
<1>15. BlockedHasOneWaker'
  <2>1. \A p \in Pid : Parked(p)' <=> Parked(p) /\ p \notin W
    BY Zenon, <1>4, <1>10, <1>14 DEF Parked, IInv, BlockedHasOneWaker
  <2>2. \A p \in Pid : status'[p] = "Blocked" <=> Parked(p)'
    BY Zenon, <1>9, <2>1 DEF IInv, BlockedHasOneWaker
  <2>3. /\ \A p, q, r \in Pid : AwaitsExit(p, q)' /\ AwaitsExit(p, r)' => q = r
        /\ \A p, q \in Pid, t \in SemId :
             ~(AwaitsExit(p, q)' /\ AwaitsSignal(p, t)')
        /\ \A p \in Pid, t, u \in SemId :
             AwaitsSignal(p, t)' /\ AwaitsSignal(p, u)' => t = u
    BY <1>14 DEF IInv, BlockedHasOneWaker
  <2>4. \A t \in SemId : IsInjective(wait_queue'[t])
    BY Zenon, <1>12 DEF IInv, BlockedHasOneWaker
  <2>5. \A p \in orphans' : /\ \A q \in Pid : ~AwaitsExit(p, q)'
                            /\ \A t \in SemId : ~AwaitsSignal(p, t)'
    BY Zenon, <1>10, <1>14 DEF IInv, TypeOK, BlockedHasOneWaker
  <2> QED BY Zenon, <2>2, <2>3, <2>4, <2>5 DEF BlockedHasOneWaker
<1>16. NoUnitWhileWaiting'
  <2>1. \A s \in DroppedSems : wait_queue[s] = <<>>
    BY Zenon, <1>10, <1>12 DEF DroppedSems
  <2>2. Len(<<>>) = 0 /\ \A n : n \in 1 .. 0 => FALSE
    BY EmptyQueue
  <2> SUFFICES ASSUME NEW s \in SemId, NEW i \in 1 .. Len(wait_queue'[s])
               PROVE  s \in sems' /\ count'[s] = 0 /\ family'[wait_queue'[s][i]] = s[1]
    BY Zenon DEF NoUnitWhileWaiting
  <2>3. s \notin DroppedSems
    BY Zenon, <1>12, <2>1, <2>2
  <2>4. s \in sems /\ count[s] = 0 /\ family[wait_queue[s][i]] = s[1]
    BY Zenon, <1>12 DEF IInv, NoUnitWhileWaiting
  <2>5. count'[s] = count[s] /\ s \in sems' /\ family' = family
    BY Zenon, <1>10, <2>3, <2>4
  <2> QED BY Zenon, <1>12, <2>4, <2>5
<1>17. NoWaiterOnDead' /\ DeadHasCode' /\ PidsInOrder'
  BY <1>9, <1>10
  DEF IInv, TypeOK, NoWaiterOnDead, DeadHasCode, PidsInOrder, still_alive, Exists
<1>18. CallTracked'
  <2>1. \A p, q \in Pid : AwaitsExit(p, q) => p # me
    BY <1>1, <1>2 DEF IInv, BlockedHasOneWaker, Parked
  <2>2. \A p, q \in Pid : AwaitsExit(p, q) /\ p \notin W => AwaitsExit(p, q)'
    BY <1>4, <1>14
  <2>3. WaiterCall /\ BlockedCall /\ AbsentCall /\ PidCall
    BY Zenon DEF IInv, CallTracked
  <2>4. WaiterCall'
    BY Zenon, <1>11, <1>14, <2>1, <2>3 DEF WaiterCall
  <2>5. BlockedCall'
    <3> SUFFICES ASSUME NEW p \in Pid, status'[p] = "Blocked", call'[p] # NoCall
                 PROVE  \E q \in Pid : AwaitsExit(p, q)' /\ call'[p] = <<"wait", q>>
      BY Zenon DEF BlockedCall
    <3>1. status[p] = "Blocked" /\ p \notin W /\ call'[p] = call[p]
      BY Zenon, <1>9, <1>11
    <3>2. PICK q \in Pid : AwaitsExit(p, q) /\ call[p] = <<"wait", q>>
      BY Zenon, <2>3, <3>1 DEF BlockedCall
    <3>3. AwaitsExit(p, q)'
      BY Zenon, <2>2, <3>1, <3>2
    <3> QED BY Zenon, <3>1, <3>2, <3>3
  <2>6. AbsentCall'
    BY Zenon, <1>9, <1>11, <2>3 DEF AbsentCall
  <2>7. PidCall'
    BY Zenon, <1>11, <2>3, NoCallNoPid DEF PidCall
  <2> QED BY Zenon, <2>4, <2>5, <2>6, <2>7 DEF CallTracked
<1>19. WaitReturnsExitCode'
  <2> SUFFICES ASSUME NEW p \in Pid, NEW q \in Pid, Returned(p)',
                      call'[p] = <<"wait", q>>
               PROVE  status'[q] = "Dead" /\ Value(p)' = exit_code'[q]
    BY DEF WaitReturnsExitCode
  <2>1. p # me /\ call[p] = <<"wait", q>>
    BY Zenon, <1>9, <1>11
  <2>2. CASE p \in W
    <3>1. call[p] = <<"wait", me>>
      BY Zenon, <1>4, <2>2 DEF IInv, CallTracked, WaiterCall
    <3>2. q = me
      BY <2>1, <3>1
    <3> QED BY Zenon, <1>9, <1>10, <2>1, <2>2, <3>2 DEF IInv, TypeOK
  <2>3. CASE p \notin W
    <3>1. status[q] = "Dead" /\ Value(p) = exit_code[q]
      BY Zenon, <1>9, <2>1, <2>3 DEF IInv, WaitReturnsExitCode
    <3> QED BY Zenon, <1>1, <1>2, <1>9, <1>10, <2>1, <2>3, <3>1 DEF IInv, TypeOK
  <2> QED BY <2>2, <2>3
<1>20. CreateReturnsPid'
  <2>1. \A p \in W : call[p] = <<"wait", me>>
    BY Zenon, <1>4 DEF IInv, CallTracked, WaiterCall
  <2> SUFFICES ASSUME NEW p \in Pid, Returned(p)', p # me
               PROVE  /\ call[p][1] = "pid" =>
                           /\ Value(p)' = call[p][2]
                           /\ status'[call[p][2]] # "Absent" /\ call[p][2] \in Pid
                      /\ call[p][1] = "child" => Value(p)' = 0
    BY <1>9, <1>11 DEF CreateReturnsPid, Exists
  <2>2. CASE p \in W
    BY <2>1, <2>2
  <2>3. CASE p \notin W
    <3>1. Returned(p) /\ Value(p)' = Value(p)
      BY Zenon, <1>9, <2>3
    <3>2. \A q \in Pid : Exists(q) => status'[q] # "Absent"
      BY Zenon, <1>9 DEF Exists
    <3>3. call[p][1] = "pid" => call[p][2] \in Pid
      BY Zenon DEF IInv, CallTracked, PidCall
    <3>4. /\ call[p][1] = "pid" => Value(p) = call[p][2] /\ Exists(call[p][2])
          /\ call[p][1] = "child" => Value(p) = 0
      BY <3>1 DEF IInv, CreateReturnsPid
    <3> QED BY Zenon, <3>1, <3>2, <3>3, <3>4
  <2> QED BY Zenon, <2>2, <2>3
<1> QED BY Zenon, <1>13, <1>15, <1>16, <1>17, <1>18, <1>19, <1>20 DEF IInv

(* Every step keeps the invariant.                                         *)
LEMMA NextInv ==
  ASSUME ProcessManagerAssumption, IInv, [Next]_vars
  PROVE  IInv'
<1>1. CASE switch
  BY <1>1, SwitchInv
<1>2. ASSUME NEW found \in BOOLEAN, spawn_init(found)
      PROVE  IInv'
  <2>1. CASE found
    <3>1. counter + 1 \in Pid
      BY <1>2 DEF spawn_init, CanCreate, IInv, TypeOK, Pid,
                  ProcessManagerAssumption
    <3> QED BY Zenon, <1>2, <2>1, <3>1, SpawnedInv DEF spawn_init
  <2>2. CASE ~found
    BY Zenon, <1>2, <2>2, HaltInv DEF spawn_init, panic
  <2> QED BY <2>1, <2>2
<1>3. ASSUME NEW found \in BOOLEAN, sys_spawn(found)
      PROVE  IInv'
  <2>1. CASE found
    <3>1. main' \in {"spawn", "wait"} /\ init' \in Pid \cup {0}
      BY <1>3, <2>1 DEF sys_spawn, mainVars, IInv, TypeOK
    <3> QED BY Zenon, <1>3, <2>1, <3>1, SpawnedInv DEF sys_spawn
  <2>2. CASE ~found
    BY <1>3, <2>2, HaltInv DEF sys_spawn, panic
  <2> QED BY <2>1, <2>2
<1>4. CASE sys_fork
  BY <1>4, ForkInv
<1>5. ASSUME NEW ret \in ExitCodes, sys_exit(ret)
      PROVE  IInv'
  BY <1>5, ExitInv
<1>6. ASSUME NEW pid \in Pid \cup {0}, sys_wait_pid(pid)
      PROVE  IInv'
  BY <1>6, WaitPidInv
<1>7. ASSUME NEW key \in Keys, NEW value \in Values, sys_new_sem(key, value)
      PROVE  IInv'
  <2>1. value \in Nat
    BY DEF ProcessManagerAssumption
  <2>2. PICK s \in SemId : s = Sem(key)
    BY SemInSemId
  <2>3. rax' \in Int
    BY <1>7 DEF sys_new_sem
  <2>4. /\ count' = [count EXCEPT ![s] = value]
        /\ wait_queue' = [wait_queue EXCEPT ![s] = <<>>]
        /\ orphans' = orphans \cup Range(wait_queue[s])
        /\ sems' = sems \cup {s}
        /\ call' = [call EXCEPT ![current] = NoCall]
        /\ UNCHANGED <<procVars, ready_queue, current, halted, mainVars,
                       waiting_processes>>
    BY <1>7, <2>2 DEF sys_new_sem
  <2> QED BY Zenon, <2>1, <2>3, <2>4, SemResetInv
<1>8. ASSUME NEW key \in Keys, sys_remove_sem(key)
      PROVE  IInv'
  <2>1. PICK s \in SemId : s = Sem(key)
    BY SemInSemId
  <2>2. rax' \in Int /\ 0 \in Nat
    BY <1>8 DEF sys_remove_sem
  <2>3. /\ count' = [count EXCEPT ![s] = 0]
        /\ wait_queue' = [wait_queue EXCEPT ![s] = <<>>]
        /\ orphans' = orphans \cup Range(wait_queue[s])
        /\ sems' = sems \ {s}
        /\ call' = [call EXCEPT ![current] = NoCall]
        /\ UNCHANGED <<procVars, ready_queue, current, halted, mainVars,
                       waiting_processes>>
    BY <1>8, <2>1 DEF sys_remove_sem
  <2> QED BY Zenon, <2>2, <2>3, SemResetInv
<1>9. ASSUME NEW key \in Keys, sys_sem_signal(key)
      PROVE  IInv'
  BY <1>9, SignalInv
<1>10. ASSUME NEW key \in Keys, sys_sem_wait(key)
       PROVE  IInv'
  BY <1>10, WaitInv
<1>11. CASE shutdown
  BY <1>11, HaltInv DEF shutdown
<1>12. CASE UNCHANGED vars
  <2>1. UNCHANGED <<counter, status, exit_code, context, family, ready_queue,
                    current, rax, halted, sems, count, wait_queue, orphans,
                    main, init, waiting_processes, call>>
    BY Zenon, <1>12 DEF vars, procVars, schedVars, semVars, mainVars
  <2>2. TypeOK' /\ SwitchTotal' /\ ReadyQueueExact' /\ KernelRunnable'
    BY Zenon, <2>1 DEF IInv, TypeOK, SwitchTotal, ReadyQueueExact, KernelRunnable
  <2>3. BlockedHasOneWaker' /\ NoUnitWhileWaiting' /\ NoWaiterOnDead'
    BY Zenon, <2>1
    DEF IInv, BlockedHasOneWaker, Parked, AwaitsExit, AwaitsSignal,
        NoUnitWhileWaiting, NoWaiterOnDead, still_alive, Exists
  <2>4. PidsInOrder' /\ DeadHasCode' /\ CallTracked' /\ WaitReturnsExitCode'
        /\ CreateReturnsPid'
    BY Zenon, <2>1
    DEF IInv, PidsInOrder, DeadHasCode, CallTracked, WaiterCall, BlockedCall,
        AbsentCall, PidCall, WaitReturnsExitCode,
        CreateReturnsPid, AwaitsExit, Value, Returned, Exists
  <2> QED BY Zenon, <2>2, <2>3, <2>4 DEF IInv
<1> QED BY Zenon, <1>1, <1>2, <1>3, <1>4, <1>5, <1>6, <1>7, <1>8, <1>9, <1>10, <1>11,
           <1>12
        DEF Next, Stopped

(* In every reachable state, for any number of processes, the state of the *)
(* process manager is of its type, switch_next has never failed, and the   *)
(* strengthened invariant holds.                                           *)
THEOREM Invariance == Spec => []IInv
<1>1. Init => IInv
  BY InitInv, ProcessManagerAssumption
<1>2. IInv /\ [Next]_vars => IInv'
  BY NextInv, ProcessManagerAssumption
<1> QED BY <1>1, <1>2, PTL DEF Spec

(* The types of the tables, queues and registers. *)
THEOREM TypeCorrect == Spec => []TypeOK
<1>1. IInv => TypeOK
  BY DEF IInv
<1> QED BY <1>1, Invariance, PTL

(* The ready queue always holds exactly the ready processes, each once,    *)
(* and the processor runs the one running process.                         *)
THEOREM ReadyQueueCorrect == Spec => []ReadyQueueExact
<1>1. IInv => ReadyQueueExact
  BY DEF IInv
<1> QED BY <1>1, Invariance, PTL

(* No behaviour of the user processes makes switch_next panic or loop. *)
THEOREM SwitchNeverFails == Spec => []SwitchTotal
<1>1. IInv => SwitchTotal
  BY DEF IInv
<1> QED BY <1>1, Invariance, PTL

(* No wakeup is lost and none is delivered twice: a process is blocked     *)
(* exactly when it sits in one place that can wake it, the waiters of one  *)
(* process or the queue of one semaphore.                                  *)
THEOREM NoLostWakeup == Spec => []BlockedHasOneWaker
<1>1. IInv => BlockedHasOneWaker
  BY DEF IInv
<1> QED BY <1>1, Invariance, PTL

(* wait_pid never blocks on, or stays blocked on, a process that is dead:  *)
(* the check of its exit code and the entry into the list of waiters are   *)
(* not separated by the exit.                                              *)
THEOREM WaitsForTheLiving == Spec => []NoWaiterOnDead
<1>1. IInv => NoWaiterOnDead
  BY DEF IInv
<1> QED BY <1>1, Invariance, PTL

(* A semaphore with a process in its queue exists, has no unit to give,    *)
(* and is of the family of those who wait (Semaphore::wait and signal).    *)
THEOREM NoUnitWithheld == Spec => []NoUnitWhileWaiting
<1>1. IInv => NoUnitWhileWaiting
  BY DEF IInv
<1> QED BY <1>1, Invariance, PTL

(* wait_pid returns the exit code of the process it named, however the     *)
(* caller is preempted, blocked and resumed in between.                    *)
THEOREM ResultsDelivered == Spec => []WaitReturnsExitCode
<1>1. IInv => WaitReturnsExitCode
  BY DEF IInv
<1> QED BY <1>1, Invariance, PTL

(* fork and spawn return the pid of the process they created, and the      *)
(* child of a fork gets 0, across any preemption.                          *)
THEOREM CreationReported == Spec => []CreateReturnsPid
<1>1. IInv => CreateReturnsPid
  BY DEF IInv
<1> QED BY <1>1, Invariance, PTL

-----------------------------------------------------------------------------
(* The action properties: death is final, and nobody overtakes in the      *)
(* ready queue.                                                            *)

(* The action of DeadStaysDead. *)
DeadKept ==
  \A p \in Pid : status[p] = "Dead" =>
     status'[p] = "Dead" /\ exit_code'[p] = exit_code[p]

(* switch_next resumes a ready process, which is not a dead one. *)
LEMMA SwitchKeepsDead ==
  ASSUME NEW q, NEW st \in [Pid -> Status], NEW ctx,
         switch_next(q, st, ctx), NEW p \in Pid, st[p] = "Dead"
  PROVE  status'[p] = "Dead"
<1> DEFINE ready == {i \in 1 .. Len(q) : st[q[i]] = "Ready"}
<1>1. CASE ready = {}
  BY <1>1 DEF switch_next
<1>2. CASE ready # {}
  <2>1. PICK i \in ready : status' = [st EXCEPT ![q[i]] = "Running"]
    BY Zenon, <1>2 DEF switch_next
  <2>2. st[q[i]] = "Ready"
    OBVIOUS
  <2>3. q[i] # p
    BY Zenon, <2>2
  <2> QED BY <2>1, <2>3
<1> QED BY <1>1, <1>2

(* The processes a step may touch are not dead: the running one, those it  *)
(* wakes, and the one it creates.                                          *)
LEMMA NotDead ==
  ASSUME ProcessManagerAssumption, IInv, NEW p \in Pid, status[p] = "Dead"
  PROVE  /\ p # current /\ status[current] # "Dead"
         /\ SavedStatus = [status EXCEPT ![current] = "Ready"]
         /\ CanCreate => p # counter + 1
         /\ \A q \in Pid : p \notin waiting_processes[q]
         /\ \A s \in SemId : p \notin Range(wait_queue[s])
<1>1. status[current] = "Running"
  BY DEF IInv, ReadyQueueExact, TypeOK
<1>2. CanCreate => counter + 1 \in Pid /\ status[counter + 1] = "Absent"
  BY DEF CanCreate, IInv, PidsInOrder, TypeOK, Pid, ProcessManagerAssumption
<1>3. \A q \in Pid : p \notin waiting_processes[q]
  BY DEF IInv, BlockedHasOneWaker, Parked, AwaitsExit
<1>4. \A s \in SemId : p \notin Range(wait_queue[s])
  BY Zenon DEF IInv, BlockedHasOneWaker, Parked, AwaitsSignal
<1> QED BY Zenon, <1>1, <1>2, <1>3, <1>4 DEF SavedStatus

(* Every step leaves the dead as they are. *)
LEMMA StepKeepsDead ==
  ASSUME ProcessManagerAssumption, IInv, [Next]_vars, NEW p \in Pid,
         status[p] = "Dead"
  PROVE  status'[p] = "Dead" /\ exit_code'[p] = exit_code[p]
<1>1. /\ p # current /\ SavedStatus = [status EXCEPT ![current] = "Ready"]
      /\ CanCreate => p # counter + 1
      /\ \A q \in Pid : p \notin waiting_processes[q]
      /\ \A s \in SemId : p \notin Range(wait_queue[s])
  BY NotDead
<1>2. status \in [Pid -> Status] /\ current \in Pid /\ exit_code \in [Pid -> ExitCodes \cup {NoCode}]
  BY DEF IInv, TypeOK
<1>3. SavedStatus \in [Pid -> Status] /\ SavedStatus[p] = "Dead"
  BY <1>1, <1>2 DEF Status
<1>4. [SavedStatus EXCEPT ![current] = "Blocked"] \in [Pid -> Status]
      /\ [SavedStatus EXCEPT ![current] = "Blocked"][p] = "Dead"
  BY <1>1, <1>2, <1>3 DEF Status
<1>5. CASE UNCHANGED <<status, exit_code>>
  BY Zenon, <1>5
<1>6. CASE switch
  BY Zenon, <1>3, <1>6, SwitchKeepsDead DEF switch
<1>7. ASSUME NEW found \in BOOLEAN, spawn_init(found) \/ sys_spawn(found)
      PROVE  status'[p] = "Dead" /\ exit_code'[p] = exit_code[p]
  <2>1. CASE panic("open_panic")
    BY ZenonT(30), <1>5, <2>1 DEF panic, procVars
  <2>2. CASE CanCreate /\ add_spawned(counter + 1)
    BY <1>1, <1>2, <2>2 DEF add_spawned
  <2> QED BY Zenon, <1>7, <2>1, <2>2 DEF spawn_init, sys_spawn
<1>8. CASE sys_fork
  <2> DEFINE st == [SavedStatus EXCEPT ![counter + 1] = "Ready"]
  <2>1. st \in [Pid -> Status] /\ st[p] = "Dead"
    BY Zenon, <1>1, <1>3, <1>8 DEF sys_fork, Status
  <2> QED BY Zenon, <1>8, <2>1, SwitchKeepsDead DEF sys_fork
<1>9. ASSUME NEW ret \in ExitCodes, sys_exit(ret)
      PROVE  status'[p] = "Dead" /\ exit_code'[p] = exit_code[p]
  <2> DEFINE st == ExitStatus(waiting_processes[current])
  <2>1. st \in [Pid -> Status]
    BY <1>2 DEF ExitStatus, Status
  <2>2. st[p] = "Dead"
    BY Zenon, <1>1, <1>2 DEF ExitStatus
  <2>3. exit_code'[p] = exit_code[p]
    BY Zenon, <1>1, <1>2, <1>9 DEF sys_exit
  <2> HIDE DEF st
  <2>4. PICK q, ctx : switch_next(q, st, ctx)
    BY Zenon, <1>9 DEF sys_exit, st
  <2> QED BY Zenon, <2>1, <2>2, <2>3, <2>4, SwitchKeepsDead
<1>10. ASSUME NEW pid \in Pid \cup {0}, sys_wait_pid(pid)
       PROVE  status'[p] = "Dead" /\ exit_code'[p] = exit_code[p]
  <2>1. CASE still_alive(pid)
    BY Zenon, <1>4, <1>10, <2>1, SwitchKeepsDead DEF sys_wait_pid
  <2>2. CASE ~still_alive(pid)
    BY Zenon, <1>5, <1>10, <2>2 DEF sys_wait_pid, panic, procVars
  <2> QED BY <2>1, <2>2
<1>11. ASSUME NEW key \in Keys, sys_sem_signal(key)
       PROVE  status'[p] = "Dead" /\ exit_code'[p] = exit_code[p]
  <2>1. PICK s \in SemId : s = Sem(key)
    BY Zenon, SemInSemId
  <2>2. CASE SignalNotExist \/ SignalCount(s)
    BY Zenon, <1>5, <1>11, <2>2 DEF SignalNotExist, SignalCount, sys_sem_signal
  <2>3. CASE wait_queue[s] # <<>> /\ SignalWake(s)
    <3>1. wait_queue[s] \in Seq(Pid)
      BY ZenonT(30) DEF IInv, TypeOK
    <3>2. Head(wait_queue[s]) # p
      BY <1>1, <2>3, <3>1, TailMembers
    <3> QED BY Zenon, <1>2, <1>11, <2>3, <3>2 DEF SignalWake, sys_sem_signal
  <2> QED BY Zenon, <1>11, <2>1, <2>2, <2>3 DEF sys_sem_signal
<1>12. ASSUME NEW key \in Keys, sys_sem_wait(key)
       PROVE  status'[p] = "Dead" /\ exit_code'[p] = exit_code[p]
  <2>1. CASE WaitNotExist \/ WaitTake(Sem(key))
    BY Zenon, <1>5, <1>12, <2>1 DEF WaitNotExist, WaitTake, sys_sem_wait
  <2>2. CASE WaitBlock(Sem(key))
    <3>1. UNCHANGED exit_code
      BY SMTT(30), <1>12 DEF sys_sem_wait
    <3>2. status'[p] = "Dead"
      BY Zenon, <1>4, <2>2, SwitchKeepsDead DEF WaitBlock
    <3> QED BY <3>1, <3>2
  <2> QED BY <1>12, <2>1, <2>2 DEF sys_sem_wait
<1>13. ASSUME \/ \E key \in Keys : \/ \E value \in Values : sys_new_sem(key, value)
                                   \/ sys_remove_sem(key)
              \/ shutdown \/ Stopped \/ UNCHANGED vars
       PROVE  UNCHANGED <<status, exit_code>>
  BY <1>13 DEF sys_new_sem, sys_remove_sem, shutdown, Stopped, vars, procVars
<1> QED BY Zenon, <1>5, <1>6, <1>7, <1>8, <1>9, <1>10, <1>11, <1>12, <1>13 DEF Next

(* Death is final, for any number of processes: no step revives a dead     *)
(* process or changes the exit code that wait_pid reads from it.           *)
THEOREM DeathIsFinal == Spec => DeadStaysDead
<1>1. IInv /\ [Next]_vars => [DeadKept]_vars
  BY Zenon, StepKeepsDead, ProcessManagerAssumption DEF DeadKept
<1> QED BY <1>1, Invariance, PTL DEF Spec, DeadStaysDead, DeadKept

-----------------------------------------------------------------------------
(* The action of NoOvertaking. *)
OrderKept ==
  \A k, l \in 1 .. Len(ready_queue') :
     k < l /\ ready_queue'[l] \in Range(ready_queue) =>
       \E i, j \in 1 .. Len(ready_queue) :
          /\ i < j
          /\ ready_queue[i] = ready_queue'[k]
          /\ ready_queue[j] = ready_queue'[l]

(* A queue with new members behind, seen n places on, keeps the order. *)
LEMMA BehindKeepsOrder ==
  ASSUME NEW w \in Seq(Pid), ready_queue \in Seq(Pid),
         Range(w) \cap Range(ready_queue) = {}, NEW n \in Nat,
         Len(ready_queue') \in Nat,
         Len(ready_queue') + n = Len(ready_queue \o w),
         \A i \in 1 .. Len(ready_queue') : ready_queue'[i] = (ready_queue \o w)[i + n]
  PROVE  OrderKept
<1> DEFINE m == Len(ready_queue)
           q == ready_queue \o w
<1>1. /\ m \in Nat /\ Len(w) \in Nat /\ Len(q) = m + Len(w)
      /\ \A i \in 1 .. Len(q) : q[i] = IF i <= m THEN ready_queue[i] ELSE w[i - m]
      /\ \A i \in 1 .. Len(w) : w[i] \in Range(w)
  BY ConcatProperties, QueueBasics
<1> HIDE DEF m, q
<1> SUFFICES ASSUME NEW k \in 1 .. Len(ready_queue'), NEW l \in 1 .. Len(ready_queue'),
                    k < l, ready_queue'[l] \in Range(ready_queue)
             PROVE  \E i, j \in 1 .. m : /\ i < j
                                         /\ ready_queue[i] = ready_queue'[k]
                                         /\ ready_queue[j] = ready_queue'[l]
  BY Zenon DEF OrderKept, m
<1>2. l + n \in 1 .. Len(q) /\ k + n \in 1 .. Len(q) /\ k + n < l + n
  BY DEF q
<1>3. ready_queue'[l] = q[l + n] /\ ready_queue'[k] = q[k + n]
  BY Zenon DEF q
<1>4. l + n <= m
  <2> SUFFICES ASSUME l + n > m PROVE FALSE
    BY <1>1, <1>2
  <2>1. (l + n) - m \in 1 .. Len(w) /\ q[l + n] = w[(l + n) - m]
    BY <1>1, <1>2
  <2> QED BY Zenon, <1>1, <1>3, <2>1
<1>5. /\ k + n \in 1 .. m /\ l + n \in 1 .. m
      /\ ready_queue[k + n] = ready_queue'[k] /\ ready_queue[l + n] = ready_queue'[l]
  BY <1>1, <1>2, <1>3, <1>4
<1> QED BY ZenonT(30), <1>2, <1>5

(* A queue that stays, or gets members behind, keeps the order. *)
LEMMA AppendKeepsOrder ==
  ASSUME ready_queue \in Seq(Pid), NEW w \in Seq(Pid),
         Range(w) \cap Range(ready_queue) = {}, ready_queue' = ready_queue \o w
  PROVE  OrderKept
<1> PICK q \in Seq(Pid) : q = ready_queue \o w
  BY Zenon, ConcatMembers
<1>1. Len(q) \in Nat
  BY QueueBasics
<1>2. Len(q) + 0 = Len(q) /\ \A i \in 1 .. Len(q) : i + 0 = i
  BY <1>1
<1> QED BY Zenon, <1>1, <1>2, BehindKeepsOrder

(* The processes of w are new in the queue, and all are ready in st. *)
Joining(w, st) ==
  /\ w \in Seq(Pid)
  /\ Range(w) \cap Range(ready_queue) = {}
  /\ \A p \in Range(ready_queue) : st[p] = "Ready"
  /\ \A p \in Range(w) : st[p] = "Ready"

(* switch_next takes the first process, for all in the queue are ready. *)
LEMMA SwitchKeepsOrder ==
  ASSUME ready_queue \in Seq(Pid), NEW w, NEW st, NEW ctx, Joining(w, st),
         switch_next(ready_queue \o w, st, ctx)
  PROVE  OrderKept
<1> USE DEF Joining
<1> PICK q \in Seq(Pid) : q = ready_queue \o w
  BY Zenon, ConcatMembers
<1>1. /\ Len(q) \in Nat
      /\ q = <<>> <=> Len(q) = 0
      /\ \A i \in 1 .. Len(q) : q[i] \in Range(q)
  <2>1. ASSUME NEW r \in Seq(Pid)
        PROVE  /\ Len(r) \in Nat
               /\ r = <<>> <=> Len(r) = 0
               /\ \A i \in 1 .. Len(r) : r[i] \in Range(r)
    BY QueueBasics
  <2> QED BY ONLY <2>1, q \in Seq(Pid)
<1>2. \A i \in 1 .. Len(q) : st[q[i]] = "Ready"
  BY <1>1, ConcatMembers
<1>3. CASE q = <<>>
  <2>1. ready_queue' = q
    BY <1>1, <1>3 DEF switch_next
  <2> QED BY Zenon, <2>1, AppendKeepsOrder
<1>4. CASE q # <<>>
  <2> DEFINE ready == {i \in 1 .. Len(q) : st[q[i]] = "Ready"}
  <2>1. 1 \in ready
    BY <1>1, <1>2, <1>4
  <2>2. PICK i \in ready : /\ \A j \in ready : i <= j
                           /\ ready_queue' = SubSeq(q, i + 1, Len(q)) \o SubSeq(q, 1, i - 1)
    BY Zenon, <2>1 DEF switch_next
  <2>3. i = 1
    BY <1>1, <2>1, <2>2
  <2>4. ready_queue' = Tail(q)
    BY <1>4, <2>2, <2>3, RotateNone
  <2>5. /\ Len(ready_queue') = Len(q) - 1
        /\ \A k \in 1 .. Len(q) - 1 : ready_queue'[k] = q[k + 1]
    BY <1>4, <2>4, TailMembers
  <2>6. Len(ready_queue') \in Nat /\ Len(ready_queue') + 1 = Len(q) /\ 1 \in Nat
    BY <1>1, <1>4, <2>5
  <2>7. \A k \in 1 .. Len(ready_queue') : ready_queue'[k] = q[k + 1]
    BY <2>5
  <2> QED BY Zenon, <2>6, <2>7, BehindKeepsOrder
<1> QED BY <1>3, <1>4

(* A queue of one. *)
LEMMA SingleMember ==
  ASSUME NEW p \in Pid
  PROVE  <<p>> \in Seq(Pid) /\ Range(<<p>>) = {p}
<1>1. DOMAIN <<p>> = {1} /\ <<p>>[1] = p
  OBVIOUS
<1> QED BY <1>1 DEF Range

(* A step that neither switches nor creates leaves the queue as it is, and *)
(* so does a step that adds a process p at its end.                        *)
LEMMA QuietKeepsOrder ==
  ASSUME IInv
  PROVE  /\ UNCHANGED ready_queue => OrderKept
         /\ \A p \in Pid : status[p] # "Ready" =>
              (ready_queue' = Append(ready_queue, p) => OrderKept)
<1>1. ready_queue \in Seq(Pid)
  BY DEF IInv, TypeOK
<1>2. ASSUME UNCHANGED ready_queue PROVE OrderKept
  <2>1. ready_queue' = ready_queue \o <<>>
    BY <1>1, <1>2, ConcatEmptySeq
  <2>2. <<>> \in Seq(Pid) /\ Range(<<>>) = {}
    BY EmptyQueue
  <2> QED BY Zenon, <1>1, <2>1, <2>2, AppendKeepsOrder
<1>3. ASSUME NEW p \in Pid, status[p] # "Ready",
             ready_queue' = Append(ready_queue, p)
      PROVE  OrderKept
  <2>1. p \notin Range(ready_queue)
    BY <1>3 DEF IInv, ReadyQueueExact
  <2>2. ready_queue' = ready_queue \o <<p>>
    BY <1>1, <1>3, AppendIsConcat
  <2>3. <<p>> \in Seq(Pid) /\ Range(<<p>>) \cap Range(ready_queue) = {}
    BY <2>1, SingleMember
  <2> QED BY Zenon, <1>1, <2>2, <2>3, AppendKeepsOrder
<1> QED BY <1>2, <1>3

(* Every step keeps the order of the ready queue. *)
LEMMA StepKeepsOrder ==
  ASSUME ProcessManagerAssumption, IInv, [Next]_vars
  PROVE  OrderKept
<1>1. /\ ready_queue \in Seq(Pid) /\ status \in [Pid -> Status] /\ current \in Pid
      /\ Range(ready_queue) \subseteq Pid
  BY QueueBasics DEF IInv, TypeOK
<1>2. /\ \A p \in Pid : p \in Range(ready_queue) <=> status[p] = "Ready"
      /\ status[current] = "Running" /\ current \notin Range(ready_queue)
  BY <1>1 DEF IInv, ReadyQueueExact
<1>3. SavedStatus = [status EXCEPT ![current] = "Ready"]
  BY <1>2 DEF SavedStatus
<1>4. UNCHANGED ready_queue => OrderKept
  BY QuietKeepsOrder
<1>5. CASE switch
  <2>1. switch_next(ready_queue \o <<current>>, SavedStatus, SavedContext(rax))
    BY Zenon, <1>1, <1>5, AppendIsConcat DEF switch
  <2>2. <<current>> \in Seq(Pid) /\ Range(<<current>>) = {current}
    BY <1>1, SingleMember
  <2>3. \A p \in Range(ready_queue) \cup {current} : SavedStatus[p] = "Ready"
    BY Zenon, <1>1, <1>2, <1>3
  <2>4. Joining(<<current>>, SavedStatus)
    BY Zenon, <1>2, <2>2, <2>3 DEF Joining
  <2> QED BY <1>1, <2>1, <2>4, SwitchKeepsOrder
<1>6. CASE CanCreate /\ add_spawned(counter + 1)
  <2>1. counter + 1 \in Pid /\ status[counter + 1] # "Ready"
    BY <1>6 DEF CanCreate, IInv, PidsInOrder, TypeOK, Pid, ProcessManagerAssumption
  <2> QED BY Zenon, <1>6, <2>1, QuietKeepsOrder DEF add_spawned
<1>7. CASE sys_fork
  <2> PICK child \in Nat : child = counter + 1
    BY DEF IInv, TypeOK, Pid
  <2> DEFINE st == [SavedStatus EXCEPT ![child] = "Ready"]
  <2>1. child \in Pid /\ status[child] = "Absent"
    BY <1>7 DEF sys_fork, CanCreate, IInv, PidsInOrder, TypeOK, Pid, ProcessManagerAssumption
  <2>2. child # current /\ child \notin Range(ready_queue)
    BY <1>2, <2>1
  <2>3. <<child, current>> \in Seq(Pid) /\ Range(<<child, current>>) = {child, current}
    BY <1>1, <2>1, <2>2, PairMembers
  <2>4. \A p \in Range(ready_queue) \cup {child, current} : st[p] = "Ready"
    BY Zenon, <1>1, <1>2, <1>3, <2>1, <2>2
  <2>5. switch_next(ready_queue \o <<child, current>>, st, ForkedContext(child))
    BY Zenon, <1>7 DEF sys_fork
  <2> HIDE DEF st
  <2>6. Joining(<<child, current>>, st)
    BY Zenon, <1>2, <2>2, <2>3, <2>4 DEF Joining
  <2> QED BY Zenon, <1>1, <2>5, <2>6, SwitchKeepsOrder
<1>8. ASSUME NEW ret \in ExitCodes, sys_exit(ret)
      PROVE  OrderKept
  <2> DEFINE W == waiting_processes[current]
             st == ExitStatus(W)
             ctx == WokenContext(W, ret)
  <2>1. W \subseteq Pid /\ \A p \in W : status[p] = "Blocked"
    BY Zenon, <1>1 DEF IInv, TypeOK, BlockedHasOneWaker, Parked, AwaitsExit
  <2>2. PICK w \in Ascending(W) : switch_next(ready_queue \o w, st, ctx)
    BY Zenon, <1>8 DEF sys_exit
  <2> HIDE DEF W
  <2>3. w \in Seq(Pid) /\ Range(w) = W
    BY Zenon, <2>1, <2>2, AscendingQueue
  <2>4. W \cap Range(ready_queue) = {}
    BY Zenon, <1>2, <2>1
  <2>5. \A p \in Range(ready_queue) \cup W : st[p] = "Ready"
    BY Zenon, <1>1, <1>2, <2>1 DEF ExitStatus
  <2> HIDE DEF st, ctx
  <2>6. Joining(w, st)
    BY <2>3, <2>4, <2>5 DEF Joining
  <2> QED BY Zenon, <1>1, <2>2, <2>6, SwitchKeepsOrder
<1>9. ASSUME NEW r, switch_next(ready_queue, [SavedStatus EXCEPT ![current] = "Blocked"],
                                SavedContext(r))
      PROVE  OrderKept
  <2>1. ready_queue \o <<>> = ready_queue /\ <<>> \in Seq(Pid) /\ Range(<<>>) = {}
    BY Zenon, <1>1, EmptyQueue, ConcatEmptySeq
  <2> DEFINE st == [SavedStatus EXCEPT ![current] = "Blocked"]
  <2>2. \A p \in Range(ready_queue) : st[p] = "Ready"
    BY <1>1, <1>2, <1>3
  <2>3. switch_next(ready_queue \o <<>>, st, SavedContext(r))
    BY <1>9, <2>1
  <2> HIDE DEF st
  <2>4. Joining(<<>>, st)
    BY <2>1, <2>2 DEF Joining
  <2> QED BY Zenon, <1>1, <2>3, <2>4, SwitchKeepsOrder
<1>10. ASSUME NEW pid \in Pid \cup {0}, sys_wait_pid(pid)
       PROVE  OrderKept
  <2>1. CASE still_alive(pid)
    BY Zenon, <1>9, <1>10, <2>1 DEF sys_wait_pid
  <2>2. CASE ~still_alive(pid)
    BY Zenon, <1>4, <1>10, <2>2 DEF sys_wait_pid, panic
  <2> QED BY Zenon, <2>1, <2>2
<1>11. ASSUME NEW key \in Keys, sys_sem_signal(key)
       PROVE  OrderKept
  <2>1. PICK s \in SemId : s = Sem(key)
    BY SemInSemId
  <2>2. CASE SignalNotExist \/ SignalCount(s)
    BY Zenon, <1>4, <2>2 DEF SignalNotExist, SignalCount
  <2>3. CASE wait_queue[s] # <<>> /\ SignalWake(s)
    <3>1. wait_queue[s] \in Seq(Pid)
      BY Zenon DEF IInv, TypeOK
    <3>2. Head(wait_queue[s]) \in Pid /\ Head(wait_queue[s]) \in Range(wait_queue[s])
      BY Zenon, <2>3, <3>1, TailMembers
    <3>3. status[Head(wait_queue[s])] # "Ready"
      BY Zenon, <3>2 DEF IInv, BlockedHasOneWaker, Parked, AwaitsSignal
    <3> QED BY Zenon, <2>3, <3>2, <3>3, QuietKeepsOrder DEF SignalWake
  <2> QED BY Zenon, <1>11, <2>1, <2>2, <2>3 DEF sys_sem_signal
<1>12. ASSUME NEW key \in Keys, sys_sem_wait(key)
       PROVE  OrderKept
  BY Zenon, <1>4, <1>9, <1>12 DEF sys_sem_wait, WaitBlock, WaitTake, WaitNotExist
<1>13. ASSUME NEW found \in BOOLEAN, spawn_init(found) \/ sys_spawn(found)
       PROVE  OrderKept
  BY Zenon, <1>4, <1>6, <1>13 DEF spawn_init, sys_spawn, panic
<1>14. ASSUME \/ \E key \in Keys : \/ \E value \in Values : sys_new_sem(key, value)
                                   \/ sys_remove_sem(key)
              \/ shutdown \/ Stopped \/ UNCHANGED vars
       PROVE  UNCHANGED ready_queue
  BY <1>14 DEF sys_new_sem, sys_remove_sem, shutdown, Stopped, vars, schedVars
<1> QED BY Zenon, <1>4, <1>5, <1>7, <1>8, <1>10, <1>11, <1>12, <1>13, <1>14 DEF Next

(* First come, first served, for any number of processes: no step lets a   *)
(* process overtake another in the ready queue.                            *)
THEOREM QueueIsFair == Spec => NoOvertaking
<1>1. IInv /\ [Next]_vars => [OrderKept]_vars
  BY Zenon, StepKeepsOrder, ProcessManagerAssumption
<1> QED BY <1>1, Invariance, PTL DEF Spec, NoOvertaking, OrderKept

-----------------------------------------------------------------------------
(* The kernel's semaphores implement Dijkstra's, for any number of         *)
(* processes, keys and units.                                              *)

(* The queue and the count of InitSem, as Dijkstra's semaphore sees them. *)
LEMMA SemView ==
  ASSUME IInv, InitSem \in SemId
  PROVE  /\ wait_queue[InitSem] \in Seq(Pid) /\ IsInjective(wait_queue[InitSem])
         /\ count[InitSem] \in Nat /\ Len(wait_queue[InitSem]) \in Nat
         /\ wait_queue[InitSem] # <<>> => InitSem \in sems /\ count[InitSem] = 0
         /\ current \notin Range(wait_queue[InitSem])
<1>1. /\ wait_queue[InitSem] \in Seq(Pid) /\ IsInjective(wait_queue[InitSem])
      /\ count[InitSem] \in Nat
  BY DEF IInv, TypeOK, BlockedHasOneWaker
<1>2. Len(wait_queue[InitSem]) \in Nat
  BY ZenonT(30), <1>1, QueueBasics
<1>3. ASSUME wait_queue[InitSem] # <<>>
      PROVE  InitSem \in sems /\ count[InitSem] = 0
  <2>1. 1 \in 1 .. Len(wait_queue[InitSem])
    BY <1>1, <1>2, <1>3, QueueBasics
  <2> QED BY <2>1 DEF IInv, NoUnitWhileWaiting
<1>4. current \in Pid /\ status[current] # "Blocked"
  BY DEF IInv, TypeOK, ReadyQueueExact
<1>5. current \notin Range(wait_queue[InitSem])
  BY <1>4 DEF IInv, BlockedHasOneWaker, Parked, AwaitsSignal
<1> QED BY Zenon, <1>1, <1>2, <1>3, <1>5

(* A step on another semaphore, or on none, leaves InitSem alone. *)
LEMMA OtherSem ==
  ASSUME IInv, InitSem \in SemId, NEW s \in SemId, s # InitSem,
         sems' \in {sems, sems \cup {s}, sems \ {s}},
         \/ count' = count
         \/ \E v : count' = [count EXCEPT ![s] = v],
         \/ wait_queue' = wait_queue
         \/ \E q : wait_queue' = [wait_queue EXCEPT ![s] = q]
  PROVE  /\ InitSem \in sems' <=> InitSem \in sems
         /\ count'[InitSem] = count[InitSem]
         /\ wait_queue'[InitSem] = wait_queue[InitSem]
<1>1. InitSem \in sems' <=> InitSem \in sems
  OBVIOUS
<1>2. count \in [SemId -> Nat] /\ wait_queue \in [SemId -> Seq(Pid)]
  BY DEF IInv, TypeOK
<1>3. count'[InitSem] = count[InitSem]
  BY <1>2
<1>4. wait_queue'[InitSem] = wait_queue[InitSem]
  BY <1>2
<1> QED BY <1>1, <1>3, <1>4

(* What the abstract semaphore sees of InitSem. *)
View == <<InitSem \in sems, count[InitSem] - Len(wait_queue[InitSem]),
          Range(wait_queue[InitSem])>>

(* A step that leaves a semaphore alone is a stutter of Dijkstra's.        *)
LEMMA Stutter ==
  ASSUME InitSem \in sems' <=> InitSem \in sems,
         count'[InitSem] = count[InitSem],
         wait_queue'[InitSem] = wait_queue[InitSem]
  PROVE  UNCHANGED View
<1>1. InitSem' = InitSem
  BY Zenon DEF InitSem, KERNEL_PID
<1> QED BY <1>1 DEF View

(* signal: V.  The unit goes to the first waiter or to the count. *)
LEMMA SignalIsV ==
  ASSUME IInv, InitSem \in SemId, NEW key \in Keys, sys_sem_signal(key)
  PROVE  Dijkstra!V \/ UNCHANGED View
<1>1. PICK s \in SemId : s = Sem(key)
  BY Zenon, SemInSemId
<1>2. UNCHANGED sems
  BY DEF sys_sem_signal
<1>3. CASE SignalNotExist
  BY Zenon, <1>2, <1>3, Stutter DEF SignalNotExist
<1>4. CASE s # InitSem
  BY Zenon, <1>1, <1>2, <1>4, OtherSem, Stutter
     DEF sys_sem_signal, SignalWake, SignalCount, SignalNotExist
<1>5. CASE s = InitSem /\ s \in sems
  <2> DEFINE q == wait_queue[s]
  <2>1. /\ q \in Seq(Pid) /\ IsInjective(q) /\ count[s] \in Nat /\ Len(q) \in Nat
    BY Zenon, <1>5, SemView
  <2>2. count \in [SemId -> Nat] /\ wait_queue \in [SemId -> Seq(Pid)]
    BY Zenon DEF IInv, TypeOK
  <2>3. CASE q # <<>>
    <3>1. SignalWake(s)
      BY Zenon, <1>1, <1>5, <2>3 DEF sys_sem_signal
    <3>2. count'[s] = count[s] /\ wait_queue'[s] = Tail(q)
      BY Zenon, <2>2, <3>1 DEF SignalWake
    <3>3. /\ Len(Tail(q)) = Len(q) - 1 /\ Head(q) \in Range(q)
          /\ Range(Tail(q)) = Range(q) \ {Head(q)}
      <4>1. /\ Len(Tail(q)) = Len(q) - 1 /\ Head(q) \in Range(q)
            /\ Range(q) = Range(Tail(q)) \cup {Head(q)} /\ Head(q) \notin Range(Tail(q))
        BY Zenon, <2>1, <2>3, TailMembers
      <4> QED BY Zenon, <4>1
    <3>4. count'[s] - Len(wait_queue'[s]) = (count[s] - Len(q)) + 1
      BY SMTT(30), <2>1, <3>2, <3>3
    <3>5. \E p \in Range(q) : Range(wait_queue'[s]) = Range(q) \ {p}
      BY Zenon, <3>2, <3>3
    <3> QED BY Zenon, <1>2, <1>5, <3>4, <3>5 DEF Dijkstra!V
  <2>4. CASE q = <<>>
    <3>1. SignalCount(s)
      BY Zenon, <1>1, <1>5, <2>4 DEF sys_sem_signal
    <3>2. count'[s] = count[s] + 1 /\ wait_queue'[s] = q
      BY Zenon, <2>2, <3>1 DEF SignalCount
    <3>3. count'[s] - Len(wait_queue'[s]) = (count[s] - Len(q)) + 1
      BY <2>1, <3>2
    <3>4. Range(q) = {}
      BY Zenon, <2>4, EmptyQueue
    <3> QED BY Zenon, <1>2, <1>5, <3>2, <3>3, <3>4 DEF Dijkstra!V
  <2> QED BY Zenon, <2>3, <2>4
<1> QED BY Zenon, <1>1, <1>3, <1>4, <1>5 DEF sys_sem_signal

(* wait: P by the running process.  It takes a unit, or queues itself when *)
(* there is none; with a unit there is nobody in the queue.                *)
LEMMA WaitIsP ==
  ASSUME IInv, InitSem \in SemId, NEW key \in Keys, sys_sem_wait(key)
  PROVE  Dijkstra!P(current) \/ UNCHANGED View
<1>1. PICK s \in SemId : s = Sem(key)
  BY SemInSemId
<1>2. UNCHANGED sems
  BY Zenon DEF sys_sem_wait
<1>3. CASE WaitNotExist
  BY Zenon, <1>2, <1>3, Stutter DEF WaitNotExist
<1>4. CASE s # InitSem
  BY Zenon, <1>1, <1>2, <1>4, OtherSem, Stutter
     DEF sys_sem_wait, WaitBlock, WaitTake, WaitNotExist
<1>5. CASE s = InitSem /\ s \in sems
  <2> DEFINE q == wait_queue[s]
  <2>1. /\ q \in Seq(Pid) /\ count[s] \in Nat /\ Len(q) \in Nat
        /\ current \notin Range(q) /\ current \in Pid
        /\ q # <<>> => count[s] = 0
    BY Zenon, <1>5, SemView DEF IInv, TypeOK
  <2>2. count \in [SemId -> Nat] /\ wait_queue \in [SemId -> Seq(Pid)]
    BY DEF IInv, TypeOK
  <2>3. CASE count[s] = 0
    <3>1. WaitBlock(s)
      BY Zenon, <1>1, <1>5, <2>3 DEF sys_sem_wait
    <3>2. count'[s] = count[s] /\ wait_queue'[s] = Append(q, current)
      BY Zenon, <2>2, <3>1 DEF WaitBlock
    <3>3. /\ Len(Append(q, current)) = Len(q) + 1
          /\ Range(Append(q, current)) = Range(q) \cup {current}
      BY <2>1, AppendMembers
    <3>4. /\ count'[s] - Len(wait_queue'[s]) = (count[s] - Len(q)) - 1
          /\ ~(count[s] - Len(q) > 0)
      BY <2>1, <2>3, <3>2, <3>3
    <3>5. Range(wait_queue'[s]) = Range(q) \cup {current}
      BY <3>2, <3>3
    <3> QED BY Zenon, <1>2, <1>5, <2>1, <3>4, <3>5 DEF Dijkstra!P
  <2>4. CASE count[s] # 0
    <3>1. WaitTake(s)
      BY Zenon, <1>1, <1>5, <2>4 DEF sys_sem_wait
    <3>2. count'[s] = count[s] - 1 /\ wait_queue'[s] = q
      BY Zenon, <2>2, <3>1 DEF WaitTake
    <3>3. Len(q) = 0
      BY Zenon, <2>1, <2>4, EmptyQueue
    <3>4. /\ count'[s] - Len(wait_queue'[s]) = (count[s] - Len(q)) - 1
          /\ count[s] - Len(q) > 0
      BY <2>1, <2>4, <3>2, <3>3
    <3> QED BY SMTT(30), <1>2, <1>5, <2>1, <3>2, <3>4 DEF Dijkstra!P
  <2> QED BY Zenon, <2>3, <2>4
<1> QED BY Zenon, <1>1, <1>3, <1>4, <1>5 DEF sys_sem_wait

(* new_sem: Create. *)
LEMMA NewIsCreate ==
  ASSUME ProcessManagerAssumption, IInv, InitSem \in SemId, NEW key \in Keys,
         NEW value \in Values, sys_new_sem(key, value)
  PROVE  Dijkstra!Create(value) \/ UNCHANGED View
<1>1. PICK s \in SemId : s = Sem(key)
  BY Zenon, SemInSemId
<1>2. CASE s # InitSem
  BY Zenon, <1>1, <1>2, OtherSem, Stutter DEF sys_new_sem
<1>3. CASE s = InitSem
  <2>1. /\ InitSem \in sems' /\ count'[InitSem] = value
        /\ wait_queue'[InitSem] = <<>>
    BY <1>1, <1>3 DEF sys_new_sem, IInv, TypeOK
  <2>2. value - Len(<<>>) = value
    BY EmptyQueue DEF ProcessManagerAssumption
  <2>3. Range(<<>>) = {}
    BY Zenon, EmptyQueue
  <2> QED BY Zenon, <2>1, <2>2, <2>3 DEF Dijkstra!Create
<1> QED BY <1>2, <1>3

(* A step that takes InitSem away: remove_sem, or the exit of the last     *)
(* process of the family.                                                  *)
LEMMA GoneIsDestroy ==
  ASSUME InitSem \notin sems', count'[InitSem] = 0, wait_queue'[InitSem] = <<>>
  PROVE  Dijkstra!Destroy
<1>1. Len(<<>>) = 0 /\ Range(<<>>) = {}
  BY EmptyQueue
<1>2. count'[InitSem] - Len(wait_queue'[InitSem]) = 0
  <2>1. Len(wait_queue'[InitSem]) = 0
    BY <1>1
  <2>2. 0 - 0 = 0
    OBVIOUS
  <2> QED BY <2>1, <2>2, Zenon
<1>3. Range(wait_queue'[InitSem]) = {}
  BY Zenon, <1>1
<1> QED BY <1>2, <1>3 DEF Dijkstra!Destroy

(* Every step of the kernel is a step of InitSem or leaves it alone. *)
LEMMA StepRefines ==
  ASSUME ProcessManagerAssumption, IInv, InitSem \in SemId, [Next]_vars
  PROVE  Dijkstra!Next \/ UNCHANGED View
<1>1. CASE UNCHANGED <<sems, count, wait_queue>>
  BY <1>1, Stutter
<1>2. ASSUME \/ switch \/ sys_fork \/ shutdown \/ Stopped \/ UNCHANGED vars
             \/ \E found \in BOOLEAN : spawn_init(found) \/ sys_spawn(found)
             \/ \E pid \in Pid \cup {0} : sys_wait_pid(pid)
      PROVE  UNCHANGED <<sems, count, wait_queue>>
  <2>1. UNCHANGED semVars
    BY <1>2 DEF switch, sys_fork, shutdown, Stopped, vars, spawn_init, sys_spawn,
                add_spawned, panic, sys_wait_pid
  <2> QED BY Zenon, <2>1 DEF semVars
<1>3. ASSUME NEW ret \in ExitCodes, sys_exit(ret)
      PROVE  Dijkstra!Next \/ UNCHANGED View
  <2>1. CASE InitSem \in DroppedSems
    <3>1. /\ InitSem \notin sems' /\ count'[InitSem] = 0
          /\ wait_queue'[InitSem] = <<>>
      BY Zenon, <1>3, <2>1 DEF sys_exit
    <3> QED BY Zenon, <3>1, GoneIsDestroy DEF Dijkstra!Next
  <2>2. CASE InitSem \notin DroppedSems
    <3>1. /\ InitSem \in sems' <=> InitSem \in sems
          /\ count'[InitSem] = count[InitSem]
          /\ wait_queue'[InitSem] = wait_queue[InitSem]
      BY Zenon, <1>3, <2>2 DEF sys_exit
    <3> QED BY Zenon, <3>1, Stutter
  <2> QED BY Zenon, <2>1, <2>2
<1>4. ASSUME NEW key \in Keys, NEW value \in Values, sys_new_sem(key, value)
      PROVE  Dijkstra!Next \/ UNCHANGED View
  BY <1>4, NewIsCreate DEF Dijkstra!Next
<1>5. ASSUME NEW key \in Keys, sys_remove_sem(key)
      PROVE  Dijkstra!Next \/ UNCHANGED View
  <2>1. PICK s \in SemId : s = Sem(key)
    BY Zenon, SemInSemId
  <2>2. CASE s # InitSem
    BY Zenon, <1>5, <2>1, <2>2, OtherSem, Stutter DEF sys_remove_sem
  <2>3. CASE s = InitSem
    <3>1. /\ InitSem \notin sems' /\ count'[InitSem] = 0
          /\ wait_queue'[InitSem] = <<>>
      BY Zenon, <1>5, <2>1, <2>3 DEF sys_remove_sem, IInv, TypeOK
    <3> QED BY Zenon, <3>1, GoneIsDestroy DEF Dijkstra!Next
  <2> QED BY <2>2, <2>3
<1>6. ASSUME NEW key \in Keys, sys_sem_signal(key)
      PROVE  Dijkstra!Next \/ UNCHANGED View
  BY <1>6, SignalIsV DEF Dijkstra!Next
<1>7. ASSUME NEW key \in Keys, sys_sem_wait(key)
      PROVE  Dijkstra!Next \/ UNCHANGED View
  <2>1. current \in Pid
    BY DEF IInv, TypeOK
  <2> QED BY Zenon, <1>7, <2>1, WaitIsP DEF Dijkstra!Next
<1> QED BY Zenon, <1>1, <1>2, <1>3, <1>4, <1>5, <1>6, <1>7 DEF Next

(* A semaphore of the kernel implements Dijkstra's semaphore for any       *)
(* number of processes, keys and units, as soon as a first user process    *)
(* and a key exist: SEM.wait and SEM.signal of any process, new_sem,       *)
(* remove_sem and the exit of a family are P, V, Create and Destroy.       *)
THEOREM SemaphoreRefines ==
  ASSUME Keys # {}, MaxPid > KERNEL_PID
  PROVE  Spec => ImplementsDijkstra
<1>1. InitSem \in SemId
  BY ProcessManagerAssumption
     DEF InitSem, SemId, Pid, KERNEL_PID, ProcessManagerAssumption
<1>2. Init => Dijkstra!Init
  <2>1. ASSUME Init
        PROVE  count[InitSem] = 0 /\ wait_queue[InitSem] = <<>> /\ InitSem \notin sems
    BY <1>1, <2>1 DEF Init
  <2>2. Len(<<>>) = 0 /\ Range(<<>>) = {} /\ 0 - 0 = 0
    BY EmptyQueue
  <2> QED BY <2>1, <2>2 DEF Dijkstra!Init
<1>3. IInv /\ [Next]_vars => Dijkstra!Next \/ UNCHANGED View
  BY <1>1, StepRefines, ProcessManagerAssumption
<1> QED BY <1>2, <1>3, Invariance, PTL
        DEF Spec, ImplementsDijkstra, Dijkstra!Spec, View
=============================================================================
