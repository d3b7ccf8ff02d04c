---------------------------- MODULE KernelProofs ----------------------------
(***************************************************************************)
(* Theorems on what the kernel keeps for its processes: the stacks, the    *)
(* heap and the frames of their address spaces, for any layout of memory   *)
(* and any number of processes; the locks, the table of descriptors and    *)
(* the queue of keys behind the system calls on descriptors.               *)
(***************************************************************************)
EXTENDS AddressSpace, Descriptors, FiniteSetTheorems, SequenceTheorems, WellFoundedInduction, TLAPS

(* What the invariants of AddressSpace rest on.  Processes are numbered in *)
(* the order of their creation, and every stack reaches up to the top of   *)
(* its slot.                                                               *)
WholeStacks ==
  /\ live \subseteq 1 .. born
  /\ \A p \in live : /\ stack[p].end = STACK_MAX_PAGES
                     /\ stack[p].start < STACK_MAX_PAGES

(* Every frame is free, lost, or mapped as a stack, heap or code page. *)
FramesKept ==
  free + lost + Cardinality(stack_pages) + Cardinality(heap_pages) + code
    = Frames

(* The code is mapped while the family lives, and after it exactly when    *)
(* the first process was not the last.                                     *)
CodeKept ==
  code = IF live # {} \/ "code" \in untidy THEN CodePages ELSE 0

(* Of the heap a family that is gone leaves what failed calls of brk left, *)
(* and the last page if the end was within it.                             *)
TailLeft ==
  live = {} =>
    Cardinality(heap_pages) = Cardinality(heap_stray)
                                + (IF "tail" \in untidy THEN 1 ELSE 0)

StackInv ==
  WholeStacks /\ StacksApart /\ StackAccounted /\ FaultBelowStack /\ StackKept

HeapInv == HeapExact /\ FramesKept /\ CodeKept /\ TailLeft

(* The inductive invariant. *)
IndInv == TypeOK /\ StackInv /\ HeapInv

-----------------------------------------------------------------------------
(* Numbers.                                                                *)

(* A set of natural numbers that is not empty has a least element. *)
LEMMA LeastNatural ==
  ASSUME NEW T \in SUBSET Nat, T # {}
  PROVE  \E x \in T : \A y \in T : x <= y
<1>1. PICK x \in T : \A y \in T : ~(<<y, x>> \in OpToRel(<, Nat))
  BY WFMin, NatLessThanWellFounded, Zenon
<1>2. ASSUME NEW y \in T PROVE x <= y
  <2>1. <<y, x>> \in Nat \X Nat /\ ~(<<y, x>> \in OpToRel(<, Nat))
    BY Zenon, <1>1
  <2> QED
    BY <2>1 DEF OpToRel
<1> QED
  BY <1>2

(* The division of an address into a page and the rest. *)
LEMMA Division ==
  ASSUME NEW a \in Nat
  PROVE  /\ a \div PAGE_SIZE \in Nat
         /\ a % PAGE_SIZE \in 0 .. PAGE_SIZE - 1
         /\ a % PAGE_SIZE = a - PAGE_SIZE * (a \div PAGE_SIZE)
<1> PAGE_SIZE \in Nat \ {0}
  BY AddressSpaceAssumption
<1>1. a \div PAGE_SIZE \in Nat /\ a % PAGE_SIZE \in 0 .. PAGE_SIZE - 1
  OBVIOUS
<1>2. a % PAGE_SIZE = a - PAGE_SIZE * (a \div PAGE_SIZE)
  OBVIOUS
<1> QED
  BY <1>1, <1>2

(* A quotient is the number it should be. *)
LEMMA Quotient ==
  ASSUME NEW q \in Nat, NEW r \in 0 .. PAGE_SIZE - 1
  PROVE  (PAGE_SIZE * q + r) \div PAGE_SIZE = q
<1> PAGE_SIZE \in Nat \ {0}
  BY AddressSpaceAssumption
<1> QED
  OBVIOUS

(* Rounding up adds a page exactly when the address is within one, and the *)
(* addresses brk accepts stay within the heap.                             *)
LEMMA AlignUp ==
  ASSUME NEW a \in Nat
  PROVE  /\ align_up(a) = a \div PAGE_SIZE
                            + (IF a % PAGE_SIZE = 0 THEN 0 ELSE 1)
         /\ align_up(a) \in Nat
         /\ a <= HEAP_END => align_up(a) <= HEAP_PAGES
<1> DEFINE q == a \div PAGE_SIZE
           r == a % PAGE_SIZE
<1>1. /\ PAGE_SIZE \in Nat \ {0} /\ HEAP_PAGES \in Nat
      /\ q \in Nat /\ r \in 0 .. PAGE_SIZE - 1 /\ r = a - PAGE_SIZE * q
  BY Zenon, AddressSpaceAssumption, Division
<1> HIDE DEF q, r
<1>2. r = 0 => align_up(a) = q
  <2> HAVE r = 0
  <2>1. a + PAGE_SIZE - 1 = PAGE_SIZE * q + (PAGE_SIZE - 1)
    BY <1>1
  <2> QED
    BY <1>1, <2>1, Quotient DEF align_up
<1>3. r # 0 => align_up(a) = q + 1
  <2> HAVE r # 0
  <2>1. /\ a + PAGE_SIZE - 1 = PAGE_SIZE * (q + 1) + (r - 1)
        /\ r - 1 \in 0 .. PAGE_SIZE - 1 /\ q + 1 \in Nat
    BY <1>1
  <2> QED
    BY <1>1, <2>1, Quotient DEF align_up
<1>4. a <= HEAP_END => q < HEAP_PAGES
  <2>1. a <= HEAP_END => PAGE_SIZE * q < PAGE_SIZE * HEAP_PAGES
    BY <1>1 DEF HEAP_END
  <2> QED
    BY <1>1, <2>1
<1>5. align_up(a) = q + (IF r = 0 THEN 0 ELSE 1)
  BY <1>1, <1>2, <1>3
<1>6. align_up(a) \in Nat /\ (a <= HEAP_END => align_up(a) <= HEAP_PAGES)
  BY <1>1, <1>4, <1>5
<1> QED
  BY <1>5, <1>6 DEF q, r

-----------------------------------------------------------------------------
(* Sets of pages.                                                          *)

(* The size of a union of two sets that do not meet.                       *)
LEMMA DisjointSize ==
  ASSUME NEW S, NEW T, IsFiniteSet(S), IsFiniteSet(T), S \cap T = {}
  PROVE  /\ IsFiniteSet(S \cup T)
         /\ Cardinality(S \cup T) = Cardinality(S) + Cardinality(T)
<1>1. Cardinality(S) \in Nat /\ Cardinality(T) \in Nat
  BY FS_CardinalityType
<1>2. Cardinality(S \cap T) = 0
  BY FS_EmptySet
<1>3. /\ IsFiniteSet(S \cup T)
      /\ Cardinality(S \cup T)
           = Cardinality(S) + Cardinality(T) - Cardinality(S \cap T)
  BY FS_Union
<1> QED
  BY <1>1, <1>2, <1>3

(* The size of a run of n numbers.                                         *)
LEMMA IntervalSize ==
  ASSUME NEW first \in Nat, NEW n \in Nat
  PROVE  /\ IsFiniteSet(first .. first + n - 1)
         /\ Cardinality(first .. first + n - 1) = n
<1>1. first + n - 1 \in Int
  OBVIOUS
<1>2. IsFiniteSet(first .. first + n - 1)
  BY <1>1, FS_Interval
<1>3. Cardinality(first .. first + n - 1)
        = IF first > first + n - 1 THEN 0 ELSE first + n - 1 - first + 1
  BY <1>1, FS_Interval
<1> QED
  BY <1>2, <1>3

(* A run of n pages of a slot has n members. *)
LEMMA RunSize ==
  ASSUME NEW slot, NEW first \in Nat, NEW n \in Nat
  PROVE  IsFiniteSet(Run(slot, first, n)) /\ Cardinality(Run(slot, first, n)) = n
<1>1. IsFiniteSet({slot}) /\ Cardinality({slot}) = 1
  BY Zenon, FS_Singleton
<1>2. /\ IsFiniteSet(first .. first + n - 1)
      /\ Cardinality(first .. first + n - 1) = n
  BY IntervalSize
<1>3. /\ IsFiniteSet({slot} \X (first .. first + n - 1))
      /\ Cardinality({slot} \X (first .. first + n - 1)) = 1 * n
  BY <1>1, <1>2, FS_Product
<1> QED
  BY <1>3 DEF Run

(* There are finitely many pages. *)
LEMMA FinitePages ==
  /\ \A S \in SUBSET StackPage : IsFiniteSet(S)
  /\ \A S \in SUBSET (0 .. HEAP_PAGES - 1) : IsFiniteSet(S)
<1>1. IsFiniteSet(Slot) /\ IsFiniteSet(Offset)
  BY FS_Interval, AddressSpaceAssumption DEF Slot, Offset
<1>2. IsFiniteSet(StackPage)
  BY <1>1, FS_Product DEF StackPage
<1>3. IsFiniteSet(0 .. HEAP_PAGES - 1)
  BY FS_Interval, AddressSpaceAssumption
<1> QED
  BY Zenon, <1>2, <1>3, FS_Subset

-----------------------------------------------------------------------------
(* map_range.                                                              *)

(* Reach is well defined: the pages before it are not mapped. *)
LEMMA ReachStops ==
  ASSUME NEW first \in Nat, NEW n \in Nat, NEW busy
  PROVE  /\ Reach(first, n, busy) \in 0 .. n
         /\ \A i \in first .. first + Reach(first, n, busy) - 1 : i \notin busy
<1> DEFINE T == {k \in 0 .. n : k = n \/ first + k \in busy}
<1>1. PICK k \in T : \A j \in T : k <= j
  <2>1. n \in T /\ T \in SUBSET Nat
    OBVIOUS
  <2> QED
    BY Zenon, <2>1, LeastNatural
<1>2. ASSUME NEW i \in first .. first + k - 1 PROVE i \notin busy
  <2>1. i - first \in 0 .. n /\ first + (i - first) = i /\ ~(k <= i - first)
    OBVIOUS
  <2> QED
    BY <1>1, <2>1
<1> HIDE DEF T
<1>3. \E r \in 0 .. n : /\ \A i \in first .. first + r - 1 : i \notin busy
                        /\ r = n \/ first + r \in busy
  BY <1>1, <1>2 DEF T
<1> QED
  BY Zenon, <1>3 DEF Reach

(* What map_range maps was not mapped, and there were frames for it and    *)
(* for the one that may be lost.                                           *)
LEMMA MapFacts ==
  ASSUME free \in Nat, NEW first \in Nat, NEW n \in Nat, NEW busy
  PROVE  /\ MapDone(first, n, busy) \in 0 .. n
         /\ MapLost(first, n, busy) \in Nat
         /\ MapDone(first, n, busy) + MapLost(first, n, busy) <= free
         /\ \A i \in first .. first + MapDone(first, n, busy) - 1 : i \notin busy
<1> DEFINE r == Reach(first, n, busy)
           d == MapDone(first, n, busy)
           l == MapLost(first, n, busy)
<1>1. r \in 0 .. n /\ \A i \in first .. first + r - 1 : i \notin busy
  BY ReachStops
<1>2. d = IF r <= free THEN r ELSE free
  BY DEF MapDone
<1>3. l \in {0, 1} /\ (l = 1 => d < free)
  BY DEF MapLost
<1> HIDE DEF r, d, l
<1>4. d \in 0 .. n /\ l \in Nat /\ d + l <= free /\ d <= r
  BY <1>1, <1>2, <1>3
<1>5. \A i \in first .. first + d - 1 : i \notin busy
  BY <1>1, <1>4
<1> QED
  BY <1>4, <1>5 DEF d, l

-----------------------------------------------------------------------------
(* fork.                                                                   *)

(* The range of a live process' stack, and its top page. *)
LEMMA StackShape ==
  ASSUME TypeOK, WholeStacks, StackAccounted, NEW p \in live
  PROVE  /\ stack[p] \in StackRange /\ stack[p].slot \in Slot
         /\ stack[p].start \in Offset /\ stack[p].end = STACK_MAX_PAGES
         /\ stack[p].usage = STACK_MAX_PAGES - stack[p].start
         /\ stack[p].usage \in Nat
         /\ Owned(p) = {stack[p].slot} \X (stack[p].start .. STACK_MAX_PAGES - 1)
         /\ Owned(p) \subseteq stack_pages
         /\ <<stack[p].slot, STACK_MAX_PAGES - 1>> \in stack_pages
<1>1. STACK_MAX_PAGES \in Nat \ {0}
  BY AddressSpaceAssumption
<1>2. p \in Proc /\ stack[p] \in StackRange
  BY DEF TypeOK
<1>3. /\ stack[p].slot \in Slot /\ stack[p].start \in 0 .. STACK_MAX_PAGES
      /\ stack[p].end = STACK_MAX_PAGES /\ stack[p].start < STACK_MAX_PAGES
      /\ stack[p].usage = stack[p].end - stack[p].start
  BY <1>2 DEF StackRange, WholeStacks, StackAccounted
<1>4. stack[p].start \in Offset /\ stack[p].usage \in Nat
  BY <1>1, <1>3 DEF Offset
<1>5. Owned(p) = {stack[p].slot} \X (stack[p].start .. STACK_MAX_PAGES - 1)
  BY <1>3 DEF Owned
<1>6. Owned(p) \subseteq stack_pages
  BY DEF StackAccounted
<1>7. STACK_MAX_PAGES - 1 \in stack[p].start .. STACK_MAX_PAGES - 1
  BY <1>1, <1>3
<1>8. <<stack[p].slot, STACK_MAX_PAGES - 1>> \in Owned(p)
  BY <1>5, <1>7
<1> QED
  BY <1>2, <1>3, <1>4, <1>5, <1>6, <1>8

(* The slot fork settles for holds no live stack, its pages are not        *)
(* mapped, and what the attempts in vain leave was not mapped either.      *)
LEMMA ForkFacts ==
  ASSUME TypeOK, StackInv, NEW p \in live, NEW slot \in Slot, ForkSlot(p, slot)
  PROVE  /\ Image(p, slot) = {slot} \X (stack[p].start .. STACK_MAX_PAGES - 1)
         /\ Image(p, slot) \subseteq StackPage
         /\ Cardinality(Image(p, slot)) = stack[p].usage
         /\ Image(p, slot) \cap stack_pages = {}
         /\ \A q \in live : stack[q].slot # slot
         /\ LeftPages(p, slot) \subseteq StackPage
         /\ LeftPages(p, slot) \cap stack_pages = {}
         /\ LeftPages(p, slot) \cap Image(p, slot) = {}
         /\ Cardinality(LeftPages(p, slot)) \in Nat
         /\ Cardinality(Tried(p, slot)) \in Nat
<1> USE DEF StackInv
<1>1. /\ STACK_MAX_PAGES \in Nat \ {0} /\ MaxSlot \in Nat
      /\ slot \in Nat /\ slot <= MaxSlot
  BY AddressSpaceAssumption DEF Slot
<1>2. /\ stack[p].slot \in Nat /\ stack[p].start \in Offset
      /\ stack[p].usage = STACK_MAX_PAGES - stack[p].start
      /\ stack[p].usage \in Nat /\ stack[p].start \in Nat
      /\ children[p] \in Nat
  <2>1. /\ stack[p].slot \in Slot /\ stack[p].start \in Offset
        /\ stack[p].usage = STACK_MAX_PAGES - stack[p].start
        /\ stack[p].usage \in Nat
    BY Zenon, StackShape
  <2>2. children[p] \in Nat
    BY DEF TypeOK
  <2> QED
    BY <1>1, <2>1, <2>2 DEF Slot, Offset
<1>3. ASSUME NEW s
      PROVE  Image(p, s) = {s} \X (stack[p].start .. STACK_MAX_PAGES - 1)
  <2>1. stack[p].start + stack[p].usage - 1 = STACK_MAX_PAGES - 1
    BY <1>1, <1>2
  <2> QED
    BY <2>1 DEF Image, Run
<1>4. ASSUME NEW s \in Slot PROVE Image(p, s) \subseteq StackPage
  <2>1. (stack[p].start .. STACK_MAX_PAGES - 1) \subseteq Offset
    BY <1>1, <1>2 DEF Offset
  <2> QED
    BY <1>3, <2>1 DEF StackPage
<1>5. Cardinality(Image(p, slot)) = stack[p].usage
  BY <1>2, RunSize DEF Image
<1>6. Image(p, slot) \cap stack_pages = {}
  BY DEF ForkSlot, Clear
<1>7. \A q \in live : stack[q].slot # slot
  <2>1. <<slot, STACK_MAX_PAGES - 1>> \in Image(p, slot)
    <3>1. STACK_MAX_PAGES - 1 \in stack[p].start .. STACK_MAX_PAGES - 1
      BY <1>1, <1>2 DEF Offset
    <3> QED
      BY <1>3, <3>1
  <2>2. \A q \in live : <<stack[q].slot, STACK_MAX_PAGES - 1>> \in stack_pages
    BY StackShape
  <2> QED
    BY <1>6, <2>1, <2>2
<1>8. ASSUME NEW page \in LeftPages(p, slot)
      PROVE  page \in StackPage /\ page \notin stack_pages
                                /\ page \notin Image(p, slot)
  <2>1. PICK s \in Tried(p, slot) : page \in Left(p, s)
    BY DEF LeftPages
  <2>2. s \in Slot /\ s # slot
    BY <1>1, <1>2 DEF Tried, Slot
  <2>3. page \in Image(p, s)
    BY <2>1 DEF Left
  <2>4. page \in {s} \X (stack[p].start .. STACK_MAX_PAGES - 1)
    BY <1>3, <2>3
  <2>5. page \in stack_pages => page[2] < page[2]
    BY <2>1, <2>3 DEF Left
  <2>6. ~(page[2] < page[2])
    BY <1>1, <1>2, <2>4
  <2>7. page \notin {slot} \X (stack[p].start .. STACK_MAX_PAGES - 1)
    BY <2>2, <2>4
  <2> QED
    BY <1>3, <1>4, <2>2, <2>3, <2>5, <2>6, <2>7
<1>9. LeftPages(p, slot) \subseteq StackPage
  BY <1>8
<1>10. Cardinality(LeftPages(p, slot)) \in Nat
  BY <1>9, FinitePages, FS_CardinalityType
<1>11. Cardinality(Tried(p, slot)) \in Nat
  <2>1. stack[p].slot + children[p] + 1 \in Int /\ slot - 1 \in Int
    BY <1>1, <1>2
  <2> QED
    BY <2>1, FS_Interval, FS_CardinalityType DEF Tried
<1> QED
  BY <1>3, <1>4, <1>5, <1>6, <1>7, <1>8, <1>9, <1>10, <1>11

(* While some process lives, a step that leaves the heap and the code      *)
(* alone keeps what is said of them.                                       *)
LEMMA HeapStays ==
  ASSUME IndInv, live # {}, live' # {}, UNCHANGED <<heapVars, code>>
  PROVE  HeapExact' /\ CodeKept' /\ TailLeft'
BY DEF IndInv, HeapInv, HeapExact, CodeKept, TailLeft, heapVars, align_up

(* The accounts bound the frames that are free and those that are lost. *)
LEMMA AccountsBound ==
  ASSUME NEW f \in Nat, NEW l \in Nat, NEW c \in Nat,
         NEW S \in SUBSET StackPage, NEW H \in SUBSET (0 .. HEAP_PAGES - 1),
         f + l + Cardinality(S) + Cardinality(H) + c = Frames
  PROVE  f \in 0 .. Frames /\ l \in 0 .. Frames
<1>1. Cardinality(S) \in Nat /\ Cardinality(H) \in Nat
  BY FinitePages, FS_CardinalityType
<1> QED
  BY <1>1, AddressSpaceAssumption

(* The frames that fork takes are mapped or lost. *)
LEMMA ForkFrames ==
  ASSUME IndInv, NEW p \in live, NEW slot \in Slot, ForkSlot(p, slot),
         ForkCost(p, slot) <= free,
         stack_pages' = stack_pages \cup LeftPages(p, slot)
                                    \cup ForkPages(p, slot),
         free' = free - ForkCost(p, slot),
         lost' = lost + Cardinality(Tried(p, slot)),
         UNCHANGED <<heapVars, code>>
  PROVE  free' \in Nat /\ lost' \in Nat /\ FramesKept'
<1> DEFINE L == LeftPages(p, slot)
           I == Image(p, slot)
           t == Cardinality(Tried(p, slot))
<1>1. /\ I \subseteq StackPage /\ Cardinality(I) = stack[p].usage
      /\ I \cap stack_pages = {}
      /\ L \subseteq StackPage /\ L \cap stack_pages = {} /\ L \cap I = {}
      /\ Cardinality(L) \in Nat /\ t \in Nat
  BY ForkFacts DEF IndInv
<1>2. stack_pages \in SUBSET StackPage /\ free \in Nat /\ lost \in Nat
  BY DEF IndInv, TypeOK
<1>3. stack[p].usage \in Nat
  BY Zenon, StackShape DEF IndInv, StackInv
<1>4. IsFiniteSet(L) /\ IsFiniteSet(I) /\ IsFiniteSet(stack_pages)
  BY <1>1, <1>2, FinitePages
<1>5. ForkCost(p, slot) = stack[p].usage + Cardinality(L) + t
  BY DEF ForkCost
<1>6. stack_pages' = (stack_pages \cup L) \cup I
  BY DEF ForkPages
<1> HIDE DEF L, I, t
<1>7. Cardinality(stack_pages')
        = Cardinality(stack_pages) + Cardinality(L) + stack[p].usage
  <2>1. /\ IsFiniteSet(stack_pages \cup L)
        /\ Cardinality(stack_pages \cup L)
             = Cardinality(stack_pages) + Cardinality(L)
    BY Zenon, <1>1, <1>4, DisjointSize
  <2>2. (stack_pages \cup L) \cap I = {}
    BY <1>1
  <2>3. Cardinality((stack_pages \cup L) \cup I)
          = Cardinality(stack_pages \cup L) + Cardinality(I)
    BY <1>4, <2>1, <2>2, DisjointSize
  <2> QED
    BY <1>1, <1>6, <2>1, <2>3
<1>8. Cardinality(stack_pages) \in Nat /\ Cardinality(heap_pages) \in Nat
  BY <1>4, FinitePages, FS_CardinalityType DEF IndInv, TypeOK
<1>9. free' \in Nat /\ lost' \in Nat
  BY <1>1, <1>2, <1>3, <1>5 DEF t
<1>10. /\ free' = free - (stack[p].usage + Cardinality(L) + t)
       /\ lost' = lost + t
       /\ heap_pages' = heap_pages /\ code' = code /\ code \in Nat
  BY <1>5, AddressSpaceAssumption DEF t, heapVars, IndInv, TypeOK
<1>11. free + lost + Cardinality(stack_pages) + Cardinality(heap_pages) + code
         = Frames
  BY DEF IndInv, HeapInv, FramesKept
<1>12. FramesKept'
  BY <1>1, <1>2, <1>3, <1>7, <1>8, <1>10, <1>11 DEF FramesKept
<1> QED
  BY <1>9, <1>12

(* A step that only stops the kernel, for another reason than a fault      *)
(* above a stack, keeps the invariant.                                     *)
LEMMA UnchangedButHalted ==
  ASSUME IndInv, UNCHANGED <<stackVars, heapVars, frameVars>>,
         halted' \in {"no", "fork_loop", "brk_unwrap"}
  PROVE  IndInv'
<1>1. /\ UNCHANGED <<born, live, children, stack, sp, stack_pages, stray>>
      /\ UNCHANGED <<heap_end, heap_pages, heap_stray>>
      /\ UNCHANGED <<code, free, lost, untidy>>
  BY DEF stackVars, heapVars, frameVars
<1>2. TypeOK'
  BY <1>1 DEF IndInv, TypeOK
<1>3. WholeStacks' /\ StacksApart' /\ StackKept' /\ FaultBelowStack'
  BY Zenon, <1>1 DEF IndInv, StackInv, WholeStacks, StacksApart, StackKept,
              FaultBelowStack
<1>4. StackAccounted'
  BY <1>1 DEF IndInv, StackInv, StackAccounted, Owned
<1>5. HeapExact' /\ FramesKept' /\ CodeKept' /\ TailLeft'
  BY <1>1 DEF IndInv, HeapInv, HeapExact, FramesKept, CodeKept, TailLeft,
              align_up
<1> QED
  BY <1>2, <1>3, <1>4, <1>5 DEF IndInv, StackInv, HeapInv

(* A fork keeps the invariant: the child's stack lies apart from all.      *)
LEMMA ForkStep ==
  ASSUME IndInv, NEW p \in Proc, fork(p)
  PROVE  IndInv'
<1>1. PICK slot \in Slot :
        /\ ForkSlot(p, slot)
        /\ IF ForkCost(p, slot) <= free
           THEN /\ born' = born + 1
                /\ live' = live \cup {born + 1}
                /\ children' = [children EXCEPT ![p] = @ + 1]
                /\ stack' = [stack EXCEPT ![born + 1] = ForkStack(p, slot)]
                /\ sp' = [sp EXCEPT ![born + 1] = sp[p]]
                /\ stack_pages' = stack_pages \cup LeftPages(p, slot)
                                              \cup ForkPages(p, slot)
                /\ stray' = stray \cup LeftPages(p, slot)
                /\ free' = free - ForkCost(p, slot)
                /\ lost' = lost + Cardinality(Tried(p, slot))
                /\ UNCHANGED halted
           ELSE /\ halted' = "fork_loop"
                /\ UNCHANGED <<stackVars, free, lost>>
  BY DEF fork
<1>2. /\ p \in live /\ born < MaxProcs /\ halted = "no"
      /\ UNCHANGED <<heapVars, code, untidy>>
  BY DEF fork
<1>3. TypeOK /\ WholeStacks /\ StacksApart /\ StackAccounted /\ StackKept
  BY DEF IndInv, StackInv
<1>4. CASE ~(ForkCost(p, slot) <= free)
  <2>1. UNCHANGED <<stackVars, heapVars, frameVars>> /\ halted' = "fork_loop"
    BY <1>1, <1>2, <1>4 DEF frameVars
  <2> QED
    BY <2>1, UnchangedButHalted
<1>5. CASE ForkCost(p, slot) <= free
  <2>1. PICK c \in Proc : c = born + 1
    BY <1>2, <1>3, AddressSpaceAssumption DEF TypeOK, Proc
  <2>2. /\ born' = c /\ live' = live \cup {c}
        /\ children' = [children EXCEPT ![p] = @ + 1]
        /\ stack' = [stack EXCEPT ![c] = ForkStack(p, slot)]
        /\ sp' = [sp EXCEPT ![c] = sp[p]]
        /\ stack_pages' = stack_pages \cup LeftPages(p, slot)
                                      \cup Image(p, slot)
        /\ stray' = stray \cup LeftPages(p, slot)
        /\ halted' = halted
    BY <1>1, <1>5, <2>1 DEF ForkPages
  <2>3. free' \in Nat /\ lost' \in Nat /\ FramesKept'
    BY <1>1, <1>2, <1>5, ForkFrames
  <2>4. HeapExact' /\ CodeKept' /\ TailLeft'
    BY <1>2, <2>2, HeapStays
  <2>5. /\ Image(p, slot) = {slot} \X (stack[p].start .. STACK_MAX_PAGES - 1)
        /\ Image(p, slot) \subseteq StackPage
        /\ Image(p, slot) \cap stack_pages = {}
        /\ \A q \in live : stack[q].slot # slot
        /\ LeftPages(p, slot) \subseteq StackPage
        /\ LeftPages(p, slot) \cap stack_pages = {}
        /\ LeftPages(p, slot) \cap Image(p, slot) = {}
    BY <1>1, <1>2, <1>3, ForkFacts DEF IndInv
  <2>6. /\ stack[p].slot \in Slot /\ stack[p].start \in Offset
        /\ stack[p] \in StackRange
        /\ stack[p].usage = STACK_MAX_PAGES - stack[p].start
    BY Zenon, <1>2, <1>3, StackShape
  <2>7. ForkStack(p, slot) =
          [slot |-> slot, start |-> stack[p].start,
           end |-> STACK_MAX_PAGES, usage |-> STACK_MAX_PAGES - stack[p].start]
    <3>1. stack[p].start + stack[p].usage = STACK_MAX_PAGES
      BY <2>6, AddressSpaceAssumption DEF Offset
    <3> QED
      BY <2>6, <3>1 DEF ForkStack
  <2>8. /\ \A q \in live : q # c /\ q \in Proc
        /\ c \notin live
    BY <1>3, <2>1 DEF WholeStacks, TypeOK, Proc
  <2>9. /\ stack \in [Proc -> StackRange] /\ sp \in [Proc -> Offset]
        /\ children \in [Proc -> Nat]
    BY <1>3 DEF TypeOK
  <2>10. /\ \A q \in live : stack'[q] = stack[q] /\ sp'[q] = sp[q]
         /\ stack'[c] = ForkStack(p, slot) /\ sp'[c] = sp[p]
    BY <2>2, <2>8, <2>9
  <2>11. \A q \in live : Owned(q)' = Owned(q)
    BY <2>10 DEF Owned
  <2>12. Owned(c)' = Image(p, slot)
    BY <2>5, <2>7, <2>10 DEF Owned
  <2>13. TypeOK'
    <3>1. ForkStack(p, slot) \in StackRange
      BY <2>6, <2>7, AddressSpaceAssumption DEF StackRange, Offset
    <3>2. /\ stack' \in [Proc -> StackRange] /\ sp' \in [Proc -> Offset]
          /\ children' \in [Proc -> Nat]
      BY SMTT(30), <1>2, <2>2, <2>9, <3>1, <1>3 DEF TypeOK
    <3>3. stack_pages' \in SUBSET StackPage /\ stray' \in SUBSET StackPage
      BY <1>3, <2>2, <2>5 DEF TypeOK
    <3>4. /\ heap_end' \in 0 .. HEAP_PAGES * PAGE_SIZE
          /\ heap_pages' \in SUBSET (0 .. HEAP_PAGES - 1)
          /\ heap_stray' \in SUBSET (0 .. HEAP_PAGES - 1)
          /\ code' \in 0 .. CodePages /\ untidy' \in SUBSET {"tail", "code"}
          /\ halted' \in {"no", "fork_loop", "grow_underflow", "brk_unwrap"}
      BY <1>2, <1>3, <2>2 DEF TypeOK, heapVars
    <3>5. free' \in 0 .. Frames /\ lost' \in 0 .. Frames
      BY <2>3, <3>3, <3>4, AccountsBound, AddressSpaceAssumption DEF FramesKept
    <3>6. born' \in Proc /\ live' \in SUBSET Proc
      BY <1>3, <2>2 DEF TypeOK
    <3> QED
      BY SMTT(30), <3>2, <3>3, <3>4, <3>5, <3>6 DEF TypeOK
  <2>14. WholeStacks'
    <3>1. live' \subseteq 1 .. born'
      BY <1>3, <2>1, <2>2 DEF WholeStacks, TypeOK, Proc
    <3>2. stack'[c].end = STACK_MAX_PAGES /\ stack'[c].start < STACK_MAX_PAGES
      BY <2>6, <2>7, <2>10, AddressSpaceAssumption DEF Offset
    <3> QED
      BY <1>3, <2>2, <2>10, <3>1, <3>2 DEF WholeStacks
  <2>15. StacksApart'
    BY <1>3, <2>2, <2>5, <2>7, <2>10 DEF StacksApart
  <2>16. StackAccounted'
    <3>1. ASSUME NEW page
          PROVE  (\E q \in live' : page \in Owned(q)')
                   <=> (\E q \in live : page \in Owned(q))
                         \/ page \in Image(p, slot)
      BY <2>2, <2>11, <2>12
    <3>2. stack_pages' = stray' \cup UNION {Owned(q)' : q \in live'}
      BY <1>3, <2>2, <3>1 DEF StackAccounted
    <3>3. ASSUME NEW q \in live' PROVE Owned(q)' \cap stray' = {}
      <4>1. CASE q \in live
        <5>1. Owned(q) \cap stray = {} /\ Owned(q) \subseteq stack_pages
          BY <1>3, <4>1 DEF StackAccounted
        <5> QED
          BY <2>2, <2>5, <2>11, <4>1, <5>1
      <4>2. CASE q = c
        <5>1. stray \subseteq stack_pages
          BY <1>3 DEF StackAccounted
        <5> QED
          BY <2>2, <2>5, <2>12, <4>2, <5>1
      <4> QED
        BY <2>2, <4>1, <4>2
    <3>4. ASSUME NEW q \in live'
          PROVE  stack'[q].usage = stack'[q].end - stack'[q].start
      BY <1>3, <2>2, <2>7, <2>10 DEF StackAccounted
    <3> QED
      BY <3>2, <3>3, <3>4 DEF StackAccounted
  <2>17. FaultBelowStack'
    BY <1>2, <2>2 DEF FaultBelowStack
  <2>18. StackKept'
    <3>1. SUFFICES ASSUME stray' = {}, NEW q \in live'
                   PROVE  sp'[q] \in stack'[q].start .. stack'[q].end - 1
      BY DEF StackKept
    <3>2. \A r \in live : sp[r] \in stack[r].start .. stack[r].end - 1
      BY <1>3, <2>2, <3>1 DEF StackKept
    <3>3. stack[p].end = STACK_MAX_PAGES
      BY <1>2, <1>3 DEF WholeStacks
    <3> QED
      BY <1>2, <2>2, <2>7, <2>10, <3>1, <3>2, <3>3
  <2> QED
    BY <2>3, <2>4, <2>13, <2>14, <2>15, <2>16, <2>17, <2>18
    DEF IndInv, StackInv, HeapInv
<1> QED
  BY <1>4, <1>5

-----------------------------------------------------------------------------
(* The stack pointer and the page fault handler.                           *)

(* A move of the stack pointer keeps the invariant.                        *)
LEMMA MoveStep ==
  ASSUME IndInv, NEW p \in Proc, NEW o \in Offset, move(p, o)
  PROVE  IndInv'
<1>1. /\ p \in live /\ <<stack[p].slot, o>> \in stack_pages
      /\ sp' = [sp EXCEPT ![p] = o]
      /\ UNCHANGED <<born, live, children, stack, stack_pages, stray>>
      /\ UNCHANGED <<heap_end, heap_pages, heap_stray>>
      /\ UNCHANGED <<code, free, lost, untidy, halted>>
  BY DEF move, heapVars, frameVars
<1>2. TypeOK'
  BY <1>1 DEF IndInv, TypeOK
<1>3. WholeStacks' /\ StacksApart' /\ FaultBelowStack'
  BY Zenon, <1>1 DEF IndInv, StackInv, WholeStacks, StacksApart, FaultBelowStack
<1>4. StackAccounted'
  BY <1>1 DEF IndInv, StackInv, StackAccounted, Owned
<1>5. HeapExact' /\ FramesKept' /\ CodeKept' /\ TailLeft'
  BY <1>1 DEF IndInv, HeapInv, HeapExact, FramesKept, CodeKept, TailLeft,
              align_up
<1>6. StackKept'
  <2>1. SUFFICES ASSUME stray = {}
                 PROVE  \A q \in live :
                          sp'[q] \in stack[q].start .. stack[q].end - 1
    BY <1>1 DEF StackKept
  <2>2. \A q \in live : sp[q] \in stack[q].start .. stack[q].end - 1
    BY <2>1 DEF IndInv, StackInv, StackKept
  <2>3. PICK q \in live : <<stack[p].slot, o>> \in Owned(q)
    BY <1>1, <2>1 DEF IndInv, StackInv, StackAccounted
  <2>4. q = p
    BY <1>1, <2>3 DEF Owned, IndInv, StackInv, StacksApart
  <2>5. o \in stack[p].start .. stack[p].end - 1
    BY <2>3, <2>4 DEF Owned
  <2> QED
    BY <1>1, <2>2, <2>5 DEF IndInv, TypeOK
<1> QED
  BY <1>2, <1>3, <1>4, <1>5, <1>6 DEF IndInv, StackInv, HeapInv

(* A page of a live process' slot that is not mapped is below its stack. *)
LEMMA FaultIsBelow ==
  ASSUME TypeOK, StackInv, NEW p \in live, NEW o \in Offset,
         <<stack[p].slot, o>> \notin stack_pages
  PROVE  o < stack[p].start
<1>1. /\ stack[p].start \in Offset
      /\ {stack[p].slot} \X (stack[p].start .. STACK_MAX_PAGES - 1)
           \subseteq stack_pages
  BY Zenon, StackShape DEF StackInv
<1>2. o \notin stack[p].start .. STACK_MAX_PAGES - 1
  BY <1>1
<1> QED
  BY <1>1, <1>2, AddressSpaceAssumption DEF Offset

(* A page fault keeps the invariant: the stack grows by what it maps.      *)
LEMMA FaultStep ==
  ASSUME IndInv, NEW p \in Proc, NEW o \in Offset, page_fault(p, o)
  PROVE  IndInv'
<1>1. /\ p \in live /\ <<stack[p].slot, o>> \notin stack_pages
      /\ halted = "no"
      /\ UNCHANGED <<born, live, children, heapVars, code, untidy>>
  BY DEF page_fault
<1>2. TypeOK /\ WholeStacks /\ StacksApart /\ StackAccounted /\ StackKept
  BY DEF IndInv, StackInv
<1>3. o < stack[p].start
  BY <1>1, FaultIsBelow DEF IndInv
<1>4. /\ stack[p].slot \in Slot /\ stack[p].start \in Offset
      /\ stack[p].end = STACK_MAX_PAGES /\ stack[p] \in StackRange
      /\ Owned(p) = {stack[p].slot} \X (stack[p].start .. STACK_MAX_PAGES - 1)
  BY Zenon, <1>1, <1>2, StackShape
<1> DEFINE n == stack[p].start - o
           busy == Busy(stack[p].slot)
           done == MapDone(o, n, busy)
           ok == MapOk(o, n, busy)
           gone == MapLost(o, n, busy)
           new == Run(stack[p].slot, o, done)
<1>5. /\ stack_pages' = stack_pages \cup new
      /\ stack' = IF ok
                  THEN [stack EXCEPT ![p].start = o,
                                     ![p].usage = stack[p].end - o]
                  ELSE stack
      /\ stray' = IF ok THEN stray ELSE stray \cup new
      /\ sp' = IF done > 0 THEN [sp EXCEPT ![p] = o] ELSE sp
      /\ free' = free - done - gone
      /\ lost' = lost + gone
      /\ halted' = halted
  BY <1>3 DEF page_fault, grow_stack
<1>6. /\ o \in Nat /\ n \in Nat /\ n > 0 /\ o + n = stack[p].start
      /\ o < STACK_MAX_PAGES /\ STACK_MAX_PAGES \in Nat
      /\ stack[p].start \in Nat
  BY <1>3, <1>4, AddressSpaceAssumption DEF Offset
<1>7. free \in Nat /\ lost \in Nat
  BY <1>2 DEF TypeOK
<1>8. /\ done \in 0 .. n /\ gone \in Nat /\ done + gone <= free
      /\ \A i \in o .. o + done - 1 : i \notin busy
  BY <1>6, <1>7, MapFacts
<1>9. ok <=> done = n
  BY DEF MapOk
<1>10. new = {stack[p].slot} \X (o .. o + done - 1)
  BY DEF Run
<1>11. IsFiniteSet(new) /\ Cardinality(new) = done
  BY <1>6, <1>8, RunSize
<1>12. new \subseteq StackPage /\ new \cap stack_pages = {}
  <2>1. (o .. o + done - 1) \subseteq Offset
    BY <1>4, <1>6, <1>8 DEF Offset
  <2>2. \A i \in o .. o + done - 1 : <<stack[p].slot, i>> \notin stack_pages
    BY <1>8, <2>1 DEF Busy
  <2> QED
    BY <1>4, <1>10, <2>1, <2>2 DEF StackPage
<1> HIDE DEF n, busy, done, ok, gone, new
<1>13. free' \in Nat /\ lost' \in Nat
  BY <1>5, <1>6, <1>7, <1>8
<1>14. FramesKept'
  <2>1. stack_pages \in SUBSET StackPage
    BY <1>2 DEF TypeOK
  <2>2. Cardinality(stack_pages') = Cardinality(stack_pages) + done
    BY Zenon, <1>5, <1>11, <1>12, <2>1, FinitePages, DisjointSize
  <2>3. Cardinality(stack_pages) \in Nat /\ Cardinality(heap_pages) \in Nat
    BY <1>2, <2>1, FinitePages, FS_CardinalityType DEF TypeOK
  <2>4. heap_pages' = heap_pages /\ code' = code /\ code \in Nat
    BY <1>1, <1>2, AddressSpaceAssumption DEF heapVars, TypeOK
  <2>5. done \in Nat
    BY <1>6, <1>8
  <2>6. free + lost + Cardinality(stack_pages) + Cardinality(heap_pages) + code
          = Frames
    BY DEF IndInv, HeapInv, FramesKept
  <2> QED
    BY <1>5, <1>7, <1>8, <2>2, <2>3, <2>4, <2>5, <2>6 DEF FramesKept
<1>15. HeapExact' /\ CodeKept' /\ TailLeft'
  BY <1>1, HeapStays
<1>16. stack \in [Proc -> StackRange] /\ sp \in [Proc -> Offset]
  BY <1>2 DEF TypeOK
<1>17. ok => /\ stack'[p].slot = stack[p].slot /\ stack'[p].start = o
             /\ stack'[p].end = STACK_MAX_PAGES
             /\ stack'[p].usage = STACK_MAX_PAGES - o
             /\ stack'[p] \in StackRange
  <2> HAVE ok
  <2>1. stack'[p] = [stack[p] EXCEPT !.start = o, !.usage = stack[p].end - o]
    BY <1>5, <1>16
  <2>2. /\ o \in 0 .. STACK_MAX_PAGES
        /\ STACK_MAX_PAGES - o \in 0 .. STACK_MAX_PAGES
    BY <1>6
  <2>3. stack'[p] = [stack[p] EXCEPT !.start = o, !.usage = STACK_MAX_PAGES - o]
    BY <1>4, <2>1
  <2> QED
    BY Zenon, <1>4, <2>2, <2>3 DEF StackRange
<1>18. \A q \in live : q # p => stack'[q] = stack[q]
  BY <1>2, <1>5, <1>16 DEF TypeOK
<1>19. ~ok => stack' = stack
  BY <1>5
<1>20. TypeOK'
  <2>1. stack' \in [Proc -> StackRange]
    BY <1>5, <1>16, <1>17
  <2>2. sp' \in [Proc -> Offset]
    BY <1>5, <1>16
  <2>3. stack_pages' \in SUBSET StackPage /\ stray' \in SUBSET StackPage
    BY <1>2, <1>5, <1>12 DEF TypeOK
  <2>4. /\ heap_end' \in 0 .. HEAP_PAGES * PAGE_SIZE
        /\ heap_pages' \in SUBSET (0 .. HEAP_PAGES - 1)
        /\ heap_stray' \in SUBSET (0 .. HEAP_PAGES - 1)
        /\ code' \in 0 .. CodePages /\ untidy' \in SUBSET {"tail", "code"}
        /\ halted' \in {"no", "fork_loop", "grow_underflow", "brk_unwrap"}
        /\ born' \in Proc /\ live' \in SUBSET Proc
        /\ children' \in [Proc -> Nat]
    BY <1>1, <1>2, <1>5 DEF TypeOK, heapVars
  <2>5. free' \in 0 .. Frames /\ lost' \in 0 .. Frames
    BY <1>13, <1>14, <2>3, <2>4, AccountsBound, AddressSpaceAssumption
    DEF FramesKept
  <2> QED
    BY <2>1, <2>2, <2>3, <2>4, <2>5 DEF TypeOK
<1>21. WholeStacks'
  BY <1>1, <1>2, <1>6, <1>17, <1>18, <1>19 DEF WholeStacks
<1>22. StacksApart'
  BY <1>1, <1>2, <1>17, <1>18, <1>19 DEF StacksApart
<1>23. \A q \in live : q # p => Owned(q)' = Owned(q)
  BY <1>18 DEF Owned
<1>24. Owned(p)' = IF ok THEN Owned(p) \cup new ELSE Owned(p)
  <2>1. CASE ok
    <3>1. Owned(p)' = {stack[p].slot} \X (o .. STACK_MAX_PAGES - 1)
      BY <1>17, <2>1 DEF Owned
    <3>2. new = {stack[p].slot} \X (o .. stack[p].start - 1)
      BY <1>6, <1>9, <1>10, <2>1
    <3>3. (o .. STACK_MAX_PAGES - 1)
            = (stack[p].start .. STACK_MAX_PAGES - 1)
                \cup (o .. stack[p].start - 1)
      BY <1>3, <1>4, <1>6 DEF Offset
    <3> QED
      BY <1>4, <2>1, <3>1, <3>2, <3>3
  <2>2. CASE ~ok
    BY <1>19, <2>2 DEF Owned
  <2> QED
    BY <2>1, <2>2
<1>25. StackAccounted'
  <2>1. ASSUME NEW page
        PROVE  (\E q \in live' : page \in Owned(q)')
                 <=> \/ \E q \in live : page \in Owned(q)
                     \/ ok /\ page \in new
    BY <1>1, <1>23, <1>24
  <2>2. stack_pages' = stray' \cup UNION {Owned(q)' : q \in live'}
    BY <1>2, <1>5, <2>1 DEF StackAccounted
  <2>3. ASSUME NEW q \in live' PROVE Owned(q)' \cap stray' = {}
    <3>1. q \in live /\ Owned(q) \cap stray = {} /\ Owned(q) \subseteq stack_pages
      BY <1>1, <1>2 DEF StackAccounted
    <3>2. stray \subseteq stack_pages
      BY <1>2 DEF StackAccounted
    <3>3. CASE ok
      BY <1>5, <1>12, <1>23, <1>24, <3>1, <3>2, <3>3
    <3>4. CASE ~ok
      BY <1>5, <1>12, <1>23, <1>24, <3>1, <3>4
    <3> QED
      BY <3>3, <3>4
  <2>4. ASSUME NEW q \in live'
        PROVE  stack'[q].usage = stack'[q].end - stack'[q].start
    BY <1>1, <1>2, <1>17, <1>18, <1>19 DEF StackAccounted
  <2> QED
    BY <2>2, <2>3, <2>4 DEF StackAccounted
<1>26. FaultBelowStack'
  BY <1>1, <1>5 DEF FaultBelowStack
<1>27. StackKept'
  <2>1. SUFFICES ASSUME stray' = {}, NEW q \in live'
                 PROVE  sp'[q] \in stack'[q].start .. stack'[q].end - 1
    BY DEF StackKept
  <2>2. q \in live /\ q \in Proc /\ sp[q] \in stack[q].start .. stack[q].end - 1
    BY <1>1, <1>2, <1>5, <2>1 DEF StackKept, TypeOK
  <2>3. CASE ok
    <3>1. done > 0
      BY <1>6, <1>9, <2>3
    <3> QED
      BY <1>5, <1>6, <1>16, <1>17, <1>18, <2>2, <2>3, <3>1
  <2>4. CASE ~ok
    <3>1. new = {}
      BY <1>5, <2>1, <2>4
    <3>2. done = 0
      BY <1>11, <3>1, FS_EmptySet
    <3> QED
      BY <1>5, <1>19, <2>2, <2>4, <3>2
  <2> QED
    BY <2>3, <2>4
<1> QED
  BY <1>14, <1>15, <1>20, <1>21, <1>22, <1>25, <1>26, <1>27
  DEF IndInv, StackInv, HeapInv

-----------------------------------------------------------------------------
(* brk.                                                                    *)

(* brk leaves the stacks alone. *)
LEMMA StacksStay ==
  ASSUME IndInv, UNCHANGED <<born, live, stack, sp, stack_pages, stray>>,
         halted' = halted
  PROVE  StackInv'
<1>1. WholeStacks' /\ StacksApart' /\ FaultBelowStack' /\ StackKept'
  BY DEF IndInv, StackInv, WholeStacks, StacksApart, FaultBelowStack, StackKept
<1>2. StackAccounted'
  BY DEF IndInv, StackInv, StackAccounted, Owned
<1> QED
  BY <1>1, <1>2 DEF StackInv

(* A call of brk keeps the invariant: the heap is what it maps.            *)
LEMMA BrkStep ==
  ASSUME IndInv, NEW p \in Proc, NEW new_end \in BrkArgs, brk(p, new_end)
  PROVE  IndInv'
<1>1. /\ p \in live /\ halted = "no"
      /\ UNCHANGED <<stackVars, code, untidy>>
      /\ UNCHANGED <<born, live, children, stack, sp, stack_pages, stray>>
  BY DEF brk, stackVars
<1>2. CASE ~(new_end <= HEAP_END)
  BY <1>1, <1>2, UnchangedButHalted DEF brk, frameVars
<1>3. CASE new_end <= HEAP_END
  <2> DEFINE old == align_up(heap_end)
             upper == align_up(new_end)
  <2>1. TypeOK /\ HeapExact /\ FramesKept /\ CodeKept
    BY DEF IndInv, HeapInv
  <2>2. /\ new_end \in Nat /\ heap_end \in Nat /\ HEAP_PAGES \in Nat
        /\ PAGE_SIZE \in Nat \ {0} /\ HEAP_PAGES * PAGE_SIZE \in Nat
        /\ free \in Nat /\ lost \in Nat /\ code \in Nat
    BY <2>1, AddressSpaceAssumption DEF TypeOK
  <2>3. /\ old \in Nat /\ upper \in Nat /\ upper <= HEAP_PAGES
        /\ new_end \in 0 .. HEAP_PAGES * PAGE_SIZE
    BY <1>3, <2>2, AlignUp DEF HEAP_END
  <2>4. /\ heap_pages = heap_stray \cup (0 .. old - 1)
        /\ heap_stray \cap (0 .. old - 1) = {}
        /\ heap_pages \in SUBSET (0 .. HEAP_PAGES - 1)
        /\ heap_stray \in SUBSET (0 .. HEAP_PAGES - 1)
    BY <1>1, <2>1 DEF HeapExact, TypeOK
  <2>5. /\ IsFiniteSet(heap_pages) /\ Cardinality(heap_pages) \in Nat
        /\ Cardinality(stack_pages) \in Nat
    BY <2>1, FinitePages, FS_CardinalityType DEF TypeOK
  <2>6. free + lost + Cardinality(stack_pages) + Cardinality(heap_pages) + code
          = Frames
    BY <2>1 DEF FramesKept
  <2>7. halted' = halted /\ (brk_grow(new_end) \/ brk_shrink(new_end))
    BY <1>3 DEF brk
  <2>8. \* what is left to show
        SUFFICES /\ heap_end' \in 0 .. HEAP_PAGES * PAGE_SIZE
                 /\ heap_pages' \in SUBSET (0 .. HEAP_PAGES - 1)
                 /\ heap_stray' \in SUBSET (0 .. HEAP_PAGES - 1)
                 /\ free' \in Nat /\ lost' \in Nat
                 /\ HeapExact' /\ FramesKept'
    <3>1. free' \in 0 .. Frames /\ lost' \in 0 .. Frames
      BY <1>1, <2>1, <2>2, AccountsBound DEF FramesKept, TypeOK
    <3>2. TypeOK'
      BY <1>1, <2>1, <2>7, <3>1 DEF TypeOK
    <3>3. CodeKept' /\ TailLeft'
      BY <1>1, <2>1 DEF CodeKept, TailLeft
    <3> QED
      BY <1>1, <2>7, <3>2, <3>3, StacksStay DEF IndInv, HeapInv
  <2> HIDE DEF old, upper
  <2>9. CASE brk_grow(new_end)
    <3> DEFINE n == upper - old
               done == MapDone(old, n, heap_pages)
               ok == MapOk(old, n, heap_pages)
               gone == MapLost(old, n, heap_pages)
               new == old .. old + done - 1
    <3>1. /\ n > 0 /\ heap_pages' = heap_pages \cup new
          /\ heap_end' = IF ok THEN new_end ELSE heap_end
          /\ heap_stray' = IF ok THEN heap_stray ELSE heap_stray \cup new
          /\ free' = free - done - gone
          /\ lost' = lost + gone
      BY <2>9 DEF brk_grow, old, upper, NewUpper
    <3>2. n \in Nat /\ old + n = upper
      BY <2>3, <3>1
    <3>3. /\ done \in 0 .. n /\ gone \in Nat /\ done + gone <= free
          /\ \A i \in old .. old + done - 1 : i \notin heap_pages
      BY <2>2, <2>3, <3>2, MapFacts
    <3>4. ok <=> done = n
      BY DEF MapOk
    <3> HIDE DEF n, done, ok, gone
    <3>5. done \in Nat /\ done <= n
      BY <3>2, <3>3
    <3>6. /\ IsFiniteSet(new) /\ Cardinality(new) = done
      BY <2>3, <3>5, IntervalSize
    <3>7. new \cap heap_pages = {} /\ new \subseteq 0 .. HEAP_PAGES - 1
      BY <2>2, <2>3, <3>2, <3>3, <3>5
    <3>8. ok => (0 .. upper - 1) = (0 .. old - 1) \cup new
      BY <2>3, <3>2, <3>4, <3>5
    <3>9. new \cap (0 .. old - 1) = {}
      BY <2>3, <3>5
    <3> HIDE DEF new
    <3>10. free' \in Nat /\ lost' \in Nat
      BY <2>2, <3>1, <3>3, <3>5
    <3>11. Cardinality(heap_pages') = Cardinality(heap_pages) + done
      BY <2>5, <3>1, <3>6, <3>7, DisjointSize
    <3>12. FramesKept'
      BY <1>1, <2>2, <2>5, <2>6, <3>1, <3>3, <3>5, <3>11 DEF FramesKept
    <3>13. align_up(heap_end)' = IF ok THEN upper ELSE old
      BY <3>1 DEF align_up, upper, old
    <3>14. HeapExact'
      <4>1. CASE ok
        BY <2>4, <3>1, <3>7, <3>8, <3>13, <4>1 DEF HeapExact
      <4>2. CASE ~ok
        BY <2>4, <3>1, <3>9, <3>13, <4>2 DEF HeapExact
      <4> QED
        BY <4>1, <4>2
    <3>15. heap_end' \in 0 .. HEAP_PAGES * PAGE_SIZE
      BY <2>1, <2>3, <3>1 DEF TypeOK
    <3>16. /\ heap_pages' \in SUBSET (0 .. HEAP_PAGES - 1)
           /\ heap_stray' \in SUBSET (0 .. HEAP_PAGES - 1)
      BY Zenon, <2>4, <3>1, <3>7
    <3> QED
      BY <3>10, <3>12, <3>14, <3>15, <3>16
  <2>10. CASE brk_shrink(new_end)
    <3> DEFINE gone == upper .. old - 1
    <3>1. /\ upper <= old /\ heap_pages' = heap_pages \ gone
          /\ heap_end' = new_end /\ free' = free + Cardinality(gone)
          /\ heap_stray' = heap_stray /\ lost' = lost
      BY <2>10 DEF brk_shrink, upper, old, NewUpper
    <3>2. gone \subseteq heap_pages
      <4>1. gone \subseteq 0 .. old - 1
        BY <2>3, <3>1
      <4> QED
        BY <2>4, <4>1
    <3>3. (0 .. upper - 1) = (0 .. old - 1) \ gone
      BY <2>3, <3>1
    <3> HIDE DEF gone
    <3>4. IsFiniteSet(gone) /\ Cardinality(gone) \in Nat
      BY <2>5, <3>2, FS_Subset, FS_CardinalityType
    <3>5. heap_pages \cap gone = gone
      BY <3>2
    <3>6. Cardinality(heap_pages') = Cardinality(heap_pages) - Cardinality(gone)
      <4>1. Cardinality(heap_pages \ gone)
              = Cardinality(heap_pages) - Cardinality(heap_pages \cap gone)
        BY Zenon, <2>5, FS_Difference
      <4> QED
        BY <3>1, <3>5, <4>1
    <3>7. FramesKept'
      BY <1>1, <2>2, <2>5, <2>6, <3>1, <3>4, <3>6 DEF FramesKept
    <3>8. align_up(heap_end)' = upper
      BY <3>1 DEF align_up, upper
    <3>9. gone \cap heap_stray = {}
      BY <2>3, <2>4, <3>1 DEF gone
    <3>10. HeapExact'
      BY <2>4, <3>1, <3>3, <3>8, <3>9 DEF HeapExact
    <3>11. /\ heap_end' \in 0 .. HEAP_PAGES * PAGE_SIZE
           /\ heap_pages' \in SUBSET (0 .. HEAP_PAGES - 1)
           /\ heap_stray' \in SUBSET (0 .. HEAP_PAGES - 1)
      BY Zenon, <2>3, <2>4, <3>1
    <3>12. free' \in Nat /\ lost' \in Nat
      BY <2>2, <3>1, <3>4
    <3> QED
      BY <3>7, <3>10, <3>11, <3>12
  <2> QED
    BY <2>7, <2>9, <2>10
<1> QED
  BY <1>2, <1>3

-----------------------------------------------------------------------------
(* exit.                                                                   *)

(* An exit keeps what the invariant says of the stacks.                    *)
LEMMA ExitStacks ==
  ASSUME IndInv, NEW p \in Proc, exit(p)
  PROVE  StackInv'
<1>1. /\ p \in live /\ halted = "no" /\ live' = live \ {p}
      /\ stack' = [stack EXCEPT ![p] = NoStack]
      /\ sp' = [sp EXCEPT ![p] = 0]
      /\ stack_pages' = stack_pages \ Owned(p)
      /\ UNCHANGED <<born, stray, halted>>
  BY DEF exit
<1>2. TypeOK /\ WholeStacks /\ StacksApart /\ StackAccounted /\ StackKept
  BY DEF IndInv, StackInv
<1>3. \A q \in live' : q \in live /\ stack'[q] = stack[q] /\ sp'[q] = sp[q]
  BY <1>1, <1>2 DEF TypeOK
<1>4. \A q \in live' : Owned(q)' = Owned(q)
  BY <1>3 DEF Owned
<1>5. \A q \in live' : Owned(q) \cap Owned(p) = {}
  BY <1>1, <1>2, <1>3 DEF Owned, StacksApart
<1>6. WholeStacks' /\ StacksApart' /\ FaultBelowStack'
  BY <1>1, <1>2, <1>3 DEF WholeStacks, StacksApart, FaultBelowStack
<1>7. StackKept'
  BY <1>1, <1>2, <1>3 DEF StackKept
<1>8. StackAccounted'
  <2>1. Owned(p) \cap stray = {}
    BY <1>1, <1>2 DEF StackAccounted
  <2>2. ASSUME NEW page
        PROVE  (\E q \in live' : page \in Owned(q)')
                 <=> page \notin Owned(p) /\ \E q \in live : page \in Owned(q)
    BY <1>1, <1>4, <1>5
  <2>3. stack_pages' = stray' \cup UNION {Owned(q)' : q \in live'}
    BY <1>1, <1>2, <2>1, <2>2 DEF StackAccounted
  <2>4. ASSUME NEW q \in live'
        PROVE  /\ Owned(q)' \cap stray' = {}
               /\ stack'[q].usage = stack'[q].end - stack'[q].start
    BY <1>1, <1>2, <1>3, <1>4 DEF StackAccounted
  <2> QED
    BY <2>3, <2>4 DEF StackAccounted
<1> QED
  BY <1>6, <1>7, <1>8 DEF StackInv

(* Of the heap the last process frees the whole pages below its end. *)
LEMMA ExitHeap ==
  ASSUME IndInv, NEW p \in Proc, exit(p)
  PROVE  HeapExact' /\ CodeKept' /\ TailLeft' /\ code' \in 0 .. CodePages
<1>1. /\ p \in live /\ live' = live \ {p}
      /\ heap_pages' = heap_pages \ HeapFreed(p)
      /\ heap_end' = IF LastUser(p) THEN 0 ELSE heap_end
      /\ code' = code - CodeFreed(p)
      /\ untidy' = {w \in {"tail", "code"} :
                      /\ LastUser(p)
                      /\ w = "tail" => heap_end % PAGE_SIZE # 0
                      /\ w = "code" => p # First}
      /\ heap_stray' = heap_stray
  BY DEF exit
<1>2. TypeOK /\ HeapExact /\ code = CodePages
  BY <1>1 DEF IndInv, HeapInv, CodeKept
<1>3. CodePages \in Nat
  BY AddressSpaceAssumption
<1>4. CASE ~LastUser(p)
  <2>1. live' # {}
    BY <1>1, <1>4 DEF LastUser
  <2>2. UNCHANGED <<heap_pages, heap_end, heap_stray>> /\ code' = code
    BY <1>1, <1>2, <1>3, <1>4 DEF HeapFreed, CodeFreed
  <2> QED
    BY <1>1, <1>2, <1>3, <2>1, <2>2, HeapStays DEF heapVars
<1>5. CASE LastUser(p)
  <2>1. live' = {}
    BY <1>1, <1>5 DEF LastUser
  <2>2. code' = IF p = First THEN 0 ELSE CodePages
    BY <1>1, <1>2, <1>3, <1>5 DEF CodeFreed
  <2>3. CodeKept' /\ code' \in 0 .. CodePages
    BY <1>1, <1>3, <1>5, <2>1, <2>2 DEF CodeKept
  <2>4. "tail" \in untidy' <=> heap_end % PAGE_SIZE # 0
    BY <1>1, <1>5
  <2> DEFINE q == heap_end \div PAGE_SIZE
             old == align_up(heap_end)
             tail == IF heap_end % PAGE_SIZE = 0 THEN 0 ELSE 1
  <2>5. heap_end \in Nat
    BY <1>2, AddressSpaceAssumption DEF TypeOK
  <2>6. q \in Nat /\ old = q + tail /\ tail \in Nat
    BY <2>5, Division, AlignUp
  <2>7. /\ heap_pages = heap_stray \cup (0 .. old - 1)
        /\ heap_stray \cap (0 .. old - 1) = {}
        /\ heap_stray \in SUBSET (0 .. HEAP_PAGES - 1)
    BY <1>1, <1>2 DEF HeapExact, TypeOK
  <2>8. heap_pages' = heap_pages \ (0 .. q - 1)
    BY <1>1, <1>5 DEF HeapFreed
  <2>9. tail = IF "tail" \in untidy' THEN 1 ELSE 0
    BY <2>4
  <2> HIDE DEF q, old, tail
  <2>10. /\ (0 .. old - 1) \ (0 .. q - 1) = q .. q + tail - 1
         /\ (0 .. q - 1) \subseteq (0 .. old - 1)
    BY <2>6
  <2>11. heap_pages' = heap_stray \cup (q .. q + tail - 1)
    BY <2>7, <2>8, <2>10
  <2>12. heap_stray \cap (q .. q + tail - 1) = {}
    BY <2>7, <2>10
  <2>13. /\ IsFiniteSet(q .. q + tail - 1)
         /\ Cardinality(q .. q + tail - 1) = tail
    BY <2>6, IntervalSize
  <2>14. Cardinality(heap_pages') = Cardinality(heap_stray) + tail
    BY Zenon, <2>7, <2>11, <2>12, <2>13, FinitePages, DisjointSize
  <2> QED
    BY <1>1, <2>1, <2>3, <2>9, <2>14 DEF HeapExact, TailLeft
<1> QED
  BY <1>4, <1>5

(* What is taken out of a finite set is counted once. *)
LEMMA RemovedSize ==
  ASSUME NEW S, NEW T, IsFiniteSet(S)
  PROVE  /\ Cardinality(S) \in Nat /\ Cardinality(T \cap S) \in Nat
         /\ Cardinality(S \ T) = Cardinality(S) - Cardinality(T \cap S)
<1>1. T \cap S = S \cap T
  OBVIOUS
<1>2. Cardinality(S \ T) = Cardinality(S) - Cardinality(S \cap T)
  BY Zenon, FS_Difference
<1>3. IsFiniteSet(S \cap T)
  BY FS_Intersection
<1> QED
  BY Zenon, <1>1, <1>2, <1>3, FS_CardinalityType

(* An exit keeps the invariant: what is unmapped goes back.                *)
LEMMA ExitStep ==
  ASSUME IndInv, NEW p \in Proc, exit(p)
  PROVE  IndInv'
<1> DEFINE own == Cardinality(Owned(p) \cap stack_pages)
           heap == Cardinality(HeapFreed(p) \cap heap_pages)
           prog == CodeFreed(p)
<1>1. /\ p \in live /\ live' = live \ {p}
      /\ stack' = [stack EXCEPT ![p] = NoStack]
      /\ sp' = [sp EXCEPT ![p] = 0]
      /\ stack_pages' = stack_pages \ Owned(p)
      /\ heap_pages' = heap_pages \ HeapFreed(p)
      /\ heap_end' = IF LastUser(p) THEN 0 ELSE heap_end
      /\ code' = code - prog
      /\ free' = free + own + heap + prog
      /\ untidy' \subseteq {"tail", "code"}
      /\ UNCHANGED <<born, children, stray, heap_stray, lost, halted>>
  BY DEF exit
<1>2. TypeOK /\ FramesKept
  BY DEF IndInv, HeapInv
<1>3. free \in Nat /\ lost \in Nat /\ code \in Nat /\ prog \in Nat
  BY <1>2, AddressSpaceAssumption DEF TypeOK, CodeFreed
<1>4. IsFiniteSet(stack_pages) /\ IsFiniteSet(heap_pages)
  BY <1>2, FinitePages DEF TypeOK
<1>5. /\ Cardinality(stack_pages) \in Nat /\ own \in Nat
      /\ Cardinality(stack_pages') = Cardinality(stack_pages) - own
  BY Zenon, <1>1, <1>4, RemovedSize
<1>6. /\ Cardinality(heap_pages) \in Nat /\ heap \in Nat
      /\ Cardinality(heap_pages') = Cardinality(heap_pages) - heap
  BY Zenon, <1>1, <1>4, RemovedSize
<1>7. /\ HeapExact' /\ CodeKept' /\ TailLeft' /\ code' \in 0 .. CodePages
  BY ExitHeap
<1> HIDE DEF own, heap, prog
<1>8. FramesKept' /\ free' \in Nat /\ lost' \in Nat
  BY <1>1, <1>2, <1>3, <1>5, <1>6 DEF FramesKept
<1>9. TypeOK'
  <2>1. NoStack \in StackRange /\ 0 \in Offset
    BY AddressSpaceAssumption DEF NoStack, StackRange, Slot, Offset
  <2>2. stack' \in [Proc -> StackRange] /\ sp' \in [Proc -> Offset]
    BY <1>1, <1>2, <2>1 DEF TypeOK
  <2>3. /\ born' \in Proc /\ live' \in SUBSET Proc /\ children' \in [Proc -> Nat]
        /\ stack_pages' \in SUBSET StackPage /\ stray' \in SUBSET StackPage
        /\ heap_pages' \in SUBSET (0 .. HEAP_PAGES - 1)
        /\ heap_stray' \in SUBSET (0 .. HEAP_PAGES - 1)
        /\ halted' \in {"no", "fork_loop", "grow_underflow", "brk_unwrap"}
        /\ untidy' \in SUBSET {"tail", "code"}
    BY Zenon, <1>1, <1>2 DEF TypeOK
  <2>4. heap_end' \in 0 .. HEAP_PAGES * PAGE_SIZE
    <3>1. 0 \in 0 .. HEAP_PAGES * PAGE_SIZE
      BY AddressSpaceAssumption
    <3> QED
      BY <1>1, <1>2, <3>1 DEF TypeOK
  <2>5. code' \in Nat
    BY <1>7, AddressSpaceAssumption
  <2>6. free' \in 0 .. Frames /\ lost' \in 0 .. Frames
    BY <1>8, <2>3, <2>5, AccountsBound DEF FramesKept
  <2> QED
    BY <1>7, <2>2, <2>3, <2>4, <2>6 DEF TypeOK
<1> QED
  BY <1>7, <1>8, <1>9, ExitStacks DEF IndInv, HeapInv

-----------------------------------------------------------------------------
(* The inductive invariant.                                                *)

(* The invariant holds when the first process has been loaded.             *)
LEMMA InitInv == Init => IndInv
<1> SUFFICES ASSUME Init PROVE IndInv
  OBVIOUS
<1> DEFINE top == <<FirstPid - 1, STACK_MAX_PAGES - 1>>
<1>1. /\ MaxProcs \in Nat \ {0} /\ STACK_MAX_PAGES \in Nat \ {0}
      /\ PAGE_SIZE \in Nat \ {0} /\ HEAP_PAGES \in Nat /\ CodePages \in Nat
      /\ FirstPid \in Nat \ {0} /\ MaxSlot \in Nat /\ FirstPid - 1 <= MaxSlot
      /\ Frames \in Nat /\ CodePages + 1 <= Frames
      /\ HEAP_PAGES * PAGE_SIZE \in Nat
  BY AddressSpaceAssumption
<1>2. /\ First \in Proc /\ live = {First} /\ born = First /\ First = 1
      /\ stack[First] = [slot |-> FirstPid - 1, start |-> STACK_MAX_PAGES - 1,
                         end |-> STACK_MAX_PAGES, usage |-> 1]
      /\ sp[First] = STACK_MAX_PAGES - 1 /\ stack_pages = {top}
  BY <1>1 DEF Init, First, Proc
<1>3. TypeOK
  <2>1. stack \in [Proc -> StackRange]
    BY <1>1 DEF Init, NoStack, StackRange, Slot
  <2>2. sp \in [Proc -> Offset]
    BY <1>1 DEF Init, Offset
  <2>3. stack_pages \in SUBSET StackPage
    BY <1>1 DEF Init, StackPage, Slot, Offset
  <2> QED
    BY <1>1, <1>2, <2>1, <2>2, <2>3 DEF Init, TypeOK
<1>4. Owned(First) = {top}
  <2>1. (STACK_MAX_PAGES - 1) .. (STACK_MAX_PAGES - 1) = {STACK_MAX_PAGES - 1}
    BY <1>1
  <2> QED
    BY <1>2, <2>1 DEF Owned
<1>5. StackInv
  <2>1. WholeStacks
    BY <1>1, <1>2 DEF WholeStacks
  <2>2. StacksApart /\ FaultBelowStack
    BY <1>2 DEF StacksApart, FaultBelowStack, Init
  <2>3. StackAccounted
    BY <1>1, <1>2, <1>4 DEF StackAccounted, Init
  <2>4. StackKept
    BY <1>1, <1>2 DEF StackKept
  <2> QED
    BY <2>1, <2>2, <2>3, <2>4 DEF StackInv
<1>6. HeapInv
  <2>1. align_up(0) = 0
    BY <1>1, Quotient DEF align_up
  <2>2. HeapExact
    BY <2>1 DEF HeapExact, Init
  <2>3. Cardinality({top}) = 1 /\ Cardinality({}) = 0
    BY Zenon, FS_Singleton, FS_EmptySet
  <2>4. FramesKept
    BY <1>1, <1>2, <2>3 DEF FramesKept, Init
  <2>5. CodeKept /\ TailLeft
    BY <1>2 DEF CodeKept, TailLeft, Init
  <2> QED
    BY <2>2, <2>4, <2>5 DEF HeapInv
<1> QED
  BY <1>3, <1>5, <1>6 DEF IndInv

(* Every step keeps the invariant.                                         *)
LEMMA NextInv == IndInv /\ [Next]_vars => IndInv'
<1> SUFFICES ASSUME IndInv, [Next]_vars PROVE IndInv'
  OBVIOUS
<1>1. ASSUME NEW p \in Proc, fork(p) PROVE IndInv'
  BY <1>1, ForkStep
<1>2. ASSUME NEW p \in Proc, exit(p) PROVE IndInv'
  BY <1>2, ExitStep
<1>3. ASSUME NEW p \in Proc, NEW o \in Offset, move(p, o) PROVE IndInv'
  BY <1>3, MoveStep
<1>4. ASSUME NEW p \in Proc, NEW o \in Offset, page_fault(p, o) PROVE IndInv'
  BY <1>4, FaultStep
<1>5. ASSUME NEW p \in Proc, NEW new_end \in BrkArgs, brk(p, new_end)
      PROVE  IndInv'
  BY <1>5, BrkStep
<1>6. CASE UNCHANGED vars
  <2>1. UNCHANGED <<stackVars, heapVars, frameVars>> /\ halted' = halted
    BY <1>6 DEF vars
  <2>2. halted \in {"no", "fork_loop", "brk_unwrap"}
    BY DEF IndInv, TypeOK, StackInv, FaultBelowStack
  <2> QED
    BY <2>1, <2>2, UnchangedButHalted
<1> QED
  BY <1>1, <1>2, <1>3, <1>4, <1>5, <1>6 DEF Next, Over

(* Hence it always holds.                                                  *)
LEMMA Invariant == Spec => []IndInv
BY InitInv, NextInv, PTL DEF Spec

(* Types: the ranges of the stacks, the pages and the counts stay within   *)
(* their slots, the heap and the frames there are (ProcessVm, Stack, Heap).*)
THEOREM TypesKept == Spec => []TypeOK
BY Invariant, PTL DEF IndInv

(* Stack::fork: the stacks of a family are in slots of their own, for any  *)
(* number of processes, slots, pages and frames.                           *)
THEOREM StacksNeverMeet == Spec => []StacksApart
<1>1. IndInv => StacksApart
  BY DEF IndInv, StackInv
<1> QED
  BY <1>1, Invariant, PTL

(* Stack::clean_up: the mapped stack pages are those of the living and     *)
(* those that failed attempts left, and the usage counts the range.        *)
THEOREM StackPagesKnown == Spec => []StackAccounted
<1>1. IndInv => StackAccounted
  BY DEF IndInv, StackInv
<1> QED
  BY <1>1, Invariant, PTL

(* Stack::handle_page_fault: the number of pages to grow by never          *)
(* underflows.                                                             *)
THEOREM GrowthIsPositive == Spec => []FaultBelowStack
<1>1. IndInv => FaultBelowStack
  BY DEF IndInv, StackInv
<1> QED
  BY <1>1, Invariant, PTL

(* Stack::fork and handle_page_fault: without a failed attempt, the stack  *)
(* pointer of every process is within the range the kernel knows.          *)
THEOREM StackRangeKnown == Spec => []StackKept
<1>1. IndInv => StackKept
  BY DEF IndInv, StackInv
<1> QED
  BY <1>1, Invariant, PTL

(* Heap::brk: the mapped heap pages are those below the rounded end and    *)
(* those failed calls left.                                                *)
THEOREM HeapSafe == Spec => []HeapExact
<1>1. IndInv => HeapExact
  BY DEF IndInv, HeapInv
<1> QED
  BY <1>1, Invariant, PTL

(* ProcessVm::clean_up: the last exit gives back all frames but those the  *)
(* property names, for any number of frames and any page size.             *)
THEOREM FramesBack == Spec => []FramesReturned
<1>1. IndInv => FramesReturned
  <2>1. SUFFICES ASSUME IndInv, live = {} PROVE FramesReturned
    BY DEF FramesReturned
  <2>2. /\ stack_pages = stray
        /\ Cardinality(heap_pages) = Cardinality(heap_stray)
                                       + (IF "tail" \in untidy THEN 1 ELSE 0)
        /\ code = IF "code" \in untidy THEN CodePages ELSE 0
        /\ free + lost + Cardinality(stack_pages) + Cardinality(heap_pages)
             + code = Frames
    BY <2>1 DEF IndInv, StackInv, HeapInv, StackAccounted, TailLeft, CodeKept,
                FramesKept
  <2>3. /\ free \in Nat /\ lost \in Nat /\ CodePages \in Nat /\ Frames \in Nat
        /\ Cardinality(stray) \in Nat /\ Cardinality(heap_stray) \in Nat
    BY <2>1, AddressSpaceAssumption, FinitePages, FS_CardinalityType
    DEF IndInv, TypeOK
  <2> QED
    BY <2>2, <2>3 DEF FramesReturned
<1> QED
  BY <1>1, Invariant, PTL

-----------------------------------------------------------------------------
(* Descriptors.                                                            *)

(* Interrupts are off during a call, so at most the caller's lock is       *)
(* taken, and it is taken just while the call lasts.                       *)
LockOfCaller ==
  /\ lock \in [Family -> {"free", "read", "write"}]
  /\ call = NoCall => \A p \in Family : lock[p] = "free"
  /\ call # NoCall => /\ call[2] \in Family
                      /\ call[4] \in Buffer
                      /\ \A p \in Family : lock[p] # "free" <=> p = call[2]

(* The kernel spins only in a call, on a page that is not mapped. *)
SpinInCall == hung = "spin" => call # NoCall /\ call[4] \in {"stack", "bad"}

LockInv == LockOfCaller /\ SpinInCall

(* As long as there is no hole the open descriptors are the first ones. *)
Packed == \E n \in 0 .. FD_LIMIT : DOMAIN handles = 0 .. n - 1

TableInv == /\ replaced \in BOOLEAN /\ holed \in BOOLEAN
            /\ replaced => holed
            /\ ~holed => Packed

-----------------------------------------------------------------------------
(* A call begins with all locks free and takes one of them. *)
LEMMA EnterLocks ==
  ASSUME LockInv, NEW p \in Family, NEW op \in {"read", "write", "open", "close"},
         NEW arg, NEW buf \in Buffer, enter(p, op, arg, buf)
  PROVE  LockInv'
<1>1. call' = <<op, p, arg, buf>> /\ call' # NoCall
  BY DEF enter, NoCall
<1>2. call'[2] = p /\ call'[4] = buf
  BY <1>1
<1>3. hung' # "spin"
  BY DEF enter, Idle
<1>4. \A q \in Family : lock'[q] # "free" <=> q = p
  BY DEF LockInv, LockOfCaller, enter, Idle
<1>5. lock' \in [Family -> {"free", "read", "write"}]
  BY DEF LockInv, LockOfCaller, enter
<1> QED
  BY <1>1, <1>2, <1>3, <1>4, <1>5 DEF LockInv, LockOfCaller, SpinInCall

(* A call that ends frees the lock of its caller, the only one taken. *)
LEMMA LeaveLocks ==
  ASSUME LockInv, NEW p \in Family, call # NoCall, call[2] = p, hung = "no", leave(p)
  PROVE  LockInv'
BY DEF LockInv, LockOfCaller, SpinInCall, leave

(* A fault in a call changes no lock, and spins on a page not mapped. *)
LEMMA KernelFaultLocks ==
  ASSUME LockInv, NEW p \in Family, kernel_fault(p)
  PROVE  LockInv'
<1>1. call # NoCall /\ call[2] = p /\ hung = "no" /\ UNCHANGED <<call, lock>>
  BY DEF kernel_fault, In
<1>2. lock[p] # "free" /\ call[4] \in Buffer
  BY <1>1 DEF LockInv, LockOfCaller
<1>3. call[4] # "mapped"
  BY DEF kernel_fault, Accessible
<1>4. handle_page_fault(p, call[4])
  BY DEF kernel_fault
<1>5. CASE call[4] = "readonly"
  <2>1. hung' = "panic"
    BY <1>4, <1>5 DEF handle_page_fault, Page
  <2> QED
    BY <1>1, <2>1 DEF LockInv, LockOfCaller, SpinInCall
<1>6. CASE call[4] \in {"stack", "bad"}
  BY <1>1, <1>6 DEF LockInv, LockOfCaller, SpinInCall
<1> QED
  BY <1>2, <1>3, <1>5, <1>6 DEF Buffer

(* A fault of user code finds the lock free, and does not spin. *)
LEMMA UserFaultLocks ==
  ASSUME LockInv, NEW p \in Family, user_fault(p) \/ forbidden(p)
  PROVE  LockInv'
<1>1. call = NoCall /\ hung = "no" /\ lock[p] = "free" /\ UNCHANGED <<call, lock>>
  BY DEF user_fault, forbidden, Idle, LockInv, LockOfCaller
<1>2. hung' # "spin"
  BY <1>1 DEF user_fault, forbidden, handle_page_fault, Page
<1> QED
  BY <1>1, <1>2 DEF LockInv, LockOfCaller, SpinInCall

(* Every step keeps the locks.                                             *)
LEMMA StepLocks == LockInv /\ [IoNext]_ioVars => LockInv'
<1> SUFFICES ASSUME LockInv, [IoNext]_ioVars PROVE LockInv'
  OBVIOUS
<1>1. ASSUME UNCHANGED <<lock, call, hung>> PROVE LockInv'
  BY <1>1 DEF LockInv, LockOfCaller, SpinInCall
<1>2. CASE UNCHANGED ioVars
  BY <1>1, <1>2 DEF ioVars, memVars
<1>3. CASE Typing \/ serial_handler \/ Stopped
  BY <1>1, <1>3 DEF Typing, serial_handler, Stopped, ioVars, memVars
<1>4. ASSUME NEW p \in Family, sys_read_write(p) PROVE LockInv'
  BY <1>4, EnterLocks DEF sys_read_write
<1>5. ASSUME NEW p \in Family, sys_open_close(p) PROVE LockInv'
  <2>1. "mapped" \in Buffer
    BY DEF Buffer
  <2> QED
    BY <1>5, <2>1, EnterLocks DEF sys_open_close
<1>6. ASSUME NEW p \in Family, return(p) \/ read_key(p) \/ transfer(p) \/ close_file(p)
      PROVE LockInv'
  <2>1. call # NoCall /\ call[2] = p /\ hung = "no" /\ leave(p)
    BY <1>6 DEF return, read_key, transfer, close_file, In
  <2> QED
    BY SMTT(30), <2>1, LeaveLocks
<1>7. ASSUME NEW p \in Family, open_file(p) PROVE LockInv'
  <2>1. call # NoCall /\ call[2] = p /\ hung = "no"
    BY <1>7 DEF open_file, In
  <2>2. CASE leave(p)
    BY <2>1, <2>2, LeaveLocks
  <2>3. CASE hung' = "panic" /\ UNCHANGED <<memVars, call>>
    BY <2>1, <2>3 DEF LockInv, LockOfCaller, SpinInCall, memVars
  <2> QED
    BY <1>7, <2>2, <2>3 DEF open_file
<1>8. ASSUME NEW p \in Family, NEW page \in {"stack", "bad"}, touch(p, page) PROVE LockInv'
  BY <1>1, <1>8 DEF touch
<1> QED
  BY <1>2, <1>3, <1>4, <1>5, <1>6, <1>7, <1>8, KernelFaultLocks, UserFaultLocks
     DEF IoNext, Work

(* The kernel deadlocks with itself only in a call of the lock's holder on *)
(* a page of the caller that is not mapped, of its stack or elsewhere      *)
(* (manager.rs, handle_page_fault), however many processes there are.      *)
THEOREM SpinIsKnown == IoSpec => []SpinOnlyInCall
<1>1. IoInit => LockInv
  BY DEF IoInit, LockInv, LockOfCaller, SpinInCall
<1>2. LockInv => SpinOnlyInCall
  BY DEF LockInv, LockOfCaller, SpinInCall, SpinOnlyInCall
<1> QED
  BY <1>1, <1>2, StepLocks, PTL DEF IoSpec

-----------------------------------------------------------------------------
(* The number of open descriptors, when they are the first ones. *)
LEMMA PackedCount ==
  ASSUME NEW n \in 0 .. FD_LIMIT, DOMAIN handles = 0 .. n - 1
  PROVE  /\ Cardinality(DOMAIN handles) = n
         /\ n < FD_LIMIT => NextFd = n
<1>1. n \in Nat /\ FD_LIMIT \in Nat /\ n - 1 \in Int /\ 0 \in Int
  BY DescriptorsAssumption
<1>2. Cardinality(0 .. n - 1) = n
  BY <1>1, FS_Interval
<1>3. n < FD_LIMIT => n % FD_LIMIT = n
  BY <1>1
<1> QED
  BY <1>2, <1>3 DEF NextFd

(* ResourceSet::open keeps the descriptors packed, and replaces none,      *)
(* unless there is a hole or no value left.                                *)
LEMMA OpenTable ==
  ASSUME TableInv, NEW p \in Family, open_file(p)
  PROVE  TableInv'
<1>1. CASE UNCHANGED tableVars
  BY <1>1 DEF TableInv, Packed, tableVars
<1>2. CASE holed' /\ replaced' \in BOOLEAN /\ holed' \in BOOLEAN
  BY <1>2 DEF TableInv
<1>3. CASE call[3] \in File /\ ~holed /\ DOMAIN handles # Fd
  <2>1. PICK n \in 0 .. FD_LIMIT : DOMAIN handles = 0 .. n - 1
    BY <1>3 DEF TableInv, Packed
  <2>2. n < FD_LIMIT /\ n \in Nat /\ FD_LIMIT \in Nat
    BY <1>3, <2>1, DescriptorsAssumption DEF Fd
  <2>3. NextFd = n
    BY <2>1, <2>2, PackedCount
  <2>4. NextFd \notin DOMAIN handles
    BY <2>1, <2>2, <2>3
  <2>5. DOMAIN handles' = 0 .. (n + 1) - 1
    <3>1. DOMAIN handles' = DOMAIN handles \cup {NextFd}
      BY <1>3 DEF open_file
    <3> QED
      BY <2>1, <2>2, <2>3, <3>1
  <2>6. n + 1 \in 0 .. FD_LIMIT
    BY <2>2
  <2>7. Packed'
    BY <2>5, <2>6 DEF Packed
  <2>8. replaced' = (replaced \/ NextFd \in DOMAIN handles)
        /\ holed' = (holed \/ DOMAIN handles = Fd)
    BY <1>3 DEF open_file
  <2>9. ~replaced' /\ ~holed'
    BY <1>3, <2>4, <2>8 DEF TableInv
  <2> QED
    BY <2>7, <2>8, <2>9 DEF TableInv
<1>4. CASE call[3] \in File /\ (holed \/ DOMAIN handles = Fd)
  <2>1. replaced' = (replaced \/ NextFd \in DOMAIN handles)
        /\ holed' = (holed \/ DOMAIN handles = Fd)
    BY <1>4 DEF open_file
  <2> QED
    BY Zenon, <1>2, <1>4, <2>1 DEF TableInv
<1>5. CASE call[3] \notin File
  BY <1>1, <1>5 DEF open_file
<1> QED
  BY <1>3, <1>4, <1>5

(* ResourceSet::close leaves no hole when it closes the last descriptor,   *)
(* or one that is not open.                                                *)
LEMMA CloseTable ==
  ASSUME TableInv, NEW p \in Family, close_file(p)
  PROVE  TableInv'
<1> DEFINE fd == call[3]
<1>1. /\ DOMAIN handles' = DOMAIN handles \ {fd}
      /\ holed' = (holed \/ (fd \in DOMAIN handles /\ \E d \in DOMAIN handles : d > fd))
      /\ UNCHANGED replaced
  <2>1. handles' = Restrict(handles, DOMAIN handles \ {fd})
    BY DEF close_file
  <2>2. DOMAIN handles' = DOMAIN handles \ {fd}
    BY <2>1 DEF Restrict
  <2> QED
    BY <2>2 DEF close_file
<1>2. holed' \in BOOLEAN /\ replaced' \in BOOLEAN /\ (replaced' => holed')
  BY <1>1 DEF TableInv
<1>3. ASSUME ~holed' PROVE Packed'
  <2>1. ~holed /\ (fd \in DOMAIN handles => \A d \in DOMAIN handles : ~(d > fd))
    BY Zenon, <1>1, <1>3
  <2>2. PICK n \in 0 .. FD_LIMIT : DOMAIN handles = 0 .. n - 1
    BY <2>1 DEF TableInv, Packed
  <2>3. n \in Nat /\ FD_LIMIT \in Nat
    BY DescriptorsAssumption
  <2>4. CASE fd \notin DOMAIN handles
    <3>1. DOMAIN handles' = 0 .. n - 1
      BY <1>1, <2>2, <2>4
    <3> QED
      BY <3>1 DEF Packed
  <2>5. CASE fd \in DOMAIN handles
    <3>1. fd = n - 1 /\ n > 0
      <4>1. fd \in 0 .. n - 1
        BY <2>2, <2>5
      <4>2. n - 1 \in DOMAIN handles
        BY <2>2, <2>3, <4>1
      <4>3. ~(n - 1 > fd)
        BY <2>1, <2>5, <4>2
      <4> HIDE DEF fd
      <4> QED
        BY <2>3, <4>1, <4>3
    <3>2. DOMAIN handles' = 0 .. (n - 1) - 1
      BY <1>1, <2>2, <2>3, <3>1
    <3>3. n - 1 \in 0 .. FD_LIMIT
      BY <2>3, <3>1
    <3> QED
      BY <3>2, <3>3 DEF Packed
  <2> QED
    BY <2>4, <2>5
<1> QED
  BY <1>2, <1>3 DEF TableInv

(* Every step keeps the descriptor tables.                                 *)
LEMMA StepTable == TableInv /\ [IoNext]_ioVars => TableInv'
<1> SUFFICES ASSUME TableInv, [IoNext]_ioVars PROVE TableInv'
  OBVIOUS
<1>1. ASSUME UNCHANGED tableVars PROVE TableInv'
  BY <1>1 DEF TableInv, Packed, tableVars
<1>2. CASE UNCHANGED ioVars
  BY <1>1, <1>2 DEF ioVars
<1>3. CASE Typing \/ serial_handler \/ Stopped
  BY <1>1, <1>3 DEF Typing, serial_handler, Stopped, ioVars
<1>4. ASSUME NEW p \in Family,
             \/ sys_read_write(p) \/ sys_open_close(p)
             \/ return(p) \/ read_key(p) \/ transfer(p) \/ kernel_fault(p)
             \/ user_fault(p) \/ forbidden(p)
             \/ \E page \in {"stack", "bad"} : touch(p, page)
      PROVE  TableInv'
  <2>1. UNCHANGED tableVars
    BY <1>4 DEF sys_read_write, sys_open_close, enter, return, read_key, transfer,
                kernel_fault, user_fault, forbidden, touch
  <2> QED
    BY <1>1, <2>1
<1> QED
  BY <1>2, <1>3, <1>4, OpenTable, CloseTable DEF IoNext, Work

(* An open replaces a descriptor in use only after a hole was made, or     *)
(* with all values taken, and until then the open descriptors are the      *)
(* first ones (ResourceSet in resource.rs), for any number of values.      *)
THEOREM TableKept == IoSpec => []DescriptorsKept
<1>1. IoInit => TableInv
  <2> SUFFICES ASSUME IoInit PROVE TableInv
    OBVIOUS
  <2>1. DOMAIN handles = 0 .. 3 - 1
    BY DEF IoInit, Default
  <2>2. 3 \in 0 .. FD_LIMIT
    BY DescriptorsAssumption
  <2> QED
    BY Zenon, <2>1, <2>2 DEF IoInit, TableInv, Packed
<1>2. TableInv => DescriptorsKept
  <2> SUFFICES ASSUME TableInv, ~holed
               PROVE  DOMAIN handles = 0 .. Cardinality(DOMAIN handles) - 1
    BY DEF DescriptorsKept, TableInv
  <2> QED
    BY PackedCount DEF TableInv, Packed
<1> QED
  BY <1>1, <1>2, StepTable, PTL DEF IoSpec

-----------------------------------------------------------------------------
(* Taking the head of one sequence to the end of the one before it leaves *)
(* their concatenation as it is.                                          *)
LEMMA MoveHead ==
  ASSUME NEW a \in Seq(Nat), NEW b \in Seq(Nat), b # <<>>
  PROVE  /\ Append(a, Head(b)) \in Seq(Nat) /\ Tail(b) \in Seq(Nat)
         /\ Append(a, Head(b)) \o Tail(b) = a \o b
<1>1. Head(b) \in Nat /\ Tail(b) \in Seq(Nat) /\ Len(Tail(b)) = Len(b) - 1 /\ Len(b) > 0
  OBVIOUS
<1>2. Append(a, Head(b)) \in Seq(Nat)
  BY <1>1
<1>3. Append(a, Head(b)) \o Tail(b) \in Seq(Nat) /\ a \o b \in Seq(Nat)
  BY <1>1, <1>2
<1>4. Len(Append(a, Head(b)) \o Tail(b)) = Len(a \o b)
  BY <1>1, <1>2
<1>5. ASSUME NEW i \in 1 .. Len(a \o b)
      PROVE  (Append(a, Head(b)) \o Tail(b))[i] = (a \o b)[i]
  BY <1>1, <1>2
<1> QED
  BY <1>1, <1>2, <1>3, <1>4, <1>5, SeqEqual

(* Taking an element out of a strictly increasing sequence removes that   *)
(* one key, and leaves the others in their order.                         *)
LEMMA DropHead ==
  ASSUME NEW a \in Seq(Nat), NEW b \in Seq(Nat), b # <<>>,
         \A i, j \in 1 .. Len(a \o b) : i < j => (a \o b)[i] < (a \o b)[j]
  PROVE  /\ \A i, j \in 1 .. Len(a \o Tail(b)) :
              i < j => (a \o Tail(b))[i] < (a \o Tail(b))[j]
         /\ Range(a \o Tail(b)) = Range(a \o b) \ {Head(b)}
         /\ Head(b) \in Range(a \o b)
<1> DEFINE s == a \o b
           t == a \o Tail(b)
           up(i) == IF i <= Len(a) THEN i ELSE i + 1
<1>1. /\ Head(b) \in Nat /\ Tail(b) \in Seq(Nat) /\ Len(Tail(b)) = Len(b) - 1
      /\ Len(b) \in Nat /\ Len(b) > 0 /\ Len(a) \in Nat
  OBVIOUS
<1>2. s \in Seq(Nat) /\ t \in Seq(Nat) /\ Len(s) = Len(a) + Len(b) /\ Len(t) = Len(s) - 1
  BY <1>1
<1>3. s[Len(a) + 1] = Head(b) /\ Len(a) + 1 \in 1 .. Len(s)
  BY <1>1
<1>4. \A i \in 1 .. Len(t) : up(i) \in 1 .. Len(s) /\ up(i) # Len(a) + 1 /\ t[i] = s[up(i)]
  BY <1>1
<1>5. \A i, j \in 1 .. Len(t) : i < j => up(i) < up(j)
  BY <1>1, <1>2
<1>6. \A i \in 1 .. Len(s) : i # Len(a) + 1 => \E j \in 1 .. Len(t) : up(j) = i
  <2>1. ASSUME NEW i \in 1 .. Len(s), i # Len(a) + 1
        PROVE  \E j \in 1 .. Len(t) : up(j) = i
    <3>1. CASE i <= Len(a)
      BY <1>1, <1>2, <2>1, <3>1
    <3>2. CASE i > Len(a) + 1
      <4>1. i - 1 \in 1 .. Len(t) /\ up(i - 1) = i
        BY <1>1, <1>2, <2>1, <3>2
      <4> QED
        BY Zenon, <4>1
    <3> QED
      BY <1>1, <2>1, <3>1, <3>2
  <2> QED
    BY <2>1
<1> HIDE DEF s, t, up
<1>7. \A i, j \in 1 .. Len(s) : i < j => s[i] < s[j]
  BY DEF s
<1>8. \A i \in 1 .. Len(s) : s[i] \in Nat
  BY <1>2
<1>9. \A i, j \in 1 .. Len(s) : i # j => s[i] # s[j]
  BY <1>2, <1>7, <1>8
<1>10. \A i, j \in 1 .. Len(t) : i < j => t[i] < t[j]
  BY Zenon, <1>4, <1>5, <1>7
<1>11. DOMAIN s = 1 .. Len(s) /\ DOMAIN t = 1 .. Len(t)
  BY <1>2
<1>12. ASSUME NEW k PROVE k \in Range(t) <=> k \in Range(s) /\ k # Head(b)
  <2>1. ASSUME k \in Range(t) PROVE k \in Range(s) /\ k # Head(b)
    <3>1. PICK i \in 1 .. Len(t) : k = t[i]
      BY <1>11, <2>1 DEF Range
    <3> QED
      BY <1>3, <1>4, <1>9, <1>11, <3>1 DEF Range
  <2>2. ASSUME k \in Range(s), k # Head(b) PROVE k \in Range(t)
    <3>1. PICK i \in 1 .. Len(s) : k = s[i]
      BY <1>11, <2>2 DEF Range
    <3>2. PICK j \in 1 .. Len(t) : up(j) = i
      BY <1>3, <1>6, <2>2, <3>1
    <3>3. t[j] = k /\ j \in DOMAIN t
      BY ONLY Zenon, <1>4, <1>11, <3>1, <3>2
    <3> QED
      BY ONLY Zenon, <3>3 DEF Range
  <2> QED
    BY <2>1, <2>2
<1>13. Head(b) \in Range(s)
  BY <1>3, <1>11 DEF Range
<1> QED
  BY <1>10, <1>12, <1>13 DEF s, t

-----------------------------------------------------------------------------
(* A refused key had been typed, and is not refused again. *)
KeyInv ==
  /\ typed \in Nat
  /\ popped \in Seq(Nat) /\ INPUT_BUF \in Seq(Nat) /\ fifo \in Seq(Nat)
  /\ dropped \subseteq 1 .. typed
  /\ KeysInOrder

(* A key typed is behind all others, and larger. *)
LEMMA TypeKeys == KeyInv /\ type => KeyInv'
<1> SUFFICES ASSUME KeyInv, type PROVE KeyInv'
  OBVIOUS
<1> DEFINE s == popped \o INPUT_BUF
           t == s \o fifo
           k == typed + 1
<1>1. /\ typed' = k /\ fifo' = Append(fifo, k) /\ k \in Nat
      /\ INPUT_BUF' = INPUT_BUF /\ popped' = popped /\ dropped' = dropped
      /\ typed \in Nat /\ fifo \in Seq(Nat) /\ s \in Seq(Nat) /\ t \in Seq(Nat)
      /\ fifo' \in Seq(Nat)
  BY DEF KeyInv, type
<1>2. Stream = t /\ Stream' = s \o Append(fifo, k)
  BY <1>1 DEF Stream
<1> HIDE DEF s, k
<1>3. /\ Len(Stream') = Len(t) + 1
      /\ \A i \in 1 .. Len(t) : Stream'[i] = t[i]
      /\ Stream'[Len(t) + 1] = k
  BY <1>1, <1>2
<1>4. DOMAIN t = 1 .. Len(t) /\ DOMAIN Stream' = 1 .. Len(t) + 1 /\ Len(t) \in Nat
  BY <1>1, <1>2
<1> HIDE DEF t
<1>5. Range(Stream') = Range(t) \cup {k}
  BY <1>3, <1>4 DEF Range
<1>6. Range(t) = (1 .. typed) \ dropped /\ dropped \subseteq 1 .. typed
  BY <1>2 DEF KeyInv, KeysInOrder
<1>7. Range(Stream') = (1 .. typed') \ dropped'
  BY <1>1, <1>5, <1>6 DEF k
<1>8. \A i \in 1 .. Len(t) : t[i] < k
  <2>1. \A i \in 1 .. Len(t) : t[i] \in 1 .. typed
    BY <1>4, <1>6 DEF Range
  <2> QED
    BY <1>1, <2>1 DEF k
<1>9. \A i, j \in 1 .. Len(t) : i < j => t[i] < t[j]
  BY <1>2 DEF KeyInv, KeysInOrder
<1>10. \A i, j \in 1 .. Len(Stream') : i < j => Stream'[i] < Stream'[j]
  BY <1>3, <1>4, <1>8, <1>9
<1>11. dropped' \subseteq 1 .. typed'
  BY <1>1, <1>6 DEF k
<1> QED
  BY <1>1, <1>7, <1>10, <1>11 DEF KeyInv, KeysInOrder

(* push_key with room moves the oldest byte of the port to the queue; with *)
(* a full queue the byte is gone, and counted.                             *)
LEMMA ReceiveKeys == KeyInv /\ receive => KeyInv'
<1> SUFFICES ASSUME KeyInv, receive PROVE KeyInv'
  OBVIOUS
<1>1. /\ fifo # <<>> /\ fifo' = Tail(fifo) /\ typed' = typed /\ popped' = popped
      /\ popped \in Seq(Nat) /\ INPUT_BUF \in Seq(Nat) /\ fifo \in Seq(Nat)
      /\ typed \in Nat
  BY DEF KeyInv, receive
<1>2. CASE INPUT_BUF' = Append(INPUT_BUF, Head(fifo)) /\ dropped' = dropped
  <2>1. /\ INPUT_BUF' \in Seq(Nat) /\ fifo' \in Seq(Nat)
        /\ INPUT_BUF' \o fifo' = INPUT_BUF \o fifo
    BY <1>1, <1>2, MoveHead
  <2>2. Stream' = popped \o (INPUT_BUF' \o fifo')
    <3>1. \A a, b, c \in Seq(Nat) : (a \o b) \o c = a \o (b \o c)
      BY ConcatAssociative
    <3> QED
      BY Zenon, <1>1, <2>1, <3>1 DEF Stream
  <2>3. Stream = popped \o (INPUT_BUF \o fifo)
    BY <1>1, ConcatAssociative DEF Stream
  <2> QED
    BY Zenon, <1>1, <1>2, <2>1, <2>2, <2>3 DEF KeyInv, KeysInOrder
<1>3. CASE INPUT_BUF' = INPUT_BUF /\ dropped' = dropped \cup {Head(fifo)}
  <2>1. popped \o INPUT_BUF \in Seq(Nat) /\ fifo' \in Seq(Nat)
    BY <1>1
  <2>2. Stream' = (popped \o INPUT_BUF) \o Tail(fifo)
    BY <1>1, <1>3 DEF Stream
  <2>3. \A i, j \in 1 .. Len(Stream) : i < j => Stream[i] < Stream[j]
    BY DEF KeyInv, KeysInOrder
  <2>4. /\ \A i, j \in 1 .. Len(Stream') : i < j => Stream'[i] < Stream'[j]
        /\ Range(Stream') = Range(Stream) \ {Head(fifo)}
        /\ Head(fifo) \in Range(Stream)
    BY Zenon, <1>1, <2>1, <2>2, <2>3, DropHead DEF Stream
  <2>5. Range(Stream) = (1 .. typed) \ dropped /\ dropped \subseteq 1 .. typed
    BY DEF KeyInv, KeysInOrder
  <2>6. Range(Stream') = (1 .. typed') \ dropped' /\ dropped' \subseteq 1 .. typed'
    BY Zenon, <1>1, <1>3, <2>4, <2>5
  <2> QED
    BY <1>1, <1>3, <2>1, <2>4, <2>6 DEF KeyInv, KeysInOrder
<1> QED
  BY <1>2, <1>3 DEF receive, push_key

(* try_pop_key moves the oldest key of the queue to the keys handed out. *)
LEMMA PopKeys == KeyInv /\ try_pop_key => KeyInv'
<1> SUFFICES ASSUME KeyInv, try_pop_key PROVE KeyInv'
  OBVIOUS
<1>1. /\ INPUT_BUF # <<>> /\ INPUT_BUF' = Tail(INPUT_BUF)
      /\ popped' = Append(popped, Head(INPUT_BUF))
      /\ typed' = typed /\ fifo' = fifo /\ dropped' = dropped
      /\ popped \in Seq(Nat) /\ INPUT_BUF \in Seq(Nat)
  BY DEF KeyInv, try_pop_key
<1>2. /\ popped' \in Seq(Nat) /\ INPUT_BUF' \in Seq(Nat)
      /\ popped' \o INPUT_BUF' = popped \o INPUT_BUF
  BY <1>1, MoveHead
<1>3. Stream' = Stream
  BY SMTT(30), <1>1, <1>2 DEF Stream
<1> QED
  BY <1>1, <1>2, <1>3 DEF KeyInv, KeysInOrder

(* A step that leaves the console alone. *)
LEMMA OtherKeys == KeyInv /\ UNCHANGED consoleVars => KeyInv'
BY DEF KeyInv, KeysInOrder, Stream, consoleVars

(* Every step of the kernel is one of those. *)
LEMMA StepKeys == KeyInv /\ [IoNext]_ioVars => KeyInv'
<1> SUFFICES ASSUME KeyInv, [IoNext]_ioVars PROVE KeyInv'
  OBVIOUS
<1>1. CASE Typing
  BY <1>1, TypeKeys DEF Typing
<1>2. CASE serial_handler
  BY <1>2, ReceiveKeys DEF serial_handler
<1>3. CASE Stopped \/ UNCHANGED ioVars
  BY <1>3, OtherKeys DEF Stopped, ioVars
<1>4. ASSUME NEW p \in Family, sys_read_write(p) \/ sys_open_close(p)
      PROVE  KeyInv'
  BY <1>4, OtherKeys DEF sys_read_write, sys_open_close, enter
<1>5. ASSUME NEW p \in Family, read_key(p) PROVE KeyInv'
  BY <1>5, PopKeys DEF read_key
<1>6. ASSUME NEW p \in Family, kernel_fault(p) PROVE KeyInv'
  BY SMTT(30), <1>6, PopKeys, OtherKeys DEF kernel_fault
<1>7. ASSUME NEW p \in Family,
             return(p) \/ transfer(p) \/ open_file(p) \/ close_file(p)
      PROVE  KeyInv'
  BY Zenon, <1>7, OtherKeys DEF return, transfer, open_file, close_file
<1>8. ASSUME NEW p \in Family, user_fault(p) \/ forbidden(p) PROVE KeyInv'
  BY <1>8, OtherKeys DEF user_fault, forbidden
<1>9. ASSUME NEW p \in Family, \E page \in {"stack", "bad"} : touch(p, page)
      PROVE  KeyInv'
  BY <1>9, OtherKeys DEF touch
<1> QED
  BY <1>1, <1>2, <1>3, <1>4, <1>5, <1>6, <1>7, <1>8, <1>9 DEF IoNext, Work

(* No key is lost, doubled or reordered between the serial port and the    *)
(* readers of Stdin except those the full queue refuses, for a queue of    *)
(* any size and any number of keys and readers.                            *)
THEOREM KeysKept == IoSpec => []KeysInOrder
<1>1. IoInit => KeyInv
  BY DEF IoInit, ConsoleInit, PortInit, KeyInv, KeysInOrder, Stream, Range
<1>2. KeyInv => KeysInOrder
  BY DEF KeyInv
<1> QED
  BY <1>1, <1>2, StepKeys, PTL DEF IoSpec
=============================================================================
