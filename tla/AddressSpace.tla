---------------------------- MODULE AddressSpace ----------------------------
(***************************************************************************)
(* The memory of one family of processes: a spawned process and those      *)
(* forked from it, which share a page table.  Each has a stack of its own, *)
(* all share the heap, and the code belongs to the first.                  *)
(*                                                                         *)
(* The kernel takes addresses of the stack area apart with                 *)
(* STACK_START_MASK: a page is a slot, counted downwards from STACK_MAX,   *)
(* and an offset in it.  Heap addresses are counted in words, PAGE_SIZE    *)
(* words to a page, from HEAP_START.  Frames are not told apart, and those *)
(* that hold page tables are not counted.                                  *)
(***************************************************************************)
EXTENDS Integers, FiniteSets

CONSTANTS
  MaxProcs,         \* bound: processes of the family, over its whole life
  MaxSlot,          \* bound: the last slot a stack may be put in
  STACK_MAX_PAGES,  \* pages of a slot
  HEAP_PAGES,       \* pages of the heap
  PAGE_SIZE,        \* words of a page
  BrkArgs,          \* the ends programs ask for
  CodePages,        \* pages of the program
  Frames,           \* frames available to the family
  FirstPid          \* the pid of the spawned process

Proc == 1 .. MaxProcs
First == 1
Slot == 0 .. MaxSlot
Offset == 0 .. STACK_MAX_PAGES - 1
StackPage == Slot \X Offset

ASSUME AddressSpaceAssumption ==
  /\ MaxProcs \in Nat \ {0}
  /\ STACK_MAX_PAGES \in Nat \ {0}
  /\ PAGE_SIZE \in Nat \ {0}
  /\ HEAP_PAGES \in Nat
  /\ BrkArgs \subseteq Nat
  /\ CodePages \in Nat
  /\ FirstPid \in Nat \ {0}
  /\ MaxSlot \in Nat /\ FirstPid - 1 <= MaxSlot
  /\ Frames \in Nat /\ CodePages + 1 <= Frames

VARIABLES
  born,         \* processes created so far
  live,         \* those that have not exited
  children,     \* children.len() of each
  stack,        \* range and usage of each stack
  sp,           \* the offset of the page each stack pointer is in
  stack_pages,  \* the stack pages that are mapped
  heap_end,     \* Heap::end, from HEAP_START
  heap_pages,   \* the heap pages that are mapped
  code,         \* the number of code pages that are mapped
  free,         \* frames the allocator can still give
  halted,       \* "no", or how the kernel stopped
  stray,        \* history: stack pages mapped for nobody
  heap_stray,   \* history: heap pages mapped beyond the end
  lost,         \* history: frames taken and never mapped
  untidy        \* history: what the last exit left mapped

stackVars == <<born, live, children, stack, sp, stack_pages, stray>>
heapVars == <<heap_end, heap_pages, heap_stray>>
frameVars == <<code, free, lost, untidy>>
vars == <<stackVars, heapVars, frameVars, halted>>

StackRange ==
  [slot : Slot, start : 0 .. STACK_MAX_PAGES, end : 0 .. STACK_MAX_PAGES,
   usage : 0 .. STACK_MAX_PAGES]

(* The ranges, counts and page sets stay within their slots and the heap,  *)
(* and the allocator never gives more frames than there are.               *)
TypeOK ==
  /\ born \in Proc
  /\ live \in SUBSET Proc
  /\ children \in [Proc -> Nat]
  /\ stack \in [Proc -> StackRange]
  /\ sp \in [Proc -> Offset]
  /\ stack_pages \in SUBSET StackPage
  /\ heap_end \in 0 .. HEAP_PAGES * PAGE_SIZE
  /\ heap_pages \in SUBSET (0 .. HEAP_PAGES - 1)
  /\ code \in 0 .. CodePages
  /\ free \in 0 .. Frames
  /\ halted \in {"no", "fork_loop", "grow_underflow", "brk_unwrap"}
  /\ stray \in SUBSET StackPage
  /\ heap_stray \in SUBSET (0 .. HEAP_PAGES - 1)
  /\ lost \in 0 .. Frames
  /\ untidy \in SUBSET {"tail", "code"}

(* Pages first to first + n - 1 of a slot, and of a process' stack. *)
Run(slot, first, n) == {slot} \X (first .. first + n - 1)
Owned(p) == {stack[p].slot} \X (stack[p].start .. stack[p].end - 1)

(* The stack of a process that does not exist, or has dropped its ProcessVm. *)
NoStack == [slot |-> 0, start |-> 0, end |-> 0, usage |-> 0]

(* spawn: load_elf maps the code and a stack of one page. *)
Init ==
  /\ born = First
  /\ live = {First}
  /\ children = [p \in Proc |-> 0]
  /\ stack = [p \in Proc |->
                IF p = First THEN [slot |-> FirstPid - 1,
                                   start |-> STACK_MAX_PAGES - 1,
                                   end |-> STACK_MAX_PAGES, usage |-> 1]
                ELSE NoStack]
  /\ sp = [p \in Proc |-> IF p = First THEN STACK_MAX_PAGES - 1 ELSE 0]
  /\ stack_pages = {<<FirstPid - 1, STACK_MAX_PAGES - 1>>}
  /\ heap_end = 0
  /\ heap_pages = {}
  /\ code = CodePages
  /\ free = Frames - CodePages - 1
  /\ halted = "no"
  /\ stray = {}
  /\ heap_stray = {}
  /\ lost = 0
  /\ untidy = {}

-----------------------------------------------------------------------------
(* map_range maps the pages first .. first + n - 1 one by one.  It stops,  *)
(* and keeps what it has done, when there is no frame left or when a page  *)
(* is mapped already: then the frame taken for that page is lost.  busy:   *)
(* the pages that are mapped.                                              *)
Reach(first, n, busy) ==
  CHOOSE k \in 0 .. n :
     /\ \A i \in first .. first + k - 1 : i \notin busy
     /\ k = n \/ first + k \in busy

(* Faulty variant: it does not notice that there is no frame left. *)
MapDone_greedy(first, n, busy) == Reach(first, n, busy)

MapDone(first, n, busy) ==
  IF Reach(first, n, busy) <= free THEN Reach(first, n, busy) ELSE free

(* Faulty variant: a failure halfway is taken for success. *)
MapOk_always(first, n, busy) == TRUE

MapOk(first, n, busy) == MapDone(first, n, busy) = n

MapLost(first, n, busy) ==
  IF ~MapOk(first, n, busy) /\ MapDone(first, n, busy) < free THEN 1 ELSE 0

(* The offsets mapped in a slot. *)
Busy(slot) == {o \in Offset : <<slot, o>> \in stack_pages}

-----------------------------------------------------------------------------
(* Stack::fork asks for the offsets of the parent's stack, usage pages     *)
(* from its start, in the slot stack_offset_count below the parent's and   *)
(* then in the next ones, until all can be mapped.                         *)
Image(p, slot) == Run(slot, stack[p].start, stack[p].usage)

Clear(p, slot) == Image(p, slot) \cap stack_pages = {}

(* A slot that is tried in vain keeps the pages below the first busy one. *)
Left(p, slot) ==
  {page \in Image(p, slot) :
     \A b \in Image(p, slot) \cap stack_pages : page[2] < b[2]}

Tried(p, slot) == stack[p].slot + children[p] + 1 .. slot - 1

LeftPages(p, slot) == UNION {Left(p, s) : s \in Tried(p, slot)}

(* The frames all attempts take: one is lost in each that fails. *)
ForkCost(p, slot) ==
  stack[p].usage + Cardinality(LeftPages(p, slot))
                 + Cardinality(Tried(p, slot))

(* Faulty variant: fork does not look whether its first choice is in use. *)
ForkSlot_first(p, slot) == slot = stack[p].slot + children[p] + 1

ForkSlot(p, slot) ==
  /\ slot > stack[p].slot + children[p]
  /\ Clear(p, slot)
  /\ \A s \in Tried(p, slot) : ~Clear(p, s)

(* Faulty variant: a page too few is mapped. *)
ForkPages_short(p, slot) == Run(slot, stack[p].start, stack[p].usage - 1)

ForkPages(p, slot) == Image(p, slot)

(* Faulty variant: the child gets the range of a new process' stack. *)
ForkStack_default(p, slot) ==
  [slot |-> slot, start |-> STACK_MAX_PAGES - 1, end |-> STACK_MAX_PAGES,
   usage |-> 1]

ForkStack(p, slot) ==
  [slot |-> slot, start |-> stack[p].start,
   end |-> stack[p].start + stack[p].usage, usage |-> stack[p].usage]

(* ProcessVm::fork with the stack pointer of Process::fork.  Without       *)
(* frames for all attempts the loop of Stack::fork finds no slot: it goes  *)
(* on down to address 0, below which the subtraction panics.               *)
fork(p) ==
  /\ halted = "no" /\ p \in live /\ born < MaxProcs
  /\ \E slot \in Slot :
       /\ ForkSlot(p, slot)
       /\ IF ForkCost(p, slot) <= free
          THEN /\ born' = born + 1
               /\ live' = live \cup {born + 1}
               /\ children' = [children EXCEPT ![p] = @ + 1]
               /\ stack' = [stack EXCEPT ![born + 1] = ForkStack(p, slot)]
               /\ sp' = [sp EXCEPT ![born + 1] = sp[p]]
               /\ stack_pages' = stack_pages \cup LeftPages(p, slot)
                                             \cup ForkPages(p, slot)
               /\ stray' = stray \cup LeftPages(p, slot)
               /\ free' = free - ForkCost(p, slot)
               /\ lost' = lost + Cardinality(Tried(p, slot))
               /\ UNCHANGED halted
          ELSE /\ halted' = "fork_loop"
               /\ UNCHANGED <<stackVars, free, lost>>
  /\ UNCHANGED <<heapVars, code, untidy>>

-----------------------------------------------------------------------------
(* User code moves its stack pointer to a page that is mapped. *)
move(p, o) ==
  /\ halted = "no" /\ p \in live
  /\ <<stack[p].slot, o>> \in stack_pages
  /\ sp' = [sp EXCEPT ![p] = o]
  /\ UNCHANGED <<born, live, children, stack, stack_pages, stray, heapVars,
                 frameVars, halted>>

(* Stack::grow_stack for a page below the start: the pages from there up   *)
(* to the start are mapped.  Its failure is not reported further: the      *)
(* process continues if its page was mapped and faults again otherwise.    *)
grow_stack(p, o) ==
  LET s == stack[p]
      n == s.start - o
      done == MapDone(o, n, Busy(s.slot))
      ok == MapOk(o, n, Busy(s.slot))
      gone == MapLost(o, n, Busy(s.slot))
  IN /\ stack_pages' = stack_pages \cup Run(s.slot, o, done)
     /\ stack' = IF ok
                 THEN [stack EXCEPT ![p].start = o, ![p].usage = s.end - o]
                 ELSE stack
     /\ stray' = IF ok THEN stray ELSE stray \cup Run(s.slot, o, done)
     /\ sp' = IF done > 0 THEN [sp EXCEPT ![p] = o] ELSE sp
     /\ free' = free - done - gone
     /\ lost' = lost + gone
     /\ UNCHANGED halted

(* Stack::handle_page_fault for a page of the process' own slot that is    *)
(* not mapped.  A page above the start underflows the page count.          *)
page_fault(p, o) ==
  /\ halted = "no" /\ p \in live
  /\ <<stack[p].slot, o>> \notin stack_pages
  /\ IF o < stack[p].start
     THEN grow_stack(p, o)
     ELSE /\ halted' = "grow_underflow"
          /\ UNCHANGED <<stack_pages, stack, stray, sp, free, lost>>
  /\ UNCHANGED <<born, live, children, heapVars, code, untidy>>

-----------------------------------------------------------------------------
(* The heap.                                                               *)

HEAP_END == HEAP_PAGES * PAGE_SIZE - 1

align_up(addr) == (addr + PAGE_SIZE - 1) \div PAGE_SIZE

(* Faulty variant: the new end is rounded down. *)
NewUpper_down(addr) == addr \div PAGE_SIZE

NewUpper(addr) == align_up(addr)

brk_grow(new_end) ==
  LET first == align_up(heap_end)
      n == NewUpper(new_end) - first
      done == MapDone(first, n, heap_pages)
      ok == MapOk(first, n, heap_pages)
      gone == MapLost(first, n, heap_pages)
      new == first .. first + done - 1
  IN /\ n > 0
     /\ heap_pages' = heap_pages \cup new
     /\ heap_end' = IF ok THEN new_end ELSE heap_end
     /\ heap_stray' = IF ok THEN heap_stray ELSE heap_stray \cup new
     /\ free' = free - done - gone
     /\ lost' = lost + gone

brk_shrink(new_end) ==
  LET gone == NewUpper(new_end) .. align_up(heap_end) - 1
  IN /\ NewUpper(new_end) <= align_up(heap_end)
     /\ heap_pages' = heap_pages \ gone
     /\ heap_end' = new_end
     /\ free' = free + Cardinality(gone)
     /\ UNCHANGED <<heap_stray, lost>>

(* Heap::brk.  At the log level of the configuration the trace at its end  *)
(* unwraps the result, which is None for an end out of range.              *)
brk(p, new_end) ==
  /\ halted = "no" /\ p \in live
  /\ IF new_end <= HEAP_END
     THEN /\ brk_grow(new_end) \/ brk_shrink(new_end)
          /\ UNCHANGED halted
     ELSE /\ halted' = "brk_unwrap"
          /\ UNCHANGED <<heapVars, free, lost>>
  /\ UNCHANGED <<stackVars, code, untidy>>

-----------------------------------------------------------------------------
(* ProcessVm::clean_up, when the process is killed: its stack; and, if no  *)
(* other process uses the page table, the whole pages below the heap's end *)
(* and the code the process knows of, which is the first process' alone.   *)
(* unmap stops at a page that is not mapped; StackAccounted and HeapExact  *)
(* say that there is none, so the pages are subtracted at once.            *)

(* Faulty variant: the first process frees what the family shares. *)
LastUser_first(p) == p = First

LastUser(p) == live = {p}

HeapFreed(p) == IF LastUser(p) THEN 0 .. heap_end \div PAGE_SIZE - 1 ELSE {}

CodeFreed(p) == IF LastUser(p) /\ p = First THEN code ELSE 0

exit(p) ==
  /\ halted = "no" /\ p \in live
  /\ live' = live \ {p}
  /\ stack' = [stack EXCEPT ![p] = NoStack]
  /\ sp' = [sp EXCEPT ![p] = 0]
  /\ stack_pages' = stack_pages \ Owned(p)
  /\ heap_pages' = heap_pages \ HeapFreed(p)
  /\ heap_end' = IF LastUser(p) THEN 0 ELSE heap_end
  /\ code' = code - CodeFreed(p)
  /\ free' = free + Cardinality(Owned(p) \cap stack_pages)
                  + Cardinality(HeapFreed(p) \cap heap_pages) + CodeFreed(p)
  /\ untidy' = {w \in {"tail", "code"} :
                  /\ LastUser(p)
                  /\ w = "tail" => heap_end % PAGE_SIZE # 0
                  /\ w = "code" => p # First}
  /\ UNCHANGED <<born, children, stray, heap_stray, lost, halted>>

(* A family that is gone, and a kernel that has stopped, stay as they are. *)
Over == (live = {} \/ halted # "no") /\ UNCHANGED vars

Next ==
  \/ \E p \in Proc :
       \/ fork(p)
       \/ exit(p)
       \/ \E o \in Offset : move(p, o) \/ page_fault(p, o)
       \/ \E new_end \in BrkArgs : brk(p, new_end)
  \/ Over

Spec == Init /\ [][Next]_vars

-----------------------------------------------------------------------------
(* Properties.                                                             *)

(* The stacks of a family never share a slot, whatever the order of forks, *)
(* growth and exits: fork only looks whether the pages it wants are free,  *)
(* and that is enough because every stack includes the top page of its     *)
(* slot.  So no stack can grow into another.                               *)
StacksApart ==
  \A p, q \in live : p # q => stack[p].slot # stack[q].slot

(* The mapped stack pages are those the live processes own and those that  *)
(* failed attempts of fork and of growth left behind, never both: exit     *)
(* unmaps the whole of its own stack and nothing of another's.             *)
StackAccounted ==
  /\ stack_pages = stray \cup UNION {Owned(p) : p \in live}
  /\ \A p \in live : Owned(p) \cap stray = {}
  /\ \A p \in live : stack[p].usage = stack[p].end - stack[p].start

(* The page fault handler never computes a negative number of pages: a     *)
(* page of a process' slot that is not mapped lies below its stack.        *)
FaultBelowStack == halted # "grow_underflow"

(* The part of the stack in use is within the range the kernel knows, so   *)
(* that fork copies all of it and exit frees it, as long as no attempt to  *)
(* map a stack has failed halfway anywhere in the family.                  *)
StackKept ==
  stray = {} => \A p \in live : sp[p] \in stack[p].start .. stack[p].end - 1

(* While the family lives, the mapped heap pages are those up to the       *)
(* shared end, rounded up, and those that failed calls of brk left beyond  *)
(* it, whichever process moved the end.                                    *)
HeapExact ==
  live # {} =>
    /\ heap_pages = heap_stray \cup (0 .. align_up(heap_end) - 1)
    /\ heap_stray \cap (0 .. align_up(heap_end) - 1) = {}

(* When the last process of the family is gone all frames are back, unless *)
(* a failed attempt kept some, the end of the heap was within a page, or   *)
(* the first process, the only one to know the code, was not the last.     *)
FramesReturned ==
  live = {} /\ halted = "no" =>
    free = Frames - lost - Cardinality(stray) - Cardinality(heap_stray)
                  - (IF "tail" \in untidy THEN 1 ELSE 0)
                  - (IF "code" \in untidy THEN CodePages ELSE 0)

(* What the comment on Heap says: "always page aligned, the range is       *)
(* [base, end)".                                                           *)
HeapAligned == heap_end % PAGE_SIZE = 0
=============================================================================
