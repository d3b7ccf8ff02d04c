---------------------------- MODULE Descriptors -----------------------------
(***************************************************************************)
(* The system calls on file descriptors.  Forked processes share one table *)
(* of resources.  A call takes the lock of the calling process and, while  *)
(* it holds it, touches memory of the process; where that memory is not    *)
(* mapped a page fault interrupts the call, and its handler wants the same *)
(* lock.                                                                   *)
(*                                                                         *)
(* A call runs with interrupts disabled: while one is in progress neither  *)
(* another process nor the serial interrupt takes a step.                  *)
(***************************************************************************)
EXTENDS Console

CONSTANTS
  Family,      \* the processes of one family
  File,        \* the files of the disk
  FD_LIMIT,    \* the number of values of a descriptor (256 for a u8)
  MaxFrames    \* frames left for growing the stacks

ASSUME DescriptorsAssumption == FD_LIMIT \in Nat /\ FD_LIMIT > 3

VARIABLES
  handles,     \* the ResourceSet: descriptor -> resource
  lock,        \* the RwLock of each ProcessInner: "free", "read" or "write"
  call,        \* the call in progress: operation, caller, argument, buffer
  touching,    \* the page the user code of each process is accessing
  frames,      \* frames left
  hung,        \* "no", "spin" or "panic"
  holed,       \* history: a descriptor below another was closed, or one was
               \* opened when all were taken
  replaced     \* history: an open replaced a descriptor that was in use

memVars == <<lock, touching, frames>>
tableVars == <<handles, holed, replaced>>
ioVars == <<consoleVars, memVars, tableVars, call, hung>>

(* What an address a process uses or passes to a call may point to: a page *)
(* that is mapped, and may be written or not; one of the stack that is not *)
(* mapped yet; one that is not mapped, and not of the stack.  Calls take   *)
(* any pointer.                                                            *)
Page == {"mapped", "stack", "bad"}
Buffer == {"mapped", "readonly", "stack", "bad"}
Fd == 0 .. FD_LIMIT - 1
NoCall == <<"none">>

(* ResourceSet::default *)
Default ==
  [fd \in 0 .. 2 |-> CASE fd = 0 -> "Stdin" [] fd = 1 -> "Stdout" [] fd = 2 -> "Stderr"]

IoInit ==
  /\ ConsoleInit
  /\ handles = Default
  /\ lock = [p \in Family |-> "free"]
  /\ call = NoCall
  /\ touching = [p \in Family |-> "mapped"]
  /\ frames = MaxFrames
  /\ hung = "no"
  /\ holed = FALSE
  /\ replaced = FALSE

-----------------------------------------------------------------------------
Idle == hung = "no" /\ call = NoCall

(* The entry of a call: manager::read takes the lock for reading, write,   *)
(* open_file and close_file for writing.                                   *)
enter(p, op, arg, buf) ==
  /\ Idle /\ touching[p] = "mapped"
  /\ call' = <<op, p, arg, buf>>
  /\ lock' = [lock EXCEPT ![p] = IF op = "read" THEN "read" ELSE "write"]
  /\ UNCHANGED <<consoleVars, touching, frames, tableVars, hung>>

leave_kept(p) ==
  /\ call' = NoCall
  /\ UNCHANGED <<lock, touching, frames, hung>>

(* The end of a call: the guard is dropped. *)
leave(p) ==
  /\ call' = NoCall
  /\ lock' = [lock EXCEPT ![p] = "free"]
  /\ UNCHANGED <<touching, frames, hung>>

In(op, p) == hung = "no" /\ call # NoCall /\ call[1] = op /\ call[2] = p

(* The call has nothing to transfer: the descriptor is not open, the       *)
(* resource has no such operation (-1), or there is no data (0).           *)
NoTransfer(op, fd) ==
  fd \in DOMAIN handles =>
    \/ op = "read" /\ handles[fd] \in {"Stdout", "Stderr"}
    \/ op = "read" /\ handles[fd] = "Stdin" /\ INPUT_BUF = <<>>
    \/ op = "write" /\ handles[fd] \in {"Stdin"} \cup File

return(p) ==
  /\ \E op \in {"read", "write"} : In(op, p) /\ NoTransfer(op, call[3])
  /\ leave(p)
  /\ UNCHANGED <<consoleVars, tableVars>>

(* The call can access the buffer: read writes to it, the others read it. *)
Accessible(p) ==
  call[4] \in IF call[1] = "read" THEN {"mapped"} ELSE {"mapped", "readonly"}

(* Resource::read of Stdin: one key into the first byte of the buffer. *)
read_key(p) ==
  /\ In("read", p) /\ ~NoTransfer("read", call[3])
  /\ handles[call[3]] = "Stdin"
  /\ Accessible(p)
  /\ try_pop_key
  /\ leave(p)
  /\ UNCHANGED tableVars

(* Resource::read of a file, Resource::write of the console: the data is   *)
(* copied and the count returned.                                          *)
transfer(p) ==
  /\ \E op \in {"read", "write"} : In(op, p) /\ ~NoTransfer(op, call[3])
  /\ handles[call[3]] # "Stdin"
  /\ Accessible(p)
  /\ leave(p)
  /\ UNCHANGED <<consoleVars, tableVars>>

NextFd_last == (Cardinality(DOMAIN handles) - 1) % FD_LIMIT

(* ResourceSet::open: the descriptor is the number of open ones. *)
NextFd == Cardinality(DOMAIN handles) % FD_LIMIT

(* ProcessData::open_file, once the path has been read: a file that does   *)
(* not exist makes the unwrap panic.                                       *)
open_file(p) ==
  /\ In("open", p) /\ Accessible(p)
  /\ IF call[3] \in File
     THEN /\ handles' = [fd \in DOMAIN handles \cup {NextFd} |->
                         IF fd = NextFd THEN call[3] ELSE handles[fd]]
          /\ replaced' = (replaced \/ NextFd \in DOMAIN handles)
          /\ holed' = (holed \/ DOMAIN handles = Fd)
          /\ leave(p)
          /\ UNCHANGED consoleVars
     ELSE /\ hung' = "panic"
          /\ UNCHANGED <<consoleVars, memVars, tableVars, call>>

(* ResourceSet::close *)
close_file(p) ==
  /\ In("close", p)
  /\ LET fd == call[3]
     IN /\ handles' = Restrict(handles, DOMAIN handles \ {fd})
        /\ holed' = (holed \/ (fd \in DOMAIN handles /\ \E d \in DOMAIN handles : d > fd))
  /\ leave(p)
  /\ UNCHANGED <<replaced, consoleVars>>

-----------------------------------------------------------------------------
handle_page_fault_below(p, page) ==
  CASE page = "readonly" -> hung' = "panic" /\ UNCHANGED frames
    [] page \in Page /\ lock[p] # "free" -> hung' = "spin" /\ UNCHANGED frames
    [] OTHER -> UNCHANGED <<frames, hung>>

(* The page fault handler on an access of process p to the page: an access *)
(* the present page forbids is not handled, and the kernel panics.         *)
(* Otherwise the handler takes the lock of the process, which spins for    *)
(* ever if the interrupted call holds it, and grows the stack if the       *)
(* address is on it.  It returns true whatever came of that, so the access *)
(* is tried again.                                                         *)
handle_page_fault(p, page) ==
  CASE page = "readonly" -> hung' = "panic" /\ UNCHANGED frames
    [] page \in Page /\ lock[p] # "free" -> hung' = "spin" /\ UNCHANGED frames
    [] page = "stack" /\ lock[p] = "free" /\ frames > 0 ->
         frames' = frames - 1 /\ UNCHANGED hung
    [] OTHER -> UNCHANGED <<frames, hung>>

(* A call touches memory of the caller that it cannot access.  Reading     *)
(* Stdin has popped the key by then.                                       *)
kernel_fault(p) ==
  /\ \/ \E op \in {"read", "write"} : In(op, p) /\ ~NoTransfer(op, call[3])
     \/ In("open", p)
  /\ ~Accessible(p)
  /\ handle_page_fault(p, call[4])
  /\ IF call[1] = "read" /\ handles[call[3]] = "Stdin"
     THEN try_pop_key
     ELSE UNCHANGED consoleVars
  /\ UNCHANGED <<lock, touching, tableVars, call>>

(* User code writes to a page it may not write. *)
forbidden(p) ==
  /\ Idle /\ touching[p] = "mapped"
  /\ handle_page_fault(p, "readonly")
  /\ UNCHANGED <<consoleVars, lock, touching, tableVars, call>>

(* User code accesses a page that is not mapped. *)
touch(p, page) ==
  /\ Idle /\ touching[p] = "mapped"
  /\ touching' = [touching EXCEPT ![p] = page]
  /\ UNCHANGED <<consoleVars, lock, frames, tableVars, call, hung>>

(* The fault it takes: the access succeeds once the page is mapped. *)
user_fault(p) ==
  /\ Idle /\ touching[p] # "mapped"
  /\ handle_page_fault(p, touching[p])
  /\ touching' = [touching EXCEPT ![p] = IF frames' < frames THEN "mapped" ELSE @]
  /\ UNCHANGED <<consoleVars, lock, tableVars, call>>

(* The handler of the serial interrupt. *)
serial_handler ==
  /\ Idle
  /\ receive
  /\ UNCHANGED <<memVars, tableVars, call, hung>>

(* A key is typed.  During a call this makes no difference to the call, so *)
(* it is taken to have happened before.                                    *)
Typing ==
  /\ Idle
  /\ type
  /\ UNCHANGED <<memVars, tableVars, call, hung>>

(* sys_read and sys_write; sys_open_file and sys_close_file.  A buffer has *)
(* room for a byte.                                                        *)
sys_read_write(p) ==
  \E op \in {"read", "write"}, fd \in Fd, buf \in Buffer : enter(p, op, fd, buf)

sys_open_close(p) ==
  \/ \E fd \in Fd : enter(p, "close", fd, "mapped")
  \/ \E path \in File \cup {"missing"}, buf \in Buffer : enter(p, "open", path, buf)

Work(p) ==
  \/ return(p) \/ read_key(p) \/ transfer(p)
  \/ open_file(p) \/ close_file(p) \/ kernel_fault(p)

(* The machine hangs or has panicked. *)
Stopped == hung # "no" /\ UNCHANGED ioVars

IoNext ==
  \/ Typing \/ serial_handler \/ Stopped
  \/ \E p \in Family :
       \/ sys_read_write(p) \/ sys_open_close(p) \/ Work(p)
       \/ user_fault(p) \/ forbidden(p)
       \/ \E page \in {"stack", "bad"} : touch(p, page)

IoSpec == IoInit /\ [][IoNext]_ioVars

(* A call runs to its end, and the scheduler resumes every process again   *)
(* and again, so a fault that is always retried is eventually handled.     *)
FairSpec == IoSpec /\ \A p \in Family : WF_ioVars(Work(p)) /\ SF_ioVars(user_fault(p))

-----------------------------------------------------------------------------
(* The kernel deadlocks with itself only when a call touches memory of the *)
(* caller that is not mapped, of its stack or elsewhere, while it holds    *)
(* the caller's lock and no other: never on a fault of user code, on a     *)
(* page that is mapped, or on behalf of another process.                   *)
SpinOnlyInCall ==
  hung = "spin" =>
    /\ call # NoCall
    /\ lock[call[2]] # "free"
    /\ call[4] \in {"stack", "bad"}
    /\ \A p \in Family : lock[p] # "free" => p = call[2]

(* An open takes the place of a descriptor still in use only if some       *)
(* process of the family closed a descriptor below another one before, or  *)
(* all values of a descriptor are taken: the number of open descriptors is *)
(* otherwise a free one.                                                   *)
DescriptorsKept ==
  /\ replaced => holed
  /\ ~holed => DOMAIN handles = 0 .. Cardinality(DOMAIN handles) - 1

(* A process that uses a page of its stack for the first time goes on,     *)
(* unless the frames run out or the machine stops: the fault handler maps  *)
(* the page and the access is repeated.                                    *)
StackFaultResolved ==
  \A p \in Family : touching[p] = "stack" ~>
                   (touching[p] = "mapped" \/ frames = 0 \/ hung # "no")
=============================================================================
