# A TLA+ model of the YSOS kernel

YSOS is a small x86-64 kernel with its boot loader, storage stack and user
programs. This directory specifies the parts of it that are hard to test:
processes that block and wake each other across context switches, the
semaphores and the memory that forked processes share, threads of the user
programs preempted anywhere, the way of a key press and of a disk block through
the kernel, and the use of every frame of memory from boot to exit.

| file | what it is |
| --- | --- |
| `ProcessManager.tla` | process table, scheduler, spawn, fork, exit, `wait_pid`, semaphores |
| `DijkstraSemaphore.tla` | what a semaphore promises, without the kernel |
| `MCProcessManager.tla`, `pm_*.cfg` | instances for TLC |
| `ProcessManagerProofs.tla` | the inductive invariant of the process manager, the theorems about it, and that its semaphore implements `DijkstraSemaphore` |
| `AddressSpace.tla`, `vm_*.cfg` | stacks, heap, code and frames of one family of processes |
| `Console.tla`, `Descriptors.tla`, `io.cfg` | serial port and key queue; descriptors, their system calls, page faults and the lock of the process |
| `KernelProofs.tla` | stacks, heap and the return of frames; the safety of locks, of the descriptor table and of the keys |
| `UserThreads.tla` | what a program that forks threads sees of the kernel |
| `SharedCounter.tla`, `AtomicCounter.tla` | the programs `sem` and `spin`, and what they promise |
| `MessageQueue.tla`, `Philosophers.tla`, `Fish.tla`, `Shell.tla` | the programs `mq`, `philo`, `fish` and `sh` |
| `ThreadProofs.tla` | `sem`, `spin`, `philo` and `fish` by themselves: their inductive invariants, and the refinement of `AtomicCounter` |
| `QueueProofs.tla` | the ring and the semaphores of `mq`, and the lines of `sh` |
| `MCUserPrograms.tla`, `apps.cfg` | all programs, one of which runs, for TLC |
| `UserProgramsProofs.tla` | the theorems about the programs as `apps` runs them, from `ThreadProofs` and `QueueProofs` |
| `AtaBus.tla`, `Volume.tla`, `Fat16.tla` | ATA driver, layout of a volume, file system |
| `MCStorage.tla`, `storage.cfg`, `read_dir_all.cfg`, `read_all_padded.cfg` | disks for TLC |
| `StorageProofs.tla` | which blocks the driver is asked for, and what a read delivers |
| `Loader.tla`, `MCLoader.tla`, `loader.cfg` | boot loader, ELF loader and frame allocator |
| `LoaderFrames.tla` | who uses which frame, from boot to exit |
| `LoaderProofs.tla` | what an image finds in its pages, and what comes back of it |
| `PROJECT.json` | components, runs, mutants, source map, findings, hazards, theorems |

## 1. The system

### Processor and interrupts
One processor. The clock interrupt (`interrupt/clock.rs`) and the system call
gate (`interrupt/syscall/mod.rs`) enter the kernel with interrupts disabled and
leave it by restoring a register frame. Nothing preempts a handler, so **every
handler is one atomic action**; between two handlers the running process
executes arbitrary user code. The kernel process itself (pid 1, `kernel_main`)
is preemptible: it spawns the shell and then polls until the shell is dead.

### Components

| component | state | operations | what is hard |
| --- | --- | --- | --- |
| process manager (`proc/manager.rs`, `mod.rs`, `process.rs`) | process table, `ready_queue`, `waiting_processes`, current pid, saved contexts | `switch`, `spawn`, `fork`, `exit`, `wait_pid`, `wait`/`shutdown` | status and queue membership change in separate calls; results are written into saved contexts |
| semaphores (`proc/sync.rs`, `data.rs`) | `SemaphoreSet` per family: count, wait queue | `new_sem`, `remove_sem`, `sem_wait`, `sem_signal` | hand-over against counting; replacing or dropping a semaphore that has waiters |
| address spaces (`proc/vm/*`, `paging.rs`, `memory/frames.rs`) | page table, stack ranges, heap end, code ranges, free frames | `brk`, page fault, `fork`, `clean_up` | partial failures, sharing between forked processes, who frees what |
| page faults and locks (`interrupt/exceptions.rs`) | `RwLock` of every process | fault handler | a fault inside the kernel while the lock is held |
| resources (`utils/resource.rs`) | descriptor table shared by a family | `open`, `close`, `read`, `write` | descriptor numbers after a close |
| console (`drivers/input.rs`, `interrupt/serial.rs`, `lib/src/io.rs`) | bounded key queue, the line being read | push from the interrupt, pop by readers, `read_line` | drops at the limit, two readers of one queue |
| FAT16 (`storage/src/fs/fat16`) | read-only volume, open files | `read`, `read_all`, directory walks | cluster arithmetic, ends of chains |
| partition table, ATA driver (`storage/src/partition`, `drivers/ata`) | registers of the drive | `read_block`, `identify` | offsets, polling, errors of the drive |
| boot loader, ELF loader (`boot/src`, `elf/src/lib.rs`) | memory map, page tables | `load_file`, `load_segment`, `free_elf` | alignment, bss, frames used twice |
| user library and programs (`lib/src/sync.rs`, `app/*`) | shared memory | spin lock, semaphores | mutual exclusion, deadlock, starvation |
| descriptor tables, interrupt controllers, logging | none of interest | | |

The components interact at few places: `fork` copies a process in the manager
and its stack in the address space; `exit` drops the address space, the
semaphores and the resources with the last of a family; `spawn` reads a file
through FAT16 and loads it with the ELF loader.

## 2. Modules and the code

### ProcessManager

| variable | code |
| --- | --- |
| `counter` | `COUNTER` in `pid.rs` |
| `status`, `exit_code`, `context` | fields of `ProcessInner`; `context` keeps rax only |
| `family` | which processes share one `ProcessData` (an `Arc` cloned by fork) |
| `ready_queue`, `waiting_processes` | fields of `ProcessManager` |
| `sems`, `count`, `wait_queue` | the `SemaphoreSet` of each family |
| `current`, `rax` | the processor's pid and the register frame of the interrupt |
| `main`, `init` | where `kernel_main` is and the pid it waits for |
| `halted` | how the machine stopped: switched off, or by which panic |
| `call`, `orphans` | history variables used by properties only |

The actions are `switch` (clock), `spawn_init` and `shutdown` (`kernel_main`),
and one per system call that changes this state. `switch_next` is an operator
that every blocking action applies to its queue, statuses and contexts, as the
code calls it at the end of every blocking handler. The panics of the code are
outcomes of the actions (`halted`), not exclusions from them.

Two results deserve a note. A process that blocks in `sem_wait` never has rax
set: it is saved with the number of the system call (64) and returns with it.
The same holds for a signaller that wakes somebody. The user wrappers compare
with 0, so both report failure after success. The model keeps this.

Abstractions: registers other than rax; names, ticks and printed tables; the
program loaded by spawn (its file can be opened or not).

### DijkstraSemaphore
The abstract semaphore: an integer that P decreases and V increases, and a set
of sleepers. The kernel's semaphore implements it (`ImplementsDijkstra` in
`MCProcessManager`, for a semaphore of init's family), where replacing a
semaphore starts a new one.

### AddressSpace
One family: a spawned process and those forked from it. They share the page
table and the end of the heap; each has a stack; only the first knows the code.

| variable | code |
| --- | --- |
| `stack` | `Stack::range` (slot, start, end) and `usage` of each process |
| `children` | `children.len()`, from which fork computes the first slot it tries |
| `sp` | the page of the stack pointer; it keeps its offset in a fork |
| `stack_pages`, `heap_pages`, `code` | what the page table maps |
| `heap_end` | `Heap::end`, shared by the family |
| `free` | frames the allocator can still give |
| `stray`, `heap_stray`, `lost`, `untidy` | history: what failed attempts and clean-up leave behind |

Actions: `fork` (with the retries of `Stack::fork` as one step, since nothing
preempts them), `page_fault`, `move` (user code), `brk`, `exit`
(`ProcessVm::clean_up`). `Reach`, `MapDone`, `MapOk` and `MapLost` say what
`elf::map_range` has done when it stops: it maps page by page and does not undo.
An address of the stack area is a slot and an offset, as `STACK_START_MASK`
splits it. Frames are counted, not told apart; those of page tables are left
out.

### Console and Descriptors
`Console` follows a key: typed into the port (`fifo`), taken out by one serial
interrupt per byte (`receive`), put into `INPUT_BUF` unless that is full
(`push_key`), and popped by a read (`try_pop_key`). Keys are numbered in the
order of typing, so a lost, doubled or overtaken key is visible.

`Descriptors` adds two processes of a family that share one `ResourceSet`.

| variable | code |
| --- | --- |
| `handles` | `ResourceSet::handles` |
| `lock` | the `RwLock` around `ProcessInner` |
| `call` | the system call in progress, with descriptor or path and buffer |
| `touching`, `frames` | the page user code accesses; frames left for stacks |
| `hung` | the kernel spins on a lock, or has panicked |
| `holed`, `replaced` | history of closes and opens |

A call is not one step here, because a page fault may interrupt it: `enter`
takes the lock, and then the call either ends (`return`, `read_key`,
`transfer`, `open_file`, `close_file`) or touches a page of the caller that is
not accessible (`kernel_fault`), which runs the same handler as a fault of user
code (`user_fault`). No other process runs between, since interrupts are off.

### User programs
`UserThreads` is the program's view of the kernel: `main` forks the threads and
joins them in order, `wait` and `signal` act on semaphores with queues exactly
as in `ProcessManager`. Every access to shared memory is a step of its own, so
the clock can interrupt between a load and a store. The one exception is the
ring of `mq`: the load of an index and the access to the slot are one step, the
store of the index another. Only the holder of WRITE_MUTEX accesses either.

- `MessageQueue`: writers and readers, EMPTY, FULL and WRITE_MUTEX, the ring
  with its two indices.
- `SharedCounter`: `inc_counter` under the semaphore (`sem`) or under
  `SpinLock` (`spin`), by the constant `Lock`. `AtomicCounter` is its abstract
  specification. The semaphore's removal by `sem` after the joins is left out:
  no thread exists any more.
- `Philosophers` and `Fish`: the system calls of a turn are a list, which
  `repeat` executes. Sleeping is a delay and therefore no step.
- `Shell`: `sh` with its commands, the program it spawns and waits for (`fact`),
  and `read_line`, on top of `Console`. A key is a word or a control key.

### Storage
`AtaBus` is one command of the polling driver against a drive that may be
absent, of another kind, slow, or fail: a loop on the status port is a step that
is enabled when the loop ends. An address goes through the four registers with
their widths. `Volume` has the arithmetic: sectors of clusters, the next
cluster, valid and displayable entries, names. `Fat16` runs the calls of the
file system on both, one block per step:

| variable | code |
| --- | --- |
| `disk` | the contents: partition table, FAT, and the directory entries that each block spells, whatever it belongs to; as data, the content of a byte is its address. `tree` has the directories by the format |
| `at` | where in `filesystem::init`, a walk or a read the kernel is |
| `walk` | the walk along a path: parts left, cluster, sector, entries seen |
| `file` | the open `File`: entry, offset, current cluster; and the bytes delivered |
| `rd` | the `read` or `read_all` in progress |
| `ret` | the result of the last call |

The reference definitions (`Content`, `Live`, `Named`, `Along`) say what the
volume holds by the format, following the table and not the code's walk. The
walk reads blocks wherever it gets: `open_file`, `metadata` and `exists` take
every part of a path but the last for a directory (`ThroughFile`), and a
directory without a free entry has no place where a traversal stops (`Stops`),
so data and tables are read as entries too. A file whose entry has a size
without the clusters for it, as such a walk can find, is not `Allocated`.

### Loader
One machine from power-on to the exit of its processes. `uses` says what each
frame is used for and `mem` what was written to it. The steps are those of
`efi_main` (`load_config`, `load_kernel`, `load_apps`, `map_physical_memory`,
`map_page` for every page of `load_elf` and the stack, `free_elf`,
`exit_boot_services`), then the kernel's `init_memory` with its frame allocator
(`frames`, `recycled`, `used`), and `spawn` and `exit` of processes. The
allocator counts a request in `used` also when it has no frame; boot and `spawn`
panic then, so the count is exact as long as somebody reads it. (Growth of a
stack and `brk`, which go on after a failure, are in `AddressSpace`, without the
count.) A segment
is its address, file offset and two sizes; which pages it takes and what is
copied or zeroed in each is computed as in `load_segment`.

### How the modules fit together
The composition follows the code's calls. `ProcessManager` contains the
semaphores, `Descriptors` and `Shell` contain `Console`, and `Fat16` contains
`AtaBus` and `Volume`, each by `EXTENDS` with shared variables. Between the
groups one promises what another assumes: `ImplementsDijkstra` and
`BlockedHasOneWaker` justify the semaphores of `UserThreads`, `ReadyRuns` the
fairness of its threads, and `ReadFaithful` what a read delivers
through a descriptor.

## 3. Runs

| run | question | bounds |
| --- | --- | --- |
| `pm_wait` | creation, exit and waiting | 5 pids (kernel, shell, three more), exit codes 0 and 7, no semaphores |
| `pm_sem` | scheduler and semaphores together, and progress | 4 pids, one key, counts 0..1 |
| `pm_spawn_error` | spawn of a missing file (a disagreement with a comment) | 3 pids |
| `vm_stack` | stacks under fork, growth and exit, with too few frames | 5 processes, 3 pages per slot, 9 frames, no heap |
| `vm_heap` | shared heap and return of frames | 3 processes, 3 heap pages of 2 words, 7 frames |
| `vm_heap_aligned` | alignment of the heap's end (a disagreement with a comment) | as above |
| `io` | keys, descriptors, faults in calls and in user code | 2 processes, 1 file, 4 descriptor values, a key queue of 2, 3 keys, 1 frame |
| `apps` | the user programs, preempted anywhere | `mq` 4 threads, `sem` and `spin` 3, all with 2 rounds; `philo` 5, `fish` 3; 7 scripts of keys for `sh`, a key queue of 2 |
| `storage` | file system, partition, driver and drive | 60 disks, a drive of either kind or none, ten paths, buffers below, equal to and above the read unit |
| `read_dir_all` | what `read_dir` lists (a disagreement with two comments) | as above |
| `read_all_padded` | what `read_all` returns (a disagreement with a comment) | as above |
| `loader` | the use of every frame, from boot to exit | 20 frames, pages of 2 bytes, 5 images, 3 configurations, 4 directories, 3 processes (symmetric) |

Bounds. Three user processes besides the shell are enough for a process to
wait, another to exit and a third to be scheduled in between, which is what the
results in saved contexts depend on; the two exit codes differ from each other
and 7 from every pid and system call number. Three user processes of one family
give a semaphore two waiters and a signaller; other families show that keys are
private. `MaxCount` bounds the count in the guard of `SignalCount`. `MaxPid`
bounds creation and keeps the 16-bit pid counter far from its wrap. Five
processes and three pages per slot let a child of a child be forked into a slot
where an earlier attempt left pages; nine frames run out both in the middle of
a growth and of a fork. `MaxSlot` is large enough that no fork is refused by it.
A page of two words has an end of the heap inside a page.

Four descriptor values leave one besides the standard ones, so that both the
hole below an open descriptor and the wrap of the 8-bit number happen; three
keys overflow a queue of two. In `mq` two writers and two readers with two
rounds fill the ring, make it wrap, and queue on all three semaphores;
three threads and two rounds let a thread of `sem` and `spin` be overtaken between its load
and its store by two others. `philo` and `fish` have the numbers of the source.
The integer widths of the storage stack are scaled down together (`BYTE`,
`NIBBLE`, `U16`, `U32`, `BLOCK_SIZE`), so that addresses need more
than one register, the FAT is longer than one of its blocks, and sums wrap. The
disks have files of one to three clusters, consecutive, out of order or beyond
the first block of the FAT; deleted, hidden and long-name entries; a full
directory and one of two clusters; a partition that is longer than the drive
and one that ends inside a file. The cluster number `INVALID`, with which the
code goes on at the end of a chain, leads into the second copy of the FAT, as
in the volume that QEMU makes for the kernel; on some disks that copy, or the
data of a file, reads as entries: of files, of nothing a listing shows, or
followed by an end mark. Twenty frames are enough for two processes at
a time: the third runs out of frames in the middle of loading, or gets those
of one that has exited. The images end inside a page and at the end of one, in
the file part and in the bss.

Deadlock is checked in all runs but two: `apps` ends when its program has
returned or, for `fish`, is stuck in `main`, and `loader` when all processes
have exited or the machine has panicked.

Fairness. In `pm_sem`, `WF(switch)`: the timer interrupts periodically
whenever the machine runs; `SF(shutdown)`: the kernel process' loop tests for
init once per wake-up, and a time slice is long enough for one test, so an
action that is enabled each time the kernel runs is taken. In `apps`, weak
fairness of each thread, of `sh` and of its program is what `ReadyRuns` says of
the scheduler; the keyboard and the serial interrupt deliver what is typed. For
`spin` weak fairness is enough although `acquire` can be missed for ever by one
thread, because the others make a bounded number of turns. In `io`, a call that
has begun goes on (`WF(Work)`), and a process that keeps faulting is resumed
infinitely often, which is strong fairness because calls of others intervene.
In `storage`, the kernel goes on with a call, and the drive eventually answers
a command, with data or an error.

Disagreements found. `pm_spawn_error`: the comment in `sys_spawn_process` says
"handle spawn error, return 0 if failed", but a path that cannot be opened
panics in `proc::spawn`. `vm_heap_aligned`: the comment on `Heap` says "always
page aligned, the range is [base, end)", but `brk` stores any end it is asked
for. `read_dir_all`: the comment on `read_dir` says "Iterates over all direct
children of this directory path" (`common/filesystem.rs:8`) and the one on the
traversal "traverse all dir entries in the dir" (`fat16/impls.rs:66`), but the
traversal ends at the first deleted entry. `read_all_padded`: the comment on `read_all` promises all bytes until the
end of the file, but the code appends its whole buffer of 1024 bytes each time,
so the result is padded with zeros to a multiple of it, and ends with a unit
that holds none of the file.

One more disagreement has no run of its own. The comment on `exists` says
"Returns true if a file or directory at path exists, false otherwise"
(`common/filesystem.rs:17`), but the code never answers false: it returns the
error of the walk, `FileNotFound` for the root directory too. `LookupFaithful`
is about the code's two answers, `Ok(true)` and an error.

The runs also reach outcomes that no comment or test rules out, unless it is
said, and that the properties name as their exceptions:

- `vm_stack`, `vm_heap`: a fork without enough frames goes on to lower and
  lower slots, until the subtraction panics below address 0 (`halted =
  "fork_loop"`); a `brk` out of range panics in its trace message
  (`"brk_unwrap"`); frames are not returned when the first process of a family
  is not the last to exit (its code), when the heap ends inside a page (that
  page), and after attempts that failed halfway. `FramesReturned` says that
  these are the only cases.
- `io`: a call that touches memory of the caller that is not mapped, a page of its
  stack or an address outside of it, spins on the caller's lock (`SpinOnlyInCall` says when); `open` of a missing
  path panics; after a close below another descriptor, or with all values
  taken, `open` replaces a descriptor in use (`DescriptorsKept`); an access
  outside the stack is retried for ever.
- `apps`: `fish` never returns from `main`; `sh` panics on `run` without a path.
- `storage`: a directory is searched only up to its first deleted entry
  (against the comments of `read_dir_all`); the end of a chain of clusters is
  never recognised, so that a search of a full directory goes on in what lies
  elsewhere; a path through a file is followed into its data, and may find an
  entry there (`LookupFaithful` states the conditions under which what a lookup
  finds is there, and under which it finds all that is). A cluster whose entry
  is beyond the first block of the FAT panics, and so does a name with
  characters of more than one byte; a read that begins after
  the file left its first cluster, or a second one of a scattered file,
  can deliver other bytes (`ReadFaithful`); a read error in a directory or in
  the FAT, and a missing drive, panic.
- `loader`: when the bss of a segment ends with a page, one page more is mapped
  and never returned (`ImageReturned`); too many applications, and too few
  frames, panic.

Every property has a mutant (a faulty variant of one operation, written beside
the operation) on which TLC finds it violated.

## 4. Proofs

The theorems of `ProcessManagerProofs` hold for every number of processes, every
set of keys and all values. They state type correctness, `ReadyQueueExact`, `SwitchTotal`,
`BlockedHasOneWaker` with `NoWaiterOnDead` and `NoUnitWhileWaiting`, and the
results `WaitReturnsExitCode` and `CreateReturnsPid`.

None of these is inductive alone. The inductive invariant `IInv` joins them and
adds four facts:

- `PidsInOrder`: the pids in the table are exactly those up to `counter`, so a
  new process is not yet queued anywhere;
- `KernelRunnable`: the kernel process is running or ready. No action blocks
  or kills it, so a switch finds somebody, which gives `SwitchTotal`;
- `DeadHasCode`: every dead process has an exit code;
- `CallTracked`: what the history variable `call` says of a blocked process
  agrees with the wait set it is in, and its saved context is untouched until
  it is woken.

The proof has one lemma per action. All actions that give up the processor
share the lemma `Dispatch`: if statuses, queue and contexts are consistent when
`switch_next` is entered (`Dispatched`), the state after it satisfies the
scheduling part of the invariant. The only assumption is
`ProcessManagerAssumption` on the constants.

Two action properties follow. `DeathIsFinal`
(`DeadStaysDead`): a dead process keeps its status and its exit code in every
step; the lemmas show that no queue of the invariant holds a dead process, so
nothing resumes one. `QueueIsFair` (`NoOvertaking`): of two processes in the
ready queue the first is not overtaken. Every action joins processes at the end
of the queue or takes the first away (`AppendKeepsOrder`,
`SwitchKeepsOrder`), which keeps the order because the invariant says that no
process is queued twice.

`SemaphoreRefines` is `ImplementsDijkstra`: under the mapping that
`MCProcessManager` defines, the steps of the kernel are the steps P, V, create
and destroy of `DijkstraSemaphore`, or leave it alone. One lemma per kind of
step (`WaitIsP`, `SignalIsV`, `NewIsCreate`, `GoneIsDestroy`), and `Stutter` for
the rest. It assumes at least one key and one pid besides the kernel's, without
which the semaphore that is observed does not exist.

The first half of `KernelProofs` covers every invariant of `vm_stack` and `vm_heap`, for
any number of processes, slots, pages, words and frames. The inductive
invariant `IndInv` joins the invariants of the runs with

- `WholeStacks`: every stack reaches up to the top of its slot and is not
  empty. A page of the slot that is not mapped therefore lies below the stack,
  which gives `FaultBelowStack`;
- `FramesKept`: the frames are those that are free or lost and those mapped as
  stack, heap and code pages;
- `CodeKept` and `TailLeft`: what code and heap a family that is gone leaves.

`StackAccounted` is what makes `StacksApart` inductive: fork takes a slot in
which its pages can be mapped, and the top page of every live stack is mapped.
`FramesReturned` is the sum of `FramesKept`, `CodeKept` and `TailLeft` when
nobody lives. The counts change by cardinalities of unions and differences of
page sets; that fork's search for a slot ends at a first one is by a least
element (`LeastNatural`).

The second half of `KernelProofs` shows three invariants of `io` for every number of processes,
files, frames and descriptor values. `SpinIsKnown` (`SpinOnlyInCall`), that
the kernel spins only in a call whose buffer is not mapped, rests on
`LockOfCaller`: the lock of a process is taken just while a call of that process
is in progress, so a fault of user code always finds it free. `TableKept`
(`DescriptorsKept`) rests on `Packed`: as long as no hole was made the open
descriptors are 0 to n - 1, so that n is free unless it has no value left.
`KeysKept` (`KeysInOrder`) is about the sequence of keys popped, queued and in
the port: `receive` leaves it alone or takes one key out of its middle, which
keeps it increasing.

`ThreadProofs` is about the programs by themselves. Of `sem` and `spin` it
proves, for every number of threads and rounds, `LockExcludes`, that at most one thread is in
`inc_counter`, and `CounterRefines`, that the program implements
`AtomicCounter`. The inductive invariant adds to the types and mutual exclusion

- `Waiters`: who is queued on the semaphore, once, and about to load the
  counter;
- `LockHeld`: while a thread is inside, the bolt is set, or the semaphore has
  no unit; a unit that is there has no waiters. A thread that has been handed the
  unit counts as inside;
- `ValFresh`: a thread between its load and its store has the current value;
- `TurnsCounted`: the completed increments, those in progress and those still
  to come are `ROUNDS` for each thread.

`ValFresh` needs mutual exclusion and makes the store of one thread an
increment of the abstract counter.

`QueueProofs` proves `RingKeepsMessages` and `UnitsConserved` of `mq` for
any number of writers and readers and any size of the ring. Its invariant says

- `MqQueues`, `MqMutex`: a blocked thread is at the wait it is blocked in, and
  at most one thread is in the ring;
- `MqUnits`: the units of EMPTY and FULL and the threads that hold one are the
  capacity, and the messages in the ring are the units of FULL and the threads
  that have stored a message or not yet taken theirs (`Fillers`). So a writer
  that may store finds a free slot, a reader a message;
- `MqIndices`: `head` and `tail` follow the numbers of messages taken and
  stored, modulo the size, but for the thread that has accessed the ring and
  not yet stored its index; `reg` of a thread about to store is still current.

The second half of `QueueProofs` is `ShellLines` (`LinesFaithful`), for any
script, any number of keys typed and any length of the key queue. What a line
should be is a definition over all keys that were typed for it: a word counts
unless at some later point more backspaces than words have followed it. The
program keeps a line instead, and takes its last word away at a backspace. The
invariant `ShellInv` relates the two:

- `Typing`: while somebody reads, the line holds the words that are kept so
  far, and after each of them as many words more than backspaces were typed as
  words follow it in the line (`Spells`). That balance tells that a backspace
  ends just the last word kept (`SpellsBack`), and no word that was gone
  comes back;
- `Waiting`: while nobody reads no key was taken after the last line, so that
  the next reader begins a line with its first key;
- `Turns`: the program is there just while the shell waits, and a line that
  ran it is the last one just until the program has read its own.

`philo` and `fish` are in `ThreadProofs` too, since all three programs rest on the
same lemmas about `wait` and `signal` (`SemOK`, `WaitEffect`, `SignalEffect`).
The invariant of `philo`, for the five philosophers of the source, is `OneUser`:
of a chopstick's semaphore the unit is there, or one philosopher uses it; a
philosopher uses it from the wait that took it, or from the signal that handed
it over, to the signal. The invariant of `fish`, for any number of rounds, is
`FishCount`: one turn goes around semaphores 0 and 1 and the two threads that
draw; three units go around semaphores 2 and 3 and all threads; and the length
of the output modulo 4 and 8 says how many of the three are behind and whose
turn it is.

`UserProgramsProofs` states the theorems for the specification that `apps`
checks: `MessagesKept`, `UnitsAccounted`, `CounterExcludes` (`MutualExclusion`),
`CounterAtomic` (`NoLostUpdate`), `ChopsticksExclude` (`NeighboursApart`),
`FishWhole` (`WholeFish`) and `LinesTold` (`LinesFaithful`). It takes the invariants of the two modules above
through `INSTANCE`: while a program runs, the initial state and the steps of
`MCUserPrograms` are those of its module.

`StorageProofs` proves `BlocksFromPartition` (`BlockFromPartition`) and
`ReadsDeliver` (`ReadFaithful`), for every volume and every width of the
registers. The inductive invariant joins

- `BusOK`: while a command runs for the file system, the sector it wants is in
  the partition and the four registers hold its address, as the drive puts it
  together again (`AddressWritten`); when it has ended, the buffer holds that
  block;
- `FsOK`: the shapes of walk, file and read, and when there is which;
- `ReadOK`: where a read in progress is. What was delivered so far is a prefix
  of the content (`Prefix`), and the next byte is in the cluster that the table
  has for its place (`OnChain`), or the clusters are consecutive and a sector
  counted from the first one holds it (`RunOn`). It says this as long as no
  read failed or began after one that crossed a cluster (`Trusted`).

The content of a file follows the table, cluster by cluster (`Chain`, a
recursive function); what a read adds to a prefix is by division of the offset
into cluster, sector and byte (`ByteOfFile`, `ByteOfBlock`). Two assumptions on
the constants: `VolumeAssumption`, that sizes are not zero and the sectors of
all clusters, and twice a cluster number, have 32-bit numbers, and
`Fat16Assumption`, that a partition lies within the 28 bits of an address and
that no entry has the number the code uses for the root directory, which 16
bits cannot spell. The blocks may spell any entries. That a file has the data
clusters its size needs is a condition of `ReadFaithful` (`Allocated`); without
it there is no content to compare with.

All invariants of `loader` are proved for any memory, any processes, any images
and any configuration: `AllFramesAccounted` (`FramesAccounted`) in
`LoaderFrames`, `EveryImageLoaded` (`ImageLoaded`) and `EveryImageReturned`
(`ImageReturned`) in `LoaderProofs`. The first rests on `FrameInv`:

- `OneUse`: a frame has at most one use;
- `ElfInMemory`: from `load_elf` to `free_elf` the file of the kernel is in
  adjacent frames, as many as `free_elf` gives back;
- `InBoot` and `AtRun`: what is free by the memory map, or in the pool of the
  kernel's allocator, has no use, the pool has no repetition, and the count
  that `print_process_list` shows is that of the frames in use.

The other two rest on `ProcInv`, which says of every process that its uses are
a root, a table and pages (`KindsOf`), that no page of it is in two frames
(`OneFrameOf`), and what is mapped (`Done`): while it is loaded exactly the
pages before `job.todo`, each with what was written to it, and afterwards all.
Steps of others leave that alone (`Undisturbed`), since frames are only handed
out when nobody uses them. `map_to` panics at a page that is mapped, so a
process that was loaded has no page twice; hence no two segments share one
(`FullPages`), and on exit `unmap_range` meets no page that is missing or gone
(`ExitPagesMapped`). `SegmentByte` is the arithmetic of `load_segment`: the page
and the place in it of every byte of a segment, in the file part, in the rest
of its last page and in the bss. `LoaderAssumption` says of the images of
processes that their segments begin with a page, in memory and in the file, and
have no more bytes in the file than in memory. The linker scripts place
segments so; `load_segment` rounds the offset in the file down to a page, and
would load other bytes otherwise.

Recursive functions over sequences (`Chain`, `Flatten`) are reasoned about by a
least counterexample: `LeastNatural` gives the smallest number at which a
statement fails, and the statement is then shown for it.

Proofs are spread over modules because the prover slows down with the number
of obligations in one and with the size of what it extends.

Only model-checked:

- liveness (`ReadyRuns`, `InitExitStops`, `ProgramsEnd`, `EveryoneEats`,
  `StackFaultResolved`, `CallsEnd`), since the prover has no rules for
  fairness and `ENABLED`;
- `LookupFaithful` of `Fat16`: it compares the sectors that a walk reads with
  the directory tree by the format, and a volume has both. A proof for every
  volume needs the condition that they agree, and that a directory has a name
  once; the disks of the run are made so.

## 5. Not modelled

- **Firmware**, beyond allocating and freeing pages, and how a number is spelled
  in the configuration file. A line is its key with the two values the parser
  may take from it.
- **Interrupt controllers, descriptor tables, other exception handlers**: fixed
  values written once, or a panic.
- **Allocation inside the kernel and user heaps**: an external crate. The pages
  of the user heap are in `Loader`; its last page is not mapped although the
  allocator is given it.
- **Logging, printing, formatting** of process lists, dates, names and colours.
  Output of the console is never read back.
- **Time**: `sys_time`, sleeping and the clock driver; a sleep is a
  delay.
- **Writing files**: unimplemented in the source. `write_block` and `write_pio`
  exist but have no caller.
- **A second drive or bus**: the kernel opens drive 0 of bus 0 only.
- **Code without a caller**: `get_line` of the kernel, `map_elf` and `unmap_elf`.
- **Conversions in the user library's wrappers** of system calls; no program
  uses those that change the meaning of a result.
- **Page tables of forking families**: `AddressSpace` counts frames of pages,
  `Loader` those of tables, for processes that do not fork. The content of a
  stack that `clone_range` copies is left out.
- **Wrap of the 16-bit pid counter**: out of the bounds of the runs.
- **The small programs** `fork`, `brk`, `hello` and `mytest`: each makes one
  sequence of calls that the modules contain in every order.
