------------------------------- MODULE Loader -------------------------------
(***************************************************************************)
(* Who uses each frame of physical memory, from the boot loader to the     *)
(* exit of a process: the files the loader reads, the segments of an ELF   *)
(* image mapped page by page, the memory map handed to the kernel, and the *)
(* frame allocator the kernel makes of it.  All of it runs on one          *)
(* processor with interrupts disabled.                                     *)
(*                                                                         *)
(* Memory is counted in bytes and in pages of PAGE bytes.  The page tables *)
(* below the root of an address space are one table, made with the first   *)
(* page that is mapped.  Forks and growing stacks are in AddressSpace.     *)
(***************************************************************************)
EXTENDS Integers, Sequences, FiniteSetsExt

CONSTANTS
  FRAMES,           \* the number of frames of memory
  Reserved,         \* the frames the firmware keeps
  PAGE,             \* bytes in a page
  Proc,             \* processes
  Image,            \* ELF images: sequences of segments to load
  KernelImage,      \* the image of the kernel
  DEFAULT_CONFIG,   \* the settings before the configuration file is read
  ConfigFile,       \* configuration files: sequences of lines
  AppDir,           \* directories of applications: sequences of entries
  MAX_APPLIST_LEN,  \* the capacity of the list of applications (16)
  KERNEL_STACK,     \* the lowest page of the stack of the kernel
  USER_HEAP_PAGE,   \* the pages of the user heap (256)
  STACK_PAGE,       \* the page of a process's stack
  USER_HEAP         \* the first page of the user heap

VARIABLES
  phase,            \* what is done next
  lines,            \* the configuration file
  config,           \* the settings of the boot loader
  dir,              \* what is left to read of the directory of applications
  apps,             \* how many applications were loaded
  map,              \* the memory map of the firmware
  uses,             \* frame -> what it is used for
  mem,              \* frame -> what was written to it
  job,              \* the segment being loaded
  code,             \* process -> the image whose ranges of pages it keeps
  frames, recycled, \* the frame allocator of the kernel,
  used              \* and the number of frames it took from the memory map

bootVars == <<lines, config, dir, apps, map>>
allocVars == <<frames, recycled, used>>
vars == <<phase, bootVars, uses, mem, job, code, allocVars>>

(* A segment is its address, its place in the file, and its two sizes. *)
vaddr(s) == s[1]
offset(s) == s[2]
file_size(s) == s[3]
mem_size(s) == s[4]

(* Segments begin with a page, in memory and in the file, and their end is *)
(* an address.  No process is named like the other users of a frame.       *)
ASSUME LoaderAssumption ==
  /\ FRAMES \in Nat \ {0} /\ PAGE \in Nat \ {0}
  /\ MAX_APPLIST_LEN \in Nat /\ STACK_PAGE \in Nat
  /\ Proc \cap {"none", "firmware", "config", "elf", "app", "kernel"} = {}
  /\ Image \cup {KernelImage} \subseteq Seq(Nat \X Nat \X Nat \X Nat)
  /\ \A image \in Image : \A s \in Range(image) :
       /\ vaddr(s) % PAGE = 0 /\ offset(s) % PAGE = 0
       /\ file_size(s) <= mem_size(s) /\ vaddr(s) + file_size(s) > 0

Frame == 0 .. FRAMES - 1
Idle == [space |-> "none"]

Conventional == {f \in Frame : map[f] = "CONVENTIONAL"}
Using(use) == {f \in Frame : use \in uses[f]}
Owned(space) == {f \in Frame : \E u \in uses[f] : u[1] = space}

Init ==
  /\ phase = "config"
  /\ lines \in ConfigFile
  /\ config = DEFAULT_CONFIG
  /\ dir \in AppDir
  /\ apps = 0
  /\ map = [f \in Frame |-> IF f \in Reserved THEN "RESERVED" ELSE "CONVENTIONAL"]
  /\ uses = [f \in Frame |-> IF f \in Reserved THEN {<<"firmware">>} ELSE {}]
  /\ mem = [f \in Frame |-> [from |-> 0, count |-> 0, zeroed |-> FALSE]]
  /\ job = Idle
  /\ code = [p \in Proc |-> [status |-> "none", image |-> <<>>]]
  /\ frames = <<>> /\ recycled = <<>> /\ used = 0

(* A failed expect or unwrap.  Nothing runs after it. *)
panic ==
  /\ phase' = "panic"
  /\ job' = Idle
  /\ UNCHANGED <<bootVars, uses, mem, code, allocVars>>

-----------------------------------------------------------------------------
(* The firmware's allocate_pages finds n adjacent frames, here the lowest  *)
(* or the highest, and marks them LOADER_DATA.                             *)
Starts(n) == {f \in Frame : f .. f + n - 1 \subseteq Conventional}
Runs(n) == {f .. f + n - 1 : f \in {g \in Starts(n) : g \in {Min(Starts(n)), Max(Starts(n))}}}
Marked(run, kind) == [f \in Frame |-> IF f \in run THEN kind ELSE map[f]]
Used(run, use) == [f \in Frame |-> IF f \in run THEN uses[f] \cup {use} ELSE uses[f]]

(* Config::parse: every line that has a key overrides the setting before   *)
(* it.  A value is read as a decimal number and, without its first two     *)
(* characters, as a hexadecimal one; what does not parse is 0.             *)
process(c, line) ==
  CASE line.key = "kernel_stack_size" -> [c EXCEPT !.kernel_stack_size = line.r16]
    [] line.key = "kernel_stack_auto_grow" -> [c EXCEPT !.kernel_stack_auto_grow = line.r10]
    [] line.key = "load_apps" -> [c EXCEPT !.load_apps = line.r10 # 0]
    [] OTHER -> c
parse(content) ==
  LET after[n \in 0 .. Len(content)] ==
        IF n = 0 THEN config ELSE process(after[n - 1], content[n])
  IN after[Len(content)]

(* load_file: the pages it asks for and fills. *)
LoadPages_short(size) == size \div PAGE
LoadPages(size) == size \div PAGE + 1

FileSize(image) == Max({0} \cup {offset(s) + file_size(s) : s \in Range(image)})

load_file(size, use, next) ==
  IF Starts(LoadPages(size)) = {} THEN panic
  ELSE /\ \E run \in Runs(LoadPages(size)) :
            map' = Marked(run, "LOADER_DATA") /\ uses' = Used(run, use)
       /\ phase' = next.phase /\ config' = next.config
       /\ dir' = next.dir /\ apps' = next.apps
       /\ UNCHANGED <<lines, mem, job, code, allocVars>>

Then(next, c) == [phase |-> next, config |-> c, dir |-> dir, apps |-> apps]

load_config ==
  /\ phase = "config"
  /\ load_file(Len(lines), <<"config">>, Then("kernel", parse(lines)))

load_kernel ==
  /\ phase = "kernel"
  /\ load_file(FileSize(KernelImage), <<"elf">>,
               Then(IF config.load_apps THEN "apps" ELSE "memory", config))

(* load_apps, one entry of the directory: subdirectories are skipped, and  *)
(* the list panics when it is full.                                        *)
load_apps ==
  /\ phase = "apps" /\ dir # <<>>
  /\ \/ /\ Head(dir).is_directory
        /\ dir' = Tail(dir)
        /\ UNCHANGED <<phase, lines, config, apps, map, uses, mem, job, code, allocVars>>
     \/ /\ ~Head(dir).is_directory /\ apps < MAX_APPLIST_LEN
        /\ load_file(Head(dir).size, <<"app", apps>>,
                     [phase |-> "apps", config |-> config,
                      dir |-> Tail(dir), apps |-> apps + 1])
     \/ ~Head(dir).is_directory /\ apps = MAX_APPLIST_LEN /\ panic

apps_loaded ==
  /\ phase = "apps" /\ dir = <<>>
  /\ phase' = "memory"
  /\ UNCHANGED <<bootVars, uses, mem, job, code, allocVars>>

-----------------------------------------------------------------------------
(* The frame allocators.  The boot loader's asks the firmware for frames,  *)
(* here the lowest; the kernel's hands out what came back last, and after  *)
(* that what the memory map has left.                                      *)
InKernel == phase = "run"
Ascending(set) ==
  [i \in 1 .. Cardinality(set) |-> CHOOSE f \in set : Cardinality({g \in set : g < f}) = i - 1]
create_frame_iter == Ascending(Conventional)
Pool == [i \in 1 .. Len(recycled) |-> recycled[Len(recycled) + 1 - i]] \o frames

Granted(n) ==
  IF InKernel THEN IF Len(Pool) < n THEN <<>> ELSE SubSeq(Pool, 1, n)
  ELSE IF Starts(n) = {} THEN <<>> ELSE [i \in 1 .. n |-> Min(Starts(n)) + i - 1]

(* n frames of the pool.  A request that finds none is counted as used     *)
(* too, but those of this module end in a panic, after which nobody counts. *)
allocate_frame(n) ==
  LET again == Min({n, Len(recycled)})
  IN /\ recycled' = SubSeq(recycled, 1, Len(recycled) - again)
     /\ frames' = SubSeq(frames, n - again + 1, Len(frames))
     /\ used' = used + n - again

(* Frames granted for one page: the page's own, then the table's if there  *)
(* is none.  A page that is mapped is an error, as is running out, and all *)
(* callers unwrap.                                                         *)
map_to(space, page, data) ==
  LET n == IF Using(<<space, "table">>) = {} THEN 2 ELSE 1
      fs == Granted(n)
  IN IF Using(<<space, "page", page>>) # {} \/ fs = <<>> THEN panic
     ELSE
       /\ uses' = [f \in Frame |->
                     IF f = fs[1] THEN uses[f] \cup {<<space, "page", page>>}
                     ELSE IF f \in Range(fs) THEN uses[f] \cup {<<space, "table">>}
                     ELSE uses[f]]
       /\ mem' = [mem EXCEPT ![fs[1]] = data]
       /\ IF InKernel THEN allocate_frame(n) /\ UNCHANGED map
          ELSE map' = Marked(Range(fs), "LOADER_DATA") /\ UNCHANGED allocVars
       /\ job' = [job EXCEPT !.todo = Tail(@)]
       /\ UNCHANGED <<phase, lines, config, dir, apps, code>>

-----------------------------------------------------------------------------
(* load_segment: which pages it maps and what it writes to them.           *)
containing(addr) == addr \div PAGE
align_up(addr) == (addr + PAGE - 1) \div PAGE
Untouched == [from |-> 0, count |-> 0, zeroed |-> FALSE]

Pages(first, last) == [i \in 1 .. last - first + 1 |-> first + i - 1]
FilePages(s) == Pages(containing(vaddr(s)), containing(vaddr(s) + file_size(s) - 1))
BssPages(s) ==
  IF mem_size(s) <= file_size(s) THEN <<>>
  ELSE Pages(align_up(vaddr(s) + file_size(s)), containing(vaddr(s) + mem_size(s)))

(* The bytes of the file, and zeroes in the rest of the page. *)
file_offset(s) == containing(offset(s)) * PAGE
Copied_raw(s, i) ==
  [from |-> file_offset(s) + (i - 1) * PAGE,
   count |-> Min({file_size(s) - (i - 1) * PAGE, PAGE}),
   zeroed |-> FALSE]
Copied(s, i) ==
  [from |-> file_offset(s) + (i - 1) * PAGE,
   count |-> Min({file_size(s) - (i - 1) * PAGE, PAGE}),
   zeroed |-> file_size(s) - (i - 1) * PAGE < PAGE]

load_segment(s) ==
  [i \in DOMAIN FilePages(s) |-> <<FilePages(s)[i], Copied(s, i)>>]
    \o [i \in DOMAIN BssPages(s) |->
          <<BssPages(s)[i], [from |-> 0, count |-> 0, zeroed |-> TRUE]>>]

Flatten(lists) ==
  LET upto[n \in 0 .. Len(lists)] == IF n = 0 THEN <<>> ELSE upto[n - 1] \o lists[n]
  IN upto[Len(lists)]
load_elf(image) == Flatten([i \in DOMAIN image |-> load_segment(image[i])])
map_pages(first, n) == [i \in 1 .. n |-> <<first + i - 1, Untouched>>]

(* The range of pages load_segment reports, from which clean_up unmaps. *)
CodeRange_file(s) == Pages(containing(vaddr(s)), containing(vaddr(s) + file_size(s) - 1))
CodeRange(s) == Pages(containing(vaddr(s)), containing(vaddr(s) + mem_size(s) - 1))

-----------------------------------------------------------------------------
(* The rest of efi_main: the table of physical memory, the segments of the *)
(* kernel and its stack, of which only the top is mapped when it may grow. *)
KernelStack ==
  IF config.kernel_stack_auto_grow > 0
  THEN map_pages(KERNEL_STACK + config.kernel_stack_size - config.kernel_stack_auto_grow,
                 config.kernel_stack_auto_grow)
  ELSE map_pages(KERNEL_STACK, config.kernel_stack_size)

map_physical_memory ==
  /\ phase = "memory"
  /\ IF Starts(1) = {} THEN panic
     ELSE /\ \E run \in Runs(1) :
               map' = Marked(run, "LOADER_DATA") /\ uses' = Used(run, <<"kernel", "table">>)
          /\ phase' = "map"
          /\ job' = [space |-> "kernel", todo |-> load_elf(KernelImage) \o KernelStack]
          /\ UNCHANGED <<lines, config, dir, apps, mem, code, allocVars>>

map_page ==
  /\ job # Idle /\ job.todo # <<>>
  /\ map_to(job.space, Head(job.todo)[1], Head(job.todo)[2])

(* free_elf gives back pages computed from the length again. *)
FreePages(size) == size \div PAGE + 1

free_elf ==
  LET first == Min(Using(<<"elf">>) \cup {FRAMES - 1})
      run == first .. first + FreePages(FileSize(KernelImage)) - 1
  IN /\ phase = "map" /\ job.todo = <<>>
     /\ map' = Marked(run, "CONVENTIONAL")
     /\ uses' = [f \in Frame |-> uses[f] \ {<<"elf">>}]
     /\ job' = Idle
     /\ phase' = "exit"
     /\ UNCHANGED <<lines, config, dir, apps, mem, code, allocVars>>

(* The memory map goes to the kernel, which makes its allocator of it and  *)
(* maps the user heap, but for its last page.                              *)
exit_boot_services ==
  /\ phase = "exit"
  /\ phase' = "init"
  /\ UNCHANGED <<bootVars, uses, mem, job, code, allocVars>>

init_user_heap == map_pages(USER_HEAP, USER_HEAP_PAGE - 1)

init_memory ==
  /\ phase = "init"
  /\ frames' = create_frame_iter /\ recycled' = <<>> /\ used' = 0
  /\ phase' = "run"
  /\ job' = [space |-> "kernel", todo |-> init_user_heap]
  /\ UNCHANGED <<bootVars, uses, mem, code>>

(* A job of the kernel is done: the heap, or the image of a process. *)
loaded ==
  /\ phase = "run" /\ job # Idle /\ job.todo = <<>>
  /\ job' = Idle
  /\ code' = [p \in Proc |-> IF p = job.space THEN [status |-> "loaded", image |-> job.image]
                           ELSE code[p]]
  /\ UNCHANGED <<phase, bootVars, uses, mem, allocVars>>

-----------------------------------------------------------------------------
(* spawn: a root table, the image, and one page of stack. *)
spawn(p, image) ==
  /\ phase = "run" /\ job = Idle
  /\ code[p].status = "none"
  /\ IF Pool = <<>> THEN panic
     ELSE /\ allocate_frame(1)
          /\ uses' = Used({Head(Pool)}, <<p, "root">>)
          /\ job' = [space |-> p, image |-> image,
                     todo |-> load_elf(image) \o map_pages(STACK_PAGE, 1)]
          /\ UNCHANGED <<phase, bootVars, mem, code>>

(* unmap_range: the frames of the pages, up to one that is not mapped or   *)
(* not mapped any more.                                                    *)
unmap_range(p, pages) ==
  LET mapped(i) == /\ Using(<<p, "page", pages[i]>>) # {}
                   /\ \A j \in 1 .. i - 1 : pages[j] # pages[i]
      n == Max({i \in 0 .. Len(pages) : \A j \in 1 .. i : mapped(j)})
  IN [i \in 1 .. n |-> CHOOSE f \in Using(<<p, "page", pages[i]>>) : TRUE]

(* clean_up of the last process of an address space: its stack, the ranges *)
(* of its image, the tables that hold no page any more, and the root.  A   *)
(* page that is not mapped ends it early.                                  *)
exit(p) ==
  LET pages == <<STACK_PAGE>>
                 \o Flatten([i \in DOMAIN code[p].image |-> CodeRange(code[p].image[i])])
      unmapped == unmap_range(p, pages)
      left == {f \in Frame \ Range(unmapped) : \E u \in uses[f] : u[1] = p /\ u[2] = "page"}
      tables == Ascending(IF left = {} THEN Using(<<p, "table">>) ELSE {})
                  \o Ascending(Using(<<p, "root">>))
      freed == unmapped \o IF Len(unmapped) = Len(pages) THEN tables ELSE <<>>
  IN /\ phase = "run" /\ job = Idle
     /\ code[p].status = "loaded"
     /\ recycled' = recycled \o freed
     /\ uses' = [f \in Frame |->
                   IF f \in Range(freed) THEN {u \in uses[f] : u[1] # p} ELSE uses[f]]
     /\ code' = [code EXCEPT ![p].status = "exited"]
     /\ UNCHANGED <<phase, bootVars, mem, job, frames, used>>

Next ==
  \/ load_config \/ load_kernel \/ load_apps \/ apps_loaded
  \/ map_physical_memory \/ map_page \/ free_elf
  \/ exit_boot_services \/ init_memory \/ loaded
  \/ \E p \in Proc : exit(p) \/ \E image \in Image : spawn(p, image)

Spec == Init /\ [][Next]_vars

(* What print_process_list shows as used. *)
frames_in_use == used - Len(recycled)

-----------------------------------------------------------------------------
(* A frame has one use, and one that an allocator may hand out has none:   *)
(* neither the list of the kernel nor the memory map of the firmware holds *)
(* a frame of a file, of an application, of the kernel or of a process.    *)
(* What print_process_list shows as used is what is in use.                *)
FramesAccounted ==
  /\ \A f \in Frame : Cardinality(uses[f]) <= 1
  /\ phase \notin {"run", "panic"} => \A f \in Conventional : uses[f] = {}
  /\ phase = "run" =>
       /\ IsInjective(Pool)
       /\ \A f \in Range(Pool) : uses[f] = {}
       /\ frames_in_use = Cardinality({f \in Conventional : uses[f] # {}})

(* The byte at an address of a process, as load_segment left it. *)
Byte(p, addr) ==
  LET f == CHOOSE g \in Using(<<p, "page", addr \div PAGE>>) : TRUE
      at == addr % PAGE
  IN IF at < mem[f].count THEN <<"file", mem[f].from + at>>
     ELSE IF mem[f].zeroed THEN <<"zero">> ELSE <<"stale">>

(* For as long as a process lives its pages hold its image: the bytes of   *)
(* the file where the segment has them and zeroes after them, whatever was *)
(* in the frames before and whatever is loaded or freed in the meantime.   *)
ImageLoaded ==
  \A p \in Proc : code[p].status = "loaded" =>
    \A s \in Range(code[p].image) :
      \A b \in 0 .. mem_size(s) - 1 :
        Byte(p, vaddr(s) + b)
          = IF b < file_size(s) THEN <<"file", offset(s) + b>> ELSE <<"zero">>

(* The page past the end that load_segment maps when the zeroes of a       *)
(* segment end with a page, and does not report.                           *)
Unreported(s) ==
  IF mem_size(s) > file_size(s) /\ (vaddr(s) + mem_size(s)) % PAGE = 0
  THEN {(vaddr(s) + mem_size(s)) \div PAGE} ELSE {}

(* When a process has exited all its frames are back, except those pages   *)
(* and, if there is one, the table they are in.                            *)
ImageReturned ==
  \A p \in Proc : code[p].status = "exited" =>
    LET extra == UNION {Unreported(s) : s \in Range(code[p].image)}
    IN Owned(p) = (UNION {Using(<<p, "page", page>>) : page \in extra})
                    \cup IF extra = {} THEN {} ELSE Using(<<p, "table">>)
=============================================================================
