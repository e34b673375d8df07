# DelOS: TLA+ models, model checking and proofs

DelOS is a 32-bit x86 kernel for one CPU (C, -O0, some assembly): a preemptive
round-robin scheduler, a physical page allocator, a kernel heap, a keyboard
driver, an in-memory file system and a shell. This directory holds the models
of its core, the TLC configurations that check them and the TLAPS proofs.
`PROJECT.json` maps each definition to the lines it models.

## Inventory

| Component | State | Operations | Interacts with | What makes it correct |
|---|---|---|---|---|
| Scheduler (`scheduler.c`, `task_manager.c`, `context.s`) | circular list `ktask_head/tail/current`, `_state`, `_next` | init, add_task, tick (pick_next, context switch), exit | timer IRQ walks the list that kmain and the shell build | the walk never meets NULL, always finds a live task, serves every task in turn |
| Boot (`kernel_entry.s`, `kernel.c`) | its stack, shared as esp0 | phases of kmain | becomes the first task | its frames survive until it is done |
| Timer (`irq_timer.c`, `pit.c`) | `ticks_count` | IRQ 0 | scheduler | every third tick switches |
| Physical memory (`pmm/*`) | bitmap, free counter | init from e820, alloc, free | heap, VMM, processes | blocks disjoint and in RAM, no frame lost, counter exact |
| Heap (`memory/api/*`) | header list, break, page table | kmalloc, krealloc, kfree | PMM, VMM, everything | blocks disjoint, backed, large enough; the list tiles the heap |
| VMM (`vmm/*`) | page directory and tables | init, map, unmap, through the recursive entry | PMM, early allocator | the kernel half is the same in every directory |
| Keyboard (`irq_keyboard_press.c`, `keyboard.c`) | ring, modifiers, layout | IRQ 1, getchar, loadkeys | shell | a bounded FIFO that loses only what is typed while it is full, no lost wakeup |
| Processes (`process_*.c`) | directory, stub, stacks, descriptors | create, in ten interruptible steps | scheduler, PMM, VMM, heap, fd | a process sees its own pages and no other; frames are lost by failures only |
| System calls (`syscall*`, `isr_syscall.c`) | none | table of 11 calls | file system, scheduler | the caller gets its answer |
| VFS, tmpfs, fd, fs_manager | entries, nodes, cwd, fd tables | open, close, read, write, create, unlink, mkdir, rmdir, chdir, mount | heap | the entries are a tree; freed memory is used and memory lost in known cases only |
| initrd | cursor | unpack | tmpfs | nothing is read behind the image |
| Shell and parser | line buffer, argv | line editing, completion, splitting | keyboard, TTY, commands | argv is the words of the line; the parser stays in the buffer |
| TTY, VGA | cursor, screen | putc, scroll, fill | all printing | the screen shows what was typed |
| Early allocator | bump pointer | malloc, aligned | PMM, VMM | areas disjoint and inside it |
| kstdlib | none | read and print numbers, strings, memory | everything | a number printed is read back; limits are exact |
| Interrupt tables, GDT, PIC, panic, boot sector | set-up data | | | |

Hard behaviours: kernel threads run with interrupts on and the kernel has no
lock, so list insertion, `kmalloc`, `kpmm_alloc_pages`, `kvmm_map_page`, the
path calls of the shell and `kkeyboard_pop` are all interruptible between any
two stores, by a process whose system calls then run whole; one kernel stack serves the boot
thread and every entry from ring 3; exited tasks are never unlinked; nodes have
one reference however many pointers name them; the shell parses a buffer it
never clears; sizes, addresses and the tick counter wrap at 32 bits. `hazards` in `PROJECT.json`
lists each at its line.

## Modules

| Module | Role |
|---|---|
| `Scheduler` | task list, tick, kmain, shell task, user tasks, exit and system-call entry |
| `RoundRobin` | abstract: cyclic service of live tasks in order of arrival |
| `MCScheduler` | instances, refinement mapping |
| `SchedulerProofs` | TLAPS proofs about `Scheduler` |
| `RingProofs` | TLAPS proofs: the ring, and that it implements `RoundRobin` |
| `Pmm` | bitmap allocator, boot from an e820 map, the bit-by-bit scan as a function |
| `MCPmm` | maps |
| `PmmProofs` | TLAPS proofs about `Pmm` |
| `Heap` | heap over `Pmm` (EXTENDS it) and the page table, one action per interruptible step |
| `HeapProofs` | TLAPS proofs about `Heap` (EXTENDS `PmmProofs`) |
| `CharQueue` | abstract: bounded FIFO of characters |
| `Keyboard` | IRQ 1, ring, `kkeyboard_getchar`; refines `CharQueue` |
| `KeyboardProofs` | TLAPS proofs about `Keyboard`, the refinement included |
| `Vfs` | entries, nodes, paths and the calls on them, as operators on a state |
| `Files` | start-up, initrd, descriptors, system calls and file commands over `Vfs` |
| `FileTree` | abstract: a set of paths below directories; `Files` refines it |
| `FilesProofs` | TLAPS proofs about `Vfs` and `Files` |
| `AddressSpaces` | early allocator, page tables, creation of processes |
| `SpacesLemmas` | TLAPS lemmas: what each call of the kernel keeps of a memory |
| `SpacesProofs` | TLAPS proofs about `AddressSpaces` |
| `Shell` | line editor, text screen, completion, argument parser |
| `Kstdlib` | number readers and formatter, as pure functions |
| `MCHeap`, `MCKeyboard`, `MCFiles`, `MCSpaces`, `MCShell`, `MCKstdlib` | instances |

Definitions called mutants (their comment says so) are bugs on purpose: each is
substituted for one definition to show that a property notices. They are not
part of any specification.

### Scheduler

State: `next` and `state` are the fields `_next` and `_state` of each task;
`ktask_*`, `kscheduler_is_running`, `ticks_count` the globals; `walker` is the
local of `kscheduler_pick_next` while the handler walks; `pc` the position of
each thread; `bootstack` whether kmain's frames are intact; `cpu` whether the
kernel runs, has panicked or executes undefined behaviour. Handlers run with
IF=0, so no thread steps while `walker` is set; every other step may be followed
by a tick. `kscheduler_add_task` is three actions (its three stores);
`kscheduler_init` is one, since a tick tests `ktask_current` first and that is
the last pointer it writes. `isr_syscall` ends in `__builtin_unreachable`: what
follows a handler that returns is a choice between going on and "wild". What
may fail in the initialisations of kmain and in the creation of a task ends in
`KernelFaults` when the code does not look at the answer; `AddressSpaces` says
when that is.
`TypeAhead` says whether lines may be typed before kmain is done.

### Pmm

`kpmm_bitmap` is a function from bits to used/free; `live` is a history of the
blocks handed out. Page addresses are cut to `WORD` (2^32). Search and store of
one allocation are one step here and two in `Heap`.

### Heap

`header` holds the headers in memory, `pte` the heap's page-table entries,
`call` the locals of each caller. Callers are threads (preemptible) and system
calls (interrupts off: once begun, no thread runs until they end). Every place
where a thread reads what it acts on later is a step of its own: the walk of the
list, the test and the store of `_free`, the break, the search of the bitmap and
its stores, and, for each page, the present test of `kvmm_map_page` and its
stores. `clash` remembers that two callers found one page absent and both mapped
it. `kcalloc` is `kmalloc` for these properties.

### Keyboard

The handler is one action per scancode, `kkeyboard_getchar` five: emptiness
test, read, move of the tail, wait, hlt. Characters are converted as in the code
(`int8_t` ring, `uint8_t` in the shell). `typed` is a history of the last
character typed; `CharQueue` sees every press by it, so that no press can pass
for a stuttering step: each must enter the queue as typed, or find it full. The layouts' tables are a constant
without 0xFF, which `kkeyboard_getchar` could not tell from an empty ring.

### Vfs, Files

`fs` is one record: `ent` the tmpfs entries by address, `node` the VFS nodes
(each with the entry it stands for), `root`, `cwd`, `dev`, the descriptor tables
`fds`, the shell's command in progress `sh`, and `heap`, the blocks there are. A
C function is an operator from one such state to the next with its answer in
`ret`; `Then` chains calls as the code does, error paths included. A system call
runs with interrupts off and is one action; a shell command is one action per
call of `kfd_` or `kvfs_` it makes, and system calls come between them. A use of
freed memory sets `fault` and is not followed further, by a call or by the
start-up.

System calls also come within a call of the shell (`Within`): `seen` keeps the
state the call began in. It then ends as if they had come before it, which is
the action as it was, or it goes on with what it had read of `seen`
(`ShellOvertaken`): the parent it resolved, the missing name it is about to
make, or the head of the list it links it to (`OpenOvertaken`); the node it is about to remove or to change to
(`RemoveOvertaken`, `ChdirOvertaken`); the working directory it began at, freed
since (`CwdOvertaken`); the block cat copies from, moved since (`CopyOvertaken`);
the entry the walk of ls stood on (`ReaddirOvertaken`). That call is followed to
its end, and `astray` set: what the kernel does on a tree with one name twice is
not modelled, and the properties say what holds until then. Addresses are reused only when no pointer
names them, so a stale pointer is recognised as one.

What the code does and a reader may not expect (all of it in the model): a node
is made with one reference and never gets another; the error paths of
`kvfs_open` close the parent even when it is the working directory; opening `/`
looks for a name `/` in the root; a refused `unlink` or `rmdir` and an open that
finds the table or the heap full keep their node; the data of a removed file is
never freed; `kstat` leaves its descriptor open; `kfd_opendir` does not look at
what `kmalloc` gave it; a `krealloc` that fails leaves `ktmpfs_write` the address
of a freed block; path components past `KVFS_MAX_PATH_PARTS` are dropped; the
tmpfs mounted for `/dev` is not reachable from the root, and its node is lost
when `kfs_init` returns; `kmain` ignores the
result of `kfs_init`.

### AddressSpaces

`boot` is the early allocator and the position of the start-up, `mem` the free
frames, directories, tables, `cr3` and the heap's break, `make` the locals of
`kprocess_create` in progress, `procs` what was handed to the scheduler. A
directory maps six named entries (identity, image, heap, windows, stack, self).
`PHYS_TO_VIRT` reaches frames below `mem.low`; clearing a new table above it
faults, as in the code, and so does a task whose stack could not be allocated:
`ktask_create` writes its top word through the NULL it was given. With frames
left but no run as long as asked for, `kpmm_alloc_pages` panics. A tick changes
`cr3` between any two steps of a creation and system calls of other processes
grow the heap meanwhile, also within a step: `inside` says that one has begun,
`seen` what memory was when the first such call came. The step then ends whole
(`StepEnds`, the call came before or after what it does) or goes on with what it
had read (`StepEndsOvertaken`): a run of frames that `kpmm_alloc_pages` found,
for the directory, a table or the stack (`AllocOvertaken`); in `kmalloc`, a block
that was free, the break, or the page that was absent when `kvmm_map_page` tested
it (`KmallocOvertaken`); or it had mapped its page at the break, where the system
call then failed. That step is followed to its end; what the kernel then does
with the frames and blocks it has is not, and the properties say what holds until
then (`Astray`). TLB contents are
not modelled: `kvmm_map_page` and `kvmm_unmap_page` invalidate the page they
change. Processes start in the kernel's image, as `kshell_debug` starts them
(`EntriesAssumption`): an entry anywhere else in the high half would get a copy
of a table of the heap or of the windows that no later mapping keeps up to date.

### Shell

`mem` is the line buffer and the stack above it, `tty` the cells of the screen
and the cursor, `ran` what the last Enter made of its line, `smashed` whether
anything outside the buffer or `argv` was written (nothing is modelled after
that). A key is one action. The buffer is an uninitialised local and never
cleared, so its first content is a choice and later lines meet what earlier ones
left. The date in the prompt and a command's output are small texts.

Facts the properties make room for: a line that starts with a space runs
nothing; after a gap of several spaces with two words still to come the parser
reads a copy it has overwritten and drops a word while `argc` counts it, so a
command may find NULL below `argc`; a line without a trailing space is parsed on
into what stands behind it, which can fill `argv`'s 16 places though no line had
that many words; with a trailing space `argc` counts words left behind.

### Kstdlib

Texts are sequences of characters, `WORD` the width of an int. `kprintf` prints
`0x` before hexadecimal digits, which its comment denies (`kprintf_hex`), and
the rest of the format twice from an unknown conversion on. `kstrtol` of "0"
in base 0 fails, and `katoi` of a text without a digit reads on behind it; the
first has no caller, the second is `repeat x ls`.

## Runs

| Run | Shows | Bounds |
|---|---|---|
| `sched_ring` | refinement of `RoundRobin`; every added task is in the ring; no starvation, lines served | 3 user tasks, counter modulo 4 (not a multiple of 3, as 2^32) |
| `sched_race` | with lines typed ahead: no NULL in a walk, panic only before the start, kmain's frames safe until the shell is linked, no zombie resumed | 3 user tasks, 2 lines |
| `pmm_clean` | blocks exclusive, frames conserved and counted, scan is first fit | maps of up to four disjoint entries, unaligned ends |
| `heap_single` | one allocating thread: blocks exclusive, large enough, backed, no frame lost, calls end | four pages of heap; memory ample, short and fragmented |
| `heap_race` | a thread preempted anywhere by allocating system calls: the list still tiles the heap, but for the window of `kvmm_map_page` | three pages, two sizes |
| `key_ring` | ring = bounded FIFO that loses nothing while it has a place, queued characters served, shift never stuck | ring of 4, both layouts |
| `files` | the tree stays a tree and refines `FileTree`; positions stay in their file, the unpacker in its image; the shell returns its descriptors; every leak and every use of freed memory has a listed cause; all until a call goes astray | four calls, the first two also within a call of the shell (`MaxWithin`), two descriptors, four paths, heaps of 4 and 13 blocks, images empty, cut and whole |
| `spaces` | early areas apart; no frame with two uses; a process sees its pages only; kernel tables shared by all; the kernel ends, and frames are lost, for want of memory only; creations end; all until a step is overtaken | 3 processes, 1 to 60 frames, tables of 15, heap of 14 pages, two entry pages |
| `shell` | the screen shows the line; commands get its words; the parser stays in the line | two lines of 6 characters, screen 4 x 3, `argv` of 2, clean and full stack |
| `kstdlib` | numbers read by their places up to the limit and past it; printed, counted and read back | texts of 4 characters out of 10, words of 8 bits |

`sched_*` with three user tasks has two creations during a third's insertion
and zombies on both sides of a live task. A heap of four pages meets its limit
with blocks of one and two pages; with 8-byte pages and 6-bit words the wraps
are reachable. A ring of four is full, empty and wrapped at every index. Four
calls are enough to remove what another caller holds open, to close the working
directory and use it again, and to fill a table of two; two calls reach every
way a call of the shell goes astray, and the copy of cat, which takes three
calls to set up, is exempt from that bound. Frames from one to
sixty end the creation of a process at every one of its steps. Six characters
hold three words with a wide gap, a line longer than the prompt's row scrolls,
and `argv` of two overflows; a second line meets what the first left. Eight
bits and four characters pass the largest number in bases 10 and 16.

Two runs are expected to fail: each shows, on one property, where the code and
what it says of itself disagree (`findings` quotes both).

| Run | Property that fails | The trace |
|---|---|---|
| `sched_lost_task` | `AddedTasksInRing` | an insertion raced by the shell's loses a task |
| `kprintf_hex` | `HexBare` | `%x` prints a prefix its comment does not have |

Six things that go wrong when a system call comes within a call of a kernel
thread are in the models and reached by the passing runs, whose properties say
what holds until then:

- a thread preempted between the present test and the stores of `kvmm_map_page`
  links its header to itself (`vmm_map.c:55-58`; `clash` is set, `HeapTiled`
  fails);
- a caller between the test and the store of `_free` gives one block to two
  (`kmalloc.c:29`, `:95`; `BlocksExclusive` fails with `heap_race`'s callers);
- a caller between the search and the stores of `kpmm_alloc_pages` gives one
  frame two uses (`pmm_alloc.c:26-28`; `NoFrameTwice` fails);
- the break moves after it was read: `kmalloc` fails with memory left, and the
  kernel faults on the NULL stack (`kmalloc.c:48`, `task_manager.c:39`;
  `EndsForWantOfMemory` fails);
- a name is made between the lookup that missed it and its creation, and a
  directory has it twice (`vfs_open.c:72-85`; `NoNameTwice` fails);
- a node, an entry or a file's block is freed between its lookup and its use
  (`vfs_open.c:63`, `tmpfs_read.c:50`; `FaultExplained` without its `astray'`
  fails).

Each needs a user process whose system calls allocate or change the tree. Those
calls are in `syscalls_array`, and the only user program of the repository
(`debug.c`) makes none of them. What keeps the kernel from these traces is that
program and not its code. Named in a passing run's .cfg, the property in
brackets gives the trace.

The models also reach these, which no run asserts:

- after a start-up that succeeds no path leads to a device, though
  `fs_manager.c:135` says "tmpfs mounted on /dev": the entries of `/dev` are a
  tree of their own, with a node that nothing names;
- a stat leaves its descriptor open, so `KFD_MAX_COUNT` of them fill the table
  (`fs_utils.c:84`);
- `kprintf` prints the rest of the format twice from a conversion it does not
  know on and counts two, where `kprintf.c:380` says "The total number of
  characters printed to the screen.";
- a third tick before `kscheduler_start` panics (`irq_timer.c:37`);
- an exited task is never unlinked, though `task_manager.c:60` says "Remove the
  current task from the list of tasks.";
- the return of any system call but exit is undefined (`isr_syscall.c:28`);
- frames above 4 GiB are handed out under a truncated address
  (`pmm_bitmap.c:92`), so `LiveBlocksExclusive` needs maps below it;
- a growing `krealloc` reads behind the old block and may fault
  (`krealloc.c:31`).

Some properties hold only within a limit.

- `FramesConserved` needs e820 maps without overlapping free entries (memory
  reported twice is counted twice).
- `BlocksExclusive` needs sizes that do not wrap in `kmalloc`'s sums and one
  allocating caller.
- `TiledUnlessClash` is `HeapTiled` until two callers map one page.
- `TreeSound`, `PositionsInFile`, `ShellTableClean`, `LeaksKnown`,
  `FaultExplained` and `ImplementsTree` hold until a call of the shell goes
  astray.
- `FramesExclusive`, `FaultMeansNoMemory` and `FramesLostByGivingUp` hold until a
  step of a creation is overtaken.
- `NumbersPrinted` leaves out what `kprintf` makes of an unknown conversion.
- `LineOnScreen` is about the shell's own output: a refused file call of another
  task prints too.

## Fairness

`FairSpec`: the PIT never stops, so IRQ 0 is weakly fair; handlers run to their
end; a kernel thread that gets time slices for ever advances (strong fairness,
since it is enabled only while it has the CPU). User tasks have none: they may
loop for ever. `HeapFairSpec` and `KeyFairSpec` take from `sched_ring` that a
preempted thread is resumed; in the keyboard the timer is fair, and it is what
ends a hlt that a key was too early for. In `SpacesSpec` the
tick comes round to the shell's task, which then goes on with its creation
(strong fairness, as above). A shell command is assumed
to return.

## Proofs

Each theorem is checked by TLAPS for every value of the constants that the
module's named assumptions allow. Where it needs more than that, the condition
is a hypothesis of the theorem and given here.

| Module | Theorem | States | Beyond the assumptions |
|---|---|---|---|
| `SchedulerProofs` | `TypeCorrect` | `TypeOK` | |
| | `WalkSafe` | `WalkNeverMeetsNull` | |
| | `PanicConfined` | `PanicOnlyBeforeStart` | |
| | `ZombieSafe` | `ZombieNeverResumed` (action property) | |
| | `BootFramesSafe` | `BootFramesSafeUntilLinked` | |
| `RingProofs` | `AddedAlwaysInRing` | `AddedTasksInRing` | `TypeAhead = FALSE` |
| | `SchedulerIsRoundRobin` | `ImplementsRoundRobin` (refinement) | `TypeAhead = FALSE` |
| `PmmProofs` | `BlocksAlwaysExclusive` | `LiveBlocksExclusive` | free frames have addresses below `WORD` |
| | `FramesAlwaysConserved` | `FramesConserved` | `CleanMemory` |
| | `ScanFindsFirstFit` | `ScanIsFirstFit` | |
| `HeapProofs` | `HeapTiledUnlessClash` | `TiledUnlessClash` | `SizesFit` |
| | `HeapTypesKept` | `HeapTypeOK`, until a clash | `SizesFit`, `CountsFit` |
| | `BlocksStayExclusive` | `BlocksExclusive` | `SizesFit`, `OneCaller` |
| | `HeapStaysBacked` | `HeapBacked` | `SizesFit`, `OneCaller`, `CleanMemory` |
| `KeyboardProofs` | `ShiftSafe` | `ShiftNeverStuck` | |
| | `KeyboardIsQueue` | `ImplementsCharQueue` (refinement) | |
| `SpacesProofs` | `SpacesTypesKept` | `SpacesTypeOK`, until overtaken | |
| | `EarlyAreasStayApart` | `EarlyAreasApart`, until overtaken | |
| | `FramesExclusiveUnlessOvertaken` | `FramesExclusive` | |
| | `UserOnlyEverSeesItsOwn` | `UserSeesOnlyItsOwn`, until overtaken | |
| | `KernelAlwaysShared` | `KernelSharedByAll`, until overtaken | |
| | `FaultsNeedNoMemoryUnlessOvertaken` | `FaultMeansNoMemory` | |
| | `FramesOnlyLostByGivingUp` | `FramesLostByGivingUp` (action property) | |
| `FilesProofs` | `FilesTypes` | `FilesTypeOK`, until astray | |
| | `TreeIsSound` | `TreeSound` | |
| | `PositionsStayInFile` | `PositionsInFile` | |
| | `FaultsExplained` | `FaultExplained` (action property) | |
| | `ShellTableStaysClean` | `ShellTableClean` | `NoDevInImages` |
| | `LeaksAreKnown` | `LeaksKnown` (action property) | `NoDevInImages` |

### The hypotheses

- `TypeAhead = FALSE`: no line is typed before kmain is done. With it the shell
  may create a task while kmain is inserting its own, and both statements are
  false (`sched_lost_task`).
- `CleanMemory`: the free entries of an e820 map share no page, every free page
  has an address of 32 bits, and their number is one of 32 bits. The code checks
  none of this; with it violated the counter, or the frame handed out, is wrong.
  `MCPmm` and `MCHeap` have TLC evaluate it on their maps.
- `SizesFit`: the end of the heap plus any size asked for, with its roundings,
  is an address of 32 bits. The heap ends 768 MiB below 2^32 and nothing in the
  kernel asks for that much. `heap_race` satisfies it; `heap_single` asks for
  more on purpose, so TLC also covers sums that wrap there.
- `CountsFit`: `MaxCount`, the bound of the model on the pages of one request,
  is no less than the heap's pages.
- `OneCaller`: one thread allocates, which is what the repository runs (see
  Runs). `HeapTiledUnlessClash` and `HeapTypesKept` do not need it: they hold for
  any set of threads and system calls preempting each other between any two
  steps, up to the first clash.
- "Until overtaken", "until astray", "until a clash": the statement holds in
  every state but those after a call went on with what it had read before a
  system call. Where the property of the table names that itself, its definition
  says so. The list under Runs says what goes wrong there; the models do not follow
  the kernel any further, so nothing is claimed of it.
- `NoDevInImages`: no path of an initrd has a component `dev`, and a path may
  have three components. The repository packs one file, `bin/README.md`, and
  `KVFS_MAX_PATH_PARTS` is 16. With a `dev` in the root the shell would find
  `/dev/stdin` there and hold it for good. `MCFiles` has TLC evaluate it.

The assumptions on constants are `TaskAssumption` and `NumberAssumption` (the
named tasks are distinct, the numbers naturals), `PmmAssumption`,
`HeapAssumption` (the heap is whole pages below 2^32, a header fits in a page),
`KeyAssumption` (no layout has the character 255), `SpacesAssumption` (heap and
stack fit in one table each, as in the linker script), `EntriesAssumption` and
`FilesAssumption` (the processes are the shell and one user process, a path is a
sequence of names, an image ends with mkinitrd's marker and its files are no
larger than the bound `MaxSize`; it may be cut anywhere).

### The arguments

*Scheduler.* `IndInv` adds to the invariants `Control` (which task a thread at
each label is adding, what has happened by then), `SystemAlive` (ksystem never
exits) and `Ordered`: there is a rank of the tasks that every link either
raises or leads back to the head. Without `Ordered` a walk might cycle among
zombies and the panic could not be excluded; it survives the lost insertion of
`sched_lost_task`, where a plain ring invariant does not. For the frames of
kmain, `AloneInv` says that it is alone in the list until it links the shell.

*The ring.* `RingInv` says that one thread adds at a time (`OneAdder`) and that
some sequence of tasks is the ring: it holds the linked tasks, ends in
`ktask_tail` or in the task whose insertion is one store short, and a walk under
way has passed zombies only (`Walked`). The insertion is the abstract step at
its second store, the switch at the end of the walk; everything else stutters.

*PMM.* Every clear bit is a usable frame, no block is live during boot
(`PmmIndInv`); phase by phase, where each frame is and that the counter is the
number of clear bits (`Counted`). The scan is a recursive function: that it
stops at the first run is shown from a least place where it would differ.

*Heap.* `HeapIndInv`: a call that has read the break holds a page at or below it
(`CallOK`); one call at most has pages mapped above the break, because the test
of a page that is mapped already fails, and that is what serializes growth
without a lock (`Built`). A call past its test and not yet past its stores is
where this ends: another may be past its test of the same page, and the second
to store sets `clash`. Without a clash each block ends where its predecessor in the list begins
(`Listed`). `Owned` adds who holds which block, `Backing` which frame each page
has and that every frame the heap took is accounted for.

*Keyboard.* `KeyIndInv`: what lies between tail and head was typed
(`PendingTyped`), and past its emptiness test `kkeyboard_pop` has a character
that IRQ 1 does not overwrite (`PopSafe`). The queue is what lies between tail
and head, so the move of the tail is the abstract removal.

*Address spaces.* `SpacesInv` describes the memory before `kvmm_init` (`Bare`)
and after (`World`). `World` says what the kernel's directory leads to and that
the heap is mapped up to its break, each page to its own frame (`Kernel`); how
far the creation under way has come, label by label (`MakeOK`); that every
process has all that `kprocess_create_user` builds (`ProcOK`); and that two
directories share nothing but the kernel's tables (`Disjoint`). Ticks may change
`cr3` between any two steps, so it must hold in whichever address space the heap
grows; it does because the heap has its table before the first directory is
cloned. `Grows` is what every call may do to a memory, and `SpacesLemmas` shows
it for each call once. Faults are traced to their cause along the way: a table
past `PHYS_TO_VIRT`, a task without a stack, both for want of memory.
For the frames, `Saves` says of each call which frames it hands to its caller
and that all others stay free or in the kernel's half; a step of a creation then
loses none if the directory it works on leads to those its calls handed over
(`Accounted`). A call of a creation fails for want of memory only, since the
windows have their table and their last use is unmapped first: that is the second
half of `FramesLostByGivingUp`.

Steps overtaken are set apart first: a step of `SpacesNext` ends astray or is
one of `WholeNext`, where every call is whole, and the invariants are kept by
those.

*Files.* A step goes astray or is one of `CallNext`, where a call of the shell
runs whole (`WholeOrAstray`); what follows is kept by the latter. `FilesInv` is `Good` of
the file system, `Tidy` (every node has a pointer), `ShellOK` (a command under way holds an open descriptor) and `BootOK`
(how far the start-up has come). `Good` is what a C function may rely on and must
leave: the entries are a forest with exact link counts (`Forest`); each
descriptor has a node that is live and named by no other descriptor, nor by the
root, the working directory or `/dev` (`Handles`); its position is in its file
(`Positions`). Because a node has one reference whoever points to it, `Handles`
is what keeps a `kvfs_close` in an error path from freeing a node another caller
holds; only the working directory has no such protection. Each operator of `Vfs`
is shown once to turn a good state into a good one and to say what it may have
changed (`Found`, `Outcome`, `Serves`), and an action composes them. For the
table and the leaks, `Settled` adds that the shell holds no descriptor but its
command's, and that the root has no `dev` while the streams are attached. The
walk down a path is a recursive function: what it keeps is shown from the least
component at which it would fail.

### Only model-checked

- Liveness under fairness: `EveryTaskScheduled`, `ShellServesLines`,
  `CharsServed`, `CallsEnd`, `CreationEnds`. It is out of the prover's reach.
- `Shell` and `Kstdlib`: parser, editor, readers and formatter are recursive
  operators, for which the prover has no backend, and what they compute is an
  induction over data.
- The refinement of `FileTree` by `Files`: the mapping takes each entry to the
  path from its root, recursively over parents, and that each operation changes
  one path is an induction over the height of the tree. `TreeIsSound` has the
  links it would start from.

## Not modelled, and the plan

Left out for good: BIOS and boot-sector code; PIC, GDT and IDT programming,
which is set-up without state to check; the panic screen and rebooting; colours,
dates and the wording of output; commands that only print (help, ps, uptime,
timer, the dumps) and `repeat`, which runs a command again. Permission checks
are modelled as the code has them: every caller is root and they pass.

Of a call that another overtakes, these are left out: what the kernel does after
the call that went astray; two interruptions of one call, each of which changes
what it reads; a system call that meets the stores of the shell's call half done
(an entry linked and not yet given its parent, a descriptor chosen and not yet
filled).
In `AddressSpaces` a step is overtaken in one place, by any number of system
calls, each of which runs whole.

The plan is done: what the modules say and the prover can reach is proved. A
change to the kernel that frees what a failed `kprocess_create` took, or what an
exited process held, would be the next thing to model.
