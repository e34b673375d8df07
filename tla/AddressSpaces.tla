--------------------------- MODULE AddressSpaces ---------------------------
(***************************************************************************)
(* Address spaces: the tables the kernel boots on, mapping and unmapping   *)
(* through the recursive entry, and the creation of user processes, step   *)
(* by step, while ticks change the address space and system calls grow the *)
(* heap, between two steps or within one.                                  *)
(*                                                                         *)
(* A virtual page is <<directory entry, table entry>>.  Directory entries  *)
(* are named for what they map: the identity, the kernel image, the heap,  *)
(* the windows kprocess_create_user looks through, the user stack and the  *)
(* directory itself.  Of the image only the pages that matter have entries *)
(* here; that its table ends at mem.low is what PHYS_TO_VIRT is bound by.  *)
(*                                                                         *)
(* As in Vfs.tla a call is an operator from the memory m to the memory it  *)
(* leaves, its answer in m.ret.                                            *)
(***************************************************************************)
EXTENDS Integers, SequencesExt

CONSTANTS
    PAGE,              \* units in a page, for the early allocator
    EARLY_START,       \* its first unit
    KEARLY_SIZE,       \* and its size
    BitmapSizes,       \* units kpmm_init may ask it for
    FrameCounts,       \* free frames the machine may have
    Lows,              \* frames the table of the image may reach
    PTES,              \* entries of a table
    KERNEL_HEAP_PAGES,
    STACK_PAGES,       \* KPROCESS_USER_STACK_PAGE_COUNT
    Entries,           \* pages a process may start in
    MaxProcs           \* bound: processes created

ASSUME SpacesAssumption ==
    /\ PAGE \in Nat \ {0, 1} /\ EARLY_START \in Nat /\ KEARLY_SIZE \in Nat
    /\ BitmapSizes \subseteq Nat /\ FrameCounts \subseteq Nat /\ Lows \subseteq Nat
    /\ PTES \in Nat /\ MaxProcs \in Nat
    /\ KERNEL_HEAP_PAGES \in 1 .. PTES    \* kernel_i386.ld: 100 pages, one table
    /\ STACK_PAGES \in 1 .. PTES - 2      \* 4 pages, below StackTop in one table

\* kshell_debug starts processes in functions of the kernel's image.
ASSUME EntriesAssumption == Entries \subseteq {"image"} \X (0 .. PTES - 1)

VARIABLES
    boot,              \* pc of the boot, and the early allocator
    mem,               \* physical memory, tables, cr3 and the heap
    make,              \* kprocess_create in progress
    procs,             \* processes handed to the scheduler
    inside,            \* the shell's task is within a step of kprocess_create
    seen               \* memory as that step saw it, once a system call came within

svars == <<boot, mem, make, procs>>
vars == <<svars, inside, seen>>

NULL == 0
OK == 1
Pdes == {"identity", "image", "heap", "windows", "stack", "self"}
HighHalf == {"image", "heap", "windows"}     \* entries KVMM_PD_INDEX .. 1022
NoTable == [table |-> NULL, user |-> FALSE]
NoPage == [frame |-> -1, user |-> FALSE]
Empty == [i \in 0 .. PTES - 1 |-> NoPage]
Identity == [i \in 0 .. PTES - 1 |-> [frame |-> i, user |-> FALSE]]
Stubs == <<"image", 0>>
Syscall == <<"image", 1>>

Idle == [pc |-> "idle", pd |-> NULL, stub |-> NULL, stack |-> NULL, entry |-> Stubs]

\* The frames kpmm_init frees lie past the early allocator.
FirstFrame == (EARLY_START + KEARLY_SIZE) \div PAGE + 1

SpacesInit ==
    /\ boot = [pc |-> "early", cur |-> NULL, end |-> NULL, avail |-> TRUE, areas |-> {}]
    /\ \E n \in FrameCounts, low \in Lows :
         mem = [free |-> FirstFrame .. FirstFrame + n - 1, low |-> low, dirs |-> <<>>, tabs |-> <<>>,
                cr3 |-> NULL, kdir |-> NULL, brk |-> 0, spare |-> 0, ret |-> NULL, fault |-> FALSE]
    /\ make = Idle /\ procs = {} /\ inside = FALSE /\ seen = {}

\* Rest(a), with a computed once.
Then(a, Rest(_)) == CHOOSE r \in {Rest(b) : b \in {a}} : TRUE
\* f with the value y for x, which it may not have had.
With(f, x, y) == [z \in DOMAIN f \cup {x} |-> IF z = x THEN y ELSE f[z]]
Fail(m) == [m EXCEPT !.ret = NULL]
Ok(m) == [m EXCEPT !.ret = OK]
\* The kernel ends: it faults, or it panics.
Fault(m) == [m EXCEPT !.ret = NULL, !.fault = TRUE]

----------------------------------------------------------------------------
(* The early allocator                                                     *)

\* The cursor moves over the gap and the bytes.  Disabled, not started or full
\* it ends in a panic, its own or its caller's.
Early(b, aligned, bytes) ==
    IF ~b.avail \/ b.cur = NULL \/ bytes = 0 \/ aligned - b.cur + bytes > b.end - b.cur
      THEN [b EXCEPT !.pc = "panic"]
      ELSE [b EXCEPT !.cur = aligned + bytes, !.areas = @ \cup {[at |-> aligned, len |-> bytes]}]

AlignUp(x, n) == ((x + n - 1) \div n) * n

\* KEARLY_ALIGN_UP rounds to 8 bytes, half a PAGE here.
KearlyMalloc(b, bytes) == Early(b, b.cur, AlignUp(bytes, PAGE \div 2))

\* Mutant: the cursor moves by the size and not by the gap before it.
KearlyMallocAlignedNoGap(b, bytes) ==
    [Early(b, AlignUp(b.cur, PAGE), bytes) EXCEPT !.cur = b.cur + bytes]

KearlyMallocAligned(b, bytes) == Early(b, AlignUp(b.cur, PAGE), bytes)

KearlyMallocInit ==
    /\ boot.pc = "early" /\ UNCHANGED <<mem, make, procs>>
    /\ boot' = [boot EXCEPT !.pc = "pmm", !.cur = EARLY_START, !.end = EARLY_START + KEARLY_SIZE]

\* kpmm_init asks for its bitmap; without it the kernel panics.
KpmmInit ==
    /\ boot.pc = "pmm" /\ UNCHANGED <<mem, make, procs>>
    /\ \E bytes \in BitmapSizes :
         boot' = Then(KearlyMalloc(boot, bytes), LAMBDA b :
                   IF b.pc = "panic" THEN b ELSE [b EXCEPT !.pc = "vmm"])

\* The directory, the identity's table and the image's, one page each.
KvmmInit ==
    /\ boot.pc = "vmm" /\ UNCHANGED <<make, procs>>
    /\ \E b \in {KearlyMallocAligned(KearlyMallocAligned(KearlyMallocAligned(boot, PAGE), PAGE), PAGE)} :
         IF b.pc = "panic" THEN boot' = b /\ UNCHANGED mem
         ELSE LET d == (b.cur - 3 * PAGE) \div PAGE
              IN  /\ boot' = [b EXCEPT !.pc = "identity"]
                  /\ mem' = [mem EXCEPT
                       !.dirs = [x \in {d} |-> [[e \in Pdes |-> NoTable] EXCEPT
                                        !["identity"] = [NoTable EXCEPT !.table = d + 1],
                                        !["image"] = [NoTable EXCEPT !.table = d + 2],
                                        !["self"] = [NoTable EXCEPT !.table = d]]],
                       !.tabs = [t \in {d + 1, d + 2} |-> Identity], !.cr3 = d, !.kdir = d]

\* The directory is edited through itself, then cr3 is loaded again.
KvmmDisableIdentityMapping ==
    /\ boot.pc = "identity" /\ boot' = [boot EXCEPT !.pc = "heap"]
    /\ mem' = [mem EXCEPT !.dirs[mem.cr3]["identity"] = NoTable] /\ UNCHANGED <<make, procs>>

----------------------------------------------------------------------------
(* Frames and mappings                                                     *)

Runs(free, n) == {f \in free : \A i \in 1 .. n - 1 : f + i \in free}

\* Mutant: the last frame of the run is not marked.
KpmmAllocPagesShort(m, n) ==
    IF m.free = {} THEN Fail(m)
    ELSE IF Runs(m.free, n) = {} THEN Fault(m)
    ELSE Then(Min(Runs(m.free, n)), LAMBDA f :
           [m EXCEPT !.free = @ \ (f .. f + n - 1 - (n \div 2)), !.ret = f])

\* The lowest run of n free frames (Pmm.tla).  With frames left but no run of
\* them the search panics.
KpmmAllocPages(m, n) ==
    IF m.free = {} THEN Fail(m)
    ELSE IF Runs(m.free, n) = {} THEN Fault(m)
    ELSE Then(Min(Runs(m.free, n)), LAMBDA f : [m EXCEPT !.free = @ \ (f .. f + n - 1), !.ret = f])

\* KVMM_GET_PD and KVMM_GET_PT_VIA_PDE: what the recursive entry of cr3 shows.
Pd(m) == m.dirs[m.cr3]["self"].table
Table(m, pde) == m.dirs[Pd(m)][pde].table
PageIn(m, d, va) ==
    IF m.dirs[d][va[1]].table = NULL THEN NoPage ELSE m.tabs[m.dirs[d][va[1]].table][va[2]]

\* A new table is cleared through PHYS_TO_VIRT, which faults past mem.low.
NewTable(m, pde) ==
    Then(KpmmAllocPages(m, 1), LAMBDA a :
      IF a.ret = NULL THEN a
      ELSE IF a.ret >= m.low THEN Fault(a)
      ELSE Ok([a EXCEPT !.dirs[Pd(m)][pde] = [table |-> a.ret, user |-> FALSE],
                        !.tabs = With(@, a.ret, Empty)]))

TableFor(m, pde) == IF Table(m, pde) = NULL THEN NewTable(m, pde) ELSE Ok(m)

KvmmMapPage(m, va, frame) ==
    Then(TableFor(m, va[1]), LAMBDA a :
      IF a.ret = NULL THEN a
      ELSE IF PageIn(a, Pd(a), va) # NoPage THEN Fail(a)
      ELSE Ok([a EXCEPT !.tabs[Table(a, va[1])][va[2]] = [frame |-> frame, user |-> FALSE]]))

KvmmUnmapPage(m, va) ==
    IF PageIn(m, Pd(m), va) = NoPage THEN m ELSE [m EXCEPT !.tabs[Table(m, va[1])][va[2]] = NoPage]

\* Mutant: what the window showed before is not unmapped.
WindowTaken(m, w, frame) == KvmmMapPage(m, <<"windows", w>>, frame)

\* A frame is looked at through a window: 0 for directories, 1 for tables, 2
\* for stacks.
Window(m, w, frame) == KvmmMapPage(KvmmUnmapPage(m, <<"windows", w>>), <<"windows", w>>, frame)

HeapSeen(m, d) == \A i \in 0 .. m.brk - 1 : PageIn(m, d, <<"heap", i>>) # NoPage

\* The frame is mapped at the break, which moves over it.
MapAtBreak(m, frame) ==
    Then(KvmmMapPage(m, <<"heap", m.brk>>, frame), LAMBDA a :
      IF a.ret = NULL THEN a ELSE [a EXCEPT !.brk = @ + 1])

\* Mutant: the limit of the heap is one page too far.
CreateHeapHeaderPast(m) ==
    IF m.brk > KERNEL_HEAP_PAGES THEN Fail(m)
    ELSE Then(KpmmAllocPages(m, 1), LAMBDA a : IF a.ret = NULL THEN a ELSE MapAtBreak(a, a.ret))

\* create_heap_header: one more page.
CreateHeapHeader(m) ==
    IF m.brk = KERNEL_HEAP_PAGES THEN Fail(m)
    ELSE Then(KpmmAllocPages(m, 1), LAMBDA a : IF a.ret = NULL THEN a ELSE MapAtBreak(a, a.ret))

\* The list of blocks is walked first, in whatever address space it is; every
\* object takes a block, a page.
Kmalloc(m) ==
    IF ~HeapSeen(m, Pd(m)) THEN Fault(m)
    ELSE IF m.spare > 0 THEN Ok([m EXCEPT !.spare = @ - 1])
    ELSE CreateHeapHeader(m)

Kfree(m) == [m EXCEPT !.spare = @ + 1]

\* The first page of the heap, or a panic.
KmallocInit ==
    /\ boot.pc = "heap" /\ UNCHANGED <<make, procs>>
    /\ \E m \in {CreateHeapHeader(mem)} :
         /\ mem' = IF m.ret = NULL THEN m ELSE [m EXCEPT !.spare = 1, !.ret = NULL]
         /\ boot' = [boot EXCEPT !.pc = IF m.ret = NULL THEN "panic" ELSE "kernel", !.avail = FALSE]

----------------------------------------------------------------------------
(* Processes                                                               *)

\* A task and its kernel stack.  That there is no stack is not noticed: its top
\* word is written all the same, to a page of the identity, and faults.
TaskStack(m) == Then(Kmalloc(m), LAMBDA a : IF a.ret = NULL THEN Fault(a) ELSE a)
KtaskCreate(m) == Then(Kmalloc(m), LAMBDA a : IF a.ret = NULL THEN a ELSE TaskStack(a))

\* kprocess_create_kernel: a process on the kernel's own directory.
KprocessCreateKernel(m) == Then(Kmalloc(m), LAMBDA a : IF a.ret = NULL THEN a ELSE KtaskCreate(a))

\* kprocess_kernel_init and kprocess_shell_init; kmain follows both pointers.
KprocessKernelInit ==
    /\ boot.pc = "kernel" /\ UNCHANGED <<make, procs>>
    /\ \E m \in {Then(KprocessCreateKernel(mem), LAMBDA a :
                     IF a.ret = NULL THEN a ELSE KprocessCreateKernel(a))} :
         /\ mem' = IF m.ret = NULL THEN Fault(m) ELSE Fail(m)
         /\ boot' = [boot EXCEPT !.pc = IF m.ret = NULL THEN "panic" ELSE "up"]

\* The shell's task runs: its address space is the kernel's.
InShell(pc) == boot.pc = "up" /\ ~mem.fault /\ mem.cr3 = mem.kdir /\ make.pc = pc /\ UNCHANGED boot

\* A step of the creation ends: on to the next, or all is given up but for the
\* process_t, if the caller frees it.
Step(after, next) ==
    \E m \in {after} :
      /\ mem' = Fail(m) /\ UNCHANGED procs
      /\ make' = IF m.ret = NULL THEN Idle ELSE next
GiveUp(m) == IF m.ret = NULL THEN Kfree(m) ELSE m

\* kshell_debug calls kprocess_create.
KprocessCreate(entry) ==
    /\ Cardinality(procs) < MaxProcs /\ InShell("idle")
    /\ Step(Kmalloc(mem), [Idle EXCEPT !.pc = "task", !.entry = entry])

\* ktask_create: the task, and what kmalloc answers for its stack.
KprocessTask == InShell("task") /\ Step(Kmalloc(mem), [make EXCEPT !.pc = "kstack"])
KprocessTaskStack == InShell("kstack") /\ Step(TaskStack(mem), [make EXCEPT !.pc = "pd"])

\* The directory is the frame a.ret, which is lost if the window cannot be mapped.
DirectoryIn(a) ==
    \E b \in {IF a.ret = NULL THEN a ELSE Window(a, 0, a.ret)} :
      Step(GiveUp([b EXCEPT !.dirs = IF b.ret = NULL THEN @ ELSE With(@, a.ret, [e \in Pdes |-> NoTable])]),
           [make EXCEPT !.pc = "clone", !.pd = a.ret])

AllocPageDirectory == InShell("pd") /\ \E a \in {KpmmAllocPages(mem, 1)} : DirectoryIn(a)

\* Mutant: the entry of the heap is not copied.
CloneKernelHighHalfShort ==
    /\ InShell("clone")
    /\ Step(Ok([mem EXCEPT !.dirs[make.pd] =
                  [e \in Pdes |-> IF e \in {"image", "windows"} THEN mem.dirs[Pd(mem)][e]
                                  ELSE IF e = "self" THEN [NoTable EXCEPT !.table = make.pd] ELSE @[e]]]),
            [make EXCEPT !.pc = "stub"])

\* The tables above KERNEL_VIRTUAL_BASE are shared; the last entry is its own.
CloneKernelHighHalf ==
    /\ InShell("clone")
    /\ Step(Ok([mem EXCEPT !.dirs[make.pd] =
                  [e \in Pdes |-> IF e \in HighHalf THEN mem.dirs[Pd(mem)][e]
                                  ELSE IF e = "self" THEN [NoTable EXCEPT !.table = make.pd] ELSE @[e]]]),
            [make EXCEPT !.pc = "stub"])

\* A table for the user in the place of the kernel's, copied from it.
CopyInto(m, d, pde, frame) ==
    Then(Window(m, 1, frame), LAMBDA a :
      IF a.ret = NULL THEN a
      ELSE [a EXCEPT !.tabs = With(@, frame, a.tabs[Table(a, pde)]),
                     !.dirs[d][pde] = [table |-> frame, user |-> TRUE], !.ret = frame])
CopyTable(m, d, pde) ==
    Then(KpmmAllocPages(m, 1), LAMBDA a : IF a.ret = NULL THEN a ELSE CopyInto(a, d, pde, a.ret))

\* Mutant: the whole table is opened to the user.
ForUserAll(m, t, i) == [m EXCEPT !.tabs[t] = [j \in DOMAIN @ |-> [@[j] EXCEPT !.user = TRUE]]]

ForUser(m, t, i) == [m EXCEPT !.tabs[t][i].user = TRUE]

\* The page of the stubs is opened in the copy, which is the answer in a.
StubIn(a) ==
    Step(IF a.ret = NULL THEN Kfree(a) ELSE ForUser(a, a.ret, Stubs[2]),
         [make EXCEPT !.pc = "syscall", !.stub = a.ret])

MapStubUserPage == InShell("stub") /\ \E a \in {CopyTable(mem, make.pd, Stubs[1])} : StubIn(a)

\* An entry in the stubs' table uses its copy, any other gets a copy of its own.
UserTable(m, pde) ==
    IF pde = Stubs[1] THEN [m EXCEPT !.ret = make.stub] ELSE CopyTable(m, make.pd, pde)

\* The page is opened to the user, in the table t.
OpenPage(m, t, i) ==
    Then(Window(m, 1, t), LAMBDA a : IF a.ret = NULL THEN a ELSE ForUser(a, t, i))

\* An entry below KERNEL_VIRTUAL_BASE needs nothing.
MapEntryIfKernel(m, va) ==
    IF va[1] \notin HighHalf THEN Ok(m)
    ELSE IF PageIn(m, Pd(m), va) = NoPage THEN Fail(m)
    ELSE Then(UserTable(m, va[1]), LAMBDA a : IF a.ret = NULL THEN a ELSE OpenPage(a, a.ret, va[2]))

MapSyscall == InShell("syscall") /\ Step(GiveUp(MapEntryIfKernel(mem, Syscall)), [make EXCEPT !.pc = "entry"])
MapEntry == InShell("entry") /\ Step(GiveUp(MapEntryIfKernel(mem, make.entry)), [make EXCEPT !.pc = "stack"])

StackTop == PTES - 3
StackVas == {<<"stack", i>> : i \in StackTop - STACK_PAGES + 1 .. StackTop}

\* The stack has the frames at a.ret, and b.ret for its table.
StackIn(a, b) ==
    \E c \in {IF b.ret = NULL THEN b ELSE Window(b, 1, b.ret)} :
      Step(IF c.ret = NULL THEN Kfree(c)
           ELSE [c EXCEPT !.dirs[make.pd]["stack"] = [table |-> b.ret, user |-> TRUE],
                          !.tabs = With(@, b.ret, [i \in DOMAIN Empty |->
                             IF <<"stack", i>> \notin StackVas THEN NoPage
                             ELSE [frame |-> a.ret + i - (StackTop - STACK_PAGES + 1), user |-> TRUE]])],
           [make EXCEPT !.pc = "init", !.stack = a.ret])

\* Frames for the stack, then a table for them.
MapUserStack ==
    /\ InShell("stack")
    /\ \E a \in {KpmmAllocPages(mem, STACK_PAGES)} :
         \E b \in {IF a.ret = NULL THEN a ELSE KpmmAllocPages(a, 1)} : StackIn(a, b)

\* The last page of the stack gets the entry; the process goes to the scheduler.
SetupInitialStack ==
    /\ InShell("init")
    /\ \E m \in {Window(mem, 2, make.stack + STACK_PAGES - 1)} :
         /\ mem' = Fail(GiveUp(m)) /\ make' = Idle
         /\ procs' = IF m.ret = NULL THEN procs
                     ELSE procs \cup {[pd |-> make.pd, stack |-> make.stack, entry |-> make.entry,
                                       zombie |-> FALSE]}

----------------------------------------------------------------------------
(* A system call within a step of the creation                             *)

\* Interrupts are on in kmalloc and in kpmm_alloc_pages: a process may be run in
\* the middle of them, and its system calls allocate, from first to last.  The
\* step then goes on in m with what it had read in s, before them.

\* kpmm_alloc_pages: the run found in the bitmap as it was is marked in the bitmap
\* as it is.
AllocOvertaken(m, s, n) ==
    IF s.free = {} THEN Fail(m)
    ELSE IF Runs(s.free, n) = {} THEN Fault(m)
    ELSE Then(Min(Runs(s.free, n)), LAMBDA f : [m EXCEPT !.free = @ \ (f .. f + n - 1), !.ret = f])

\* kvmm_map_page, the frame of a at the break of s: the page is present ...
AtBreakOf(s, a) == IF a.ret = NULL THEN a ELSE KvmmMapPage(a, <<"heap", s.brk>>, a.ret)

\* ... or was not when it was tested, and its entry is overwritten.
OverBreakOf(s, a) ==
    IF a.ret = NULL THEN a
    ELSE Ok([a EXCEPT !.tabs[Table(a, "heap")][s.brk] = [frame |-> a.ret, user |-> FALSE], !.brk = @ + 1])

\* The step had mapped its page and not moved the break: the system call found
\* the page present, and lost its frame.
BreakDue(s) ==
    Then(Kmalloc(s), LAMBDA a : IF a.ret = NULL THEN a ELSE Ok(KpmmAllocPages(a, 1)))

\* kmalloc: a block found free is taken twice; if there was none, a new one is
\* made where the break was.
KmallocOvertaken(m, s) ==
    IF s.spare > 0 THEN {Ok(m)}
    ELSE {AtBreakOf(s, KpmmAllocPages(m, 1)), AtBreakOf(s, AllocOvertaken(m, s, 1)),
          OverBreakOf(s, KpmmAllocPages(m, 1)), BreakDue(s)}

HeapTaken(s) == s.spare # mem.spare \/ s.brk # mem.brk
FramesTaken(s) == s.free # mem.free

\* kprocess_create and ktask_create, in kmalloc.
ProcessOvertaken(s) ==
    /\ InShell("idle") /\ HeapTaken(s)
    /\ \E a \in KmallocOvertaken(mem, s), e \in Entries : Step(a, [Idle EXCEPT !.pc = "task", !.entry = e])
TaskOvertaken(s) ==
    /\ InShell("task") /\ HeapTaken(s)
    /\ \E a \in KmallocOvertaken(mem, s) : Step(a, [make EXCEPT !.pc = "kstack"])
TaskStackOvertaken(s) ==
    /\ InShell("kstack") /\ HeapTaken(s)
    /\ \E a \in KmallocOvertaken(mem, s) :
         Step(IF a.ret = NULL THEN Fault(a) ELSE a, [make EXCEPT !.pc = "pd"])

\* alloc_page_directory, map_stub_user_page and map_user_stack, in kpmm_alloc_pages.
\* Under EntriesAssumption map_entry_if_kernel allocates nothing.
DirectoryOvertaken(s) ==
    /\ InShell("pd") /\ FramesTaken(s)
    /\ \E a \in {AllocOvertaken(mem, s, 1)} : DirectoryIn(a)
StubOvertaken(s) ==
    /\ InShell("stub") /\ FramesTaken(s)
    /\ \E a \in {AllocOvertaken(mem, s, 1)} :
         \E b \in {IF a.ret = NULL THEN a ELSE CopyInto(a, make.pd, Stubs[1], a.ret)} : StubIn(b)
StackOvertaken(s) ==
    /\ InShell("stack") /\ FramesTaken(s)
    /\ \/ \E a \in {AllocOvertaken(mem, s, STACK_PAGES)} :
            \E b \in {IF a.ret = NULL THEN a ELSE KpmmAllocPages(a, 1)} : StackIn(a, b)
       \/ \E a \in {KpmmAllocPages(mem, STACK_PAGES)} :
            \E b \in {IF a.ret = NULL THEN a ELSE AllocOvertaken(a, s, 1)} : StackIn(a, b)

----------------------------------------------------------------------------
(* Running                                                                 *)

Running(p) == boot.pc = "up" /\ ~mem.fault /\ p \in procs /\ mem.cr3 = p.pd /\ ~p.zombie

\* A tick loads the directory of the task it picks (Scheduler.tla).
TickTo(d) ==
    /\ boot.pc = "up" /\ ~mem.fault /\ mem.cr3 # d
    /\ mem' = [mem EXCEPT !.cr3 = d] /\ UNCHANGED <<boot, make, procs>>

\* Mutant: a task that has ended is never switched away from.
TickToShellAlive == (\A p \in procs : p.pd = mem.cr3 => ~p.zombie) /\ TickTo(mem.kdir)

TickToShell == TickTo(mem.kdir)
TickToProcess == \E p \in procs : ~p.zombie /\ TickTo(p.pd)

\* A system call allocates, in the address space of its process; within a step of
\* the creation, what that saw is kept.
SyscallKmalloc(p) ==
    /\ Running(p) /\ mem' = Fail(Kmalloc(mem)) /\ UNCHANGED <<boot, make, procs, inside>>
    /\ seen' = IF inside /\ seen = {} THEN {mem} ELSE seen

\* ktask_exit frees nothing.
KtaskExit(p) ==
    /\ Running(p) /\ procs' = (procs \ {p}) \cup {[p EXCEPT !.zombie = TRUE]}
    /\ UNCHANGED <<boot, mem, make>>

Halted == (boot.pc = "panic" \/ mem.fault) /\ UNCHANGED svars
Prompt == InShell("idle") /\ UNCHANGED svars

Boot == KearlyMallocInit \/ KpmmInit \/ KvmmInit \/ KvmmDisableIdentityMapping
        \/ KmallocInit \/ KprocessKernelInit
Create == \/ KprocessTask \/ KprocessTaskStack \/ AllocPageDirectory \/ CloneKernelHighHalf \/ MapStubUserPage
          \/ MapSyscall \/ MapEntry \/ MapUserStack \/ SetupInitialStack

Overtaken(s) == \/ ProcessOvertaken(s) \/ TaskOvertaken(s) \/ TaskStackOvertaken(s)
                \/ DirectoryOvertaken(s) \/ StubOvertaken(s) \/ StackOvertaken(s)

\* A step ended on what it had read before a system call.  What the kernel does
\* with the frames it then has is not followed.
Astray == seen # {} /\ ~inside

\* The shell's task begins a step of kprocess_create, and ends it: as a whole, if
\* no system call came between what it reads and what it stores, or overtaken.
StepBegins ==
    /\ InShell(make.pc) /\ ~inside /\ inside' = TRUE
    /\ (make.pc = "idle" => Cardinality(procs) < MaxProcs) /\ UNCHANGED <<mem, make, procs, seen>>
StepEnds ==
    /\ inside /\ inside' = FALSE /\ seen' = {}
    /\ Create \/ \E e \in Entries : KprocessCreate(e)
StepEndsOvertaken == inside /\ inside' = FALSE /\ UNCHANGED seen /\ \E s \in seen : Overtaken(s)

\* Between the steps of the shell's task, or within one.
Between ==
    /\ UNCHANGED <<inside, seen>>
    /\ Boot \/ TickToShell \/ TickToProcess \/ (\E p \in procs : KtaskExit(p)) \/ Halted \/ Prompt

SpacesNext ==
    \/ ~Astray /\ (StepBegins \/ StepEnds \/ StepEndsOvertaken \/ Between
                    \/ \E p \in procs : SyscallKmalloc(p))
    \/ Astray /\ UNCHANGED vars

\* Ticks come round to the shell's task (Scheduler.tla), which then goes on.
SpacesSpec ==
    /\ SpacesInit /\ [][SpacesNext]_vars
    /\ WF_vars(~Astray /\ TickToShell /\ UNCHANGED <<inside, seen>>)
    /\ SF_vars(make.pc # "idle" /\ StepBegins) /\ SF_vars(StepEnds)

----------------------------------------------------------------------------
(* What is checked                                                         *)

Started == mem.kdir # NULL

\* Types; between calls no answer is pending, and the heap stays within its
\* limit and its table, unless a kmalloc is overtaken.
SpacesTypeOK ==
    /\ mem.ret = NULL /\ (Astray \/ mem.brk <= KERNEL_HEAP_PAGES) /\ mem.spare \in 0 .. mem.brk
    /\ \A d \in DOMAIN mem.dirs : DOMAIN mem.dirs[d] = Pdes
    /\ \A t \in DOMAIN mem.tabs : DOMAIN mem.tabs[t] = 0 .. PTES - 1
    /\ Started => mem.cr3 \in {mem.kdir} \cup {p.pd : p \in procs}
    /\ make.pc \in {"idle", "task", "kstack", "pd", "clone", "stub", "syscall", "entry", "stack", "init"}
    /\ make.pd \in DOMAIN mem.dirs \cup {NULL}

\* What the early allocator gives out lies inside it and apart, and the kernel's
\* directory and tables are three of its areas, each starting on a page.
EarlyAreasApart ==
    /\ \A a \in boot.areas : EARLY_START <= a.at /\ a.at + a.len <= EARLY_START + KEARLY_SIZE
    /\ \A a, b \in boot.areas : a # b => a.at + a.len <= b.at \/ b.at + b.len <= a.at
    /\ Started => \A d \in {mem.kdir, mem.kdir + 1, mem.kdir + 2} :
                    [at |-> d * PAGE, len |-> PAGE] \in boot.areas

Dirs == {mem.kdir} \cup {p.pd : p \in procs} \cup ({make.pd} \ {NULL})

\* The frames an address space is made of, and those it shares with no other.
Tables(d) == {mem.dirs[d][e].table : e \in Pdes} \ {NULL}
Pages(d, pde) == {PageIn(mem, d, <<pde, i>>).frame : i \in 0 .. PTES - 1} \ {-1}
Own(d) == (({d} \cup Tables(d)) \ Tables(mem.kdir)) \cup Pages(d, "stack")
HeapFrames == Pages(mem.kdir, "heap")
Reached == IF Started THEN Tables(mem.kdir) \cup HeapFrames \cup UNION {Own(d) : d \in Dirs} ELSE {}

\* No frame has two uses: free ones are in no address space, the directory, the
\* tables and the stack of a process are its own, and each page of the heap has
\* a frame to itself.
NoFrameTwice ==
    /\ mem.free \cap Reached = {}
    /\ Started =>
         /\ \A c, d \in Dirs \ {mem.kdir} : c # d => Own(c) \cap Own(d) = {}
         /\ \A d \in Dirs \ {mem.kdir} :
              /\ Own(d) \cap (HeapFrames \cup Tables(mem.kdir)) = {}
              /\ Tables(d) \cap Pages(d, "stack") = {}
         /\ Cardinality(HeapFrames) = mem.brk

\* So it is until a search for a frame is overtaken.
FramesExclusive == Astray \/ NoFrameTwice

\* A process may touch, in ring 3, the pages of the stubs, of the system call,
\* of its entry and of its stack, and no other; these show what they should.
UserSeesOnlyItsOwn ==
    \A p \in procs :
      LET open == {va \in Pdes \X (0 .. PTES - 1) :
                     mem.dirs[p.pd][va[1]].user /\ PageIn(mem, p.pd, va).user}
      IN  /\ open = {Stubs, Syscall, p.entry} \cup StackVas
          /\ \A va \in open \ StackVas : PageIn(mem, p.pd, va).frame = PageIn(mem, mem.kdir, va).frame
          /\ {PageIn(mem, p.pd, va).frame : va \in StackVas} = p.stack .. p.stack + STACK_PAGES - 1

\* Whoever grows the heap, in whatever address space, all others see the page:
\* a directory, once cloned, has the kernel's tables and itself as last entry.  An
\* overtaken kmalloc may move the break past a page that is not mapped.
KernelSharedByAll ==
    Started => \A d \in Dirs : (make.pc = "clone" /\ d = make.pd) \/
      /\ mem.dirs[d]["self"].table = d
      /\ \A e \in {"heap", "windows"} : mem.dirs[d][e] = mem.dirs[mem.kdir][e]
      /\ Astray \/ HeapSeen(mem, d)

\* The kernel ends for want of memory only: no frame left that PHYS_TO_VIRT
\* reaches, a heap at its limit, or no run of frames for a stack.  Whatever
\* address space a tick or a system call leaves, the tables and the heap are
\* where the code looks for them.
EndsForWantOfMemory ==
    mem.fault => \/ mem.brk = KERNEL_HEAP_PAGES
                 \/ \A f \in mem.free : f >= mem.low
                 \/ Runs(mem.free, STACK_PAGES) = {}

\* So it is until a kmalloc is overtaken.
FaultMeansNoMemory == Astray \/ EndsForWantOfMemory

GivenUp == make.pc # "idle" /\ make'.pc = "idle" /\ procs' = procs

\* Frames are lost by a creation given up half-way, by a fault and by a panic,
\* and by nothing that goes on; and a creation is given up for want of memory
\* only, with no frame at all or a heap at its limit, never because an earlier
\* one left something behind.
FramesLostByGivingUp ==
    [][Astray' \/
       /\ {f \in mem.free \cup Reached : f >= FirstFrame} \subseteq (mem'.free \cup Reached')
          \/ GivenUp \/ mem'.fault \/ boot'.pc = "panic"
       /\ GivenUp => mem'.fault \/ mem.brk = KERNEL_HEAP_PAGES \/ mem'.free = {}]_vars

\* A creation that was started ends, whatever the processes made before it do.
CreationEnds == (make.pc # "idle") ~> (make.pc = "idle" \/ mem.fault \/ Astray)
=============================================================================
