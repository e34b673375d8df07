---------------------------- MODULE SpacesLemmas ----------------------------
(***************************************************************************)
(* Lemmas about AddressSpaces, for every size of page, table, heap and     *)
(* stack: what is known of a memory (World), and what each call of the     *)
(* kernel's keeps of it.  SpacesProofs has the invariant and the theorems. *)
(***************************************************************************)
EXTENDS AddressSpaces, TLAPS, WellFoundedInduction, FiniteSetTheorems
\* No frame is left that PHYS_TO_VIRT reaches, the heap is at its limit, or there
\* is no room for a stack.
NoMem(m) ==
    \/ m.brk = KERNEL_HEAP_PAGES \/ \A f \in m.free : f >= m.low
    \/ Runs(m.free, STACK_PAGES) = {}

\* Entries of directories and of tables.
PdEntry == [table : Nat, user : BOOLEAN]
PtEntry == [frame : Int, user : BOOLEAN]

\* A memory is a record of these ten fields.
IsMem(m) ==
    m = [free |-> m.free, low |-> m.low, dirs |-> m.dirs, tabs |-> m.tabs, cr3 |-> m.cr3,
         kdir |-> m.kdir, brk |-> m.brk, spare |-> m.spare, ret |-> m.ret, fault |-> m.fault]

\* Its fields have their types, and free frames lie behind the early allocator.
Typed(m) ==
    /\ IsMem(m)
    /\ m.free \subseteq Nat /\ \A f \in m.free : f >= FirstFrame
    /\ m.low \in Nat
    /\ m.brk \in 0 .. KERNEL_HEAP_PAGES /\ m.spare \in 0 .. m.brk
    /\ m.fault \in BOOLEAN
    /\ DOMAIN m.dirs \subseteq Nat \ {NULL} /\ DOMAIN m.tabs \subseteq Nat \ {NULL}
    /\ \A d \in DOMAIN m.dirs : m.dirs[d] \in [Pdes -> PdEntry]
    /\ \A t \in DOMAIN m.tabs : m.tabs[t] \in [0 .. PTES - 1 -> PtEntry]

\* The tables the heap and the windows have in the kernel's directory.
HeapTable(m) == m.dirs[m.kdir]["heap"].table
WindowTable(m) == m.dirs[m.kdir]["windows"].table

\* The frames of the heap.
HeapFr(m) == IF HeapTable(m) = NULL THEN {}
             ELSE {m.tabs[HeapTable(m)][i].frame : i \in 0 .. m.brk - 1}

\* The frames that are a directory, a table or a page of the heap.
Used(m) == DOMAIN m.dirs \cup DOMAIN m.tabs \cup HeapFr(m)

\* The kernel's directory and what it leads to.
KernelDir(m) ==
    /\ m.kdir \in Nat \ {NULL} /\ m.kdir + 2 < FirstFrame /\ m.kdir \in DOMAIN m.dirs
    /\ m.kdir + 1 \in DOMAIN m.tabs /\ m.kdir + 2 \in DOMAIN m.tabs
    /\ \A d \in DOMAIN m.dirs : d = m.kdir \/ d >= FirstFrame
    /\ \A t \in DOMAIN m.tabs : t \in {m.kdir + 1, m.kdir + 2} \/ t >= FirstFrame
    /\ m.dirs[m.kdir]["self"] = [table |-> m.kdir, user |-> FALSE]
    /\ m.dirs[m.kdir]["image"] = [table |-> m.kdir + 2, user |-> FALSE]
    /\ m.dirs[m.kdir]["identity"] \in {NoTable, [table |-> m.kdir + 1, user |-> FALSE]}
    /\ m.dirs[m.kdir]["stack"] = NoTable
    /\ \A e \in {"heap", "windows"} :
         /\ m.dirs[m.kdir][e].user = FALSE
         /\ m.dirs[m.kdir][e].table # NULL =>
              m.dirs[m.kdir][e].table \in DOMAIN m.tabs /\ m.dirs[m.kdir][e].table >= FirstFrame
    /\ HeapTable(m) # NULL => HeapTable(m) # WindowTable(m)
    /\ m.tabs[m.kdir + 2] = Identity

\* The heap is mapped up to its break, each page to a frame of its own.
HeapMapped(m) ==
    /\ HeapTable(m) = NULL => m.brk = 0
    /\ HeapTable(m) # NULL =>
         /\ \A i \in m.brk .. PTES - 1 : m.tabs[HeapTable(m)][i] = NoPage
         /\ \A i \in 0 .. m.brk - 1 : m.tabs[HeapTable(m)][i].frame >= FirstFrame
         /\ \A i, j \in 0 .. m.brk - 1 :
              m.tabs[HeapTable(m)][i].frame = m.tabs[HeapTable(m)][j].frame => i = j

\* No frame is free and used, or used as two of directory, table and page.
Apart(m) ==
    /\ m.free \cap Used(m) = {}
    /\ DOMAIN m.dirs \cap DOMAIN m.tabs = {}
    /\ HeapFr(m) \cap (DOMAIN m.dirs \cup DOMAIN m.tabs) = {}

\* What the kernel's own part of the memory always has.
Kernel(m) == Typed(m) /\ KernelDir(m) /\ HeapMapped(m) /\ Apart(m)

\* cr3 holds a directory that leads to itself and to the kernel's heap.
Seen(m) ==
    /\ m.cr3 \in DOMAIN m.dirs /\ m.dirs[m.cr3]["self"].table = m.cr3
    /\ m.cr3 # m.kdir => /\ m.dirs[m.cr3]["heap"] = m.dirs[m.kdir]["heap"]
                         /\ HeapTable(m) # NULL

\* A directory all of whose entries are empty.
Fresh(m, d) == d \in DOMAIN m.dirs \ {m.kdir} /\ m.dirs[d] = [e \in Pdes |-> NoTable]

\* A table of a process: no other entry of it or of the kernel leads to it.
OwnTable(m, t) ==
    t \in DOMAIN m.tabs /\ t \notin {m.kdir + 1, m.kdir + 2, HeapTable(m), WindowTable(m)}

\* A directory that shares the kernel's half.
Cloned(m, d) ==
    /\ d \in DOMAIN m.dirs \ {m.kdir}
    /\ m.dirs[d]["self"] = [table |-> d, user |-> FALSE]
    /\ m.dirs[d]["identity"] = NoTable
    /\ m.dirs[d]["heap"] = m.dirs[m.kdir]["heap"] /\ HeapTable(m) # NULL
    /\ m.dirs[d]["windows"] = m.dirs[m.kdir]["windows"] /\ WindowTable(m) # NULL
    /\ \/ m.dirs[d]["image"] = m.dirs[m.kdir]["image"]
       \/ m.dirs[d]["image"].user /\ OwnTable(m, m.dirs[d]["image"].table)
    /\ \/ m.dirs[d]["stack"] = NoTable
       \/ /\ m.dirs[d]["stack"].user /\ OwnTable(m, m.dirs[d]["stack"].table)
          /\ m.dirs[d]["stack"].table # m.dirs[d]["image"].table

\* The frames of the stack of a directory, and all that only it leads to.
StackFr(m, d) ==
    IF m.dirs[d]["stack"].table = NULL THEN {}
    ELSE {m.tabs[m.dirs[d]["stack"].table][i].frame : i \in 0 .. PTES - 1} \ {-1}
Private(m, d) ==
    {d} \cup ({m.dirs[d]["image"].table, m.dirs[d]["stack"].table} \ {NULL, m.kdir + 2})
        \cup StackFr(m, d)

\* The directories of D lead to nothing in common but the kernel's tables.
Disjoint(m, D) ==
    /\ \A d \in D : StackFr(m, d) \cap (m.free \cup Used(m)) = {}
    /\ \A c, d \in D : c # d => Private(m, c) \cap Private(m, d) = {}

\* Tables of the image, open to the user in the pages S, and of a stack in the
\* frames from base on.
StackBottom == StackTop - STACK_PAGES + 1
ImageOf(S) == [i \in 0 .. PTES - 1 |-> [frame |-> i, user |-> i \in S]]
StackOf(base) ==
    [i \in 0 .. PTES - 1 |-> IF i \in StackBottom .. StackTop
                             THEN [frame |-> base + i - StackBottom, user |-> TRUE] ELSE NoPage]

\* The directory d has a table of the image of its own, open to the user in the
\* pages S.
Opened(m, d, S) ==
    /\ m.dirs[d]["image"].table \notin {NULL, m.kdir + 2}
    /\ m.tabs[m.dirs[d]["image"].table] = ImageOf(S)

\* The directory d has a stack in the frames from base on.
Stacked(m, d, base) ==
    /\ base \in Nat /\ base >= FirstFrame
    /\ m.dirs[d]["stack"].table # NULL
    /\ m.tabs[m.dirs[d]["stack"].table] = StackOf(base)

\* The directories of the processes, the one being made included.
UserDirs(k, P) == {p.pd : p \in P} \cup ({k.pd} \ {NULL})

\* The steps with a directory.
Making == {"clone", "stub", "syscall", "entry", "stack", "init"}

\* How far the creation k of a process has come, beside the processes P.
MakeOK(m, k, P) ==
    /\ k = [pc |-> k.pc, pd |-> k.pd, stub |-> k.stub, stack |-> k.stack, entry |-> k.entry]
    /\ k.pc \in {"idle", "task", "kstack", "pd"} \cup Making
    /\ k.pc # "idle" => m.spare < m.brk /\ k.entry \in Entries
    /\ k.pc \notin Making => k.pd = NULL
    /\ k.pc \in Making => WindowTable(m) # NULL /\ k.pd # NULL /\ \A p \in P : p.pd # k.pd
    /\ k.pc = "clone" => Fresh(m, k.pd)
    /\ k.pc \in Making \ {"clone"} => Cloned(m, k.pd)
    /\ k.pc = "stub" => m.dirs[k.pd]["image"].table = m.kdir + 2
    /\ k.pc \in {"syscall", "entry", "stack", "init"} => m.dirs[k.pd]["image"].table = k.stub
    /\ k.pc = "syscall" => Opened(m, k.pd, {0})
    /\ k.pc = "entry" => Opened(m, k.pd, {0, 1})
    /\ k.pc \in {"stack", "init"} => Opened(m, k.pd, {0, 1, k.entry[2]})
    /\ k.pc \in {"stub", "syscall", "entry", "stack"} => m.dirs[k.pd]["stack"] = NoTable
    /\ k.pc = "init" => Stacked(m, k.pd, k.stack)

\* A process has all that kprocess_create_user builds.
ProcOK(m, p) ==
    /\ p = [pd |-> p.pd, stack |-> p.stack, entry |-> p.entry, zombie |-> p.zombie]
    /\ p.entry \in Entries /\ Cloned(m, p.pd)
    /\ Opened(m, p.pd, {0, 1, p.entry[2]}) /\ Stacked(m, p.pd, p.stack)

\* The memory m while k is made and the processes P run.
World(m, k, P) ==
    /\ Kernel(m) /\ (m.fault => NoMem(m)) /\ m.cr3 \in {m.kdir} \cup {p.pd : p \in P}
    /\ MakeOK(m, k, P) /\ (\A p \in P : ProcOK(m, p)) /\ Disjoint(m, UserDirs(k, P))
    /\ \A p, q \in P : p.pd = q.pd => p = q

\* The early allocator: the areas lie below the cursor, apart.
EarlyOK(b) ==
    /\ b = [pc |-> b.pc, cur |-> b.cur, end |-> b.end, avail |-> b.avail, areas |-> b.areas]
    /\ b.pc \in {"early", "pmm", "vmm", "identity", "heap", "kernel", "up", "panic"}
    /\ b.cur \in Nat /\ b.end \in Nat
    /\ b.pc = "early" => b.areas = {}
    /\ b.pc # "early" => b.end = EARLY_START + KEARLY_SIZE /\ EARLY_START <= b.cur
    /\ b.pc = "vmm" => b.cur > 0
    /\ \A a \in b.areas : /\ a.at \in Nat /\ a.len \in Nat /\ a.len > 0
                          /\ EARLY_START <= a.at /\ a.at + a.len <= b.cur
    /\ b.cur <= b.end
    /\ \A a, c \in b.areas : a # c => a.at + a.len <= c.at \/ c.at + c.len <= a.at

\* Before kvmm_init there is nothing but free frames.
Bare(m, k, P) ==
    /\ Typed(m) /\ m.dirs = <<>> /\ m.tabs = <<>> /\ m.cr3 = NULL
    /\ m.brk = 0 /\ m.fault = FALSE
    /\ k = Idle /\ P = {}

\* The inductive invariant.
SpacesInv ==
    /\ EarlyOK(boot) /\ mem.ret = NULL
    /\ IF Started THEN World(mem, make, procs) ELSE Bare(mem, make, procs)
    /\ Started => \A d \in {mem.kdir, mem.kdir + 1, mem.kdir + 2} :
                    [at |-> d * PAGE, len |-> PAGE] \in boot.areas
    /\ boot.pc \in {"early", "pmm", "vmm"} => ~Started
    /\ boot.pc \in {"identity", "heap", "kernel", "up"} => Started
    /\ boot.pc # "up" => make = Idle /\ procs = {} /\ mem.cr3 = mem.kdir
    /\ boot.pc \in {"identity", "heap"} =>
          mem.brk = 0 /\ HeapTable(mem) = NULL /\ WindowTable(mem) = NULL
    /\ boot.pc \in {"kernel", "up"} => HeapTable(mem) # NULL

\* What the kernel's calls do to a memory m: they take frames, and change no
\* directory but the kernel's, where an empty entry may get a table, and no
\* table but those of the heap and the windows.
Grows(m, n) ==
    /\ n.kdir = m.kdir /\ n.cr3 = m.cr3 /\ n.low = m.low
    /\ n.free \subseteq m.free
    /\ m.brk <= n.brk /\ m.brk - m.spare <= n.brk - n.spare
    /\ n.fault => m.fault \/ NoMem(n)
    /\ DOMAIN n.dirs = DOMAIN m.dirs
    /\ \A d \in DOMAIN m.dirs \ {m.kdir} : n.dirs[d] = m.dirs[d]
    /\ \A e \in Pdes : \/ n.dirs[m.kdir][e] = m.dirs[m.kdir][e]
                       \/ /\ e \in {"heap", "windows"} /\ m.dirs[m.kdir][e].table = NULL
                          /\ n.dirs[m.kdir][e].table \notin DOMAIN m.tabs
    /\ DOMAIN m.tabs \subseteq DOMAIN n.tabs
    /\ \A t \in DOMAIN m.tabs \ {HeapTable(m), WindowTable(m)} : n.tabs[t] = m.tabs[t]
    /\ Used(n) \subseteq Used(m) \cup m.free

----------------------------------------------------------------------------
\* The minimum of a nonempty set of naturals is its least element.
LEMMA LeastIn ==
    ASSUME NEW S, S \subseteq Nat, S # {}
    PROVE  Min(S) \in S /\ \A y \in S : Min(S) =< y
<1>1. PICK x \in S : \A y \in S : ~(<<y, x>> \in OpToRel(<, Nat))
  BY WFMin, NatLessThanWellFounded
<1>2. ASSUME NEW y \in S PROVE x =< y
  <2>1. ~(y < x)
    BY <1>1 DEF OpToRel
  <2> QED BY <2>1
<1>3. \E z \in S : \A y \in S : z =< y
  BY <1>2
<1> QED BY <1>3 DEF Min

\* The first frame kpmm_init frees is not frame 0.
LEMMA FirstFramePositive == FirstFrame \in Nat \ {0}
  BY SpacesAssumption DEF FirstFrame

\* The numbers of the model.
LEMMA Numbers ==
    /\ PTES \in Nat /\ PTES >= 3 /\ KERNEL_HEAP_PAGES \in Nat
    /\ KERNEL_HEAP_PAGES >= 1 /\ KERNEL_HEAP_PAGES <= PTES
    /\ STACK_PAGES \in Nat /\ STACK_PAGES >= 1 /\ STACK_PAGES <= PTES - 2
  BY SpacesAssumption

\* n is m but for its free frames and its answer.
SameButFrames(m, n) ==
    /\ n = [m EXCEPT !.free = n.free, !.ret = n.ret]
    /\ n.low = m.low /\ n.dirs = m.dirs /\ n.tabs = m.tabs /\ n.cr3 = m.cr3 /\ n.kdir = m.kdir
    /\ n.brk = m.brk /\ n.spare = m.spare /\ n.fault = m.fault

\* Runs of fewer frames, or of a smaller set.
LEMMA RunsLess ==
    ASSUME NEW S, NEW T, S \subseteq T, NEW n, Runs(T, n) = {}
    PROVE  Runs(S, n) = {}
  BY DEF Runs

\* The n frames from r are marked.
Marked(m, r, n) == [m EXCEPT !.free = m.free \ (r .. (r + n - 1)), !.ret = r]

\* kpmm_alloc_pages by cases.
LEMMA AllocCases ==
    ASSUME NEW m, NEW n, NEW R, R = Runs(m.free, n), NEW r, r = Min(R), NEW a, a = KpmmAllocPages(m, n)
    PROVE  a = IF m.free = {} THEN Fail(m)
               ELSE IF R = {} THEN Fault(m)
               ELSE Marked(m, r, n)
<1>1. Then(Min(R), LAMBDA f : [m EXCEPT !.free = @ \ (f .. f + n - 1), !.ret = f]) = Marked(m, r, n)
  BY DEF Then, Marked
<1> QED BY <1>1 DEF KpmmAllocPages

\* Without an answer, it has failed or panicked.
LEMMA AllocFails ==
    ASSUME NEW m, Typed(m), NEW n \in Nat \ {0}, NEW a, a = KpmmAllocPages(m, n), a.ret = NULL
    PROVE  \/ m.free = {} /\ a = Fail(m)
           \/ m.free # {} /\ Runs(m.free, n) = {} /\ a = Fault(m)
<1> PICK runs : runs = Runs(m.free, n)
  OBVIOUS
<1> PICK r : r = Min(runs)
  OBVIOUS
<1>1. a = IF m.free = {} THEN Fail(m)
          ELSE IF runs = {} THEN Fault(m)
          ELSE Marked(m, r, n)
  <2>1. runs = Runs(m.free, n) /\ r = Min(runs) /\ a = KpmmAllocPages(m, n)
    OBVIOUS
  <2> QED BY ONLY <2>1, AllocCases
<1>2. CASE m.free # {} /\ runs # {}
  <2>1. runs \subseteq Nat /\ \A f \in runs : f >= FirstFrame
    BY DEF Typed, Runs
  <2>2. r \in runs
    BY <1>2, <2>1, LeastIn
  <2>3. a.ret = r
    BY <1>1, <1>2 DEF Typed, IsMem, Marked
  <2> QED BY <2>1, <2>2, <2>3, FirstFramePositive DEF NULL
<1> QED BY <1>1, <1>2

\* One frame is a run.
LEMMA RunOfOne ==
    ASSUME NEW S PROVE Runs(S, 1) = S
<1>1. 1 .. 1 - 1 = {}
  OBVIOUS
<1> QED BY <1>1 DEF Runs

\* kpmm_alloc_pages: frames that were free, or none.
LEMMA AllocIs ==
    ASSUME NEW m, Typed(m), NEW n \in Nat \ {0}, NEW a, a = KpmmAllocPages(m, n), n = 1 \/ a.ret # NULL
    PROVE  /\ Typed(a) /\ SameButFrames(m, a) /\ a.ret \in Nat /\ a.free \subseteq m.free
           /\ a.ret = NULL => a.free = m.free /\ (n = 1 => m.free = {})
           /\ a.ret # NULL => /\ a.ret >= FirstFrame
                              /\ a.ret .. (a.ret + n - 1) \subseteq m.free
                              /\ a.free = m.free \ (a.ret .. (a.ret + n - 1))
                              /\ n = 1 => \A f \in m.free : a.ret <= f
<1> DEFINE runs == {f \in m.free : \A i \in 1 .. n - 1 : f + i \in m.free}
<1>0. m.free \subseteq Nat /\ \A f \in m.free : f >= FirstFrame
  BY DEF Typed, IsMem
<1>1. CASE a.ret = NULL
  <2>0. n = 1 /\ m.free = {} /\ a = Fail(m)
    BY <1>1, AllocFails, RunOfOne
  <2>1. a = [m EXCEPT !.ret = NULL]
    BY <2>0 DEF Fail
  <2>2. a.free = m.free /\ a.ret = NULL
    BY <2>1 DEF Typed, IsMem
  <2>3. n = 1 => m.free = {}
    BY <2>0
  <2>4. Typed(a) /\ SameButFrames(m, a)
    BY <2>1 DEF Typed, IsMem, SameButFrames
  <2> QED BY <2>2, <2>3, <2>4 DEF NULL
<1>2. CASE a.ret # NULL
  <2> PICK r : r = Min(runs)
    OBVIOUS
  <2>0. runs # {} /\ a = [m EXCEPT !.free = m.free \ (r .. (r + n - 1)), !.ret = r]
    <3>1. Runs(m.free, n) = runs
      BY DEF Runs
    <3>2. a = IF m.free = {} THEN Fail(m) ELSE IF runs = {} THEN Fault(m)
              ELSE Marked(m, r, n)
      <4> PICK R : R = runs
        OBVIOUS
      <4>1. R = Runs(m.free, n) /\ r = Min(R) /\ a = KpmmAllocPages(m, n)
        BY <3>1
      <4>2. a = IF m.free = {} THEN Fail(m) ELSE IF R = {} THEN Fault(m) ELSE Marked(m, r, n)
        BY ONLY <4>1, AllocCases
      <4> QED BY <4>2
    <3>3. Fail(m).ret = NULL /\ Fault(m).ret = NULL
      BY DEF Fail, Fault, Typed, IsMem
    <3> QED BY <1>2, <3>2, <3>3 DEF Marked
  <2>1. r \in runs /\ \A f \in runs : r <= f
    BY <1>0, <2>0, LeastIn
  <2>2. a = [m EXCEPT !.free = m.free \ (r .. (r + n - 1)), !.ret = r]
    BY <2>0
  <2>3. r \in Nat /\ r >= FirstFrame /\ r # NULL
    BY <1>0, <2>1, FirstFramePositive DEF NULL
  <2>4. r .. (r + n - 1) \subseteq m.free
    <3> SUFFICES ASSUME NEW x \in r .. (r + n - 1) PROVE x \in m.free
      OBVIOUS
    <3>1. CASE x = r
      BY <2>1, <3>1
    <3>2. CASE x # r
      <4>1. x - r \in 1 .. n - 1 /\ r + (x - r) = x
        BY <2>3, <3>2
      <4> QED BY <2>1, <4>1
    <3> QED BY <3>1, <3>2
  <2>5. n = 1 => \A f \in m.free : r <= f
    BY <2>1
  <2>6. a.free = m.free \ (r .. (r + n - 1)) /\ a.ret = r
    BY <2>2 DEF Typed, IsMem
  <2>7. Typed(a) /\ SameButFrames(m, a)
    <3>1. SameButFrames(m, a)
      BY <2>2, <2>6 DEF Typed, IsMem, SameButFrames
    <3>2. IsMem(a)
      BY <2>2 DEF Typed, IsMem
    <3> QED BY <1>0, <2>6, <3>1, <3>2 DEF Typed, IsMem, SameButFrames
  <2> QED BY <2>3, <2>4, <2>5, <2>6, <2>7
<1> QED BY <1>1, <1>2

\* Taking frames keeps what is known of the kernel's memory.
LEMMA AllocGrows ==
    ASSUME NEW m, Kernel(m), NEW n \in Nat \ {0}, NEW a, a = KpmmAllocPages(m, n), n = 1 \/ a.ret # NULL
    PROVE  Kernel(a) /\ Grows(m, a) /\ Used(a) = Used(m)
<1>1. Typed(a) /\ SameButFrames(m, a) /\ a.free \subseteq m.free
  BY AllocIs DEF Kernel
<1>2. HeapTable(a) = HeapTable(m) /\ WindowTable(a) = WindowTable(m) /\ Used(a) = Used(m)
      /\ HeapFr(a) = HeapFr(m)
  BY <1>1 DEF HeapTable, WindowTable, HeapFr, Used, SameButFrames
<1>3. KernelDir(a)
  BY <1>1, <1>2 DEF Kernel, KernelDir, SameButFrames
<1>4. HeapMapped(a)
  BY <1>1, <1>2 DEF Kernel, HeapMapped, SameButFrames
<1>5. Apart(a)
  BY <1>1, <1>2 DEF Kernel, Apart, SameButFrames
<1>6. Grows(m, a)
  BY <1>1, <1>2 DEF Grows, SameButFrames, Kernel, Typed, IsMem
<1> QED BY <1>1, <1>2, <1>3, <1>4, <1>5, <1>6 DEF Kernel

\* An answer is no part of the memory.
LEMMA AnswerGrows ==
    ASSUME NEW m, Kernel(m), NEW r, NEW n, n = [m EXCEPT !.ret = r]
    PROVE  /\ Kernel(n) /\ Grows(m, n) /\ n.ret = r /\ SameButFrames(m, n)
           /\ n.free = m.free /\ Used(n) = Used(m)
<1>1. Typed(n) /\ SameButFrames(m, n) /\ n.free = m.free /\ n.ret = r
  BY DEF Kernel, Typed, IsMem, SameButFrames
<1>2. HeapTable(n) = HeapTable(m) /\ WindowTable(n) = WindowTable(m) /\ Used(n) = Used(m)
      /\ HeapFr(n) = HeapFr(m)
  BY ONLY <1>1 DEF HeapTable, WindowTable, HeapFr, Used, SameButFrames
<1>3. KernelDir(n)
  BY <1>1, <1>2 DEF Kernel, KernelDir, SameButFrames
<1>4. HeapMapped(n) /\ Apart(n)
  BY <1>1, <1>2 DEF Kernel, HeapMapped, Apart, SameButFrames
<1>6. Grows(m, n)
  BY <1>1, <1>2 DEF Grows, SameButFrames, Kernel, Typed, IsMem
<1> QED BY <1>1, <1>2, <1>3, <1>4, <1>6 DEF Kernel

\* One call after another.
LEMMA GrowsOn ==
    ASSUME NEW m, NEW n, NEW o, Kernel(m), Kernel(n), Kernel(o), Grows(m, n), Grows(n, o)
    PROVE  Grows(m, o)
<1>1. /\ o.kdir = m.kdir /\ o.cr3 = m.cr3 /\ o.low = m.low /\ o.free \subseteq m.free
      /\ DOMAIN o.dirs = DOMAIN m.dirs /\ DOMAIN m.tabs \subseteq DOMAIN o.tabs
      /\ n.kdir = m.kdir
  BY DEF Grows
<1>2. m.brk <= o.brk /\ m.brk - m.spare <= o.brk - o.spare
  BY DEF Grows, Kernel, Typed, IsMem
<1>3. o.fault => m.fault \/ NoMem(o)
  <2>1. NoMem(n) => NoMem(o)
    <3>1. Runs(n.free, STACK_PAGES) = {} => Runs(o.free, STACK_PAGES) = {}
      BY RunsLess DEF Grows
    <3> QED BY <3>1 DEF Grows, Kernel, Typed, IsMem, NoMem
  <2> QED BY <2>1 DEF Grows
<1>4. \A d \in DOMAIN m.dirs \ {m.kdir} : o.dirs[d] = m.dirs[d]
  BY DEF Grows
<1>5. \A e \in Pdes : \/ o.dirs[m.kdir][e] = m.dirs[m.kdir][e]
                      \/ /\ e \in {"heap", "windows"} /\ m.dirs[m.kdir][e].table = NULL
                         /\ o.dirs[m.kdir][e].table \notin DOMAIN m.tabs
  BY DEF Grows
<1>6. \A t \in DOMAIN m.tabs \ {HeapTable(m), WindowTable(m)} : o.tabs[t] = m.tabs[t]
  <2> TAKE t \in DOMAIN m.tabs \ {HeapTable(m), WindowTable(m)}
  <2>1. n.tabs[t] = m.tabs[t] /\ t \in DOMAIN n.tabs
    BY DEF Grows
  <2>2. ASSUME NEW e \in {"heap", "windows"}, t = n.dirs[n.kdir][e].table PROVE FALSE
    <3>1. e \in Pdes
      BY DEF Pdes
    <3>2. t # m.dirs[m.kdir][e].table
      BY <2>2 DEF HeapTable, WindowTable
    <3> QED BY <2>2, <3>1, <3>2 DEF Grows
  <2> QED BY <2>1, <2>2 DEF Grows, HeapTable, WindowTable
<1>7. Used(o) \subseteq Used(m) \cup m.free
  BY DEF Grows
<1> QED BY <1>1, <1>2, <1>3, <1>4, <1>5, <1>6, <1>7 DEF Grows

----------------------------------------------------------------------------
(* Mapping a page                                                          *)

\* A call that takes one frame and has got it.
OneFrame(m, a) ==
    /\ Typed(a) /\ SameButFrames(m, a) /\ a.ret \in m.free /\ a.ret \in Nat \ {NULL}
    /\ a.free = m.free \ {a.ret} /\ \A f \in m.free : a.ret <= f

\* kpmm_alloc_pages for one page: the lowest free frame, or none is left.
LEMMA AllocOne ==
    ASSUME NEW m, Typed(m), NEW a, a = KpmmAllocPages(m, 1)
    PROVE  /\ a.ret = NULL => a.free = m.free /\ m.free = {}
           /\ a.ret # NULL => OneFrame(m, a) /\ a.ret >= FirstFrame
<1>1. CASE a.ret # NULL
  <2>1. a.ret .. (a.ret + 1 - 1) = {a.ret}
    <3>1. a.ret \in Nat /\ 1 \in Nat \ {0}
      BY AllocIs
    <3> QED BY <3>1
  <2> QED BY <1>1, <2>1, AllocIs DEF OneFrame
<1> QED BY <1>1, AllocIs

\* The allocation in NewTable, and what it leads to.
LEMMA NewTableIs ==
    ASSUME NEW m, NEW pde, NEW a, a = KpmmAllocPages(m, 1)
    PROVE  NewTable(m, pde) =
             IF a.ret = NULL THEN a
             ELSE IF a.ret >= m.low THEN Fault(a)
             ELSE Ok([a EXCEPT !.dirs[Pd(m)][pde] = [table |-> a.ret, user |-> FALSE],
                               !.tabs = With(@, a.ret, Empty)])
  BY DEF NewTable, Then

\* A fault ends the kernel; the memory is as it was.
LEMMA FaultGrows ==
    ASSUME NEW m, Kernel(m), NoMem(m), NEW n, n = Fault(m)
    PROVE  Kernel(n) /\ Grows(m, n) /\ n.ret = NULL /\ n.brk = m.brk /\ n.spare = m.spare
<1>1. /\ n.free = m.free /\ n.low = m.low /\ n.dirs = m.dirs /\ n.tabs = m.tabs
      /\ n.cr3 = m.cr3 /\ n.kdir = m.kdir /\ n.brk = m.brk /\ n.spare = m.spare
      /\ n.ret = NULL /\ n.fault = TRUE
  BY DEF Kernel, Typed, IsMem, Fault
<1>2. Typed(n)
  <2>1. IsMem(n)
    BY DEF Kernel, Typed, IsMem, Fault
  <2> QED BY <1>1, <2>1 DEF Kernel, Typed, IsMem
<1>3. HeapTable(n) = HeapTable(m) /\ WindowTable(n) = WindowTable(m) /\ Used(n) = Used(m)
      /\ HeapFr(n) = HeapFr(m)
  BY <1>1 DEF HeapTable, WindowTable, HeapFr, Used
<1>4. KernelDir(n)
  BY <1>1, <1>3 DEF Kernel, KernelDir
<1>5. HeapMapped(n) /\ Apart(n)
  BY <1>1, <1>3 DEF Kernel, HeapMapped, Apart
<1>6. Grows(m, n)
  BY <1>1, <1>3 DEF Grows, Kernel, Typed, IsMem, NoMem
<1> QED BY <1>1, <1>2, <1>4, <1>5, <1>6 DEF Kernel

\* Memory that is short stays short.
LEMMA NoMemKept ==
    ASSUME NEW m, NEW n, Kernel(m), Kernel(n), Grows(m, n), NoMem(m)
    PROVE  NoMem(n)
<1>1. Runs(m.free, STACK_PAGES) = {} => Runs(n.free, STACK_PAGES) = {}
  BY RunsLess DEF Grows
<1> QED BY <1>1 DEF Grows, Kernel, Typed, NoMem

\* The frames of a stack: had, not had, or the search panics.
LEMMA StackAllocGrows ==
    ASSUME NEW m, Kernel(m), NEW a, a = KpmmAllocPages(m, STACK_PAGES)
    PROVE  Kernel(a) /\ Grows(m, a)
<1>0. STACK_PAGES \in Nat \ {0} /\ Typed(m)
  BY Numbers DEF Kernel
<1> PICK n : n = STACK_PAGES
  OBVIOUS
<1>1. CASE a.ret # NULL
  BY <1>0, <1>1, AllocGrows
<1>2. CASE a.ret = NULL /\ a = Fail(m)
  <2> PICK r : r = NULL
    OBVIOUS
  <2>1. a = [m EXCEPT !.ret = r]
    BY <1>2 DEF Fail
  <2> QED BY <2>1, AnswerGrows
<1>3. CASE a.ret = NULL /\ Runs(m.free, n) = {} /\ a = Fault(m)
  <2>1. NoMem(m)
    BY <1>3 DEF NoMem
  <2> QED BY <1>3, <2>1, FaultGrows
<1>4. a.ret = NULL => a = Fail(m) \/ (Runs(m.free, n) = {} /\ a = Fault(m))
  BY <1>0, AllocFails
<1> QED BY <1>1, <1>2, <1>3, <1>4

\* A table for an entry of the kernel's directory that has none.
LEMMA NewTableGrows ==
    ASSUME NEW m, Kernel(m), m.cr3 = m.kdir, NEW e \in {"heap", "windows"},
           m.dirs[m.kdir][e].table = NULL, NEW n, n = NewTable(m, e)
    PROVE  /\ Kernel(n) /\ Grows(m, n) /\ n.brk = m.brk /\ n.spare = m.spare
           /\ n.ret = NULL => NoMem(n)
           /\ n.ret # NULL => /\ n.dirs[m.kdir][e].table \in m.free
                              /\ Used(n) = Used(m) \cup {n.dirs[m.kdir][e].table}
                              /\ n.tabs[n.dirs[m.kdir][e].table] = Empty
                              /\ n.fault = m.fault
<1> PICK a : a = KpmmAllocPages(m, 1)
  OBVIOUS
<1>0. e \in Pdes /\ Typed(m) /\ KernelDir(m)
  BY DEF Pdes, Kernel
<1>1. Pd(m) = m.kdir
  BY <1>0 DEF Pd, KernelDir
<1>2. Kernel(a) /\ Grows(m, a) /\ SameButFrames(m, a) /\ Used(a) = Used(m)
  BY AllocGrows, AllocIs DEF Kernel
<1>3. CASE a.ret = NULL
  <2>1. n = a /\ a.free = {}
    <3>1. n = a
      BY <1>3, NewTableIs
    <3>2. a.free = {}
      BY <1>0, <1>3, AllocOne
    <3> QED BY <3>1, <3>2
  <2> QED BY <1>2, <1>3, <2>1 DEF SameButFrames, NoMem
<1>4. CASE a.ret # NULL /\ a.ret >= m.low
  <2>1. n = Fault(a) /\ OneFrame(m, a)
    BY <1>0, <1>4, NewTableIs, AllocOne
  <2>2. NoMem(a)
    <3>1. \A f \in a.free : f >= a.low
      BY <1>0, <1>4, <2>1 DEF OneFrame, SameButFrames, Typed, IsMem
    <3> QED BY <3>1 DEF NoMem
  <2>3. /\ Kernel(n) /\ Grows(a, n) /\ n.ret = NULL /\ n.brk = a.brk /\ n.spare = a.spare
        /\ NoMem(n)
    <3>1. /\ Kernel(n) /\ Grows(a, n) /\ n.ret = NULL /\ n.brk = a.brk /\ n.spare = a.spare
      BY <1>2, <2>1, <2>2, FaultGrows
    <3> QED BY <1>2, <2>2, <3>1, NoMemKept
  <2> QED BY <1>2, <2>3, GrowsOn DEF SameButFrames
<1>5. CASE a.ret # NULL /\ ~(a.ret >= m.low)
  <2> PICK t : t = a.ret
    OBVIOUS
  <2>1. OneFrame(m, a) /\ t >= FirstFrame /\ t \in m.free /\ t \in Nat \ {NULL}
    BY <1>0, <1>5, AllocOne DEF OneFrame
  <2>2. n = Ok([a EXCEPT !.dirs[m.kdir][e] = [table |-> t, user |-> FALSE],
                         !.tabs = With(@, t, Empty)])
    <3>1. n = IF a.ret = NULL THEN a
              ELSE IF a.ret >= m.low THEN Fault(a)
              ELSE Ok([a EXCEPT !.dirs[Pd(m)][e] = [table |-> a.ret, user |-> FALSE],
                                !.tabs = With(@, a.ret, Empty)])
      BY DEF NewTable, Then
    <3> QED BY <1>1, <1>5, <3>1
  <2>3. /\ n.free = m.free \ {t} /\ n.low = m.low /\ n.cr3 = m.cr3 /\ n.kdir = m.kdir
        /\ n.brk = m.brk /\ n.spare = m.spare /\ n.ret = OK /\ n.fault = m.fault
        /\ n.dirs = [m.dirs EXCEPT ![m.kdir][e] = [table |-> t, user |-> FALSE]]
        /\ n.tabs = With(m.tabs, t, Empty)
    BY <2>1, <2>2 DEF Ok, OneFrame, SameButFrames, Typed, IsMem
  <2>4. IsMem(n)
    <3> PICK D : D = [a.dirs EXCEPT ![m.kdir][e] = [table |-> t, user |-> FALSE]]
      OBVIOUS
    <3> PICK T : T = With(a.tabs, t, Empty)
      OBVIOUS
    <3>1. n = [a EXCEPT !.dirs = D, !.tabs = T, !.ret = OK]
      BY <2>1, <2>2 DEF Ok, OneFrame, Typed, IsMem
    <3> QED BY <2>1, <3>1 DEF OneFrame, Typed, IsMem
  <2>5. t \notin DOMAIN m.tabs /\ t \notin DOMAIN m.dirs /\ t \notin Used(m)
    BY <2>1 DEF Kernel, Apart, Used
  <2>6. /\ DOMAIN n.tabs = DOMAIN m.tabs \cup {t} /\ n.tabs[t] = Empty
        /\ \A x \in DOMAIN m.tabs : n.tabs[x] = m.tabs[x]
    BY <2>3, <2>5 DEF With
  <2>7. /\ DOMAIN n.dirs = DOMAIN m.dirs
        /\ \A d \in DOMAIN m.dirs \ {m.kdir} : n.dirs[d] = m.dirs[d]
        /\ m.kdir \in DOMAIN m.dirs /\ m.dirs[m.kdir] \in [Pdes -> PdEntry]
    BY <1>0, <2>3 DEF KernelDir, Typed, IsMem
  <2>8. /\ n.dirs[m.kdir][e] = [table |-> t, user |-> FALSE]
        /\ \A x \in Pdes \ {e} : n.dirs[m.kdir][x] = m.dirs[m.kdir][x]
        /\ n.dirs[m.kdir] \in [Pdes -> PdEntry]
    BY <1>0, <2>1, <2>3, <2>7 DEF PdEntry
  <2>9. Empty \in [0 .. PTES - 1 -> PtEntry] /\ Empty = [i \in 0 .. PTES - 1 |-> NoPage]
    BY DEF Empty, NoPage, PtEntry
  <2>10. Typed(n)
    <3>1. \A d \in DOMAIN n.dirs : n.dirs[d] \in [Pdes -> PdEntry]
      BY <1>0, <2>7, <2>8 DEF Typed, IsMem
    <3>2. \A x \in DOMAIN n.tabs : n.tabs[x] \in [0 .. PTES - 1 -> PtEntry]
      BY <1>0, <2>6, <2>9 DEF Typed, IsMem
    <3>3. DOMAIN n.tabs \subseteq Nat \ {NULL} /\ DOMAIN n.dirs \subseteq Nat \ {NULL}
      BY <1>0, <2>1, <2>6, <2>7 DEF Typed, IsMem
    <3> QED BY <1>0, <2>3, <2>4, <3>1, <3>2, <3>3 DEF Typed, IsMem
  <2>11. /\ e = "heap" => HeapTable(n) = t /\ WindowTable(n) = WindowTable(m) /\ HeapTable(m) = NULL
         /\ e = "windows" => HeapTable(n) = HeapTable(m) /\ WindowTable(n) = t
         /\ e # "windows" => e = "heap"
    BY <2>3, <2>8 DEF HeapTable, WindowTable, Pdes
  <2>12. HeapTable(m) # NULL => HeapTable(m) \in DOMAIN m.tabs
    BY <1>0 DEF KernelDir, HeapTable
  <2>13. WindowTable(m) # NULL => WindowTable(m) \in DOMAIN m.tabs
    BY <1>0 DEF KernelDir, WindowTable
  <2>14. KernelDir(n)
    <3>1. /\ n.kdir \in Nat \ {NULL} /\ n.kdir + 2 < FirstFrame /\ n.kdir \in DOMAIN n.dirs
          /\ n.kdir + 1 \in DOMAIN n.tabs /\ n.kdir + 2 \in DOMAIN n.tabs
          /\ n.tabs[n.kdir + 2] = Identity
      BY <1>0, <2>3, <2>6, <2>7 DEF KernelDir
    <3>2. /\ \A d \in DOMAIN n.dirs : d = n.kdir \/ d >= FirstFrame
          /\ \A x \in DOMAIN n.tabs : x \in {n.kdir + 1, n.kdir + 2} \/ x >= FirstFrame
      BY <1>0, <2>1, <2>3, <2>6, <2>7 DEF KernelDir
    <3>3. /\ n.dirs[n.kdir]["self"] = [table |-> n.kdir, user |-> FALSE]
          /\ n.dirs[n.kdir]["image"] = [table |-> n.kdir + 2, user |-> FALSE]
          /\ n.dirs[n.kdir]["identity"] \in {NoTable, [table |-> n.kdir + 1, user |-> FALSE]}
          /\ n.dirs[n.kdir]["stack"] = NoTable
      <4>1. {"self", "image", "identity", "stack"} \subseteq Pdes \ {e}
        BY DEF Pdes
      <4>2. \A x \in {"self", "image", "identity", "stack"} :
                n.dirs[n.kdir][x] = m.dirs[m.kdir][x]
        BY <2>3, <2>8, <4>1
      <4> QED BY <1>0, <2>3, <4>2 DEF KernelDir
    <3>4. \A x \in {"heap", "windows"} :
         /\ n.dirs[n.kdir][x].user = FALSE
         /\ n.dirs[n.kdir][x].table # NULL =>
              n.dirs[n.kdir][x].table \in DOMAIN n.tabs /\ n.dirs[n.kdir][x].table >= FirstFrame
      <4> TAKE x \in {"heap", "windows"}
      <4>1. CASE x = e
        BY <2>1, <2>3, <2>6, <2>8, <4>1
      <4>2. CASE x # e
        <5>1. x \in Pdes \ {e}
          BY <4>2 DEF Pdes
        <5> QED BY <1>0, <2>3, <2>6, <2>8, <5>1 DEF KernelDir
      <4> QED BY <4>1, <4>2
    <3>5. HeapTable(n) # NULL => HeapTable(n) # WindowTable(n)
      BY <1>0, <2>1, <2>5, <2>11, <2>12, <2>13
    <3> QED BY <3>1, <3>2, <3>3, <3>4, <3>5 DEF KernelDir
  <2>15. HeapMapped(n) /\ HeapFr(n) = HeapFr(m)
    <3>1. CASE e = "heap"
      <4>1. n.brk = 0 /\ HeapFr(m) = {}
        BY <2>3, <2>11, <3>1 DEF Kernel, HeapMapped, HeapFr
      <4>2. \A i \in 0 .. PTES - 1 : n.tabs[HeapTable(n)][i] = NoPage
        <5>1. n.tabs[HeapTable(n)] = [i \in 0 .. PTES - 1 |-> NoPage]
          BY <2>6, <2>9, <2>11, <3>1
        <5> QED BY <5>1
      <4>3. HeapFr(n) = {}
        BY <4>1 DEF HeapFr
      <4> QED BY <2>1, <2>11, <3>1, <4>1, <4>2, <4>3 DEF HeapMapped
    <3>2. CASE e = "windows"
      <4>1. HeapTable(n) = HeapTable(m)
        BY <2>11, <3>2
      <4>2. HeapTable(m) # NULL => n.tabs[HeapTable(m)] = m.tabs[HeapTable(m)]
        BY <2>6, <2>12
      <4>3. HeapFr(n) = HeapFr(m)
        <5>1. CASE HeapTable(m) = NULL
          BY <4>1, <5>1 DEF HeapFr
        <5>2. CASE HeapTable(m) # NULL
          <6>1. HeapFr(n) = {n.tabs[HeapTable(n)][i].frame : i \in 0 .. n.brk - 1}
            BY <4>1, <5>2 DEF HeapFr
          <6> QED BY <2>3, <4>1, <4>2, <5>2, <6>1 DEF HeapFr
        <5> QED BY <5>1, <5>2
      <4>4. HeapMapped(n)
        BY <2>3, <4>1, <4>2 DEF Kernel, HeapMapped
      <4> QED BY <4>3, <4>4
    <3> QED BY <3>1, <3>2
  <2>16. Used(n) = Used(m) \cup {t}
    BY <2>6, <2>7, <2>15 DEF Used
  <2>17. Apart(n)
    BY <2>3, <2>5, <2>6, <2>7, <2>15, <2>16 DEF Kernel, Apart, Used
  <2>18. Grows(m, n)
    <3>1. \A x \in Pdes : \/ n.dirs[m.kdir][x] = m.dirs[m.kdir][x]
                          \/ /\ x \in {"heap", "windows"} /\ m.dirs[m.kdir][x].table = NULL
                             /\ n.dirs[m.kdir][x].table \notin DOMAIN m.tabs
      BY <2>5, <2>8
    <3>2. n.brk \in Int /\ n.spare \in Int
      BY <1>0, <2>3 DEF Typed, IsMem
    <3> QED BY <2>1, <2>3, <2>6, <2>7, <2>16, <3>1, <3>2 DEF Grows
  <2> QED BY <2>1, <2>3, <2>6, <2>8, <2>10, <2>14, <2>15, <2>16, <2>17, <2>18 DEF Kernel, OK, NULL
<1> QED BY <1>3, <1>4, <1>5

\* n is m but for its tables and its answer.
SameButTabs(m, n) ==
    /\ IsMem(n)
    /\ n.free = m.free /\ n.low = m.low /\ n.dirs = m.dirs /\ n.cr3 = m.cr3 /\ n.kdir = m.kdir
    /\ n.brk = m.brk /\ n.spare = m.spare /\ n.fault = m.fault

\* An entry of a table is written.
Written(m, n, t, i, pg) == n.tabs = [m.tabs EXCEPT ![t][i] = pg]

\* No other entry of any table changes.
LEMMA EntryWritten ==
    ASSUME NEW m, Kernel(m), NEW n, SameButTabs(m, n), NEW t \in DOMAIN m.tabs,
           NEW i \in 0 .. PTES - 1, NEW pg \in PtEntry, Written(m, n, t, i, pg)
    PROVE  /\ Typed(n) /\ DOMAIN n.tabs = DOMAIN m.tabs
           /\ \A x \in DOMAIN m.tabs \ {t} : n.tabs[x] = m.tabs[x]
           /\ \A j \in (0 .. PTES - 1) \ {i} : n.tabs[t][j] = m.tabs[t][j]
           /\ n.tabs[t][i] = pg
           /\ HeapTable(n) = HeapTable(m) /\ WindowTable(n) = WindowTable(m)
<1>1. Typed(m) /\ m.tabs[t] \in [0 .. PTES - 1 -> PtEntry]
  BY DEF Kernel, Typed
<1>2. /\ DOMAIN n.tabs = DOMAIN m.tabs
      /\ \A x \in DOMAIN m.tabs \ {t} : n.tabs[x] = m.tabs[x]
      /\ n.tabs[t] = [m.tabs[t] EXCEPT ![i] = pg]
  BY DEF Written
<1>3. /\ n.tabs[t] \in [0 .. PTES - 1 -> PtEntry] /\ n.tabs[t][i] = pg
      /\ \A j \in (0 .. PTES - 1) \ {i} : n.tabs[t][j] = m.tabs[t][j]
  BY <1>1, <1>2
<1>4. \A x \in DOMAIN n.tabs : n.tabs[x] \in [0 .. PTES - 1 -> PtEntry]
  BY <1>1, <1>2, <1>3 DEF Typed
<1>5. Typed(n)
  BY <1>1, <1>2, <1>4 DEF Typed, SameButTabs
<1> QED BY <1>2, <1>3, <1>5 DEF HeapTable, WindowTable, SameButTabs

\* The heap's table, if there is one, is a table and none of the others.
LEMMA TablesApart ==
    ASSUME NEW m, Kernel(m)
    PROVE  /\ HeapTable(m) # NULL => HeapTable(m) \in DOMAIN m.tabs /\ HeapTable(m) >= FirstFrame
           /\ WindowTable(m) # NULL => WindowTable(m) \in DOMAIN m.tabs /\ WindowTable(m) >= FirstFrame
           /\ HeapTable(m) # NULL => HeapTable(m) # WindowTable(m)
           /\ m.kdir + 1 < FirstFrame /\ m.kdir + 2 < FirstFrame /\ m.kdir \in Nat /\ FirstFrame \in Nat
           /\ m.kdir + 1 \in DOMAIN m.tabs /\ m.kdir + 2 \in DOMAIN m.tabs
  BY FirstFramePositive DEF Kernel, KernelDir, HeapTable, WindowTable

\* An entry of the windows' table is written.
LEMMA WindowWritten ==
    ASSUME NEW m, Kernel(m), WindowTable(m) # NULL, NEW n, SameButTabs(m, n),
           NEW i \in 0 .. PTES - 1, NEW pg \in PtEntry, Written(m, n, WindowTable(m), i, pg)
    PROVE  Kernel(n) /\ Grows(m, n) /\ Used(n) = Used(m)
<1> PICK w : w = WindowTable(m)
  OBVIOUS
<1>1. w \in DOMAIN m.tabs /\ w >= FirstFrame /\ w \in Nat
  BY TablesApart DEF Kernel, Typed
<1>2. /\ Typed(n) /\ DOMAIN n.tabs = DOMAIN m.tabs
      /\ \A x \in DOMAIN m.tabs \ {w} : n.tabs[x] = m.tabs[x]
      /\ HeapTable(n) = HeapTable(m) /\ WindowTable(n) = WindowTable(m)
  BY <1>1, EntryWritten
<1>3. HeapTable(m) # NULL => n.tabs[HeapTable(m)] = m.tabs[HeapTable(m)]
  BY <1>2, TablesApart
<1>4. n.tabs[m.kdir + 2] = m.tabs[m.kdir + 2]
  <2>1. m.kdir + 2 # w /\ m.kdir + 2 \in DOMAIN m.tabs
    BY <1>1, TablesApart
  <2> QED BY <1>2, <2>1
<1>5. HeapFr(n) = HeapFr(m)
  <2>1. CASE HeapTable(m) = NULL
    BY <1>2, <2>1 DEF HeapFr
  <2>2. CASE HeapTable(m) # NULL
    <3>1. HeapFr(n) = {n.tabs[HeapTable(n)][j].frame : j \in 0 .. n.brk - 1}
      BY <1>2, <2>2 DEF HeapFr
    <3> QED BY <1>2, <1>3, <2>2, <3>1 DEF HeapFr, SameButTabs
  <2> QED BY <2>1, <2>2
<1>6. HeapMapped(n)
  BY <1>2, <1>3 DEF Kernel, HeapMapped, SameButTabs
<1>7. KernelDir(n)
  BY <1>2, <1>4 DEF Kernel, KernelDir, SameButTabs
<1>8. Used(n) = Used(m) /\ Apart(n)
  BY <1>2, <1>5 DEF Kernel, Apart, Used, SameButTabs
<1>9. Grows(m, n)
  BY <1>2, <1>8 DEF Grows, SameButTabs, Kernel, Typed
<1> QED BY <1>2, <1>6, <1>7, <1>8, <1>9 DEF Kernel

\* The tables cr3 leads to are the kernel's.
Reaches(m, e) ==
    /\ m.cr3 \in DOMAIN m.dirs /\ m.dirs[m.cr3]["self"].table = m.cr3
    /\ m.cr3 # m.kdir => /\ m.dirs[m.cr3][e] = m.dirs[m.kdir][e]
                         /\ m.dirs[m.kdir][e].table # NULL

\* The kernel's own directory reaches them.
LEMMA InKernelReaches ==
    ASSUME NEW m, Kernel(m), m.cr3 = m.kdir
    PROVE  Reaches(m, "heap") /\ Reaches(m, "windows") /\ Seen(m)
  BY DEF Kernel, KernelDir, Reaches, Seen

\* There the recursive entry shows it.
LEMMA KernelPd ==
    ASSUME NEW m, Kernel(m), m.cr3 = m.kdir
    PROVE  Pd(m) = m.kdir
<1>1. m.dirs[m.kdir]["self"] = [table |-> m.kdir, user |-> FALSE]
  BY DEF Kernel, KernelDir
<1>2. m.dirs[m.kdir]["self"].table = m.kdir
  BY ONLY <1>1
<1> QED BY <1>2 DEF Pd

\* A table is there, or is made.
LEMMA TableGot ==
    ASSUME NEW m, Kernel(m), NEW e \in {"heap", "windows"}, Reaches(m, e),
           NEW a, a = TableFor(m, e)
    PROVE  /\ Kernel(a) /\ Grows(m, a) /\ a.brk = m.brk /\ a.spare = m.spare
           /\ a.ret = NULL => NoMem(a)
           /\ a.ret # NULL => /\ Pd(a) = a.cr3 /\ Table(a, e) = a.dirs[a.kdir][e].table
                              /\ Table(a, e) # NULL /\ a.fault = m.fault
                              /\ e = "windows" /\ WindowTable(m) # NULL => a.tabs = m.tabs
                              /\ e = "windows" /\ WindowTable(m) = NULL =>
                                   a.tabs[WindowTable(a)] = Empty
<1>0. e \in Pdes /\ KernelDir(m) /\ Pd(m) = m.cr3 /\ NULL \notin m.free
  BY FirstFramePositive DEF Pdes, Kernel, Typed, Reaches, Pd, NULL
<1>1. CASE Table(m, e) = NULL
  <2>1. m.cr3 = m.kdir /\ m.dirs[m.kdir][e].table = NULL
    BY <1>0, <1>1 DEF Table, Reaches
  <2>2. a = NewTable(m, e)
    BY <1>1 DEF TableFor
  <2>3. /\ Kernel(a) /\ Grows(m, a) /\ a.brk = m.brk /\ a.spare = m.spare
        /\ a.ret = NULL => NoMem(a)
        /\ a.ret # NULL => /\ a.dirs[m.kdir][e].table \in m.free
                           /\ a.tabs[a.dirs[m.kdir][e].table] = Empty
                           /\ a.fault = m.fault
    BY <2>1, <2>2, NewTableGrows
  <2>4. a.cr3 = a.kdir /\ a.kdir = m.kdir /\ Pd(a) = a.cr3
    <3>1. a.cr3 = a.kdir /\ a.kdir = m.kdir
      BY ONLY <2>1, <2>3 DEF Grows
    <3> QED BY <2>3, <3>1, KernelPd
  <2> QED BY <1>0, <2>1, <2>3, <2>4 DEF Table, WindowTable
<1>2. CASE Table(m, e) # NULL
  <2>1. a = [m EXCEPT !.ret = OK]
    BY <1>2 DEF Ok, TableFor
  <2>2. Kernel(a) /\ Grows(m, a) /\ SameButFrames(m, a) /\ a.ret = OK
    BY <2>1, AnswerGrows
  <2>3. Pd(a) = a.cr3 /\ Table(a, e) = Table(m, e)
    BY <1>0, <2>2 DEF Pd, Table, SameButFrames
  <2>4. Table(m, e) = m.dirs[m.kdir][e].table
    BY <1>0 DEF Table, Reaches
  <2> QED BY <1>2, <2>2, <2>3, <2>4 DEF SameButFrames, OK, NULL, Table, WindowTable
<1> QED BY <1>1, <1>2

\* The steps of kvmm_map_page.
LEMMA MapIs ==
    ASSUME NEW m, NEW e, NEW i, NEW f,
           NEW a, a = TableFor(m, e)
    PROVE  KvmmMapPage(m, <<e, i>>, f) =
             IF a.ret = NULL THEN a
             ELSE IF PageIn(a, Pd(a), <<e, i>>) # NoPage THEN Fail(a)
             ELSE Ok([a EXCEPT !.tabs[Table(a, e)][i] = [frame |-> f, user |-> FALSE]])
<1>1. <<e, i>>[1] = e /\ <<e, i>>[2] = i
  OBVIOUS
<1>2. KvmmMapPage(m, <<e, i>>, f) =
         IF a.ret = NULL THEN a
         ELSE IF PageIn(a, Pd(a), <<e, i>>) # NoPage THEN Fail(a)
         ELSE Ok([a EXCEPT !.tabs[Table(a, <<e, i>>[1])][<<e, i>>[2]] =
                      [frame |-> f, user |-> FALSE]])
  <2> PICK va : va = <<e, i>>
    OBVIOUS
  <2> PICK c : c = TableFor(m, va[1])
    OBVIOUS
  <2>1. c = a
    BY <1>1
  <2>2. KvmmMapPage(m, va, f) =
         IF c.ret = NULL THEN c
         ELSE IF PageIn(c, Pd(c), va) # NoPage THEN Fail(c)
         ELSE Ok([c EXCEPT !.tabs[Table(c, va[1])][va[2]] = [frame |-> f, user |-> FALSE]])
    BY DEF KvmmMapPage, Then
  <2> QED BY <2>1, <2>2
<1> QED BY <1>1, <1>2

\* A frame is mapped in an empty window.
LEMMA WindowMapped ==
    ASSUME NEW m, Kernel(m), m.cr3 = m.kdir, NEW i \in 0 .. PTES - 1, NEW f \in Nat,
           WindowTable(m) # NULL => m.tabs[WindowTable(m)][i] = NoPage,
           NEW n, n = KvmmMapPage(m, <<"windows", i>>, f)
    PROVE  /\ Kernel(n) /\ Grows(m, n) /\ n.brk = m.brk /\ n.spare = m.spare
           /\ n.ret = NULL => NoMem(n)
           /\ n.ret # NULL => WindowTable(n) # NULL /\ n.fault = m.fault
<1> PICK a : a = TableFor(m, "windows")
  OBVIOUS
<1>1. /\ Kernel(a) /\ Grows(m, a) /\ a.brk = m.brk /\ a.spare = m.spare
      /\ a.ret = NULL => NoMem(a)
      /\ a.ret # NULL => /\ Pd(a) = a.cr3 /\ Table(a, "windows") = a.dirs[a.kdir]["windows"].table
                         /\ Table(a, "windows") # NULL /\ a.fault = m.fault
                         /\ WindowTable(m) # NULL => a.tabs = m.tabs
                         /\ WindowTable(m) = NULL => a.tabs[WindowTable(a)] = Empty
  BY InKernelReaches, TableGot
<1>2. n = IF a.ret = NULL THEN a
          ELSE IF PageIn(a, Pd(a), <<"windows", i>>) # NoPage THEN Fail(a)
          ELSE Ok([a EXCEPT !.tabs[Table(a, "windows")][i] = [frame |-> f, user |-> FALSE]])
  BY MapIs
<1>3. CASE a.ret = NULL
  BY <1>1, <1>2, <1>3
<1>4. CASE a.ret # NULL
  <2>1. Table(a, "windows") = WindowTable(a) /\ WindowTable(a) # NULL
        /\ a.cr3 = a.kdir /\ WindowTable(a) \in DOMAIN a.tabs
    BY <1>1, <1>4, TablesApart DEF WindowTable, Grows
  <2>2. a.tabs[WindowTable(a)][i] = NoPage
    <3>1. CASE WindowTable(m) # NULL
      <4>1. WindowTable(a) = WindowTable(m)
        BY <1>1, <3>1 DEF Grows, WindowTable, Pdes
      <4> QED BY <1>1, <1>4, <3>1, <4>1
    <3>2. CASE WindowTable(m) = NULL
      BY <1>1, <1>4, <3>2 DEF Empty
    <3> QED BY <3>1, <3>2
  <2>3. PageIn(a, Pd(a), <<"windows", i>>) = NoPage
    BY <1>1, <1>4, <2>1, <2>2 DEF PageIn, WindowTable
  <2>4. n = Ok([a EXCEPT !.tabs[WindowTable(a)][i] = [frame |-> f, user |-> FALSE]])
    BY <1>2, <1>4, <2>1, <2>3
  <2> PICK T : T = [a.tabs EXCEPT ![WindowTable(a)][i] = [frame |-> f, user |-> FALSE]]
    OBVIOUS
  <2>5. n = [a EXCEPT !.tabs = T, !.ret = OK]
    BY <1>1, <2>4 DEF Ok, Kernel, Typed, IsMem
  <2>6. SameButTabs(a, n) /\ n.tabs = T /\ n.ret = OK
    BY <1>1, <2>5 DEF SameButTabs, Kernel, Typed, IsMem
  <2>7. [frame |-> f, user |-> FALSE] \in PtEntry
    BY DEF PtEntry
  <2>8. Kernel(n) /\ Grows(a, n)
    <3> PICK pg \in PtEntry : pg = [frame |-> f, user |-> FALSE]
      BY <2>7
    <3>1. Written(a, n, WindowTable(a), i, pg)
      BY <2>6 DEF Written
    <3>2. SameButTabs(a, n) /\ Kernel(a) /\ WindowTable(a) # NULL
      BY <1>1, <2>1, <2>6
    <3> HIDE <1>1, <2>6
    <3> QED BY <3>1, <3>2, WindowWritten
  <2>9. Grows(m, n)
    BY <1>1, <2>8, GrowsOn
  <2>10. WindowTable(n) = WindowTable(a) /\ n.fault = a.fault
    BY <2>6 DEF WindowTable, SameButTabs
  <2> QED BY <1>1, <1>4, <2>1, <2>6, <2>8, <2>9, <2>10 DEF SameButTabs, OK, NULL
<1> QED BY <1>3, <1>4

\* What a window showed is unmapped.
LEMMA WindowUnmapped ==
    ASSUME NEW m, Kernel(m), m.cr3 = m.kdir, NEW i \in 0 .. PTES - 1,
           NEW n, n = KvmmUnmapPage(m, <<"windows", i>>)
    PROVE  /\ Kernel(n) /\ Grows(m, n) /\ n.brk = m.brk /\ n.spare = m.spare
           /\ WindowTable(n) = WindowTable(m) /\ n.fault = m.fault
           /\ WindowTable(n) # NULL => n.tabs[WindowTable(n)][i] = NoPage
<1>1. Pd(m) = m.kdir /\ Table(m, "windows") = WindowTable(m)
  BY DEF Pd, Table, WindowTable, Kernel, KernelDir
<1>2. PageIn(m, Pd(m), <<"windows", i>>) =
         IF WindowTable(m) = NULL THEN NoPage ELSE m.tabs[WindowTable(m)][i]
  BY <1>1 DEF PageIn, WindowTable
<1>3. CASE PageIn(m, Pd(m), <<"windows", i>>) = NoPage
  <2>1. n = m
    BY <1>3 DEF KvmmUnmapPage
  <2>2. Grows(m, m)
    BY DEF Grows, Kernel, Typed
  <2> QED BY <1>2, <1>3, <2>1, <2>2
<1>4. CASE PageIn(m, Pd(m), <<"windows", i>>) # NoPage
  <2>1. WindowTable(m) # NULL /\ WindowTable(m) \in DOMAIN m.tabs
    BY <1>2, <1>4, TablesApart
  <2>2. n = [m EXCEPT !.tabs[WindowTable(m)][i] = NoPage]
    <3>1. <<"windows", i>>[1] = "windows" /\ <<"windows", i>>[2] = i
      OBVIOUS
    <3>2. n = [m EXCEPT !.tabs[Table(m, <<"windows", i>>[1])][<<"windows", i>>[2]] = NoPage]
      BY <1>4 DEF KvmmUnmapPage
    <3> QED BY <1>1, <3>1, <3>2
  <2> PICK T : T = [m.tabs EXCEPT ![WindowTable(m)][i] = NoPage]
    OBVIOUS
  <2>3. n = [m EXCEPT !.tabs = T]
    BY <2>2 DEF Kernel, Typed, IsMem
  <2>4. SameButTabs(m, n) /\ n.tabs = T
    BY <2>3 DEF SameButTabs, Kernel, Typed, IsMem
  <2>5. NoPage \in PtEntry /\ Written(m, n, WindowTable(m), i, NoPage)
    BY <2>4 DEF PtEntry, NoPage, Written
  <2>6. Kernel(n) /\ Grows(m, n)
    BY <2>1, <2>4, <2>5, WindowWritten
  <2>7. WindowTable(n) = WindowTable(m) /\ n.tabs[WindowTable(m)][i] = NoPage
    BY <2>1, <2>4, <2>5, EntryWritten
  <2> QED BY <2>4, <2>6, <2>7 DEF SameButTabs
<1> QED BY <1>3, <1>4

\* A frame is looked at through a window.
LEMMA WindowGrows ==
    ASSUME NEW m, Kernel(m), m.cr3 = m.kdir, NEW w \in 0 .. 2, NEW f \in Nat,
           NEW n, n = Window(m, w, f)
    PROVE  /\ Kernel(n) /\ Grows(m, n) /\ n.brk = m.brk /\ n.spare = m.spare
           /\ n.ret = NULL => NoMem(n)
           /\ n.ret # NULL => WindowTable(n) # NULL /\ n.fault = m.fault
<1> PICK u : u = KvmmUnmapPage(m, <<"windows", w>>)
  OBVIOUS
<1>0. w \in 0 .. PTES - 1
  BY Numbers
<1>1. /\ Kernel(u) /\ Grows(m, u) /\ u.brk = m.brk /\ u.spare = m.spare /\ u.fault = m.fault
      /\ WindowTable(u) # NULL => u.tabs[WindowTable(u)][w] = NoPage
  BY <1>0, WindowUnmapped
<1>2. u.cr3 = u.kdir /\ n = KvmmMapPage(u, <<"windows", w>>, f)
  BY <1>1 DEF Grows, Window
<1>3. /\ Kernel(n) /\ Grows(u, n) /\ n.brk = u.brk /\ n.spare = u.spare
      /\ n.ret = NULL => NoMem(n)
      /\ n.ret # NULL => WindowTable(n) # NULL /\ n.fault = u.fault
  BY <1>0, <1>1, <1>2, WindowMapped
<1> QED BY <1>1, <1>3, GrowsOn

----------------------------------------------------------------------------
(* The heap                                                                *)

\* A page behind the break is mapped to a frame of its own.
LEMMA BreakMoved ==
    ASSUME NEW m, Kernel(m), HeapTable(m) # NULL, m.brk < KERNEL_HEAP_PAGES,
           NEW f \in Nat, f >= FirstFrame, f \notin m.free \cup Used(m),
           NEW n, IsMem(n), n.free = m.free, n.low = m.low, n.dirs = m.dirs, n.cr3 = m.cr3,
           n.kdir = m.kdir, n.brk = m.brk + 1, n.spare = m.spare, n.fault = m.fault,
           Written(m, n, HeapTable(m), m.brk, [frame |-> f, user |-> FALSE])
    PROVE  Kernel(n) /\ Used(n) = Used(m) \cup {f}
<1> PICK h : h = HeapTable(m)
  OBVIOUS
<1> PICK k : k = m.brk
  OBVIOUS
<1> PICK pg : pg = [frame |-> f, user |-> FALSE]
  OBVIOUS
<1>1. /\ h \in DOMAIN m.tabs /\ h >= FirstFrame /\ h \in Nat /\ k \in 0 .. PTES - 1 /\ k \in Nat
      /\ k + 1 \in 0 .. KERNEL_HEAP_PAGES /\ m.spare \in 0 .. k + 1 /\ pg \in PtEntry
      /\ pg.frame = f
  <2>1. h \in DOMAIN m.tabs /\ h >= FirstFrame /\ h \in Nat
    BY TablesApart DEF Kernel, Typed
  <2>2. k \in 0 .. KERNEL_HEAP_PAGES /\ m.spare \in 0 .. k
    BY DEF Kernel, Typed
  <2>3. pg \in PtEntry /\ pg.frame = f
    BY DEF PtEntry
  <2> QED BY <2>1, <2>2, <2>3, Numbers
<1> PICK o : o = [n EXCEPT !.brk = k]
  OBVIOUS
<1>2. /\ SameButTabs(m, o) /\ o.tabs = n.tabs /\ o.dirs = n.dirs /\ o.kdir = n.kdir
  BY DEF SameButTabs, IsMem
<1>3. /\ Typed(o) /\ DOMAIN n.tabs = DOMAIN m.tabs
      /\ \A x \in DOMAIN m.tabs \ {h} : n.tabs[x] = m.tabs[x]
      /\ \A j \in (0 .. PTES - 1) \ {k} : n.tabs[h][j] = m.tabs[h][j]
      /\ n.tabs[h][k] = pg
  <2>1. Written(m, o, h, k, pg)
    BY <1>2 DEF Written
  <2>2. SameButTabs(m, o) /\ h \in DOMAIN m.tabs /\ k \in 0 .. PTES - 1 /\ pg \in PtEntry
    BY <1>1, <1>2
  <2>3. /\ Typed(o) /\ DOMAIN o.tabs = DOMAIN m.tabs
        /\ \A x \in DOMAIN m.tabs \ {h} : o.tabs[x] = m.tabs[x]
        /\ \A j \in (0 .. PTES - 1) \ {k} : o.tabs[h][j] = m.tabs[h][j]
        /\ o.tabs[h][k] = pg
    <3>1. Kernel(m)
      OBVIOUS
    <3> HIDE <1>1, <1>2
    <3> QED BY ONLY <2>1, <2>2, <3>1, EntryWritten
  <2> QED BY <1>2, <2>3
<1>4. HeapTable(n) = h /\ WindowTable(n) = WindowTable(m)
  BY DEF HeapTable, WindowTable
<1>5. Typed(n)
  BY <1>1, <1>2, <1>3 DEF Typed, SameButTabs
<1>6. KernelDir(n)
  <2>1. m.kdir + 2 # h /\ m.kdir + 2 \in DOMAIN m.tabs
    BY <1>1, TablesApart
  <2>2. n.tabs[m.kdir + 2] = m.tabs[m.kdir + 2]
    BY <1>3, <2>1
  <2> QED BY <1>3, <1>4, <2>2 DEF Kernel, KernelDir
<1>7. /\ \A i \in k .. PTES - 1 : m.tabs[h][i] = NoPage
      /\ \A i \in 0 .. k - 1 : m.tabs[h][i].frame >= FirstFrame
      /\ \A i, j \in 0 .. k - 1 : m.tabs[h][i].frame = m.tabs[h][j].frame => i = j
      /\ HeapFr(m) = {m.tabs[h][i].frame : i \in 0 .. k - 1}
  BY DEF Kernel, HeapMapped, HeapFr
<1>8. /\ \A i \in 0 .. k - 1 : i \in (0 .. PTES - 1) \ {k}
      /\ \A i \in 0 .. k : i = k \/ i \in 0 .. k - 1
      /\ \A i \in k + 1 .. PTES - 1 : i \in (0 .. PTES - 1) \ {k} /\ i \in k .. PTES - 1
      /\ n.brk - 1 = k /\ n.brk = k + 1
  BY <1>1, Numbers
<1>9. \A i \in 0 .. k - 1 : n.tabs[h][i] = m.tabs[h][i] /\ m.tabs[h][i].frame # f
  <2> TAKE i \in 0 .. k - 1
  <2>1. m.tabs[h][i].frame \in HeapFr(m)
    BY <1>7
  <2> QED BY <1>3, <1>8, <2>1 DEF Used
<1>10. HeapMapped(n)
  <2>1. \A i \in n.brk .. PTES - 1 : n.tabs[h][i] = NoPage
    BY <1>3, <1>7, <1>8
  <2>2. \A i \in 0 .. n.brk - 1 : n.tabs[h][i].frame >= FirstFrame
    BY <1>1, <1>3, <1>7, <1>8, <1>9
  <2>3. \A i, j \in 0 .. n.brk - 1 : n.tabs[h][i].frame = n.tabs[h][j].frame => i = j
    <3> TAKE i, j \in 0 .. n.brk - 1
    <3>1. /\ i = k \/ (i \in 0 .. k - 1 /\ n.tabs[h][i] = m.tabs[h][i] /\ m.tabs[h][i].frame # f)
          /\ j = k \/ (j \in 0 .. k - 1 /\ n.tabs[h][j] = m.tabs[h][j] /\ m.tabs[h][j].frame # f)
      BY <1>8, <1>9
    <3> QED BY <1>1, <1>3, <1>7, <3>1
  <2> QED BY <1>4, <2>1, <2>2, <2>3 DEF HeapMapped
<1>11. HeapFr(n) = HeapFr(m) \cup {f}
  <2>1. HeapFr(n) = {n.tabs[h][i].frame : i \in 0 .. k}
    BY <1>4, <1>8 DEF HeapFr
  <2>2. HeapFr(n) \subseteq HeapFr(m) \cup {f}
    BY <1>1, <1>3, <1>7, <1>8, <1>9, <2>1
  <2>3. f \in HeapFr(n)
    BY <1>1, <1>3, <2>1
  <2>4. HeapFr(m) \subseteq HeapFr(n)
    <3>1. \A i \in 0 .. k - 1 : i \in 0 .. k
      BY <1>1
    <3> QED BY <1>7, <1>9, <2>1, <3>1
  <2> QED BY <2>2, <2>3, <2>4
<1>12. Used(n) = Used(m) \cup {f}
  BY <1>3, <1>11 DEF Used
<1>13. Apart(n)
  BY <1>3, <1>11, <1>12 DEF Kernel, Apart, Used
<1> QED BY <1>5, <1>6, <1>10, <1>12, <1>13 DEF Kernel


\* create_heap_header: a frame, a table if there is none, and the break moves.
LEMMA HeaderGrows ==
    ASSUME NEW m, Kernel(m), Reaches(m, "heap"), NEW n, n = CreateHeapHeader(m)
    PROVE  /\ Kernel(n) /\ Grows(m, n) /\ n.spare = m.spare
           /\ n.ret = NULL => NoMem(n) /\ n.brk = m.brk
           /\ n.ret # NULL => n.brk = m.brk + 1 /\ HeapTable(n) # NULL /\ n.fault = m.fault
<1> PICK a : a = KpmmAllocPages(m, 1)
  OBVIOUS
<1> PICK f : f = a.ret
  OBVIOUS
<1>0. Typed(m)
  BY DEF Kernel
<1>1. CASE m.brk = KERNEL_HEAP_PAGES
  <2>1. n = [m EXCEPT !.ret = NULL]
    BY <1>1 DEF CreateHeapHeader, Fail
  <2>2. Kernel(n) /\ Grows(m, n) /\ n.ret = NULL /\ SameButFrames(m, n)
    BY <2>1, AnswerGrows
  <2> QED BY <1>1, <2>2 DEF SameButFrames, NoMem
<1>2. CASE m.brk # KERNEL_HEAP_PAGES
  <2>1. n = IF a.ret = NULL THEN a ELSE MapAtBreak(a, a.ret)
    BY <1>2 DEF CreateHeapHeader, Then
  <2>2. Kernel(a) /\ Grows(m, a) /\ SameButFrames(m, a) /\ Used(a) = Used(m)
    BY <1>0, AllocGrows, AllocIs
  <2>3. CASE a.ret = NULL
    <3>1. n = a /\ a.free = {}
      BY <1>0, <2>1, <2>3, AllocOne
    <3> QED BY <2>2, <2>3, <3>1 DEF SameButFrames, NoMem
  <2>4. CASE a.ret # NULL
    <3>1. OneFrame(m, a) /\ f >= FirstFrame /\ f \in m.free /\ f \in Nat /\ f \notin a.free
      BY <1>0, <2>4, AllocOne DEF OneFrame
    <3> PICK t : t = TableFor(a, "heap")
      OBVIOUS
    <3>2. Reaches(a, "heap")
      BY <2>2 DEF Reaches, SameButFrames
    <3>3. /\ Kernel(t) /\ Grows(a, t) /\ t.brk = a.brk /\ t.spare = a.spare
          /\ t.ret = NULL => NoMem(t)
          /\ t.ret # NULL => /\ Pd(t) = t.cr3 /\ Table(t, "heap") = HeapTable(t)
                             /\ Table(t, "heap") # NULL /\ t.fault = a.fault
      BY <2>2, <3>2, TableGot DEF HeapTable
    <3>4. Grows(m, t) /\ t.brk = m.brk /\ t.spare = m.spare
      BY <2>2, <3>3, GrowsOn DEF SameButFrames
    <3>5. f \notin t.free \cup Used(t)
      <4>1. f \notin Used(m)
        BY <3>1 DEF Kernel, Apart
      <4> QED BY <2>2, <3>1, <3>3, <4>1 DEF Grows
    <3> PICK k : k = m.brk
      OBVIOUS
    <3>6. k \in 0 .. PTES - 1 /\ k < KERNEL_HEAP_PAGES /\ k \in Nat /\ a.brk = k
      <4>1. k \in 0 .. KERNEL_HEAP_PAGES
        BY <1>0 DEF Typed
      <4> QED BY <1>2, <2>2, <4>1, Numbers DEF SameButFrames
    <3> PICK b : b = KvmmMapPage(a, <<"heap", a.brk>>, f)
      OBVIOUS
    <3>7. n = IF b.ret = NULL THEN b ELSE [b EXCEPT !.brk = @ + 1]
      <4>1. MapAtBreak(a, f) = IF b.ret = NULL THEN b ELSE [b EXCEPT !.brk = @ + 1]
        BY DEF MapAtBreak, Then
      <4> QED BY <2>1, <2>4, <4>1
    <3>8. b = IF t.ret = NULL THEN t
              ELSE IF PageIn(t, Pd(t), <<"heap", k>>) # NoPage THEN Fail(t)
              ELSE Ok([t EXCEPT !.tabs[Table(t, "heap")][k] = [frame |-> f, user |-> FALSE]])
      BY <3>6, MapIs
    <3>9. CASE t.ret = NULL
      BY <3>3, <3>4, <3>7, <3>8, <3>9
    <3>10. CASE t.ret # NULL
      <4>1. PageIn(t, Pd(t), <<"heap", k>>) = NoPage
        <5>1. HeapTable(t) # NULL /\ t.tabs[HeapTable(t)][k] = NoPage
          <6>1. k \in t.brk .. PTES - 1
            BY <3>4, <3>6
          <6> QED BY <3>3, <3>10, <6>1 DEF Kernel, HeapMapped
        <5>2. PageIn(t, Pd(t), <<"heap", k>>) = IF Table(t, "heap") = NULL THEN NoPage ELSE t.tabs[Table(t, "heap")][k]
          <6>1. t.dirs[Pd(t)]["heap"].table = Table(t, "heap")
            BY DEF Table
          <6> QED BY <6>1 DEF PageIn
        <5> QED BY <3>3, <3>10, <5>1, <5>2
      <4> PICK T : T = [t.tabs EXCEPT ![HeapTable(t)][k] = [frame |-> f, user |-> FALSE]]
        OBVIOUS
      <4>2. b = [t EXCEPT !.tabs = T, !.ret = OK]
        <5>1. b = Ok([t EXCEPT !.tabs[HeapTable(t)][k] = [frame |-> f, user |-> FALSE]])
          BY <3>3, <3>8, <3>10, <4>1
        <5> QED BY <3>3, <5>1 DEF Ok, Kernel, Typed, IsMem
      <4>3. SameButTabs(t, b) /\ b.tabs = T /\ b.ret = OK
        BY <3>3, <4>2 DEF SameButTabs, Kernel, Typed, IsMem
      <4>4. n = [b EXCEPT !.brk = b.brk + 1]
        BY <3>7, <4>3 DEF OK, NULL
      <4>5. /\ IsMem(n) /\ n.free = t.free /\ n.low = t.low /\ n.dirs = t.dirs /\ n.cr3 = t.cr3
            /\ n.kdir = t.kdir /\ n.brk = t.brk + 1 /\ n.spare = t.spare /\ n.fault = t.fault
            /\ n.tabs = T /\ n.ret = OK
        BY <4>3, <4>4 DEF SameButTabs, IsMem
      <4>6. Kernel(n) /\ Used(n) = Used(t) \cup {f}
        <5>1. HeapTable(t) # NULL /\ t.brk < KERNEL_HEAP_PAGES /\ t.brk = k
          BY <3>3, <3>4, <3>6, <3>10
        <5>2. Written(t, n, HeapTable(t), t.brk, [frame |-> f, user |-> FALSE])
          BY <4>5, <5>1 DEF Written
        <5>3. Kernel(t) /\ f \in Nat /\ f >= FirstFrame
          BY <3>1, <3>3
        <5> HIDE <3>3, <3>4
        <5> QED BY <3>5, <4>5, <5>1, <5>2, <5>3, BreakMoved
      <4>7. HeapTable(n) = HeapTable(t) /\ WindowTable(n) = WindowTable(t)
        BY <4>5 DEF HeapTable, WindowTable
      <4>8. DOMAIN n.tabs = DOMAIN t.tabs /\ \A x \in DOMAIN t.tabs \ {HeapTable(t)} : n.tabs[x] = t.tabs[x]
        BY <4>5
      <4>9. HeapTable(t) = HeapTable(m) \/ HeapTable(t) \notin DOMAIN m.tabs
        BY <3>4 DEF Grows, HeapTable, Pdes
      <4>10. \A x \in DOMAIN m.tabs \ {HeapTable(m), WindowTable(m)} : n.tabs[x] = m.tabs[x]
        BY <3>4, <4>8, <4>9 DEF Grows
      <4>11. n.brk = m.brk + 1 /\ m.brk <= n.brk /\ m.brk - m.spare <= n.brk - n.spare
        BY <1>0, <3>4, <4>5 DEF Typed
      <4>12. n.fault = m.fault
        BY <2>2, <3>3, <3>10, <4>5 DEF SameButFrames
      <4>13. Used(n) \subseteq Used(m) \cup m.free
        BY <3>1, <3>4, <4>6 DEF Grows
      <4>14. Grows(m, n)
        BY <3>4, <4>5, <4>8, <4>10, <4>11, <4>12, <4>13 DEF Grows
      <4> QED BY <3>3, <3>4, <3>10, <4>5, <4>6, <4>7, <4>11, <4>12, <4>14 DEF OK, NULL
    <3> QED BY <3>9, <3>10
  <2> QED BY <2>3, <2>4
<1> QED BY <1>1, <1>2

\* cr3 leads to the heap.
LEMMA SeenReaches ==
    ASSUME NEW m PROVE Seen(m) <=> Reaches(m, "heap")
  BY DEF Seen, Reaches, HeapTable

\* And still does after a call of the kernel's.
LEMMA SeenKept ==
    ASSUME NEW m, NEW n, Seen(m), Grows(m, n)
    PROVE  Seen(n)
<1>1. /\ n.cr3 = m.cr3 /\ n.kdir = m.kdir /\ n.cr3 \in DOMAIN n.dirs
      /\ m.cr3 # m.kdir => n.dirs[n.cr3] = m.dirs[m.cr3]
  BY DEF Seen, Grows
<1>2. "heap" \in Pdes /\ "self" \in Pdes
  BY DEF Pdes
<1>3. CASE m.cr3 = m.kdir
  <2>1. n.dirs[m.kdir]["self"] = m.dirs[m.kdir]["self"]
    BY <1>2 DEF Grows
  <2> QED BY <1>1, <1>3, <2>1 DEF Seen
<1>4. CASE m.cr3 # m.kdir
  <2>1. n.dirs[m.kdir]["heap"] = m.dirs[m.kdir]["heap"]
    BY <1>2, <1>4 DEF Grows, Seen, HeapTable
  <2> QED BY <1>1, <1>4, <2>1 DEF Seen, HeapTable
<1> QED BY <1>3, <1>4

\* The heap is seen in every such address space.
LEMMA HeapIsSeen ==
    ASSUME NEW m, Kernel(m), NEW d \in DOMAIN m.dirs, m.dirs[d]["heap"] = m.dirs[m.kdir]["heap"]
    PROVE  HeapSeen(m, d)
<1> SUFFICES ASSUME NEW i \in 0 .. m.brk - 1 PROVE PageIn(m, d, <<"heap", i>>) # NoPage
  BY DEF HeapSeen
<1>1. m.brk \in Nat /\ FirstFrame \in Nat
  BY FirstFramePositive DEF Kernel, Typed
<1>2. HeapTable(m) # NULL /\ m.tabs[HeapTable(m)][i].frame >= FirstFrame
  BY <1>1 DEF Kernel, HeapMapped
<1>3. PageIn(m, d, <<"heap", i>>) = m.tabs[HeapTable(m)][i]
  BY <1>2 DEF PageIn, HeapTable
<1>4. NoPage.frame = -1
  BY DEF NoPage
<1> QED BY <1>1, <1>2, <1>3, <1>4

\* n is m with s blocks in the list of free ones, and another answer.
SpareIs(m, n, s, r) == n = [m EXCEPT !.spare = s, !.ret = r]

\* The list of free blocks is no part of the address spaces.
LEMMA SpareTaken ==
    ASSUME NEW m, Kernel(m), NEW s \in 0 .. m.brk, NEW r, NEW n, SpareIs(m, n, s, r)
    PROVE  /\ Kernel(n) /\ n.ret = r /\ n.spare = s /\ n.brk = m.brk /\ n.free = m.free
           /\ n.dirs = m.dirs /\ n.tabs = m.tabs /\ n.kdir = m.kdir /\ n.cr3 = m.cr3
           /\ n.low = m.low /\ n.fault = m.fault /\ Used(n) = Used(m)
           /\ s <= m.spare => Grows(m, n)
<1>1. /\ n.free = m.free /\ n.low = m.low /\ n.dirs = m.dirs /\ n.tabs = m.tabs
      /\ n.cr3 = m.cr3 /\ n.kdir = m.kdir /\ n.brk = m.brk /\ n.spare = s
      /\ n.ret = r /\ n.fault = m.fault /\ IsMem(n)
  BY DEF SpareIs, Kernel, Typed, IsMem
<1>2. Typed(n)
  BY <1>1 DEF Kernel, Typed
<1>3. HeapTable(n) = HeapTable(m) /\ WindowTable(n) = WindowTable(m) /\ Used(n) = Used(m)
      /\ HeapFr(n) = HeapFr(m)
  BY <1>1 DEF HeapTable, WindowTable, HeapFr, Used
<1>4. KernelDir(n)
  BY <1>1, <1>3 DEF Kernel, KernelDir
<1>5. HeapMapped(n) /\ Apart(n)
  BY <1>1, <1>3 DEF Kernel, HeapMapped, Apart
<1>6. s <= m.spare => Grows(m, n)
  BY <1>1, <1>3 DEF Grows, Kernel, Typed
<1> QED BY <1>1, <1>2, <1>3, <1>4, <1>5, <1>6 DEF Kernel

\* kmalloc: a block, or no memory.
LEMMA KmallocGrows ==
    ASSUME NEW m, Kernel(m), Seen(m), NEW n, n = Kmalloc(m)
    PROVE  /\ Kernel(n) /\ Grows(m, n) /\ Seen(n)
           /\ n.ret = NULL => NoMem(n)
           /\ n.ret # NULL => n.spare < n.brk /\ n.fault = m.fault
<1>1. HeapSeen(m, Pd(m)) /\ m.brk \in Nat /\ m.spare \in Nat /\ m.spare <= m.brk
  <2>1. Pd(m) = m.cr3 /\ m.cr3 \in DOMAIN m.dirs /\ m.dirs[m.cr3]["heap"] = m.dirs[m.kdir]["heap"]
    BY DEF Pd, Seen
  <2> QED BY <2>1, HeapIsSeen DEF Kernel, Typed
<1>2. CASE m.spare > 0
  <2>1. n = [m EXCEPT !.spare = m.spare - 1, !.ret = OK]
    BY <1>1, <1>2 DEF Kmalloc, Ok, Kernel, Typed, IsMem
  <2>2. m.spare - 1 \in 0 .. m.brk
    BY <1>1, <1>2
  <2>3. Kernel(n) /\ Grows(m, n) /\ n.ret = OK /\ n.spare = m.spare - 1 /\ n.brk = m.brk /\ n.fault = m.fault
    <3> PICK s \in 0 .. m.brk : s = m.spare - 1
      BY <2>2
    <3>1. Kernel(m) /\ SpareIs(m, n, s, OK) /\ s <= m.spare
      BY <1>1, <2>1 DEF SpareIs
    <3>2. Kernel(n) /\ Grows(m, n) /\ n.ret = OK /\ n.spare = s /\ n.brk = m.brk /\ n.fault = m.fault
      BY ONLY <3>1, s \in 0 .. m.brk, SpareTaken
    <3> QED BY <3>2
  <2> QED BY <1>1, <2>3, SeenKept DEF OK, NULL
<1>3. CASE ~(m.spare > 0)
  <2>1. n = CreateHeapHeader(m) /\ Reaches(m, "heap")
    BY <1>1, <1>3, SeenReaches DEF Kmalloc
  <2>2. /\ Kernel(n) /\ Grows(m, n) /\ n.spare = m.spare
        /\ n.ret = NULL => NoMem(n) /\ n.brk = m.brk
        /\ n.ret # NULL => n.brk = m.brk + 1 /\ HeapTable(n) # NULL /\ n.fault = m.fault
    BY <2>1, HeaderGrows
  <2> QED BY <1>1, <2>2, SeenKept
<1> QED BY <1>2, <1>3

\* What kmalloc gives was not in use: blocks given out are never fewer.
LEMMA UsesGrow ==
    ASSUME NEW m, NEW n, Kernel(m), Kernel(n), Grows(m, n), m.spare < m.brk
    PROVE  n.spare < n.brk
  BY DEF Grows, Kernel, Typed

\* A call of the kernel's on the heap: a block, or no memory.
HeapCall(m, n) ==
    /\ Kernel(n) /\ Grows(m, n) /\ Seen(n)
    /\ n.ret = NULL => NoMem(n)
    /\ n.ret # NULL => n.spare < n.brk /\ n.fault = m.fault

\* One such call after another that succeeded is again one.
LEMMA HeapCallOn ==
    ASSUME NEW m, NEW n, NEW o, Kernel(m), HeapCall(m, n), n.ret # NULL, HeapCall(n, o)
    PROVE  HeapCall(m, o)
  BY GrowsOn DEF HeapCall

\* The stack of a task.
LEMMA TaskStackGrows ==
    ASSUME NEW m, Kernel(m), Seen(m), NEW n, n = TaskStack(m)
    PROVE  HeapCall(m, n)
<1> PICK b : b = Kmalloc(m)
  OBVIOUS
<1>1. HeapCall(m, b)
  BY KmallocGrows DEF HeapCall
<1>2. n = IF b.ret = NULL THEN Fault(b) ELSE b
  BY DEF TaskStack, Then
<1>3. CASE b.ret = NULL
  <2>1. Kernel(n) /\ Grows(b, n) /\ n.ret = NULL /\ n.brk = b.brk /\ n.spare = b.spare
    BY <1>1, <1>2, <1>3, FaultGrows DEF HeapCall
  <2>2. NoMem(n) /\ Seen(n)
    BY <1>1, <1>3, <2>1, NoMemKept, SeenKept DEF HeapCall
  <2>3. Grows(m, n)
    BY <1>1, <2>1, GrowsOn DEF HeapCall
  <2> QED BY <2>1, <2>2, <2>3 DEF HeapCall
<1> QED BY <1>1, <1>2, <1>3

\* A task and its stack.
LEMMA TaskGrows ==
    ASSUME NEW m, Kernel(m), Seen(m), NEW n, n = KtaskCreate(m)
    PROVE  HeapCall(m, n)
<1> PICK a : a = Kmalloc(m)
  OBVIOUS
<1>1. HeapCall(m, a)
  BY KmallocGrows DEF HeapCall
<1>2. n = IF a.ret = NULL THEN a ELSE TaskStack(a)
  BY DEF KtaskCreate, Then
<1>3. CASE a.ret # NULL
  <2>1. HeapCall(a, n)
    BY <1>1, <1>2, <1>3, TaskStackGrows DEF HeapCall
  <2> QED BY <1>1, <1>3, <2>1, HeapCallOn
<1> QED BY <1>1, <1>2, <1>3

\* A process of the kernel's.
LEMMA KernelProcessGrows ==
    ASSUME NEW m, Kernel(m), Seen(m), NEW n, n = KprocessCreateKernel(m)
    PROVE  HeapCall(m, n)
<1> PICK a : a = Kmalloc(m)
  OBVIOUS
<1>1. HeapCall(m, a)
  BY KmallocGrows DEF HeapCall
<1>2. n = IF a.ret = NULL THEN a ELSE KtaskCreate(a)
  BY DEF KprocessCreateKernel, Then
<1>3. CASE a.ret # NULL
  BY <1>1, <1>2, <1>3, TaskGrows, HeapCallOn DEF HeapCall
<1> QED BY <1>1, <1>2, <1>3

----------------------------------------------------------------------------
(* What the kernel's calls leave alone: the address spaces of processes    *)

\* An address space of a process, finished or not.
Space(m, d) == Fresh(m, d) \/ Cloned(m, d)

\* Of the directory d, and of what it leads to, n has what m has.
Untouched(m, n, d) ==
    /\ n.kdir = m.kdir /\ d \in DOMAIN n.dirs /\ n.dirs[d] = m.dirs[d]
    /\ DOMAIN m.tabs \subseteq DOMAIN n.tabs
    /\ \A e \in {"image", "heap", "windows"} :
         m.dirs[m.kdir][e].table # NULL => n.dirs[m.kdir][e] = m.dirs[m.kdir][e]
    /\ \A t \in {m.dirs[d]["image"].table, m.dirs[d]["stack"].table} \ {NULL} : n.tabs[t] = m.tabs[t]

\* All that is known of the address space d of m holds of it in n.
SameSpace(m, n, d) ==
    /\ n.kdir = m.kdir /\ n.dirs[d] = m.dirs[d]
    /\ Fresh(m, d) => Fresh(n, d)
    /\ Cloned(m, d) => Cloned(n, d)
    /\ StackFr(n, d) = StackFr(m, d) /\ Private(n, d) = Private(m, d)
    /\ \A S : Opened(m, d, S) => Opened(n, d, S)
    /\ \A b : Stacked(m, d, b) => Stacked(n, d, b)

\* Then the address space is what it was.
LEMMA UntouchedSame ==
    ASSUME NEW m, NEW n, Kernel(m), Kernel(n), NEW d, Space(m, d), Untouched(m, n, d)
    PROVE  SameSpace(m, n, d)
<1> PICK img : img = m.dirs[d]["image"].table
  OBVIOUS
<1> PICK stk : stk = m.dirs[d]["stack"].table
  OBVIOUS
<1>1. /\ n.kdir = m.kdir /\ n.dirs[d] = m.dirs[d] /\ d \in DOMAIN n.dirs
      /\ img # NULL => n.tabs[img] = m.tabs[img]
      /\ stk # NULL => n.tabs[stk] = m.tabs[stk]
  BY DEF Untouched
<1>2. Fresh(m, d) => Fresh(n, d)
  BY <1>1 DEF Fresh
<1>3. StackFr(n, d) = StackFr(m, d)
  <2>1. CASE stk = NULL
    BY <1>1, <2>1 DEF StackFr
  <2>2. CASE stk # NULL
    <3>1. StackFr(n, d) = {n.tabs[stk][i].frame : i \in 0 .. PTES - 1} \ {-1}
      BY <1>1, <2>2 DEF StackFr
    <3>2. StackFr(m, d) = {m.tabs[stk][i].frame : i \in 0 .. PTES - 1} \ {-1}
      BY <2>2 DEF StackFr
    <3>3. n.tabs[stk] = m.tabs[stk]
      BY <1>1, <2>2
    <3> QED BY ONLY <3>1, <3>2, <3>3
  <2> QED BY <2>1, <2>2
<1>4. Private(n, d) = Private(m, d)
  BY <1>1, <1>3 DEF Private
<1>5. ASSUME Cloned(m, d) PROVE Cloned(n, d)
  <2>1. /\ HeapTable(m) # NULL /\ n.dirs[m.kdir]["heap"] = m.dirs[m.kdir]["heap"]
        /\ WindowTable(m) # NULL /\ n.dirs[m.kdir]["windows"] = m.dirs[m.kdir]["windows"]
    BY <1>5 DEF Cloned, Untouched, HeapTable, WindowTable
  <2>2. HeapTable(n) = HeapTable(m) /\ WindowTable(n) = WindowTable(m)
    BY <1>1, <2>1 DEF HeapTable, WindowTable
  <2>3. n.dirs[m.kdir]["image"] = m.dirs[m.kdir]["image"]
    BY <1>1 DEF Kernel, KernelDir
  <2>4. \A t : OwnTable(m, t) => OwnTable(n, t)
    BY <1>1, <2>2 DEF OwnTable, Untouched
  <2>5. d \in DOMAIN n.dirs \ {n.kdir}
    BY <1>1, <1>5 DEF Cloned
  <2> HIDE DEF Untouched
  <2> QED BY <1>1, <1>5, <2>1, <2>2, <2>3, <2>4, <2>5 DEF Cloned
<1>6. ASSUME NEW S, Opened(m, d, S) PROVE Opened(n, d, S)
  BY <1>1, <1>6 DEF Opened
<1>7. ASSUME NEW b, Stacked(m, d, b) PROVE Stacked(n, d, b)
  BY <1>1, <1>7 DEF Stacked
<1> QED BY <1>1, <1>2, <1>3, <1>4, <1>5, <1>6, <1>7 DEF SameSpace

\* The kernel's calls touch no address space of a process.
LEMMA GrowsUntouched ==
    ASSUME NEW m, NEW n, Kernel(m), Grows(m, n), NEW d, Space(m, d)
    PROVE  Untouched(m, n, d)
<1>1. /\ n.kdir = m.kdir /\ d \in DOMAIN n.dirs /\ n.dirs[d] = m.dirs[d]
      /\ DOMAIN m.tabs \subseteq DOMAIN n.tabs
  BY DEF Grows, Space, Fresh, Cloned
<1>2. \A e \in {"image", "heap", "windows"} :
         m.dirs[m.kdir][e].table # NULL => n.dirs[m.kdir][e] = m.dirs[m.kdir][e]
  <2> TAKE e \in {"image", "heap", "windows"}
  <2>1. e \in Pdes
    BY DEF Pdes
  <2>2. "image" \notin {"heap", "windows"}
    OBVIOUS
  <2> QED BY <2>1, <2>2 DEF Grows
<1>3. \A t \in {m.dirs[d]["image"].table, m.dirs[d]["stack"].table} \ {NULL} : n.tabs[t] = m.tabs[t]
  <2> TAKE t \in {m.dirs[d]["image"].table, m.dirs[d]["stack"].table} \ {NULL}
  <2>1. t \in DOMAIN m.tabs \ {HeapTable(m), WindowTable(m)}
    <3>1. CASE Fresh(m, d)
      <4>1. m.dirs[d]["image"].table = NULL /\ m.dirs[d]["stack"].table = NULL
        BY <3>1 DEF Fresh, NoTable, Pdes
      <4> QED BY <4>1
    <3>2. CASE Cloned(m, d) /\ t = m.kdir + 2
      BY <3>2, TablesApart
    <3>3. CASE Cloned(m, d) /\ t # m.kdir + 2
      <4>1. m.dirs[m.kdir]["image"].table = m.kdir + 2 /\ NoTable.table = NULL
        BY DEF Kernel, KernelDir, NoTable
      <4>2. OwnTable(m, t)
        BY <3>3, <4>1 DEF Cloned
      <4> QED BY <4>2 DEF OwnTable
    <3> QED BY <3>1, <3>2, <3>3 DEF Space
  <2> QED BY <2>1 DEF Grows
<1> QED BY <1>1, <1>2, <1>3 DEF Untouched

\* Address spaces that are as they were stay disjoint.
LEMMA DisjointKept ==
    ASSUME NEW m, NEW n, NEW D, Disjoint(m, D), \A d \in D : SameSpace(m, n, d),
           n.free \cup Used(n) \subseteq m.free \cup Used(m)
    PROVE  Disjoint(n, D)
<1>1. \A d \in D : StackFr(n, d) = StackFr(m, d) /\ Private(n, d) = Private(m, d)
  BY DEF SameSpace
<1> QED BY <1>1 DEF Disjoint

\* The directories of a world are address spaces.
LEMMA WorldSpaces ==
    ASSUME NEW m, NEW k, NEW P, World(m, k, P)
    PROVE  /\ Kernel(m) /\ \A d \in UserDirs(k, P) : Space(m, d)
           /\ \A p \in P : p.pd \in UserDirs(k, P) /\ Cloned(m, p.pd)
           /\ k.pc \in Making => k.pd \in UserDirs(k, P) /\ k.pd # NULL
           /\ \A d \in UserDirs(k, P) : d \in DOMAIN m.dirs /\ d # m.kdir /\ d >= FirstFrame /\ d \in Nat
<1>1. ASSUME NEW p \in P PROVE p.pd \in UserDirs(k, P) /\ Cloned(m, p.pd)
  BY DEF World, ProcOK, UserDirs
<1>2. k.pc \in Making => k.pd \in UserDirs(k, P) /\ k.pd # NULL /\ Space(m, k.pd)
  BY DEF World, MakeOK, UserDirs, Space
<1>3. k.pc \notin Making => k.pd = NULL
  BY DEF World, MakeOK
<1>4. \A d \in UserDirs(k, P) : Space(m, d)
  BY <1>1, <1>2, <1>3 DEF UserDirs, Space
<1>5. Kernel(m)
  BY DEF World
<1>6. \A d \in UserDirs(k, P) : d \in DOMAIN m.dirs /\ d # m.kdir
  BY <1>4 DEF Space, Fresh, Cloned
<1>7. \A d \in UserDirs(k, P) : d >= FirstFrame /\ d \in Nat
  BY <1>5, <1>6 DEF Kernel, KernelDir, Typed
<1> QED BY <1>1, <1>2, <1>4, <1>5, <1>6, <1>7

\* A creation and processes whose address spaces are as they were.
LEMMA WorldKept ==
    ASSUME NEW m, NEW n, NEW k, NEW P, World(m, k, P), Kernel(n), n.fault => NoMem(n),
           n.cr3 \in {n.kdir} \cup {p.pd : p \in P},
           \A d \in UserDirs(k, P) : SameSpace(m, n, d),
           k.pc # "idle" => n.spare < n.brk,
           WindowTable(m) # NULL => WindowTable(n) # NULL,
           n.free \cup Used(n) \subseteq m.free \cup Used(m)
    PROVE  World(n, k, P)
<1>1. Disjoint(n, UserDirs(k, P))
  BY DisjointKept DEF World
<1>2. ASSUME NEW p \in P PROVE ProcOK(n, p)
  <2>1. ProcOK(m, p) /\ SameSpace(m, n, p.pd)
    BY WorldSpaces DEF World
  <2> QED BY <2>1 DEF ProcOK, SameSpace
<1>3. MakeOK(n, k, P)
  <2>1. MakeOK(m, k, P)
    BY DEF World
  <2>2. CASE k.pc \notin Making
    BY <2>1, <2>2 DEF MakeOK, Making
  <2>3. CASE k.pc \in Making
    <3>1. SameSpace(m, n, k.pd)
      BY <2>3, WorldSpaces
    <3> QED BY <2>1, <2>3, <3>1 DEF MakeOK, Making, SameSpace
  <2> QED BY <2>2, <2>3
<1> QED BY <1>1, <1>2, <1>3 DEF World

\* The kernel's calls leave the world as it is.
LEMMA WorldGrows ==
    ASSUME NEW m, NEW n, NEW k, NEW P, World(m, k, P), Kernel(n), Grows(m, n)
    PROVE  World(n, k, P)
<1>0. Kernel(m)
  BY DEF World
<1>1. \A d \in UserDirs(k, P) : SameSpace(m, n, d)
  <2> TAKE d \in UserDirs(k, P)
  <2>1. Space(m, d)
    BY WorldSpaces
  <2>2. Untouched(m, n, d)
    BY <1>0, <2>1, GrowsUntouched
  <2> QED BY <1>0, <2>1, <2>2, UntouchedSame
<1>2. n.fault => NoMem(n)
  BY <1>0, NoMemKept DEF World, Grows
<1>3. n.cr3 \in {n.kdir} \cup {p.pd : p \in P}
  BY DEF World, Grows
<1>4. k.pc # "idle" => n.spare < n.brk
  BY <1>0, UsesGrow DEF World, MakeOK
<1>5. WindowTable(m) # NULL => WindowTable(n) # NULL
  BY DEF Grows, WindowTable, Pdes
<1>6. n.free \cup Used(n) \subseteq m.free \cup Used(m)
  BY DEF Grows
<1> QED BY <1>1, <1>2, <1>3, <1>4, <1>5, <1>6, WorldKept

----------------------------------------------------------------------------
(* The steps of kprocess_create                                            *)

\* What is not being made needs nothing.
LEMMA WorldIdle ==
    ASSUME NEW m, NEW k, NEW P, World(m, k, P)
    PROVE  World(m, Idle, P)
<1>1. Idle.pc = "idle" /\ Idle.pd = NULL
  BY DEF Idle
<1>2. MakeOK(m, Idle, P)
  <2>1. Idle = [pc |-> Idle.pc, pd |-> Idle.pd, stub |-> Idle.stub, stack |-> Idle.stack,
                entry |-> Idle.entry]
    BY DEF Idle
  <2> QED BY <1>1, <2>1 DEF MakeOK, Making
<1>3. UserDirs(Idle, P) \subseteq UserDirs(k, P)
  BY <1>1 DEF UserDirs
<1>4. Disjoint(m, UserDirs(Idle, P))
  BY <1>3 DEF World, Disjoint
<1> QED BY <1>2, <1>4 DEF World

\* The memory n is m but for the list of free blocks and the answer.
LEMMA WorldSpare ==
    ASSUME NEW m, NEW k, NEW P, World(m, k, P), NEW s \in 0 .. m.brk, NEW r, NEW n,
           SpareIs(m, n, s, r), k.pc # "idle" => s < m.brk
    PROVE  World(n, k, P)
<1>0. Kernel(m)
  BY DEF World
<1>1. /\ Kernel(n) /\ n.ret = r /\ n.spare = s /\ n.brk = m.brk /\ n.free = m.free
      /\ n.dirs = m.dirs /\ n.tabs = m.tabs /\ n.kdir = m.kdir /\ n.cr3 = m.cr3
      /\ n.low = m.low /\ n.fault = m.fault /\ Used(n) = Used(m)
  BY <1>0, SpareTaken
<1>2. \A d \in UserDirs(k, P) : SameSpace(m, n, d)
  <2> TAKE d \in UserDirs(k, P)
  <2>1. Space(m, d) /\ d \in DOMAIN m.dirs
    BY WorldSpaces
  <2>2. Untouched(m, n, d)
    BY <1>1, <2>1 DEF Untouched
  <2> QED BY <1>0, <1>1, <2>1, <2>2, UntouchedSame
<1>3. n.fault => NoMem(n)
  BY <1>1 DEF World, NoMem
<1>4. n.cr3 \in {n.kdir} \cup {p.pd : p \in P}
  BY <1>1 DEF World
<1>5. WindowTable(n) = WindowTable(m)
  BY <1>1 DEF WindowTable
<1>6. (k.pc # "idle" => n.spare < n.brk) /\ n.free \cup Used(n) \subseteq m.free \cup Used(m)
  BY <1>1
<1> QED BY <1>1, <1>2, <1>3, <1>4, <1>5, <1>6, WorldKept

\* kfree of the process_t.
LEMMA WorldFreed ==
    ASSUME NEW m, NEW k, NEW P, World(m, k, P), m.spare < m.brk, NEW n, n = Kfree(m)
    PROVE  World(n, Idle, P) /\ n.kdir = m.kdir /\ n.dirs = m.dirs /\ n.ret = m.ret
<1>1. World(m, Idle, P) /\ Idle.pc = "idle"
  BY WorldIdle DEF Idle
<1>2. m.spare + 1 \in 0 .. m.brk /\ IsMem(m)
  BY DEF World, Kernel, Typed
<1>3. SpareIs(m, n, m.spare + 1, m.ret) /\ n.kdir = m.kdir /\ n.dirs = m.dirs /\ n.ret = m.ret
  BY <1>2 DEF SpareIs, Kfree, IsMem
<1> PICK s \in 0 .. m.brk : s = m.spare + 1
  BY <1>2
<1>4. SpareIs(m, n, s, m.ret)
  BY <1>3
<1>5. World(n, Idle, P)
  BY ONLY <1>1, <1>4, s \in 0 .. m.brk, WorldSpare
<1> QED BY <1>3, <1>5

\* The memory after the last call of a step, and its answer forgotten.
LEMMA WorldFail ==
    ASSUME NEW m, NEW k, NEW P, World(m, k, P), NEW n, n = Fail(m)
    PROVE  World(n, k, P) /\ n.ret = NULL /\ n.kdir = m.kdir /\ n.dirs = m.dirs /\ n.cr3 = m.cr3
<1>1. n = [m EXCEPT !.ret = NULL] /\ Kernel(m)
  BY DEF Fail, World
<1>2. Kernel(n) /\ Grows(m, n) /\ n.ret = NULL /\ SameButFrames(m, n)
  BY <1>1, AnswerGrows
<1> QED BY <1>2, WorldGrows DEF SameButFrames

----------------------------------------------------------------------------
(* Changes beside the kernel's tables                                      *)

\* A frame that has been taken and is not yet used.
Loose(m, D, f) ==
    /\ f \in Nat /\ f >= FirstFrame /\ f \notin m.free \cup Used(m)
    /\ \A d \in D : f \notin StackFr(m, d)

\* A loose frame belongs to no address space.
LEMMA LoosePrivate ==
    ASSUME NEW m, NEW D, NEW f, Kernel(m), Loose(m, D, f), NEW d \in D, Space(m, d)
    PROVE  f \notin Private(m, d)
<1>1. f \notin DOMAIN m.dirs /\ f \notin DOMAIN m.tabs /\ f \notin StackFr(m, d)
  BY DEF Loose, Used
<1>2. d \in DOMAIN m.dirs
  BY DEF Space, Fresh, Cloned
<1>3. \A t \in {m.dirs[d]["image"].table, m.dirs[d]["stack"].table} \ {NULL, m.kdir + 2} :
          t \in DOMAIN m.tabs
  <2>1. CASE Fresh(m, d)
    BY <2>1 DEF Fresh, NoTable, Pdes
  <2>2. CASE Cloned(m, d)
    <3>1. m.dirs[m.kdir]["image"].table = m.kdir + 2 /\ NoTable.table = NULL
      BY DEF Kernel, KernelDir, NoTable
    <3> QED BY <2>2, <3>1 DEF Cloned, OwnTable
  <2> QED BY <2>1, <2>2 DEF Space
<1> QED BY <1>1, <1>2, <1>3 DEF Private

\* A frame stays loose over the kernel's calls.
LEMMA LooseKept ==
    ASSUME NEW m, NEW n, NEW k, NEW P, World(m, k, P), Kernel(n), Grows(m, n),
           NEW f, Loose(m, UserDirs(k, P), f)
    PROVE  Loose(n, UserDirs(k, P), f)
<1>1. f \notin n.free \cup Used(n)
  BY DEF Loose, Grows
<1>2. \A d \in UserDirs(k, P) : f \notin StackFr(n, d)
  <2> TAKE d \in UserDirs(k, P)
  <2>1. Kernel(m) /\ Space(m, d)
    BY WorldSpaces
  <2>2. Untouched(m, n, d)
    BY <2>1, GrowsUntouched
  <2>3. StackFr(n, d) = StackFr(m, d)
    BY <2>1, <2>2, UntouchedSame DEF SameSpace
  <2> QED BY <2>3 DEF Loose
<1> QED BY <1>1, <1>2 DEF Loose

\* What kpmm_alloc_pages gives is loose.
LEMMA LooseTaken ==
    ASSUME NEW m, NEW k, NEW P, World(m, k, P), NEW c \in Nat \ {0},
           NEW a, a = KpmmAllocPages(m, c), a.ret # NULL,
           NEW f \in a.ret .. (a.ret + c - 1)
    PROVE  Loose(a, UserDirs(k, P), f)
<1>1. Kernel(m) /\ Typed(m)
  BY DEF World, Kernel
<1>2. /\ SameButFrames(m, a) /\ f \in m.free /\ f \notin a.free
      /\ f \in Nat /\ f >= FirstFrame
  <2>1. /\ SameButFrames(m, a) /\ a.ret \in Nat
        /\ a.ret .. (a.ret + c - 1) \subseteq m.free
        /\ a.free = m.free \ (a.ret .. (a.ret + c - 1))
    BY <1>1, AllocIs
  <2> QED BY <1>1, <2>1 DEF Typed
<1>3. Used(a) = Used(m) /\ f \notin Used(m)
  BY <1>1, <1>2, AllocGrows DEF Kernel, Apart
<1>4. \A d \in UserDirs(k, P) : f \notin StackFr(a, d)
  <2> TAKE d \in UserDirs(k, P)
  <2>1. StackFr(a, d) = StackFr(m, d)
    BY <1>2 DEF StackFr, SameButFrames
  <2> QED BY <1>2, <2>1 DEF World, Disjoint
<1> QED BY <1>2, <1>3, <1>4 DEF Loose

\* n has what m has of the kernel; directories and tables may be new.
Beside(m, n) ==
    /\ IsMem(n) /\ n.free = m.free /\ n.low = m.low /\ n.cr3 = m.cr3 /\ n.kdir = m.kdir
    /\ n.brk = m.brk /\ n.spare = m.spare /\ n.fault = m.fault
    /\ DOMAIN m.dirs \subseteq DOMAIN n.dirs /\ DOMAIN m.tabs \subseteq DOMAIN n.tabs
    /\ n.dirs[m.kdir] = m.dirs[m.kdir]
    /\ \A t \in {m.kdir + 2, HeapTable(m), WindowTable(m)} \ {NULL} : n.tabs[t] = m.tabs[t]
    /\ \A d \in DOMAIN n.dirs \ DOMAIN m.dirs : d \in Nat /\ d >= FirstFrame /\ d \notin m.free \cup Used(m)
    /\ \A t \in DOMAIN n.tabs \ DOMAIN m.tabs : t \in Nat /\ t >= FirstFrame /\ t \notin m.free \cup Used(m)
    /\ DOMAIN n.dirs = DOMAIN m.dirs \/ DOMAIN n.tabs = DOMAIN m.tabs
    /\ \A d \in DOMAIN n.dirs : n.dirs[d] \in [Pdes -> PdEntry]
    /\ \A t \in DOMAIN n.tabs : n.tabs[t] \in [0 .. PTES - 1 -> PtEntry]

\* What is built beside the kernel leaves it whole.
LEMMA BesideKernel ==
    ASSUME NEW m, NEW n, Kernel(m), Beside(m, n)
    PROVE  /\ Kernel(n) /\ HeapTable(n) = HeapTable(m) /\ WindowTable(n) = WindowTable(m)
           /\ Used(n) = Used(m) \cup DOMAIN n.dirs \cup DOMAIN n.tabs
<1>1. /\ IsMem(n) /\ n.free = m.free /\ n.low = m.low /\ n.cr3 = m.cr3 /\ n.kdir = m.kdir
      /\ n.brk = m.brk /\ n.spare = m.spare /\ n.fault = m.fault
      /\ DOMAIN m.dirs \subseteq DOMAIN n.dirs /\ DOMAIN m.tabs \subseteq DOMAIN n.tabs
      /\ n.dirs[m.kdir] = m.dirs[m.kdir]
  BY DEF Beside
<1>2. HeapTable(n) = HeapTable(m) /\ WindowTable(n) = WindowTable(m)
  BY <1>1 DEF HeapTable, WindowTable
<1>3. /\ HeapTable(m) # NULL => n.tabs[HeapTable(m)] = m.tabs[HeapTable(m)]
      /\ n.tabs[m.kdir + 2] = m.tabs[m.kdir + 2]
  <2>1. m.kdir + 2 # NULL
    BY DEF Kernel, KernelDir, NULL
  <2> QED BY <2>1 DEF Beside
<1>4. Typed(n)
  <2>1. DOMAIN n.dirs \subseteq Nat \ {NULL} /\ DOMAIN n.tabs \subseteq Nat \ {NULL}
    BY FirstFramePositive DEF Beside, Kernel, Typed, NULL
  <2> QED BY <1>1, <2>1 DEF Beside, Kernel, Typed
<1>5. KernelDir(n)
  <2>1. /\ \A d \in DOMAIN n.dirs : d = n.kdir \/ d >= FirstFrame
        /\ \A t \in DOMAIN n.tabs : t \in {n.kdir + 1, n.kdir + 2} \/ t >= FirstFrame
    BY <1>1 DEF Beside, Kernel, KernelDir
  <2> QED BY <1>1, <1>2, <1>3, <2>1 DEF Kernel, KernelDir
<1>6. HeapMapped(n) /\ HeapFr(n) = HeapFr(m)
  <2>1. CASE HeapTable(m) = NULL
    BY <1>1, <1>2, <2>1 DEF Kernel, HeapMapped, HeapFr
  <2>2. CASE HeapTable(m) # NULL
    <3>1. HeapFr(n) = {n.tabs[HeapTable(n)][i].frame : i \in 0 .. n.brk - 1}
      BY <1>2, <2>2 DEF HeapFr
    <3>2. HeapFr(n) = HeapFr(m)
      BY <1>1, <1>2, <1>3, <2>2, <3>1 DEF HeapFr
    <3>3. HeapMapped(n)
      BY <1>1, <1>2, <1>3, <2>2 DEF Kernel, HeapMapped
    <3> QED BY <3>2, <3>3
  <2> QED BY <2>1, <2>2
<1>7. Used(n) = Used(m) \cup DOMAIN n.dirs \cup DOMAIN n.tabs
  BY <1>1, <1>6 DEF Used
<1>8. Apart(n)
  <2>1. n.free \cap Used(n) = {}
    <3> SUFFICES ASSUME NEW f \in n.free, f \in Used(n) PROVE FALSE
      OBVIOUS
    <3>1. f \notin Used(m) /\ f \in m.free
      BY <1>1 DEF Kernel, Apart
    <3>2. f \notin DOMAIN m.dirs /\ f \notin DOMAIN m.tabs
      BY <3>1 DEF Used
    <3> QED BY <1>7, <3>1, <3>2 DEF Beside
  <2>2. DOMAIN n.dirs \cap DOMAIN n.tabs = {}
    <3>1. \A f \in DOMAIN n.dirs : f \in DOMAIN m.dirs \/ f \notin Used(m)
      BY DEF Beside
    <3>2. \A f \in DOMAIN n.tabs : f \in DOMAIN m.tabs \/ f \notin Used(m)
      BY DEF Beside
    <3>3. DOMAIN n.dirs = DOMAIN m.dirs \/ DOMAIN n.tabs = DOMAIN m.tabs
      BY DEF Beside
    <3> QED BY <3>1, <3>2, <3>3 DEF Kernel, Apart, Used
  <2>3. HeapFr(n) \cap (DOMAIN n.dirs \cup DOMAIN n.tabs) = {}
    <3>1. \A f \in DOMAIN n.dirs \cup DOMAIN n.tabs :
             f \in DOMAIN m.dirs \cup DOMAIN m.tabs \/ f \notin Used(m)
      BY DEF Beside
    <3> QED BY <1>6, <3>1 DEF Kernel, Apart, Used
  <2> QED BY <2>1, <2>2, <2>3 DEF Apart
<1> QED BY <1>2, <1>4, <1>5, <1>6, <1>7, <1>8 DEF Kernel

\* A directory that such a change leaves alone.
LEMMA BesideSame ==
    ASSUME NEW m, NEW n, Kernel(m), Beside(m, n), NEW d, Space(m, d), n.dirs[d] = m.dirs[d],
           \A t \in {m.dirs[d]["image"].table, m.dirs[d]["stack"].table} \ {NULL} : n.tabs[t] = m.tabs[t]
    PROVE  SameSpace(m, n, d)
<1>1. d \in DOMAIN m.dirs
  BY DEF Space, Fresh, Cloned
<1>2. Untouched(m, n, d)
  BY <1>1 DEF Beside, Untouched
<1> QED BY <1>2, BesideKernel, UntouchedSame

\* A step of the creation: frames N that were loose are used for the directory
\* of k2, which is that of k, or new; all other directories are as they were.
Builds(m, n, k, k2, P, N) ==
    /\ Beside(m, n) /\ \A f \in N : Loose(m, UserDirs(k, P), f)
    /\ \A p \in P : SameSpace(m, n, p.pd)
    /\ MakeOK(n, k2, P) /\ k2.pc \in Making
    /\ Used(n) \subseteq Used(m) \cup N
    /\ \A f \in Private(n, k2.pd) : f \in N \/ (k.pd = k2.pd /\ f \in Private(m, k.pd))
    /\ StackFr(n, k2.pd) \cap (n.free \cup Used(n)) = {}

\* Such a step leads from one world to the next.
LEMMA WorldBuilt ==
    ASSUME NEW m, NEW n, NEW k, NEW k2, NEW P, NEW N, World(m, k, P), Builds(m, n, k, k2, P, N)
    PROVE  World(n, k2, P) /\ n.kdir = m.kdir /\ HeapTable(n) = HeapTable(m)
<1>1. Kernel(m) /\ Beside(m, n)
  BY DEF World, Builds
<1>2. /\ Kernel(n) /\ HeapTable(n) = HeapTable(m) /\ WindowTable(n) = WindowTable(m)
      /\ n.kdir = m.kdir /\ n.cr3 = m.cr3 /\ n.free = m.free
  BY <1>1, BesideKernel DEF Beside
<1>3. n.fault => NoMem(n)
  BY <1>1 DEF Beside, World, NoMem
<1>4. n.cr3 \in {n.kdir} \cup {p.pd : p \in P}
  BY <1>2 DEF World
<1>5. \A p \in P : ProcOK(n, p)
  <2> TAKE p \in P
  <2>1. ProcOK(m, p) /\ SameSpace(m, n, p.pd)
    BY DEF World, Builds
  <2> QED BY <2>1 DEF ProcOK, SameSpace
<1>6. /\ k2.pd # NULL /\ UserDirs(k2, P) = {p.pd : p \in P} \cup {k2.pd}
      /\ \A p \in P : p.pd # k2.pd
  BY DEF Builds, MakeOK, UserDirs
<1>7. \A p \in P : Space(m, p.pd) /\ p.pd \in UserDirs(k, P)
  BY WorldSpaces DEF Space
<1>8. \A p \in P : StackFr(n, p.pd) = StackFr(m, p.pd) /\ Private(n, p.pd) = Private(m, p.pd)
  BY DEF Builds, SameSpace
<1>9. \A p \in P : \A f \in N : f \notin Private(m, p.pd) /\ f \notin StackFr(m, p.pd)
  <2> TAKE p \in P
  <2> TAKE f \in N
  <2>1. Loose(m, UserDirs(k, P), f)
    BY DEF Builds
  <2>2. f \notin Private(m, p.pd)
    BY <1>1, <1>7, <2>1, LoosePrivate
  <2> QED BY <1>7, <2>1, <2>2 DEF Loose
<1>10. \A p \in P : StackFr(n, p.pd) \cap (n.free \cup Used(n)) = {}
  <2> TAKE p \in P
  <2>1. StackFr(m, p.pd) \cap (m.free \cup Used(m)) = {}
    BY <1>7 DEF World, Disjoint
  <2>2. Used(n) \subseteq Used(m) \cup N
    BY DEF Builds
  <2> QED BY <1>2, <1>8, <1>9, <2>1, <2>2
<1>11. \A p \in P : Private(n, p.pd) \cap Private(n, k2.pd) = {}
  <2> TAKE p \in P
  <2> SUFFICES ASSUME NEW f \in Private(n, k2.pd), f \in Private(m, p.pd) PROVE FALSE
    BY <1>8
  <2>1. f \notin N
    BY <1>9
  <2>2. k.pd = k2.pd /\ f \in Private(m, k.pd)
    BY <2>1 DEF Builds
  <2>3. k.pd \in UserDirs(k, P) /\ p.pd # k.pd
    BY <1>6, <2>2 DEF UserDirs
  <2> QED BY <1>7, <2>2, <2>3 DEF World, Disjoint
<1>12. \A p, q \in P : p.pd # q.pd => Private(n, p.pd) \cap Private(n, q.pd) = {}
  BY <1>7, <1>8 DEF World, Disjoint
<1>13. Disjoint(n, UserDirs(k2, P))
  <2>1. \A d \in UserDirs(k2, P) : StackFr(n, d) \cap (n.free \cup Used(n)) = {}
    BY <1>6, <1>10 DEF Builds
  <2>2. \A c, d \in UserDirs(k2, P) : c # d => Private(n, c) \cap Private(n, d) = {}
    <3> SUFFICES ASSUME NEW c \in UserDirs(k2, P), NEW d \in UserDirs(k2, P), c # d
                 PROVE  Private(n, c) \cap Private(n, d) = {}
      OBVIOUS
    <3>1. CASE c = k2.pd
      BY <1>6, <1>11, <3>1
    <3>2. CASE d = k2.pd
      BY <1>6, <1>11, <3>2
    <3>3. CASE c # k2.pd /\ d # k2.pd
      BY <1>6, <1>12, <3>3
    <3> QED BY <3>1, <3>2, <3>3
  <2> QED BY <2>1, <2>2 DEF Disjoint
<1>14. \A p, q \in P : p.pd = q.pd => p = q
  BY DEF World
<1>15. MakeOK(n, k2, P)
  BY DEF Builds
<1> QED BY <1>2, <1>3, <1>4, <1>5, <1>13, <1>14, <1>15 DEF World
=============================================================================
