---------------------------- MODULE SpacesProofs ----------------------------
(***************************************************************************)
(* Proofs about AddressSpaces, for every size of page, table, heap and     *)
(* stack, every number of frames and of processes: each step of the boot,  *)
(* of a creation and of the running system keeps SpacesInv, and what       *)
(* follows from it.                                                        *)
(***************************************************************************)
EXTENDS SpacesLemmas

----------------------------------------------------------------------------
(* kprocess_create, step by step                                           *)

\* The steps of the system when no system call comes within a step of the
\* creation; SpacesNext takes these, until one ends astray (WholeOrAstray).
WholeNext ==
    \/ Boot \/ Create \/ (\E e \in Entries : KprocessCreate(e))
    \/ TickToShell \/ TickToProcess
    \/ (\E p \in procs : SyscallKmalloc(p) \/ KtaskExit(p)) \/ Halted \/ Prompt

\* A step of the creation ends in n: it is given up, or k2 is next.
Ends(m, n, k2, P) ==
    /\ n.kdir = m.kdir /\ (HeapTable(m) # NULL => HeapTable(n) # NULL)
    /\ n.ret = NULL => World(n, Idle, P)
    /\ n.ret # NULL => World(n, k2, P)

\* The heap keeps its table.
LEMMA HeapTableKept ==
    ASSUME NEW m, NEW n, Grows(m, n)
    PROVE  n.kdir = m.kdir /\ (HeapTable(m) # NULL => HeapTable(n) = HeapTable(m))
           /\ (WindowTable(m) # NULL => WindowTable(n) = WindowTable(m))
  BY DEF Grows, HeapTable, WindowTable, Pdes

\* It is given up, and the process_t freed.
LEMMA FailedEnds ==
    ASSUME NEW m, NEW k, NEW P, World(m, k, P), k.pc # "idle", NEW n, Kernel(n), Grows(m, n),
           n.ret = NULL, NEW k2
    PROVE  Ends(m, Kfree(n), k2, P)
<1>1. World(n, k, P)
  BY WorldGrows
<1>2. n.spare < n.brk
  BY <1>1 DEF World, MakeOK
<1> PICK o : o = Kfree(n)
  OBVIOUS
<1>3. World(o, Idle, P) /\ o.kdir = n.kdir /\ o.dirs = n.dirs /\ o.ret = n.ret
  BY <1>1, <1>2, WorldFreed
<1>4. HeapTable(o) = HeapTable(n)
  BY <1>3 DEF HeapTable
<1> QED BY <1>3, <1>4, HeapTableKept DEF Ends

\* The first three: kmalloc for the process_t, the task and its stack.
LEMMA BlockEnds ==
    ASSUME NEW m, NEW k, NEW P, World(m, k, P), m.cr3 = m.kdir, k.pc \in {"idle", "task", "kstack"},
           NEW n, HeapCall(m, n), NEW e \in Entries, NEW pc \in {"task", "kstack", "pd"},
           NEW k2, k2 = [pc |-> pc, pd |-> NULL,
                         stub |-> k.stub, stack |-> k.stack, entry |-> e]
    PROVE  Ends(m, n, k2, P)
<1>1. Kernel(n) /\ Grows(m, n)
  BY DEF HeapCall
<1>2. World(n, k, P) /\ World(n, Idle, P)
  BY <1>1, WorldGrows, WorldIdle
<1>3. ASSUME n.ret # NULL PROVE World(n, k2, P)
  <2>1. n.spare < n.brk
    BY <1>3 DEF HeapCall
  <2>2. MakeOK(n, k2, P)
    BY <2>1 DEF MakeOK, Making
  <2>3. UserDirs(k2, P) = UserDirs(Idle, P)
    BY DEF UserDirs, Idle
  <2> QED BY <1>2, <2>2, <2>3 DEF World
<1> QED BY <1>1, <1>2, <1>3, HeapTableKept DEF Ends

\* n is m but for its directories and tables, and its answer.
SameButMaps(m, n) ==
    /\ IsMem(n) /\ n.free = m.free /\ n.low = m.low /\ n.cr3 = m.cr3 /\ n.kdir = m.kdir
    /\ n.brk = m.brk /\ n.spare = m.spare /\ n.fault = m.fault

\* An empty directory.
NoTables == [e \in Pdes |-> NoTable]

\* An empty directory in a loose frame is an address space beside all others.
LEMMA FreshDirectory ==
    ASSUME NEW m, Kernel(m), NEW D, NEW f, Loose(m, D, f), NEW n, SameButMaps(m, n),
           n.tabs = m.tabs, n.dirs = With(m.dirs, f, NoTables)
    PROVE  /\ Beside(m, n) /\ Used(n) \subseteq Used(m) \cup {f} /\ Fresh(n, f)
           /\ Private(n, f) = {f} /\ StackFr(n, f) = {} /\ \A d \in DOMAIN m.dirs : n.dirs[d] = m.dirs[d]
<1>1. /\ f \notin DOMAIN m.dirs /\ f \notin DOMAIN m.tabs /\ f \in Nat /\ f >= FirstFrame
      /\ f \notin m.free \cup Used(m)
  BY DEF Loose, Used
<1>2. /\ DOMAIN n.dirs = DOMAIN m.dirs \cup {f} /\ n.dirs[f] = NoTables
      /\ \A d \in DOMAIN m.dirs : n.dirs[d] = m.dirs[d]
  BY <1>1 DEF With
<1>3. m.kdir \in DOMAIN m.dirs /\ m.kdir # f
  BY <1>1 DEF Kernel, KernelDir
<1>4. NoTables \in [Pdes -> PdEntry]
  BY DEF PdEntry, NoTable, NULL, NoTables
<1>5. Beside(m, n)
  <2>1. \A d \in DOMAIN n.dirs : n.dirs[d] \in [Pdes -> PdEntry]
    BY <1>2, <1>4 DEF Kernel, Typed
  <2>2. \A t \in DOMAIN n.tabs : n.tabs[t] \in [0 .. PTES - 1 -> PtEntry]
    BY DEF Kernel, Typed
  <2> QED BY <1>1, <1>2, <1>3, <2>1, <2>2 DEF Beside, SameButMaps
<1>6. Used(n) \subseteq Used(m) \cup {f}
  BY <1>2, <1>5, BesideKernel DEF Used
<1>7. Fresh(n, f)
  BY <1>2, <1>3 DEF Fresh, NoTables, SameButMaps
<1>8. n.dirs[f]["image"].table = NULL /\ n.dirs[f]["stack"].table = NULL
  BY <1>2 DEF NoTable, Pdes, NoTables
<1>9. StackFr(n, f) = {}
  BY <1>8 DEF StackFr
<1>10. Private(n, f) = {f}
  BY <1>8, <1>9 DEF Private
<1> QED BY <1>2, <1>5, <1>6, <1>7, <1>9, <1>10

\* A directory for the process.
LEMMA DirectoryEnds ==
    ASSUME NEW m, NEW k, NEW P, World(m, k, P), m.cr3 = m.kdir, k.pc = "pd",
           NEW a, a = KpmmAllocPages(m, 1),
           NEW b, b = IF a.ret = NULL THEN a ELSE Window(a, 0, a.ret),
           NEW n, n = [b EXCEPT !.dirs = IF b.ret = NULL THEN @ ELSE With(@, a.ret, [e \in Pdes |-> NoTable])],
           NEW k2, k2 = [k EXCEPT !.pc = "clone", !.pd = a.ret]
    PROVE  Ends(m, GiveUp(n), k2, P)
<1>0. Kernel(m) /\ Typed(m) /\ 1 \in Nat \ {0}
  BY DEF World, Kernel
<1>1. Kernel(a) /\ Grows(m, a) /\ SameButFrames(m, a)
  BY <1>0, AllocGrows, AllocIs
<1>2. a.ret # NULL => /\ a.ret \in Nat /\ a.ret \in a.ret .. (a.ret + 1 - 1)
                      /\ Kernel(b) /\ Grows(a, b)
                      /\ b.ret # NULL => WindowTable(b) # NULL
  <2> SUFFICES ASSUME a.ret # NULL
               PROVE  /\ a.ret \in Nat /\ a.ret \in a.ret .. (a.ret + 1 - 1)
                      /\ Kernel(b) /\ Grows(a, b)
                      /\ b.ret # NULL => WindowTable(b) # NULL
    OBVIOUS
  <2>1. a.ret \in Nat /\ a.cr3 = a.kdir
    BY <1>0, <1>1, AllocIs DEF SameButFrames
  <2>2. b = Window(a, 0, a.ret) /\ 0 \in 0 .. 2
    OBVIOUS
  <2>3. Kernel(b) /\ Grows(a, b) /\ (b.ret # NULL => WindowTable(b) # NULL)
    BY <1>1, <2>1, <2>2, WindowGrows
  <2> QED BY <2>1, <2>3
<1>3. Kernel(b) /\ Grows(m, b) /\ (a.ret = NULL => b.ret = NULL) /\ IsMem(b)
  <2>1. CASE a.ret = NULL
    BY <1>1, <2>1 DEF Kernel, Typed
  <2>2. CASE a.ret # NULL
    BY <1>0, <1>1, <1>2, <2>2, GrowsOn DEF Kernel, Typed
  <2> QED BY <2>1, <2>2
<1>4. CASE b.ret = NULL
  <2>1. n = b
    BY <1>3, <1>4 DEF IsMem
  <2>2. GiveUp(n) = Kfree(b)
    BY <1>4, <2>1 DEF GiveUp
  <2> QED BY <1>3, <1>4, <2>2, FailedEnds
<1>5. CASE b.ret # NULL
  <2> PICK f : f = a.ret
    OBVIOUS
  <2>1. a.ret # NULL
    BY <1>3, <1>5
  <2>2. World(a, k, P) /\ World(b, k, P)
    BY <1>1, <1>3, WorldGrows
  <2>3. Loose(a, UserDirs(k, P), f)
    <3>1. f \in a.ret .. (a.ret + 1 - 1)
      BY <1>2, <2>1
    <3> QED BY <1>0, <2>1, <3>1, LooseTaken
  <2>4. Loose(b, UserDirs(k, P), f)
    BY <1>2, <2>1, <2>2, <2>3, LooseKept
  <2>5. SameButMaps(b, n) /\ n.tabs = b.tabs /\ n.dirs = With(b.dirs, f, NoTables) /\ n.ret = b.ret
    BY <1>3, <1>5 DEF IsMem, SameButMaps, NoTables
  <2>6. /\ Beside(b, n) /\ Used(n) \subseteq Used(b) \cup {f} /\ Fresh(n, f)
        /\ Private(n, f) = {f} /\ StackFr(n, f) = {}
        /\ \A d \in DOMAIN b.dirs : n.dirs[d] = b.dirs[d]
    <3>1. Kernel(b) /\ Loose(b, UserDirs(k, P), f) /\ SameButMaps(b, n) /\ n.tabs = b.tabs
          /\ n.dirs = With(b.dirs, f, NoTables)
      BY <1>3, <2>4, <2>5
    <3> QED BY ONLY <3>1, FreshDirectory
  <2>7. \A p \in P : SameSpace(b, n, p.pd)
    <3> TAKE p \in P
    <3> PICK d : d = p.pd
      OBVIOUS
    <3>1. Space(b, d) /\ d \in DOMAIN b.dirs
      BY <2>2, WorldSpaces DEF Space
    <3>2. n.dirs[d] = b.dirs[d] /\ n.tabs = b.tabs /\ Beside(b, n) /\ Kernel(b)
      BY <1>3, <2>5, <2>6, <3>1
    <3>3. SameSpace(b, n, d)
      BY ONLY <3>1, <3>2, BesideSame
    <3> QED BY <3>3
  <2>8. MakeOK(n, k2, P)
    <3>1. MakeOK(b, k, P)
      BY <2>2 DEF World
    <3>2. /\ k2 = [pc |-> k2.pc, pd |-> k2.pd, stub |-> k2.stub, stack |-> k2.stack, entry |-> k2.entry]
          /\ k2.pc = "clone" /\ k2.pd = f /\ k2.entry = k.entry
      BY <3>1 DEF MakeOK
    <3>3. f # NULL /\ \A p \in P : p.pd # f
      <4>1. \A p \in P : p.pd \in DOMAIN b.dirs
        BY <2>2, WorldSpaces
      <4> QED BY <2>1, <2>4, <4>1 DEF Loose, Used
    <3>4. WindowTable(n) # NULL
      BY <1>2, <1>3, <1>5, <2>1, <2>6, BesideKernel
    <3>5. n.spare < n.brk /\ k.entry \in Entries
      BY <2>5, <3>1 DEF MakeOK, SameButMaps
    <3> QED BY <2>6, <3>2, <3>3, <3>4, <3>5 DEF MakeOK, Making
  <2>9. Builds(b, n, k, k2, P, {f})
    <3>1. k2.pc = "clone" /\ k2.pd = f
      BY <2>2 DEF World, MakeOK
    <3> QED BY <2>4, <2>6, <2>7, <2>8, <3>1 DEF Builds, Making
  <2>10. World(n, k2, P) /\ n.kdir = b.kdir /\ HeapTable(n) = HeapTable(b)
    BY <2>2, <2>9, WorldBuilt
  <2>11. GiveUp(n) = n /\ n.ret # NULL
    BY <1>5, <2>5 DEF GiveUp
  <2>12. n.kdir = m.kdir /\ (HeapTable(m) # NULL => HeapTable(n) # NULL)
    BY <1>3, <2>10, HeapTableKept
  <2> QED BY <2>10, <2>11, <2>12 DEF Ends
<1> QED BY <1>4, <1>5

\* The tables above KERNEL_VIRTUAL_BASE are copied into the directory.
HighHalfOf(m, d) ==
    [e \in Pdes |-> IF e \in HighHalf THEN m.dirs[m.kdir][e]
                    ELSE IF e = "self" THEN [table |-> d, user |-> FALSE] ELSE NoTable]

\* n is m with that directory for d.
Clones(m, n, d) ==
    /\ SameButMaps(m, n) /\ n.tabs = m.tabs /\ n.ret = OK
    /\ n.dirs = [m.dirs EXCEPT ![d] = HighHalfOf(m, d)]

\* What clone_kernel_high_half writes is just that.
LEMMA CloneIs ==
    ASSUME NEW m, Kernel(m), NEW d, m.cr3 = m.kdir, Fresh(m, d),
           NEW n, n = Ok([m EXCEPT !.dirs[d] =
                  [e \in Pdes |-> IF e \in HighHalf THEN m.dirs[Pd(m)][e]
                                  ELSE IF e = "self" THEN [NoTable EXCEPT !.table = d] ELSE @[e]]])
    PROVE  Clones(m, n, d)
<1>1. Pd(m) = m.kdir /\ IsMem(m) /\ m.dirs[d] = [e \in Pdes |-> NoTable] /\ d \in DOMAIN m.dirs
  <2>1. Pd(m) = m.kdir
    BY KernelPd
  <2>2. IsMem(m)
    BY DEF Kernel, Typed
  <2> QED BY <2>1, <2>2 DEF Fresh
<1>2. HighHalfOf(m, d) =
        [e \in Pdes |-> IF e \in HighHalf THEN m.dirs[Pd(m)][e]
                        ELSE IF e = "self" THEN [NoTable EXCEPT !.table = d] ELSE m.dirs[d][e]]
  BY <1>1 DEF NoTable, HighHalfOf
<1> PICK Q : Q = [m.dirs EXCEPT ![d] = HighHalfOf(m, d)]
  OBVIOUS
<1>3. n = Ok([m EXCEPT !.dirs = Q])
  BY <1>1, <1>2 DEF IsMem
<1>4. n = [m EXCEPT !.dirs = Q, !.ret = OK]
  BY <1>1, <1>3 DEF Ok, IsMem
<1>5. n.dirs = Q /\ SameButMaps(m, n) /\ n.tabs = m.tabs /\ n.ret = OK
  BY <1>1, <1>4 DEF SameButMaps, IsMem
<1> QED BY <1>5 DEF Clones

\* The step with which the directory becomes the kernel's neighbour.
LEMMA CloneEnds ==
    ASSUME NEW m, NEW k, NEW P, World(m, k, P), k.pc = "clone", HeapTable(m) # NULL,
           NEW d, d = k.pd, NEW n, Clones(m, n, d), NEW k2, k2 = [k EXCEPT !.pc = "stub"]
    PROVE  Ends(m, n, k2, P)
<1>0. Kernel(m) /\ IsMem(m) /\ MakeOK(m, k, P) /\ Fresh(m, d) /\ WindowTable(m) # NULL /\ d # NULL
      /\ m.dirs[d] = [e \in Pdes |-> NoTable] /\ d \in DOMAIN m.dirs /\ d # m.kdir /\ d \in Nat
  BY WorldSpaces DEF World, Kernel, Typed, MakeOK, Making, Fresh
<1>1. m.dirs[m.kdir] \in [Pdes -> PdEntry] /\ m.kdir \in DOMAIN m.dirs
  BY <1>0 DEF Kernel, KernelDir, Typed
<1> PICK D : D = HighHalfOf(m, d)
  OBVIOUS
<1>3. SameButMaps(m, n) /\ n.tabs = m.tabs /\ n.ret = OK
  BY DEF Clones
<1>4. /\ DOMAIN n.dirs = DOMAIN m.dirs /\ n.dirs[d] = D
      /\ \A c \in DOMAIN m.dirs \ {d} : n.dirs[c] = m.dirs[c]
  BY <1>0 DEF Clones
<1>5. D \in [Pdes -> PdEntry]
  BY <1>0, <1>1 DEF PdEntry, NoTable, NULL, HighHalfOf
<1>6. Beside(m, n)
  <2>1. \A c \in DOMAIN n.dirs : n.dirs[c] \in [Pdes -> PdEntry]
    BY <1>0, <1>4, <1>5 DEF Kernel, Typed
  <2>2. \A t \in DOMAIN n.tabs : n.tabs[t] \in [0 .. PTES - 1 -> PtEntry]
    BY <1>0, <1>3 DEF Kernel, Typed
  <2> QED BY <1>0, <1>1, <1>3, <1>4, <2>1, <2>2 DEF Beside, SameButMaps
<1>7. Kernel(n) /\ HeapTable(n) = HeapTable(m) /\ WindowTable(n) = WindowTable(m)
      /\ Used(n) \subseteq Used(m)
  BY <1>0, <1>3, <1>4, <1>6, BesideKernel DEF Used
<1>8. /\ D["self"] = [table |-> d, user |-> FALSE] /\ D["identity"] = NoTable /\ D["stack"] = NoTable
      /\ D["heap"] = m.dirs[m.kdir]["heap"] /\ D["windows"] = m.dirs[m.kdir]["windows"]
      /\ D["image"] = m.dirs[m.kdir]["image"]
  BY DEF Pdes, HighHalf, HighHalfOf
<1>9. n.kdir = m.kdir /\ n.dirs[m.kdir] = m.dirs[m.kdir] /\ m.dirs[m.kdir]["image"].table = m.kdir + 2
  BY <1>0, <1>1, <1>3, <1>4 DEF SameButMaps, Kernel, KernelDir
<1>10. Cloned(n, d)
  BY <1>0, <1>4, <1>7, <1>8, <1>9 DEF Cloned
<1>11. StackFr(n, d) = {} /\ Private(n, d) = {d}
  <2>1. StackFr(n, d) = {}
    BY <1>4, <1>8 DEF StackFr, NoTable
  <2> QED BY <1>4, <1>8, <1>9, <2>1 DEF Private, NoTable
<1>12. \A p \in P : SameSpace(m, n, p.pd)
  <2> TAKE p \in P
  <2> PICK c : c = p.pd
    OBVIOUS
  <2>1. Space(m, c) /\ c \in DOMAIN m.dirs /\ c # d
    BY <1>0, WorldSpaces DEF Space, MakeOK, Making
  <2>2. n.dirs[c] = m.dirs[c] /\ n.tabs = m.tabs /\ Beside(m, n) /\ Kernel(m)
    BY <1>0, <1>3, <1>4, <1>6, <2>1
  <2>3. SameSpace(m, n, c)
    BY ONLY <2>1, <2>2, BesideSame
  <2> QED BY <2>3
<1>13. MakeOK(n, k2, P) /\ k2.pc = "stub" /\ k2.pd = d
  <2>1. /\ k2 = [pc |-> k2.pc, pd |-> k2.pd, stub |-> k2.stub, stack |-> k2.stack, entry |-> k2.entry]
        /\ k2.pc = "stub" /\ k2.pd = d /\ k2.entry = k.entry
    BY <1>0 DEF MakeOK
  <2>2. n.spare < n.brk /\ k.entry \in Entries
    BY <1>0, <1>3 DEF MakeOK, SameButMaps
  <2>3. \A p \in P : p.pd # d
    BY <1>0 DEF MakeOK, Making
  <2> QED BY <1>0, <1>4, <1>7, <1>8, <1>9, <1>10, <2>1, <2>2, <2>3 DEF MakeOK, Making
<1>14. Builds(m, n, k, k2, P, {})
  <2>1. d \in Private(m, d)
    BY DEF Private
  <2> QED BY <1>6, <1>7, <1>11, <1>12, <1>13, <2>1 DEF Builds, Making
<1>15. World(n, k2, P) /\ n.kdir = m.kdir
  BY <1>14, WorldBuilt
<1> QED BY <1>3, <1>7, <1>15 DEF Ends, OK, NULL

\* A table of the directory's own, in a loose frame.
NewTableIn(m, n, d, e, f, T) ==
    /\ SameButMaps(m, n)
    /\ n.dirs = [m.dirs EXCEPT ![d][e] = [table |-> f, user |-> TRUE]]
    /\ n.tabs = With(m.tabs, f, T)

\* The tables there can be.
TablesOf == [0 .. PTES - 1 -> PtEntry]

\* What there is then.
TableMade(m, n, d, e, f, T) ==
    /\ Beside(m, n) /\ Used(n) = Used(m) \cup {f} /\ OwnTable(n, f) /\ n.tabs[f] = T
    /\ DOMAIN n.dirs = DOMAIN m.dirs
    /\ \A t \in DOMAIN m.tabs : n.tabs[t] = m.tabs[t] /\ t # f
    /\ \A c \in DOMAIN m.dirs \ {d} : n.dirs[c] = m.dirs[c]
    /\ \A x \in Pdes \ {e} : n.dirs[d][x] = m.dirs[d][x]
    /\ n.dirs[d][e] = [table |-> f, user |-> TRUE]

\* A table in a loose frame, for one entry of one directory, disturbs nothing.
LEMMA OwnTableMade ==
    ASSUME NEW m, NEW n, NEW d \in DOMAIN m.dirs \ {m.kdir}, NEW e \in {"image", "stack"}, NEW f,
           NEW T, T \in TablesOf, NEW D, Kernel(m), Loose(m, D, f),
           NewTableIn(m, n, d, e, f, T)
    PROVE  TableMade(m, n, d, e, f, T)
<1>1. /\ f \notin DOMAIN m.dirs /\ f \notin DOMAIN m.tabs /\ f \in Nat /\ f >= FirstFrame
      /\ f \notin m.free \cup Used(m)
  BY DEF Loose, Used
<1>2. /\ DOMAIN n.tabs = DOMAIN m.tabs \cup {f} /\ n.tabs[f] = T
      /\ \A t \in DOMAIN m.tabs : n.tabs[t] = m.tabs[t] /\ t # f
  BY <1>1 DEF NewTableIn, With
<1>3. m.dirs[d] \in [Pdes -> PdEntry] /\ e \in Pdes
  BY DEF Kernel, Typed, Pdes
<1>4. /\ DOMAIN n.dirs = DOMAIN m.dirs
      /\ \A c \in DOMAIN m.dirs \ {d} : n.dirs[c] = m.dirs[c]
      /\ n.dirs[d] = [m.dirs[d] EXCEPT ![e] = [table |-> f, user |-> TRUE]]
  BY DEF NewTableIn
<1>5. /\ \A x \in Pdes \ {e} : n.dirs[d][x] = m.dirs[d][x]
      /\ n.dirs[d][e] = [table |-> f, user |-> TRUE] /\ n.dirs[d] \in [Pdes -> PdEntry]
  BY <1>1, <1>3, <1>4 DEF PdEntry
<1>6. Beside(m, n)
  <2>1. \A c \in DOMAIN n.dirs : n.dirs[c] \in [Pdes -> PdEntry]
    BY <1>4, <1>5 DEF Kernel, Typed
  <2>2. \A t \in DOMAIN n.tabs : n.tabs[t] \in [0 .. PTES - 1 -> PtEntry]
    BY <1>2 DEF Kernel, Typed, TablesOf
  <2>3. n.dirs[m.kdir] = m.dirs[m.kdir]
    BY <1>4 DEF Kernel, KernelDir
  <2>4. \A t \in {m.kdir + 2, HeapTable(m), WindowTable(m)} \ {NULL} : n.tabs[t] = m.tabs[t]
    BY <1>2, TablesApart
  <2> QED BY <1>1, <1>2, <1>4, <2>1, <2>2, <2>3, <2>4 DEF Beside, SameButMaps, NewTableIn
<1>7. HeapTable(n) = HeapTable(m) /\ WindowTable(n) = WindowTable(m) /\ Used(n) = Used(m) \cup {f}
      /\ n.kdir = m.kdir
  <2>1. /\ HeapTable(n) = HeapTable(m) /\ WindowTable(n) = WindowTable(m)
        /\ Used(n) = Used(m) \cup DOMAIN n.dirs \cup DOMAIN n.tabs
    BY <1>6, BesideKernel
  <2>2. n.kdir = m.kdir
    BY <1>6 DEF Beside
  <2> QED BY <1>2, <1>4, <2>1, <2>2 DEF Used
<1>8. OwnTable(n, f)
  <2>1. f # m.kdir + 1 /\ f # m.kdir + 2 /\ f # HeapTable(m) /\ f # WindowTable(m)
    <3>1. f # NULL
      BY <1>1, FirstFramePositive DEF NULL
    <3> QED BY <1>1, <3>1, TablesApart
  <2> QED BY <1>2, <1>7, <2>1 DEF OwnTable
<1> QED BY <1>2, <1>4, <1>5, <1>6, <1>7, <1>8 DEF TableMade

\* The tables a directory leads to below the kernel's half, and the image's.
LEMMA SpaceTables ==
    ASSUME NEW m, Kernel(m), NEW d, Space(m, d)
    PROVE  /\ d \in DOMAIN m.dirs \ {m.kdir}
           /\ \A t \in {m.dirs[d]["image"].table, m.dirs[d]["stack"].table} \ {NULL} :
                t \in DOMAIN m.tabs /\ (t # m.kdir + 2 => t \in Private(m, d))
<1>1. d \in DOMAIN m.dirs \ {m.kdir}
  BY DEF Space, Fresh, Cloned
<1>2. \A t \in {m.dirs[d]["image"].table, m.dirs[d]["stack"].table} \ {NULL} :
          t \in DOMAIN m.tabs
  <2>1. CASE Fresh(m, d)
    BY <2>1 DEF Fresh, NoTable, Pdes
  <2>2. CASE Cloned(m, d)
    <3>1. /\ m.dirs[m.kdir]["image"].table = m.kdir + 2 /\ NoTable.table = NULL
          /\ m.kdir + 2 \in DOMAIN m.tabs
      BY DEF Kernel, KernelDir, NoTable
    <3> QED BY <2>2, <3>1 DEF Cloned, OwnTable
  <2> QED BY <2>1, <2>2 DEF Space
<1>3. \A t \in {m.dirs[d]["image"].table, m.dirs[d]["stack"].table} \ {NULL} :
          t # m.kdir + 2 => t \in Private(m, d)
  BY DEF Private
<1> QED BY <1>1, <1>2, <1>3

\* The tables of the image and of a stack are tables.
LEMMA TablesTyped ==
    /\ \A S : ImageOf(S) \in TablesOf
    /\ \A b \in Nat : StackOf(b) \in TablesOf
<1> USE DEF TablesOf
<1>1. ASSUME NEW S PROVE ImageOf(S) \in [0 .. PTES - 1 -> PtEntry]
  <2>1. \A i \in 0 .. PTES - 1 : [frame |-> i, user |-> i \in S] \in PtEntry
    <3> TAKE i \in 0 .. PTES - 1
    <3>1. (i \in S) \in BOOLEAN
      OBVIOUS
    <3> QED BY <3>1 DEF PtEntry
  <2> QED BY <2>1 DEF ImageOf
<1>2. ASSUME NEW b \in Nat PROVE StackOf(b) \in [0 .. PTES - 1 -> PtEntry]
  <2>1. StackBottom \in Int
    BY Numbers DEF StackBottom, StackTop
  <2>2. \A i \in 0 .. PTES - 1 : [frame |-> b + i - StackBottom, user |-> TRUE] \in PtEntry
    BY <2>1 DEF PtEntry
  <2>3. NoPage \in PtEntry
    BY DEF PtEntry, NoPage
  <2> QED BY <2>2, <2>3 DEF StackOf
<1> QED BY <1>1, <1>2

\* The processes' directories when the directory being made gets a table.
LEMMA OthersSame ==
    ASSUME NEW m, NEW n, NEW k, NEW P, World(m, k, P), k.pc \in Making, Beside(m, n),
           \A c \in DOMAIN m.dirs \ {k.pd} : n.dirs[c] = m.dirs[c],
           NEW t, \A x \in DOMAIN m.tabs \ {t} : n.tabs[x] = m.tabs[x],
           t \in DOMAIN m.tabs => t \in Private(m, k.pd) /\ t # m.kdir + 2,
           NEW p \in P
    PROVE  SameSpace(m, n, p.pd)
<1> PICK c : c = p.pd
  OBVIOUS
<1>1. Kernel(m) /\ Space(m, c) /\ c # k.pd /\ c \in UserDirs(k, P) /\ k.pd \in UserDirs(k, P)
  BY WorldSpaces DEF Space, World, MakeOK
<1>2. /\ c \in DOMAIN m.dirs \ {m.kdir}
      /\ \A x \in {m.dirs[c]["image"].table, m.dirs[c]["stack"].table} \ {NULL} :
                x \in DOMAIN m.tabs /\ (x # m.kdir + 2 => x \in Private(m, c))
  BY <1>1, SpaceTables
<1>3. Private(m, c) \cap Private(m, k.pd) = {}
  BY <1>1 DEF World, Disjoint
<1>4. \A x \in {m.dirs[c]["image"].table, m.dirs[c]["stack"].table} \ {NULL} : n.tabs[x] = m.tabs[x]
  BY <1>2, <1>3
<1>5. n.dirs[c] = m.dirs[c] /\ Beside(m, n)
  BY <1>1, <1>2
<1>6. SameSpace(m, n, c)
  BY ONLY <1>1, <1>4, <1>5, BesideSame
<1> QED BY <1>6

\* The fields of the creation after a step.
Steps(k, k2, pc, stub, stack) == k2 = [k EXCEPT !.pc = pc, !.stub = stub, !.stack = stack]

\* The other fields of the creation stay.
LEMMA NextStep ==
    ASSUME NEW m, NEW k, NEW P, MakeOK(m, k, P), NEW pc, NEW stub, NEW stack, NEW k2,
           Steps(k, k2, pc, stub, stack)
    PROVE  /\ k2 = [pc |-> k2.pc, pd |-> k2.pd, stub |-> k2.stub, stack |-> k2.stack, entry |-> k2.entry]
           /\ k2.pc = pc /\ k2.pd = k.pd /\ k2.stub = stub /\ k2.stack = stack /\ k2.entry = k.entry
  BY DEF MakeOK, Steps

\* A copy of the table of the image, open in the page of the stubs.
LEMMA StubBuilds ==
    ASSUME NEW m, NEW k, NEW P, World(m, k, P), k.pc = "stub", NEW f, Loose(m, UserDirs(k, P), f),
           NEW n, NewTableIn(m, n, k.pd, "image", f, ImageOf({0})),
           NEW k2, Steps(k, k2, "syscall", f, k.stack)
    PROVE  Builds(m, n, k, k2, P, {f})
<1> PICK d : d = k.pd
  OBVIOUS
<1> PICK T : T = ImageOf({0})
  OBVIOUS
<1>0. /\ Kernel(m) /\ MakeOK(m, k, P) /\ Cloned(m, d) /\ Space(m, d) /\ k.pc \in Making
      /\ d \in DOMAIN m.dirs \ {m.kdir} /\ d # NULL /\ m.dirs[d]["stack"] = NoTable
      /\ WindowTable(m) # NULL /\ m.dirs[d] \in [Pdes -> PdEntry]
  BY WorldSpaces DEF World, MakeOK, Making, Cloned, Space, Kernel, Typed
<1>1. /\ Beside(m, n) /\ Used(n) = Used(m) \cup {f} /\ OwnTable(n, f) /\ n.tabs[f] = T
      /\ DOMAIN n.dirs = DOMAIN m.dirs
      /\ \A t \in DOMAIN m.tabs : n.tabs[t] = m.tabs[t] /\ t # f
      /\ \A c \in DOMAIN m.dirs \ {d} : n.dirs[c] = m.dirs[c]
      /\ \A x \in Pdes \ {"image"} : n.dirs[d][x] = m.dirs[d][x]
      /\ n.dirs[d]["image"] = [table |-> f, user |-> TRUE]
  <2> PICK e \in {"image", "stack"} : e = "image"
    OBVIOUS
  <2>1. d \in DOMAIN m.dirs \ {m.kdir} /\ T \in TablesOf /\ Kernel(m)
        /\ NewTableIn(m, n, d, e, f, T) /\ Loose(m, UserDirs(k, P), f)
    BY <1>0, TablesTyped
  <2>2. TableMade(m, n, d, e, f, T)
    BY ONLY <2>1, e \in {"image", "stack"}, OwnTableMade
  <2> QED BY <2>2 DEF TableMade
<1>2. Kernel(n) /\ HeapTable(n) = HeapTable(m) /\ WindowTable(n) = WindowTable(m)
      /\ n.kdir = m.kdir /\ n.dirs[m.kdir] = m.dirs[m.kdir] /\ n.spare = m.spare /\ n.brk = m.brk
  BY <1>0, <1>1, BesideKernel DEF Beside
<1>3. \A x \in {"self", "identity", "heap", "windows", "stack"} : n.dirs[d][x] = m.dirs[d][x]
  BY <1>1 DEF Pdes
<1>4. Cloned(n, d)
  <2>1. n.dirs[d]["image"].user /\ OwnTable(n, n.dirs[d]["image"].table)
    BY <1>1
  <2>2. /\ Cloned(m, d) /\ m.dirs[d]["stack"] = NoTable /\ DOMAIN n.dirs = DOMAIN m.dirs
        /\ HeapTable(n) = HeapTable(m) /\ WindowTable(n) = WindowTable(m)
        /\ n.kdir = m.kdir /\ n.dirs[m.kdir] = m.dirs[m.kdir]
    BY <1>0, <1>1, <1>2
  <2> QED BY ONLY <1>3, <2>1, <2>2 DEF Cloned
<1>5. StackFr(n, d) = {} /\ Private(n, d) \subseteq {d, f}
  <2>1. n.dirs[d]["stack"].table = NULL /\ n.dirs[d]["image"].table = f
    BY <1>0, <1>1, <1>3 DEF NoTable
  <2>2. StackFr(n, d) = {}
    BY <2>1 DEF StackFr
  <2> QED BY <2>1, <2>2 DEF Private
<1>6. ASSUME NEW p \in P PROVE SameSpace(m, n, p.pd)
  BY <1>0, <1>1, <1>6, OthersSame
<1>7. f \notin {NULL, m.kdir + 2}
  BY <1>1, <1>2, TablesApart DEF OwnTable, Kernel, Typed
<1>8. Opened(n, d, {0})
  BY <1>1, <1>2, <1>7 DEF Opened
<1>9. MakeOK(n, k2, P) /\ k2.pc = "syscall" /\ k2.pd = d
  <2>1. /\ k2 = [pc |-> k2.pc, pd |-> k2.pd, stub |-> k2.stub, stack |-> k2.stack, entry |-> k2.entry]
        /\ k2.pc = "syscall" /\ k2.pd = d /\ k2.stub = f /\ k2.entry = k.entry
    <3>1. MakeOK(m, k, P) /\ Steps(k, k2, "syscall", f, k.stack)
      BY <1>0
    <3> QED BY ONLY <3>1, d = k.pd, NextStep
  <2>2. n.spare < n.brk /\ k.entry \in Entries /\ \A p \in P : p.pd # d
    BY <1>0, <1>2 DEF MakeOK, Making
  <2>3. n.dirs[d]["image"].table = f /\ n.dirs[d]["stack"] = NoTable
    BY <1>0, <1>1, <1>3
  <2> QED BY <1>0, <1>2, <1>4, <1>8, <2>1, <2>2, <2>3 DEF MakeOK, Making
<1>10. d \in Private(m, d)
  BY DEF Private
<1> QED BY <1>1, <1>5, <1>6, <1>9, <1>10 DEF Builds, Making

\* One more page of the image is opened.
Opens(m, n, t, S) ==
    /\ SameButMaps(m, n) /\ n.dirs = m.dirs
    /\ n.tabs = [m.tabs EXCEPT ![t] = ImageOf(S)]

\* Opening a page of a process's own table is a step of its creation.
LEMMA OpenBuilds ==
    ASSUME NEW m, NEW k, NEW P, World(m, k, P), k.pc \in {"syscall", "entry"},
           NEW S, NEW n, Opens(m, n, k.stub, S),
           NEW k2, Steps(k, k2, IF k.pc = "syscall" THEN "entry" ELSE "stack", k.stub, k.stack),
           S = IF k.pc = "syscall" THEN {0, 1} ELSE {0, 1, k.entry[2]}
    PROVE  Builds(m, n, k, k2, P, {})
<1> PICK d : d = k.pd
  OBVIOUS
<1> PICK t : t = k.stub
  OBVIOUS
<1>0. /\ Kernel(m) /\ MakeOK(m, k, P) /\ Cloned(m, d) /\ Space(m, d) /\ k.pc \in Making
      /\ d \in DOMAIN m.dirs \ {m.kdir} /\ d # NULL /\ m.dirs[d]["stack"] = NoTable
      /\ WindowTable(m) # NULL /\ m.dirs[d]["image"].table = t /\ t \notin {NULL, m.kdir + 2}
  BY WorldSpaces DEF World, MakeOK, Making, Cloned, Space, Kernel, Typed, Opened
<1>1. t \in DOMAIN m.tabs /\ OwnTable(m, t) /\ t \in Private(m, d)
  <2>1. m.dirs[m.kdir]["image"].table = m.kdir + 2
    BY <1>0 DEF Kernel, KernelDir
  <2>2. OwnTable(m, t)
    BY <1>0, <2>1 DEF Cloned
  <2>3. t \in Private(m, d)
    BY <1>0 DEF Private
  <2> QED BY <2>2, <2>3 DEF OwnTable
<1>2. /\ SameButMaps(m, n) /\ n.dirs = m.dirs /\ DOMAIN n.tabs = DOMAIN m.tabs /\ n.tabs[t] = ImageOf(S)
      /\ \A x \in DOMAIN m.tabs \ {t} : n.tabs[x] = m.tabs[x]
  BY <1>1 DEF Opens
<1>3. Beside(m, n)
  <2>1. \A c \in DOMAIN n.dirs : n.dirs[c] \in [Pdes -> PdEntry]
    BY <1>0, <1>2 DEF Kernel, Typed
  <2>2. \A x \in DOMAIN n.tabs : n.tabs[x] \in [0 .. PTES - 1 -> PtEntry]
    <3>1. ImageOf(S) \in [0 .. PTES - 1 -> PtEntry]
      BY TablesTyped DEF TablesOf
    <3>2. \A x \in DOMAIN m.tabs : m.tabs[x] \in [0 .. PTES - 1 -> PtEntry]
      BY <1>0 DEF Kernel, Typed
    <3> QED BY <1>2, <3>1, <3>2
  <2>3. \A x \in {m.kdir + 2, HeapTable(m), WindowTable(m)} \ {NULL} : n.tabs[x] = m.tabs[x]
    BY <1>0, <1>1, <1>2, TablesApart DEF OwnTable
  <2> QED BY <1>2, <2>1, <2>2, <2>3 DEF Beside, SameButMaps
<1>4. Kernel(n) /\ HeapTable(n) = HeapTable(m) /\ WindowTable(n) = WindowTable(m)
      /\ n.kdir = m.kdir /\ n.spare = m.spare /\ n.brk = m.brk /\ Used(n) \subseteq Used(m)
  BY <1>0, <1>2, <1>3, BesideKernel DEF Beside, Used
<1>5. Cloned(n, d)
  BY <1>0, <1>2, <1>4 DEF Cloned, OwnTable
<1>6. StackFr(n, d) = {} /\ Private(n, d) = {d, t}
  <2>1. n.dirs[d]["stack"].table = NULL /\ n.dirs[d]["image"].table = t
    BY <1>0, <1>2 DEF NoTable
  <2>2. StackFr(n, d) = {}
    BY <2>1 DEF StackFr
  <2> QED BY <1>0, <1>4, <2>1, <2>2 DEF Private
<1>7. ASSUME NEW p \in P PROVE SameSpace(m, n, p.pd)
  BY <1>0, <1>1, <1>2, <1>3, <1>7, OthersSame
<1>8. Opened(n, d, S)
  BY <1>0, <1>2, <1>4 DEF Opened
<1>9. MakeOK(n, k2, P) /\ k2.pc \in Making /\ k2.pd = d
  <2>1. /\ k2 = [pc |-> k2.pc, pd |-> k2.pd, stub |-> k2.stub, stack |-> k2.stack, entry |-> k2.entry]
        /\ k2.pc = (IF k.pc = "syscall" THEN "entry" ELSE "stack")
        /\ k2.pd = d /\ k2.stub = t /\ k2.entry = k.entry
    <3> PICK pc : pc = IF k.pc = "syscall" THEN "entry" ELSE "stack"
      OBVIOUS
    <3>1. MakeOK(m, k, P) /\ Steps(k, k2, pc, k.stub, k.stack)
      BY <1>0
    <3>2. /\ k2 = [pc |-> k2.pc, pd |-> k2.pd, stub |-> k2.stub, stack |-> k2.stack, entry |-> k2.entry]
          /\ k2.pc = pc /\ k2.pd = k.pd /\ k2.stub = k.stub /\ k2.entry = k.entry
      BY ONLY <3>1, NextStep
    <3> QED BY <3>2
  <2>2. n.spare < n.brk /\ k.entry \in Entries /\ \A p \in P : p.pd # d
    BY <1>0, <1>4 DEF MakeOK, Making
  <2>3. n.dirs[d]["image"].table = t /\ n.dirs[d]["stack"] = NoTable
    BY <1>0, <1>2
  <2>4. /\ k2.pc \in {"entry", "stack"} /\ (k2.pc = "entry" => S = {0, 1})
        /\ (k2.pc = "stack" => S = {0, 1, k2.entry[2]})
    BY <2>1
  <2> HIDE <2>1
  <2>5. MakeOK(n, k2, P)
    <3>1. k2 = [pc |-> k2.pc, pd |-> k2.pd, stub |-> k2.stub, stack |-> k2.stack, entry |-> k2.entry]
          /\ k2.pd = d /\ k2.stub = t /\ k2.entry = k.entry
      BY <2>1
    <3>2. /\ k2.pc # "idle" /\ k2.pc # "task" /\ k2.pc # "kstack" /\ k2.pc # "pd" /\ k2.pc # "clone" /\ k2.pc # "stub"
          /\ k2.pc # "syscall" /\ k2.pc # "init" /\ k2.pc \in Making
      BY <2>4 DEF Making
    <3> QED BY <1>0, <1>4, <1>5, <1>8, <2>2, <2>3, <2>4, <3>1, <3>2 DEF MakeOK, Making
  <2> QED BY <2>1, <2>4, <2>5 DEF Making
<1>10. d \in Private(m, d)
  BY DEF Private
<1> QED BY <1>1, <1>3, <1>4, <1>6, <1>7, <1>9, <1>10 DEF Builds

\* The frames of a stack.
LEMMA StackFrames ==
    ASSUME NEW base \in Nat, NEW i \in 0 .. PTES - 1, StackOf(base)[i].frame # -1
    PROVE  StackOf(base)[i].frame \in base .. (base + STACK_PAGES - 1)
<1>1. StackBottom = PTES - 3 - STACK_PAGES + 1 /\ StackTop = PTES - 3 /\ NoPage.frame = -1
  BY DEF StackBottom, StackTop, NoPage
<1>2. StackOf(base)[i] = IF i \in StackBottom .. StackTop
                         THEN [frame |-> base + i - StackBottom, user |-> TRUE] ELSE NoPage
  BY DEF StackOf
<1>3. i \in StackBottom .. StackTop /\ StackOf(base)[i].frame = base + i - StackBottom
  BY <1>1, <1>2
<1> QED BY <1>1, <1>3, Numbers

\* A table for the stack.
LEMMA StackBuilds ==
    ASSUME NEW m, NEW k, NEW P, World(m, k, P), k.pc = "stack", NEW t, NEW base \in Nat,
           base >= FirstFrame, Loose(m, UserDirs(k, P), t),
           \A f \in base .. (base + STACK_PAGES - 1) : Loose(m, UserDirs(k, P), f) /\ f # t,
           NEW n, NewTableIn(m, n, k.pd, "stack", t, StackOf(base)),
           NEW k2, Steps(k, k2, "init", k.stub, base)
    PROVE  Builds(m, n, k, k2, P, {t} \cup (base .. (base + STACK_PAGES - 1)))
<1> PICK d : d = k.pd
  OBVIOUS
<1> PICK T : T = StackOf(base)
  OBVIOUS
<1> PICK F : F = base .. (base + STACK_PAGES - 1)
  OBVIOUS
<1>0. /\ Kernel(m) /\ MakeOK(m, k, P) /\ Cloned(m, d) /\ Space(m, d) /\ k.pc \in Making
      /\ d \in DOMAIN m.dirs \ {m.kdir} /\ d # NULL
      /\ WindowTable(m) # NULL /\ Opened(m, d, {0, 1, k.entry[2]}) /\ m.dirs[d]["image"].table = k.stub
  BY WorldSpaces DEF World, MakeOK, Making, Cloned, Space, Kernel, Typed
<1>1. TableMade(m, n, d, "stack", t, T)
  <2> PICK e \in {"image", "stack"} : e = "stack"
    OBVIOUS
  <2>1. d \in DOMAIN m.dirs \ {m.kdir} /\ T \in TablesOf /\ Kernel(m)
        /\ NewTableIn(m, n, d, e, t, T) /\ Loose(m, UserDirs(k, P), t)
    BY <1>0, TablesTyped
  <2>2. TableMade(m, n, d, e, t, T)
    BY ONLY <2>1, e \in {"image", "stack"}, OwnTableMade
  <2> QED BY <2>2
<1>2. /\ Beside(m, n) /\ Used(n) = Used(m) \cup {t} /\ OwnTable(n, t) /\ n.tabs[t] = T
      /\ DOMAIN n.dirs = DOMAIN m.dirs
      /\ \A x \in DOMAIN m.tabs : n.tabs[x] = m.tabs[x] /\ x # t
      /\ \A c \in DOMAIN m.dirs \ {d} : n.dirs[c] = m.dirs[c]
      /\ \A x \in Pdes \ {"stack"} : n.dirs[d][x] = m.dirs[d][x]
      /\ n.dirs[d]["stack"] = [table |-> t, user |-> TRUE]
  BY <1>1 DEF TableMade
<1>3. Kernel(n) /\ HeapTable(n) = HeapTable(m) /\ WindowTable(n) = WindowTable(m) /\ n.free = m.free
      /\ n.kdir = m.kdir /\ n.dirs[m.kdir] = m.dirs[m.kdir] /\ n.spare = m.spare /\ n.brk = m.brk
  <2>1. Kernel(n) /\ HeapTable(n) = HeapTable(m) /\ WindowTable(n) = WindowTable(m)
    BY <1>0, <1>2, BesideKernel
  <2>2. /\ n.free = m.free /\ n.kdir = m.kdir /\ n.dirs[m.kdir] = m.dirs[m.kdir]
        /\ n.spare = m.spare /\ n.brk = m.brk
    BY <1>2 DEF Beside
  <2> QED BY <2>1, <2>2
<1>4. \A x \in {"self", "identity", "heap", "windows", "image"} : n.dirs[d][x] = m.dirs[d][x]
  BY <1>2 DEF Pdes
<1>5. k.stub \in DOMAIN m.tabs /\ k.stub \notin {NULL, m.kdir + 2} /\ OwnTable(m, k.stub)
      /\ k.stub # t /\ n.tabs[k.stub] = m.tabs[k.stub] /\ k.stub \in Private(m, d)
  <2>1. k.stub \notin {NULL, m.kdir + 2} /\ m.dirs[m.kdir]["image"].table = m.kdir + 2
    BY <1>0 DEF Opened, Kernel, KernelDir
  <2>2. OwnTable(m, k.stub)
    BY <1>0, <2>1 DEF Cloned
  <2>3. k.stub \in DOMAIN m.tabs
    BY <2>2 DEF OwnTable
  <2>4. k.stub \in Private(m, d)
    BY <1>0, <2>1 DEF Private
  <2> QED BY <1>2, <2>1, <2>2, <2>3, <2>4
<1>6. OwnTable(n, k.stub)
  BY <1>2, <1>3, <1>5 DEF OwnTable, Beside
<1>7. Cloned(n, d)
  <2>1. n.dirs[d]["stack"].user /\ n.dirs[d]["stack"].table = t
    BY <1>2
  <2>2. n.dirs[d]["image"].user /\ n.dirs[d]["image"].table = k.stub
    <3>1. m.dirs[m.kdir]["image"].table = m.kdir + 2
      BY <1>0 DEF Kernel, KernelDir
    <3> QED BY <1>0, <1>4, <1>5, <3>1 DEF Cloned
  <2>3. /\ Cloned(m, d) /\ n.dirs[m.kdir] = m.dirs[m.kdir] /\ n.kdir = m.kdir
        /\ HeapTable(n) = HeapTable(m) /\ WindowTable(n) = WindowTable(m)
        /\ DOMAIN n.dirs = DOMAIN m.dirs /\ OwnTable(n, t) /\ t # k.stub
    BY <1>0, <1>2, <1>3, <1>5
  <2> QED BY ONLY <1>4, <1>6, <2>1, <2>2, <2>3 DEF Cloned
<1>8. t # NULL
  BY <1>2, <1>3 DEF OwnTable, Kernel, Typed
<1>9. StackFr(n, d) \subseteq F
  <2>1. StackFr(n, d) = {T[i].frame : i \in 0 .. PTES - 1} \ {-1}
    BY <1>2, <1>8 DEF StackFr
  <2> QED BY <2>1, StackFrames
<1>10. Private(n, d) \subseteq {d, k.stub, t} \cup F
  <2>1. n.dirs[d]["stack"].table = t /\ n.dirs[d]["image"].table = k.stub
    BY <1>0, <1>2, <1>4
  <2> QED BY <1>9, <2>1 DEF Private
<1>11. StackFr(n, d) \cap (n.free \cup Used(n)) = {}
  <2>1. \A f \in F : f \notin m.free \cup Used(m) /\ f # t
    BY DEF Loose
  <2> QED BY <1>2, <1>3, <1>9, <2>1
<1>12. ASSUME NEW p \in P PROVE SameSpace(m, n, p.pd)
  BY <1>0, <1>2, <1>12, OthersSame
<1>13. Opened(n, d, {0, 1, k.entry[2]}) /\ Stacked(n, d, base)
  <2>1. Opened(n, d, {0, 1, k.entry[2]})
    BY <1>0, <1>3, <1>4, <1>5 DEF Opened
  <2>2. Stacked(n, d, base)
    BY <1>2, <1>8 DEF Stacked
  <2> QED BY <2>1, <2>2
<1>14. MakeOK(n, k2, P) /\ k2.pc = "init" /\ k2.pd = d
  <2>1. /\ k2 = [pc |-> k2.pc, pd |-> k2.pd, stub |-> k2.stub, stack |-> k2.stack, entry |-> k2.entry]
        /\ k2.pc = "init" /\ k2.pd = d /\ k2.stub = k.stub /\ k2.stack = base /\ k2.entry = k.entry
    <3>1. MakeOK(m, k, P) /\ Steps(k, k2, "init", k.stub, base)
      BY <1>0
    <3> QED BY ONLY <3>1, d = k.pd, NextStep
  <2>2. n.spare < n.brk /\ k.entry \in Entries /\ \A p \in P : p.pd # d
    BY <1>0, <1>3 DEF MakeOK, Making
  <2>3. n.dirs[d]["image"].table = k.stub
    BY <1>0, <1>4
  <2> QED BY <1>0, <1>3, <1>7, <1>13, <2>1, <2>2, <2>3 DEF MakeOK, Making
<1>15. d \in Private(m, d)
  BY DEF Private
<1>16. \A f \in {t} \cup F : Loose(m, UserDirs(k, P), f)
  OBVIOUS
<1>17. \A f \in Private(n, d) : f \in {t} \cup F \/ f \in Private(m, d)
  BY <1>5, <1>10, <1>15
<1> QED BY <1>2, <1>11, <1>12, <1>14, <1>16, <1>17 DEF Builds, Making

----------------------------------------------------------------------------
(* The calls those steps make                                              *)

\* The kernel's table of the image is open to no user.
LEMMA IdentityIs == Identity = ImageOf({})
<1>1. \A i \in 0 .. PTES - 1 : [frame |-> i, user |-> FALSE] = [frame |-> i, user |-> i \in {}]
  <2> TAKE i \in 0 .. PTES - 1
  <2>1. (i \in {}) = FALSE
    OBVIOUS
  <2> QED BY <2>1
<1> QED BY <1>1 DEF Identity, ImageOf

\* An entry is opened to the user and keeps its frame.
LEMMA EntryOpened ==
    ASSUME NEW j, NEW r, \E u : r = [frame |-> j, user |-> u]
    PROVE  [r EXCEPT !.user = TRUE] = [frame |-> j, user |-> TRUE]
<1> PICK u : r = [frame |-> j, user |-> u]
  OBVIOUS
<1>1. ASSUME NEW y PROVE [r EXCEPT !.user = y] = [frame |-> j, user |-> y]
  OBVIOUS
<1> QED BY <1>1

\* One more page of a table of the image is opened.
LEMMA ImageOpened ==
    ASSUME NEW S, NEW i \in 0 .. PTES - 1
    PROVE  [ImageOf(S) EXCEPT ![i].user = TRUE] = ImageOf(S \cup {i})
<1> PICK J : J = ImageOf(S)
  OBVIOUS
<1>1. J = [j \in 0 .. PTES - 1 |-> [frame |-> j, user |-> j \in S]]
  BY DEF ImageOf
<1>2. ASSUME NEW j \in 0 .. PTES - 1
      PROVE  [J EXCEPT ![i].user = TRUE][j] = [frame |-> j, user |-> j \in S \cup {i}]
  <2>1. J[j] = [frame |-> j, user |-> j \in S]
    BY <1>1
  <2>2. CASE j = i
    <3>1. [J EXCEPT ![i].user = TRUE][j] = [frame |-> j, user |-> TRUE]
      <4>1. [J EXCEPT ![i].user = TRUE][j] = [J[j] EXCEPT !.user = TRUE]
        BY <1>1, <2>2
      <4>2. \E u : J[j] = [frame |-> j, user |-> u]
        BY <2>1
      <4> QED BY <4>1, <4>2, EntryOpened
    <3>2. (j \in S \cup {i}) = TRUE
      BY <2>2
    <3> QED BY <3>1, <3>2
  <2>3. CASE j # i
    <3>1. [J EXCEPT ![i].user = TRUE][j] = J[j]
      BY <1>1, <2>3
    <3>2. (j \in S \cup {i}) = (j \in S)
      BY <2>3
    <3> QED BY <2>1, <3>1, <3>2
  <2> QED BY <2>2, <2>3
<1>3. DOMAIN [J EXCEPT ![i].user = TRUE] = 0 .. PTES - 1
  BY <1>1
<1>4. [J EXCEPT ![i].user = TRUE] = [j \in 0 .. PTES - 1 |-> [frame |-> j, user |-> j \in S \cup {i}]]
  <2> PICK Q : Q = [J EXCEPT ![i].user = TRUE]
    OBVIOUS
  <2>1. Q = [j \in 0 .. PTES - 1 |-> Q[j]]
    BY <1>1
  <2> QED BY <1>2, <2>1
<1> QED BY <1>4 DEF ImageOf

\* A copy of the table of e, in the frame f.
Copied(w, d, e, f) ==
    [w EXCEPT !.tabs = With(@, f, w.tabs[Table(w, e)]),
              !.dirs[d][e] = [table |-> f, user |-> TRUE], !.ret = f]

\* The steps of a copy.
LEMMA CopyIs ==
    ASSUME NEW m, NEW d, NEW e, NEW a, a = KpmmAllocPages(m, 1), NEW w, w = Window(a, 1, a.ret)
    PROVE  CopyTable(m, d, e) =
             IF a.ret = NULL THEN a
             ELSE IF w.ret = NULL THEN w
             ELSE Copied(w, d, e, a.ret)
<1>1. CopyTable(m, d, e) = IF a.ret = NULL THEN a ELSE CopyInto(a, d, e, a.ret)
  BY DEF CopyTable, Then
<1> PICK f : f = a.ret
  OBVIOUS
<1>2. CopyInto(a, d, e, f) =
             IF w.ret = NULL THEN w ELSE Copied(w, d, e, f)
  BY DEF CopyInto, Then, Copied
<1> QED BY <1>1, <1>2

\* A page is opened to the user in a table that is there.
LEMMA ForUserIs ==
    ASSUME NEW c, IsMem(c), NEW t \in DOMAIN c.tabs, NEW S, c.tabs[t] = ImageOf(S),
           NEW i \in 0 .. PTES - 1, NEW n, n = ForUser(c, t, i)
    PROVE  /\ SameButMaps(c, n) /\ n.dirs = c.dirs /\ n.ret = c.ret
           /\ n.tabs = [c.tabs EXCEPT ![t] = ImageOf(S \cup {i})]
<1> PICK Q : Q = [c.tabs EXCEPT ![t][i].user = TRUE]
  OBVIOUS
<1>1. n = [c EXCEPT !.tabs = Q]
  BY DEF ForUser, IsMem
<1>2. SameButMaps(c, n) /\ n.dirs = c.dirs /\ n.ret = c.ret /\ n.tabs = Q
  BY <1>1 DEF SameButMaps, IsMem
<1>3. Q = [c.tabs EXCEPT ![t] = [c.tabs[t] EXCEPT ![i].user = TRUE]]
  OBVIOUS
<1>4. [c.tabs[t] EXCEPT ![i].user = TRUE] = ImageOf(S \cup {i})
  BY ImageOpened
<1> QED BY <1>2, <1>3, <1>4

\* What is looked at through a window, after a frame was taken.
LEMMA TakenAndShown ==
    ASSUME NEW m, NEW k, NEW P, World(m, k, P), m.cr3 = m.kdir,
           NEW a, a = KpmmAllocPages(m, 1), NEW w, w = Window(a, 1, a.ret)
    PROVE  /\ Kernel(a) /\ Grows(m, a)
           /\ a.ret # NULL => /\ Kernel(w) /\ Grows(m, w) /\ World(w, k, P) /\ w.cr3 = w.kdir
                              /\ Loose(w, UserDirs(k, P), a.ret)
<1>0. Kernel(m) /\ Typed(m) /\ 1 \in Nat \ {0}
  BY DEF World, Kernel
<1>1. Kernel(a) /\ Grows(m, a)
  BY <1>0, AllocGrows
<1>2. ASSUME a.ret # NULL
      PROVE  /\ Kernel(w) /\ Grows(m, w) /\ World(w, k, P) /\ w.cr3 = w.kdir
             /\ Loose(w, UserDirs(k, P), a.ret)
  <2>1. a.ret \in Nat /\ a.cr3 = a.kdir /\ World(a, k, P) /\ 1 \in 0 .. 2
    <3>1. a.ret \in Nat
      BY <1>0, AllocIs
    <3>2. World(a, k, P)
      BY <1>1, WorldGrows
    <3> QED BY <1>1, <3>1, <3>2 DEF Grows
  <2>2. Kernel(w) /\ Grows(a, w)
    BY <1>1, <2>1, WindowGrows
  <2>3. a.ret \in a.ret .. (a.ret + 1 - 1)
    BY <2>1
  <2>4. Loose(a, UserDirs(k, P), a.ret)
    BY <1>0, <1>2, <2>3, LooseTaken
  <2>5. Grows(m, w) /\ World(w, k, P)
    BY <1>0, <1>1, <2>2, GrowsOn, WorldGrows
  <2>6. Loose(w, UserDirs(k, P), a.ret)
    BY <2>1, <2>2, <2>4, LooseKept
  <2>7. w.cr3 = w.kdir
    BY <2>1, <2>2 DEF Grows
  <2> QED BY <2>2, <2>5, <2>6, <2>7
<1> QED BY <1>1, <1>2

\* map_stub_user_page.
LEMMA StubEnds ==
    ASSUME NEW m, NEW k, NEW P, World(m, k, P), m.cr3 = m.kdir, k.pc = "stub",
           NEW c, c = CopyTable(m, k.pd, "image"),
           NEW n, n = IF c.ret = NULL THEN Kfree(c) ELSE ForUser(c, c.ret, 0),
           NEW k2, Steps(k, k2, "syscall", c.ret, k.stack)
    PROVE  Ends(m, n, k2, P)
<1> PICK a : a = KpmmAllocPages(m, 1)
  OBVIOUS
<1> PICK w : w = Window(a, 1, a.ret)
  OBVIOUS
<1> PICK d : d = k.pd
  OBVIOUS
<1> PICK f : f = a.ret
  OBVIOUS
<1>1. /\ Kernel(a) /\ Grows(m, a)
      /\ a.ret # NULL => /\ Kernel(w) /\ Grows(m, w) /\ World(w, k, P) /\ w.cr3 = w.kdir
                         /\ Loose(w, UserDirs(k, P), a.ret)
  BY TakenAndShown
<1>2. c = IF a.ret = NULL THEN a
          ELSE IF w.ret = NULL THEN w
          ELSE Copied(w, d, "image", f)
  BY CopyIs
<1>3. CASE a.ret = NULL \/ w.ret = NULL
  <2>1. Kernel(c) /\ Grows(m, c) /\ c.ret = NULL
    BY <1>1, <1>2, <1>3
  <2>2. n = Kfree(c)
    BY <2>1
  <2> QED BY <2>1, <2>2, FailedEnds
<1>4. CASE a.ret # NULL /\ w.ret # NULL
  <2>1. Kernel(w) /\ IsMem(w) /\ KernelDir(w) /\ d \in DOMAIN w.dirs /\ Loose(w, UserDirs(k, P), f)
        /\ World(w, k, P) /\ f # NULL
    BY <1>1, <1>4, WorldSpaces DEF Kernel, Typed, Making
  <2>2. w.tabs[Table(w, "image")] = ImageOf({})
    <3>1. Pd(w) = w.kdir
      BY <1>1, <1>4, KernelPd
    <3>2. Table(w, "image") = w.kdir + 2
      <4>1. w.dirs[w.kdir]["image"] = [table |-> w.kdir + 2, user |-> FALSE]
        BY <2>1 DEF KernelDir
      <4>2. w.dirs[w.kdir]["image"].table = w.kdir + 2
        BY ONLY <4>1
      <4> QED BY <3>1, <4>2 DEF Table
    <3>3. w.tabs[w.kdir + 2] = Identity
      BY <2>1 DEF KernelDir
    <3> QED BY <3>2, <3>3, IdentityIs
  <2> PICK Q : Q = With(w.tabs, f, ImageOf({}))
    OBVIOUS
  <2> PICK E : E = [w.dirs EXCEPT ![d]["image"] = [table |-> f, user |-> TRUE]]
    OBVIOUS
  <2>3. c = [w EXCEPT !.tabs = Q, !.dirs = E, !.ret = f]
    BY <1>2, <1>4, <2>1, <2>2 DEF IsMem, Copied
  <2>4. SameButMaps(w, c) /\ c.tabs = Q /\ c.dirs = E /\ c.ret = f
    <3>1. IsMem(w)
      BY <2>1
    <3> QED BY ONLY <2>3, <3>1 DEF SameButMaps, IsMem
  <2>5. f \in DOMAIN Q /\ Q[f] = ImageOf({})
    BY DEF With
  <2>6. n = ForUser(c, f, 0)
    BY <2>1, <2>4
  <2>7. /\ SameButMaps(c, n) /\ n.dirs = c.dirs /\ n.ret = c.ret
        /\ n.tabs = [c.tabs EXCEPT ![f] = ImageOf({0})]
    <3>1. 0 \in 0 .. PTES - 1 /\ {} \cup {0} = {0}
      BY Numbers
    <3>2. IsMem(c) /\ f \in DOMAIN c.tabs /\ c.tabs[f] = ImageOf({})
      BY <2>4, <2>5 DEF SameButMaps
    <3> PICK S : S = {}
      OBVIOUS
    <3>3. n.tabs = [c.tabs EXCEPT ![f] = ImageOf(S \cup {0})] /\ SameButMaps(c, n) /\ n.dirs = c.dirs
          /\ n.ret = c.ret
      BY <2>6, <3>1, <3>2, ForUserIs
    <3> QED BY <3>1, <3>3
  <2>8. n.tabs = With(w.tabs, f, ImageOf({0}))
    <3> PICK I0 : I0 = ImageOf({0})
      OBVIOUS
    <3>1. n.tabs = [Q EXCEPT ![f] = I0]
      BY <2>4, <2>7
    <3>2. Q = [z \in DOMAIN w.tabs \cup {f} |-> IF z = f THEN ImageOf({}) ELSE w.tabs[z]]
      BY DEF With
    <3>3. n.tabs = [z \in DOMAIN w.tabs \cup {f} |-> IF z = f THEN I0 ELSE w.tabs[z]]
      BY <3>1, <3>2
    <3> QED BY <3>3 DEF With
  <2>9. NewTableIn(w, n, d, "image", f, ImageOf({0}))
    <3>1. SameButMaps(w, n)
      BY <2>4, <2>7 DEF SameButMaps
    <3> QED BY <2>4, <2>7, <2>8, <3>1 DEF NewTableIn
  <2>10. Builds(w, n, k, k2, P, {f})
    <3>1. NewTableIn(w, n, k.pd, "image", f, ImageOf({0})) /\ Steps(k, k2, "syscall", f, k.stack)
      BY <2>4, <2>9
    <3> QED BY <2>1, <3>1, StubBuilds
  <2>11. World(n, k2, P) /\ n.kdir = w.kdir /\ HeapTable(n) = HeapTable(w)
    BY <2>1, <2>10, WorldBuilt
  <2>12. n.kdir = m.kdir /\ (HeapTable(m) # NULL => HeapTable(n) # NULL)
    BY <1>1, <1>4, <2>11, HeapTableKept
  <2> QED BY <2>1, <2>4, <2>7, <2>11, <2>12 DEF Ends
<1> QED BY <1>3, <1>4

\* map_entry_if_kernel, of a page of the image.
LEMMA EntryIs ==
    ASSUME NEW m, Kernel(m), m.cr3 = m.kdir, NEW i \in 0 .. PTES - 1,
           NEW u, u = [m EXCEPT !.ret = make.stub], make.stub # NULL, u.ret = make.stub,
           NEW w, w = Window(u, 1, make.stub)
    PROVE  MapEntryIfKernel(m, <<"image", i>>) = IF w.ret = NULL THEN w ELSE ForUser(w, make.stub, i)
<1> PICK va : va = <<"image", i>>
  OBVIOUS
<1>1. va[1] = "image" /\ va[2] = i /\ Stubs[1] = "image" /\ va[1] \in HighHalf
  BY DEF Stubs, HighHalf
<1>2. PageIn(m, Pd(m), va) # NoPage
  <2>1. Pd(m) = m.kdir /\ m.dirs[m.kdir]["image"].table = m.kdir + 2 /\ m.kdir + 2 # NULL
        /\ m.tabs[m.kdir + 2] = Identity
    BY DEF Pd, Kernel, KernelDir, NULL
  <2>2. PageIn(m, Pd(m), va) = Identity[i]
    BY <1>1, <2>1 DEF PageIn
  <2>3. Identity[i].frame = i /\ NoPage.frame = -1
    BY DEF Identity, NoPage
  <2> QED BY <2>2, <2>3
<1>3. UserTable(m, va[1]) = u
  BY <1>1 DEF UserTable
<1>4. MapEntryIfKernel(m, va) =
         Then(UserTable(m, va[1]), LAMBDA a : IF a.ret = NULL THEN a ELSE OpenPage(a, a.ret, va[2]))
  BY <1>1, <1>2 DEF MapEntryIfKernel
<1> PICK x : x = UserTable(m, va[1])
  OBVIOUS
<1>5. MapEntryIfKernel(m, va) = IF x.ret = NULL THEN x ELSE OpenPage(x, x.ret, va[2])
  BY <1>4 DEF Then
<1> PICK t : t = make.stub
  OBVIOUS
<1>6. OpenPage(u, t, i) = IF w.ret = NULL THEN w ELSE ForUser(w, t, i)
  BY DEF OpenPage, Then
<1> QED BY <1>1, <1>3, <1>5, <1>6

\* map_entry_if_kernel, for the page of the system call and for that of the entry.
LEMMA OpenEnds ==
    ASSUME NEW m, NEW P, World(m, make, P), m.cr3 = m.kdir, make.pc \in {"syscall", "entry"},
           NEW i \in 0 .. PTES - 1, i = IF make.pc = "syscall" THEN 1 ELSE make.entry[2],
           NEW k2, Steps(make, k2, IF make.pc = "syscall" THEN "entry" ELSE "stack", make.stub, make.stack)
    PROVE  Ends(m, GiveUp(MapEntryIfKernel(m, <<"image", i>>)), k2, P)
<1> PICK k : k = make
  OBVIOUS
<1> PICK t : t = k.stub
  OBVIOUS
<1> PICK d : d = k.pd
  OBVIOUS
<1> PICK c : c = MapEntryIfKernel(m, <<"image", i>>)
  OBVIOUS
<1> PICK S : S = IF k.pc = "syscall" THEN {0} ELSE {0, 1}
  OBVIOUS
<1> PICK u : u = [m EXCEPT !.ret = t]
  OBVIOUS
<1> PICK w : w = Window(u, 1, t)
  OBVIOUS
<1>0. /\ Kernel(m) /\ MakeOK(m, k, P) /\ k.pc \in Making /\ k.pc # "idle"
      /\ m.dirs[d]["image"].table = t /\ Opened(m, d, S) /\ Cloned(m, d)
  BY DEF World, MakeOK, Making
<1>1. t # NULL /\ t \in Nat /\ t \in DOMAIN m.tabs
  <2>1. t \notin {NULL, m.kdir + 2} /\ m.dirs[m.kdir]["image"].table = m.kdir + 2
    BY <1>0 DEF Opened, Kernel, KernelDir
  <2> QED BY <1>0, <2>1 DEF Cloned, OwnTable, Kernel, Typed
<1>2. Kernel(u) /\ Grows(m, u) /\ u.ret = t /\ u.cr3 = u.kdir
  <2>1. Kernel(u) /\ Grows(m, u) /\ u.ret = t
    BY ONLY <1>0, u = [m EXCEPT !.ret = t], AnswerGrows
  <2> QED BY <2>1 DEF Grows
<1>3. Kernel(w) /\ Grows(u, w)
  <2>1. 1 \in 0 .. 2
    OBVIOUS
  <2> QED BY ONLY <1>1, <1>2, <2>1, w = Window(u, 1, t), WindowGrows
<1>4. Grows(m, w) /\ World(w, k, P)
  BY <1>0, <1>2, <1>3, GrowsOn, WorldGrows
<1>5. c = IF w.ret = NULL THEN w ELSE ForUser(w, t, i)
  <2>1. /\ Kernel(m) /\ m.cr3 = m.kdir /\ make.stub # NULL /\ u.ret = make.stub
        /\ u = [m EXCEPT !.ret = make.stub] /\ w = Window(u, 1, make.stub)
    BY <1>0, <1>1, <1>2
  <2>2. MapEntryIfKernel(m, <<"image", i>>) = IF w.ret = NULL THEN w ELSE ForUser(w, make.stub, i)
    BY ONLY <2>1, i \in 0 .. PTES - 1, EntryIs
  <2> QED BY <2>2
<1>6. CASE w.ret = NULL
  <2>1. GiveUp(c) = Kfree(w)
    BY <1>5, <1>6 DEF GiveUp
  <2> QED BY <1>0, <1>3, <1>4, <1>6, <2>1, FailedEnds
<1>7. CASE w.ret # NULL
  <2>1. w.dirs[d]["image"].table = t /\ Opened(w, d, S) /\ Cloned(w, d)
    BY <1>4, <1>0 DEF World, MakeOK, Making
  <2>2. IsMem(w) /\ t \in DOMAIN w.tabs /\ w.tabs[t] = ImageOf(S)
    BY <1>1, <1>3, <1>4, <2>1 DEF Grows, Opened, Kernel, Typed
  <2>3. c = ForUser(w, t, i)
    BY <1>5, <1>7
  <2>4. /\ SameButMaps(w, c) /\ c.dirs = w.dirs /\ c.ret = w.ret
        /\ c.tabs = [w.tabs EXCEPT ![t] = ImageOf(S \cup {i})]
    BY <2>2, <2>3, ForUserIs
  <2> PICK S2 : S2 = S \cup {i}
    OBVIOUS
  <2>5. S2 = IF k.pc = "syscall" THEN {0, 1} ELSE {0, 1, k.entry[2]}
    OBVIOUS
  <2>6. Opens(w, c, t, S2)
    BY <2>4 DEF Opens
  <2>7. Builds(w, c, k, k2, P, {})
    BY <1>4, <2>5, <2>6, OpenBuilds
  <2>8. World(c, k2, P) /\ c.kdir = w.kdir /\ HeapTable(c) = HeapTable(w)
    BY <1>4, <2>7, WorldBuilt
  <2>9. c.kdir = m.kdir /\ (HeapTable(m) # NULL => HeapTable(c) # NULL)
    BY <1>4, <2>8, HeapTableKept
  <2>10. GiveUp(c) = c /\ c.ret # NULL
    BY <1>7, <2>4 DEF GiveUp
  <2> QED BY <2>8, <2>9, <2>10 DEF Ends
<1> QED BY <1>6, <1>7

\* The table map_user_stack fills in.
LEMMA StackTableIs ==
    ASSUME NEW base
    PROVE  [i \in DOMAIN Empty |-> IF <<"stack", i>> \notin StackVas THEN NoPage
                                   ELSE [frame |-> base + i - (StackTop - STACK_PAGES + 1), user |-> TRUE]]
             = StackOf(base)
<1>1. DOMAIN Empty = 0 .. PTES - 1
  BY DEF Empty
<1>2. \A i : <<"stack", i>> \in StackVas <=> i \in StackBottom .. StackTop
  BY DEF StackVas, StackBottom
<1> QED BY <1>1, <1>2 DEF StackOf, StackBottom

\* The directory d gets the table T in the frame f, for its stack.
WithStack(c, d, f, T) ==
    [c EXCEPT !.dirs[d]["stack"] = [table |-> f, user |-> TRUE], !.tabs = With(@, f, T)]

\* Nothing else changes.
LEMMA WithStackIs ==
    ASSUME NEW c, IsMem(c), NEW d, NEW f, NEW T, NEW n, n = WithStack(c, d, f, T)
    PROVE  n.ret = c.ret /\ NewTableIn(c, n, d, "stack", f, T)
<1> PICK Q : Q = With(c.tabs, f, T)
  OBVIOUS
<1> PICK E : E = [c.dirs EXCEPT ![d]["stack"] = [table |-> f, user |-> TRUE]]
  OBVIOUS
<1>1. n = [c EXCEPT !.dirs = E, !.tabs = Q]
  BY DEF WithStack, IsMem
<1>2. SameButMaps(c, n) /\ n.tabs = Q /\ n.dirs = E /\ n.ret = c.ret
  BY <1>1 DEF SameButMaps, IsMem
<1> QED BY <1>2 DEF NewTableIn

\* map_user_stack.
LEMMA StackEnds ==
    ASSUME NEW m, NEW k, NEW P, World(m, k, P), m.cr3 = m.kdir, k.pc = "stack",
           NEW a, a = KpmmAllocPages(m, STACK_PAGES),
           NEW b, b = IF a.ret = NULL THEN a ELSE KpmmAllocPages(a, 1),
           NEW c, c = IF b.ret = NULL THEN b ELSE Window(b, 1, b.ret),
           NEW n, c.ret = NULL => n = Kfree(c),
           c.ret # NULL => n = WithStack(c, k.pd, b.ret, StackOf(a.ret)),
           NEW k2, Steps(k, k2, "init", k.stub, a.ret)
    PROVE  Ends(m, n, k2, P)
<1>0. /\ Kernel(m) /\ Typed(m) /\ MakeOK(m, k, P) /\ 1 \in Nat \ {0}
      /\ STACK_PAGES \in Nat \ {0} /\ k.pc # "idle"
  BY Numbers DEF World, Kernel
<1>1. Kernel(a) /\ Grows(m, a) /\ World(a, k, P) /\ a.cr3 = a.kdir
  <2>1. Kernel(a) /\ Grows(m, a)
    BY ONLY <1>0, a = KpmmAllocPages(m, STACK_PAGES), StackAllocGrows
  <2> QED BY <2>1, WorldGrows DEF Grows
<1>2. CASE a.ret = NULL
  <2>1. b = a /\ c = a /\ n = Kfree(a)
    BY <1>2
  <2> QED BY <1>0, <1>1, <1>2, <2>1, FailedEnds
<1>3. CASE a.ret # NULL
  <2>1. b = KpmmAllocPages(a, 1)
    BY <1>3
  <2>2. Kernel(b) /\ Grows(a, b)
    BY <1>0, <1>1, <2>1, AllocGrows
  <2>3. CASE b.ret = NULL
    <3>1. c = b /\ n = Kfree(b) /\ Grows(m, b)
      BY <1>0, <1>1, <2>2, <2>3, GrowsOn
    <3> QED BY <1>0, <2>2, <2>3, <3>1, FailedEnds
  <2>4. CASE b.ret # NULL
    <3>1. c = Window(b, 1, b.ret)
      BY <2>4
    <3>2. /\ Kernel(c) /\ Grows(a, c) /\ World(c, k, P) /\ c.cr3 = c.kdir
          /\ Loose(c, UserDirs(k, P), b.ret)
      BY <1>1, <2>1, <2>4, <3>1, TakenAndShown
    <3>3. Grows(m, c)
      BY <1>0, <1>1, <3>2, GrowsOn
    <3>4. CASE c.ret = NULL
      <4>1. n = Kfree(c)
        BY <3>4
      <4> QED BY <1>0, <3>2, <3>3, <3>4, <4>1, FailedEnds
    <3>5. CASE c.ret # NULL
      <4> PICK base : base = a.ret
        OBVIOUS
      <4> PICK t : t = b.ret
        OBVIOUS
      <4>1. base \in Nat /\ base >= FirstFrame
        BY <1>0, <1>3, AllocIs
      <4>2. t \in a.free
        BY <1>1, <2>1, <2>4, AllocOne DEF OneFrame, Kernel
      <4>3. \A f \in base .. (base + STACK_PAGES - 1) : Loose(c, UserDirs(k, P), f) /\ f # t
        <5> TAKE f \in base .. (base + STACK_PAGES - 1)
        <5>1. Loose(a, UserDirs(k, P), f)
          BY <1>0, <1>3, LooseTaken
        <5>2. Loose(c, UserDirs(k, P), f)
          BY <1>1, <3>2, <5>1, LooseKept
        <5> QED BY <4>2, <5>1, <5>2 DEF Loose
      <4>4. /\ NewTableIn(c, n, k.pd, "stack", t, StackOf(base)) /\ n.ret = c.ret
            /\ Steps(k, k2, "init", k.stub, base)
        <5>1. n = WithStack(c, k.pd, t, StackOf(base)) /\ IsMem(c)
          BY <3>2, <3>5 DEF Kernel, Typed
        <5> QED BY <5>1, WithStackIs
      <4> PICK N : N = {t} \cup (base .. (base + STACK_PAGES - 1))
        OBVIOUS
      <4>5. World(c, k, P) /\ k.pc = "stack" /\ Loose(c, UserDirs(k, P), t)
        BY <3>2
      <4>6. Builds(c, n, k, k2, P, N)
        BY ONLY <4>1, <4>3, <4>4, <4>5, StackBuilds, N = {t} \cup (base .. (base + STACK_PAGES - 1))
      <4>7. World(n, k2, P) /\ n.kdir = c.kdir /\ HeapTable(n) = HeapTable(c)
        BY <4>5, <4>6, WorldBuilt
      <4>8. n.kdir = m.kdir /\ (HeapTable(m) # NULL => HeapTable(n) # NULL)
        BY <3>3, <4>7, HeapTableKept
      <4> QED BY <3>5, <4>4, <4>7, <4>8 DEF Ends
    <3> QED BY <3>4, <3>5
  <2> QED BY <2>3, <2>4
<1> QED BY <1>2, <1>3

\* setup_initial_stack; the process goes to the scheduler.
LEMMA ProcessAdded ==
    ASSUME NEW m, NEW k, NEW P, World(m, k, P), k.pc = "init",
           NEW q, q = [pd |-> k.pd, stack |-> k.stack, entry |-> k.entry, zombie |-> FALSE]
    PROVE  World(m, Idle, P \cup {q})
<1>1. /\ q.pd = k.pd /\ q.stack = k.stack /\ q.entry = k.entry
      /\ q = [pd |-> q.pd, stack |-> q.stack, entry |-> q.entry, zombie |-> q.zombie]
  OBVIOUS
<1>2. MakeOK(m, k, P) /\ k.pc \in Making /\ k.pd # NULL /\ \A p \in P : p.pd # k.pd
  BY DEF World, MakeOK, Making
<1>3. ProcOK(m, q)
  BY <1>1, <1>2 DEF ProcOK, MakeOK, Making
<1>4. UserDirs(Idle, P \cup {q}) = UserDirs(k, P)
  BY <1>1, <1>2 DEF UserDirs, Idle
<1>5. MakeOK(m, Idle, P \cup {q})
  <2>1. World(m, Idle, P)
    BY WorldIdle
  <2>2. Idle.pc = "idle"
    BY DEF Idle
  <2> QED BY <2>1, <2>2 DEF World, MakeOK, Making
<1>6. \A p, r \in P \cup {q} : p.pd = r.pd => p = r
  <2>1. \A p, r \in P : p.pd = r.pd => p = r
    BY DEF World
  <2>2. \A p \in P : p.pd # q.pd
    BY <1>1, <1>2
  <2> QED BY ONLY <2>1, <2>2
<1>7. m.cr3 \in {m.kdir} \cup {p.pd : p \in P \cup {q}}
  BY DEF World
<1> HIDE DEF Idle
<1> QED BY <1>3, <1>4, <1>5, <1>6, <1>7 DEF World

\* setup_initial_stack ends with a process, or is given up.
LEMMA SetupEnds ==
    ASSUME NEW m, NEW k, NEW P, World(m, k, P), m.cr3 = m.kdir, k.pc = "init",
           NEW w, w = Window(m, 2, k.stack + STACK_PAGES - 1), NEW n, n = Fail(GiveUp(w)),
           NEW P2, P2 = IF w.ret = NULL THEN P
                        ELSE P \cup {[pd |-> k.pd, stack |-> k.stack, entry |-> k.entry, zombie |-> FALSE]}
    PROVE  /\ World(n, Idle, P2) /\ n.kdir = m.kdir /\ n.ret = NULL
           /\ HeapTable(m) # NULL => HeapTable(n) # NULL
<1>0. Kernel(m) /\ MakeOK(m, k, P) /\ k.pc # "idle" /\ k.stack \in Nat
  BY DEF World, MakeOK, Stacked
<1>1. k.stack + STACK_PAGES - 1 \in Nat /\ 2 \in 0 .. 2
  BY <1>0, Numbers
<1>2. Kernel(w) /\ Grows(m, w)
  BY <1>0, <1>1, WindowGrows
<1>3. World(w, k, P) /\ w.kdir = m.kdir /\ (HeapTable(m) # NULL => HeapTable(w) # NULL)
  BY <1>2, WorldGrows, HeapTableKept
<1>4. CASE w.ret = NULL
  <2>1. GiveUp(w) = Kfree(w) /\ P2 = P
    BY <1>4 DEF GiveUp
  <2> PICK o : o = Kfree(w)
    OBVIOUS
  <2>2. Ends(m, o, Idle, P)
    BY <1>0, <1>2, <1>4, FailedEnds
  <2>3. World(o, Idle, P)
    BY <2>2 DEF Ends
  <2>4. World(n, Idle, P) /\ n.ret = NULL /\ n.kdir = o.kdir /\ n.dirs = o.dirs
    BY <2>1, <2>3, WorldFail
  <2> QED BY <2>1, <2>2, <2>4 DEF Ends, HeapTable
<1>5. CASE w.ret # NULL
  <2> PICK q : q = [pd |-> k.pd, stack |-> k.stack, entry |-> k.entry, zombie |-> FALSE]
    OBVIOUS
  <2>1. World(w, Idle, P \cup {q}) /\ P2 = P \cup {q} /\ n = Fail(w)
    BY <1>3, <1>5, ProcessAdded DEF GiveUp
  <2>2. World(n, Idle, P2) /\ n.ret = NULL /\ n.kdir = w.kdir /\ n.dirs = w.dirs
    BY <2>1, WorldFail
  <2> QED BY <1>3, <2>2 DEF HeapTable
<1> QED BY <1>4, <1>5

----------------------------------------------------------------------------
(* The invariant: the steps once the kernel is up                          *)

\* What such a step has to keep.
UpKept ==
    /\ boot.pc = "up" /\ boot' = boot /\ World(mem', make', procs')
    /\ mem'.kdir = mem.kdir /\ mem'.ret = NULL /\ HeapTable(mem') # NULL

\* That is all the invariant asks of it.
LEMMA UpStep ==
    ASSUME SpacesInv, UpKept
    PROVE  SpacesInv'
<1>1. Started /\ Started'
  BY DEF SpacesInv, UpKept, Started
<1>2. EarlyOK(boot)'
  BY DEF SpacesInv, UpKept, EarlyOK
<1>3. boot'.pc = "up"
  BY DEF UpKept
<1> QED BY <1>1, <1>2, <1>3 DEF SpacesInv, UpKept

\* What holds before one.
LEMMA UpBefore ==
    ASSUME SpacesInv, boot.pc = "up"
    PROVE  /\ World(mem, make, procs) /\ Kernel(mem) /\ mem.ret = NULL /\ HeapTable(mem) # NULL
           /\ MakeOK(mem, make, procs)
  BY DEF SpacesInv, Started, World

\* A step of the creation.
LEMMA StepKeeps ==
    ASSUME SpacesInv, boot.pc = "up", UNCHANGED boot, NEW after, NEW next,
           Ends(mem, after, next, procs), Step(after, next)
    PROVE  SpacesInv'
<1>1. HeapTable(mem) # NULL
  BY UpBefore
<1>2. mem' = Fail(after) /\ procs' = procs /\ make' = IF after.ret = NULL THEN Idle ELSE next
  BY DEF Step
<1>3. World(after, make', procs)
  BY <1>2 DEF Ends
<1> PICK n : n = mem'
  OBVIOUS
<1>4. World(n, make', procs) /\ n.ret = NULL /\ n.kdir = after.kdir /\ n.dirs = after.dirs
  BY <1>2, <1>3, WorldFail
<1>5. HeapTable(n) # NULL /\ n.kdir = mem.kdir
  BY <1>1, <1>4 DEF Ends, HeapTable
<1>6. UpKept
  BY <1>2, <1>4, <1>5 DEF UpKept
<1> QED BY <1>6, UpStep

\* kprocess_create takes its process_t.
LEMMA CreateBegins ==
    ASSUME SpacesInv, NEW e \in Entries, KprocessCreate(e)
    PROVE  SpacesInv'
<1>1. /\ boot.pc = "up" /\ UNCHANGED boot /\ mem.cr3 = mem.kdir /\ make.pc = "idle"
      /\ Step(Kmalloc(mem), [Idle EXCEPT !.pc = "task", !.entry = e])
  BY DEF KprocessCreate, InShell
<1>2. World(mem, make, procs) /\ Kernel(mem) /\ Seen(mem)
  BY <1>1, UpBefore, InKernelReaches
<1> PICK n : n = Kmalloc(mem)
  OBVIOUS
<1>3. HeapCall(mem, n)
  BY <1>2, KmallocGrows DEF HeapCall
<1>4. World(mem, Idle, procs) /\ Idle.pc = "idle"
  BY <1>2, WorldIdle DEF Idle
<1> PICK k2 : k2 = [Idle EXCEPT !.pc = "task", !.entry = e]
  OBVIOUS
<1>5. k2 = [pc |-> "task", pd |-> NULL,
            stub |-> Idle.stub, stack |-> Idle.stack, entry |-> e]
  BY DEF Idle
<1> PICK k : k = Idle
  OBVIOUS
<1>6. Ends(mem, n, k2, procs)
  <2> PICK pc \in {"task", "kstack", "pd"} : pc = "task"
    OBVIOUS
  <2>1. World(mem, k, procs) /\ k.pc \in {"idle", "task", "kstack"} /\ mem.cr3 = mem.kdir
        /\ HeapCall(mem, n)
        /\ k2 = [pc |-> pc, pd |-> NULL, stub |-> k.stub, stack |-> k.stack, entry |-> e]
    BY <1>1, <1>3, <1>4, <1>5
  <2> QED BY ONLY <2>1, e \in Entries, pc \in {"task", "kstack", "pd"}, BlockEnds
<1> QED BY <1>1, <1>6, StepKeeps

\* kprocess_create takes the task, or its stack.
LEMMA TaskStepKeeps ==
    ASSUME SpacesInv, boot.pc = "up", UNCHANGED boot, mem.cr3 = mem.kdir, make.pc \in {"task", "kstack"},
           NEW n, HeapCall(mem, n), NEW pc \in {"task", "kstack", "pd"}, Step(n, [make EXCEPT !.pc = pc])
    PROVE  SpacesInv'
<1>1. boot.pc = "up" /\ UNCHANGED boot /\ mem.cr3 = mem.kdir /\ Step(n, [make EXCEPT !.pc = pc])
  OBVIOUS
<1>2. World(mem, make, procs) /\ MakeOK(mem, make, procs)
  BY <1>1, UpBefore
<1>3. HeapCall(mem, n)
  OBVIOUS
<1> PICK k : k = make
  OBVIOUS
<1> PICK k2 : k2 = [k EXCEPT !.pc = pc]
  OBVIOUS
<1>4. /\ k.entry \in Entries /\ k.pd = NULL /\ k.pc \in {"idle", "task", "kstack"}
      /\ k = [pc |-> k.pc, pd |-> k.pd, stub |-> k.stub, stack |-> k.stack, entry |-> k.entry]
  BY <1>1, <1>2 DEF MakeOK, Making
<1>5. k2 = [pc |-> pc, pd |-> NULL,
            stub |-> k.stub, stack |-> k.stack, entry |-> k.entry]
  BY <1>4
<1>6. Ends(mem, n, k2, procs)
  <2> PICK e \in Entries : e = k.entry
    BY <1>4
  <2>1. World(mem, k, procs) /\ k.pc \in {"idle", "task", "kstack"} /\ mem.cr3 = mem.kdir
        /\ HeapCall(mem, n)
        /\ k2 = [pc |-> pc, pd |-> NULL, stub |-> k.stub, stack |-> k.stack, entry |-> e]
    BY <1>1, <1>2, <1>3, <1>4, <1>5
  <2> QED BY ONLY <2>1, e \in Entries, pc \in {"task", "kstack", "pd"}, BlockEnds
<1> QED BY <1>1, <1>6, StepKeeps

\* The task.
LEMMA TaskKeeps ==
    ASSUME SpacesInv, KprocessTask
    PROVE  SpacesInv'
<1>1. /\ boot.pc = "up" /\ UNCHANGED boot /\ mem.cr3 = mem.kdir /\ make.pc = "task"
      /\ Step(Kmalloc(mem), [make EXCEPT !.pc = "kstack"])
  BY DEF KprocessTask, InShell
<1>2. Kernel(mem) /\ Seen(mem)
  BY <1>1, UpBefore, InKernelReaches
<1> PICK n : n = Kmalloc(mem)
  OBVIOUS
<1>3. HeapCall(mem, n)
  BY <1>2, KmallocGrows DEF HeapCall
<1> PICK pc \in {"task", "kstack", "pd"} : pc = "kstack"
  OBVIOUS
<1>4. Step(n, [make EXCEPT !.pc = pc])
  BY <1>1
<1> QED BY <1>1, <1>3, <1>4, TaskStepKeeps

\* Its stack.
LEMMA TaskStackKeeps ==
    ASSUME SpacesInv, KprocessTaskStack
    PROVE  SpacesInv'
<1>1. /\ boot.pc = "up" /\ UNCHANGED boot /\ mem.cr3 = mem.kdir /\ make.pc = "kstack"
      /\ Step(TaskStack(mem), [make EXCEPT !.pc = "pd"])
  BY DEF KprocessTaskStack, InShell
<1>2. Kernel(mem) /\ Seen(mem)
  BY <1>1, UpBefore, InKernelReaches
<1> PICK n : n = TaskStack(mem)
  OBVIOUS
<1>3. HeapCall(mem, n)
  BY <1>2, TaskStackGrows
<1> PICK pc \in {"task", "kstack", "pd"} : pc = "pd"
  OBVIOUS
<1>4. Step(n, [make EXCEPT !.pc = pc])
  BY <1>1
<1> QED BY <1>1, <1>3, <1>4, TaskStepKeeps

\* alloc_page_directory keeps the invariant.
LEMMA DirectoryKeeps ==
    ASSUME SpacesInv, AllocPageDirectory
    PROVE  SpacesInv'
<1>1. boot.pc = "up" /\ UNCHANGED boot /\ mem.cr3 = mem.kdir /\ make.pc = "pd"
  BY DEF AllocPageDirectory, InShell
<1>2. World(mem, make, procs)
  BY <1>1, UpBefore
<1> PICK a : a = KpmmAllocPages(mem, 1)
  OBVIOUS
<1> PICK b : b = IF a.ret = NULL THEN a ELSE Window(a, 0, a.ret)
  OBVIOUS
<1> PICK n : n = [b EXCEPT !.dirs = IF b.ret = NULL THEN @ ELSE With(@, a.ret, [e \in Pdes |-> NoTable])]
  OBVIOUS
<1> PICK k2 : k2 = [make EXCEPT !.pc = "clone", !.pd = a.ret]
  OBVIOUS
<1>3. Step(GiveUp(n), k2)
  BY DEF AllocPageDirectory, DirectoryIn
<1>4. Ends(mem, GiveUp(n), k2, procs)
  BY <1>1, <1>2, DirectoryEnds
<1> PICK o : o = GiveUp(n)
  OBVIOUS
<1>5. Step(o, k2) /\ Ends(mem, o, k2, procs)
  BY <1>3, <1>4
<1> QED BY <1>1, <1>5, StepKeeps

\* clone_kernel_high_half keeps it.
LEMMA CloneKeeps ==
    ASSUME SpacesInv, CloneKernelHighHalf
    PROVE  SpacesInv'
<1> PICK d : d = make.pd
  OBVIOUS
<1> PICK n : n = Ok([mem EXCEPT !.dirs[d] =
                  [e \in Pdes |-> IF e \in HighHalf THEN mem.dirs[Pd(mem)][e]
                                  ELSE IF e = "self" THEN [NoTable EXCEPT !.table = d] ELSE @[e]]])
  OBVIOUS
<1> PICK k2 : k2 = [make EXCEPT !.pc = "stub"]
  OBVIOUS
<1>1. boot.pc = "up" /\ UNCHANGED boot /\ mem.cr3 = mem.kdir /\ make.pc = "clone" /\ Step(n, k2)
  BY DEF CloneKernelHighHalf, InShell
<1>2. World(mem, make, procs) /\ Kernel(mem) /\ HeapTable(mem) # NULL /\ Fresh(mem, d)
  BY <1>1, UpBefore DEF MakeOK
<1>3. Clones(mem, n, d)
  BY <1>1, <1>2, CloneIs
<1>4. Ends(mem, n, k2, procs)
  BY <1>1, <1>2, <1>3, CloneEnds
<1> QED BY <1>1, <1>4, StepKeeps

\* map_stub_user_page keeps it.
LEMMA StubKeeps ==
    ASSUME SpacesInv, MapStubUserPage
    PROVE  SpacesInv'
<1> PICK c : c = CopyTable(mem, make.pd, "image")
  OBVIOUS
<1> PICK n : n = IF c.ret = NULL THEN Kfree(c) ELSE ForUser(c, c.ret, 0)
  OBVIOUS
<1> PICK k2 : k2 = [make EXCEPT !.pc = "syscall", !.stub = c.ret]
  OBVIOUS
<1>0. Stubs[1] = "image" /\ Stubs[2] = 0
  BY DEF Stubs
<1>1. boot.pc = "up" /\ UNCHANGED boot /\ mem.cr3 = mem.kdir /\ make.pc = "stub" /\ Step(n, k2)
  BY <1>0 DEF MapStubUserPage, StubIn, InShell
<1>2. World(mem, make, procs) /\ MakeOK(mem, make, procs)
  BY <1>1, UpBefore
<1>3. Steps(make, k2, "syscall", c.ret, make.stack)
  BY <1>2 DEF Steps, MakeOK
<1>4. Ends(mem, n, k2, procs)
  BY <1>1, <1>2, <1>3, StubEnds
<1> QED BY <1>1, <1>4, StepKeeps

\* map_entry_if_kernel keeps it, for the page of the system call.
LEMMA SyscallKeeps ==
    ASSUME SpacesInv, MapSyscall
    PROVE  SpacesInv'
<1> PICK i \in 0 .. PTES - 1 : i = 1
  BY Numbers
<1> PICK n : n = GiveUp(MapEntryIfKernel(mem, <<"image", i>>))
  OBVIOUS
<1> PICK k2 : k2 = [make EXCEPT !.pc = "entry"]
  OBVIOUS
<1>0. Syscall = <<"image", i>>
  BY DEF Syscall
<1>1. boot.pc = "up" /\ UNCHANGED boot /\ mem.cr3 = mem.kdir /\ make.pc = "syscall" /\ Step(n, k2)
  BY <1>0 DEF MapSyscall, InShell
<1>2. World(mem, make, procs) /\ MakeOK(mem, make, procs)
  BY <1>1, UpBefore
<1>3. Steps(make, k2, IF make.pc = "syscall" THEN "entry" ELSE "stack", make.stub, make.stack)
  BY <1>1, <1>2 DEF Steps, MakeOK
<1>4. make.pc \in {"syscall", "entry"} /\ i = IF make.pc = "syscall" THEN 1 ELSE make.entry[2]
  BY <1>1
<1>5. Ends(mem, n, k2, procs)
  BY <1>1, <1>2, <1>3, <1>4, OpenEnds
<1> QED BY <1>1, <1>5, StepKeeps

\* And for the page of the entry.
LEMMA EntryKeeps ==
    ASSUME SpacesInv, MapEntry
    PROVE  SpacesInv'
<1>0. boot.pc = "up" /\ UNCHANGED boot /\ mem.cr3 = mem.kdir /\ make.pc = "entry"
      /\ World(mem, make, procs) /\ MakeOK(mem, make, procs)
  BY UpBefore DEF MapEntry, InShell
<1>1. make.entry \in {"image"} \X (0 .. PTES - 1)
  BY <1>0, EntriesAssumption DEF MakeOK
<1> PICK i \in 0 .. PTES - 1 : make.entry = <<"image", i>>
  BY <1>1
<1> PICK n : n = GiveUp(MapEntryIfKernel(mem, <<"image", i>>))
  OBVIOUS
<1> PICK k2 : k2 = [make EXCEPT !.pc = "stack"]
  OBVIOUS
<1>2. Step(n, k2)
  BY DEF MapEntry
<1>3. Steps(make, k2, IF make.pc = "syscall" THEN "entry" ELSE "stack", make.stub, make.stack)
  BY <1>0 DEF Steps, MakeOK
<1>4. make.pc \in {"syscall", "entry"} /\ i = IF make.pc = "syscall" THEN 1 ELSE make.entry[2]
  BY <1>0
<1>5. Ends(mem, n, k2, procs)
  BY <1>0, <1>3, <1>4, OpenEnds
<1> QED BY <1>0, <1>2, <1>5, StepKeeps

\* map_user_stack keeps it.
LEMMA StackKeeps ==
    ASSUME SpacesInv, MapUserStack
    PROVE  SpacesInv'
<1> PICK a : a = KpmmAllocPages(mem, STACK_PAGES)
  OBVIOUS
<1> PICK b : b = IF a.ret = NULL THEN a ELSE KpmmAllocPages(a, 1)
  OBVIOUS
<1> PICK c : c = IF b.ret = NULL THEN b ELSE Window(b, 1, b.ret)
  OBVIOUS
<1> PICK T : T = [i \in DOMAIN Empty |-> IF <<"stack", i>> \notin StackVas THEN NoPage
                    ELSE [frame |-> a.ret + i - (StackTop - STACK_PAGES + 1), user |-> TRUE]]
  OBVIOUS
<1> PICK n : n = IF c.ret = NULL THEN Kfree(c) ELSE WithStack(c, make.pd, b.ret, T)
  OBVIOUS
<1> PICK k2 : k2 = [make EXCEPT !.pc = "init", !.stack = a.ret]
  OBVIOUS
<1>0. T = StackOf(a.ret)
  BY StackTableIs
<1>1. boot.pc = "up" /\ UNCHANGED boot /\ mem.cr3 = mem.kdir /\ make.pc = "stack" /\ Step(n, k2)
  BY DEF MapUserStack, StackIn, InShell, WithStack
<1>2. World(mem, make, procs) /\ MakeOK(mem, make, procs)
  BY <1>1, UpBefore
<1>3. Steps(make, k2, "init", make.stub, a.ret)
  BY <1>2 DEF Steps, MakeOK
<1> PICK k : k = make
  OBVIOUS
<1>4. /\ World(mem, k, procs) /\ k.pc = "stack" /\ mem.cr3 = mem.kdir
      /\ c.ret = NULL => n = Kfree(c)
      /\ c.ret # NULL => n = WithStack(c, k.pd, b.ret, StackOf(a.ret))
      /\ Steps(k, k2, "init", k.stub, a.ret)
  BY <1>0, <1>1, <1>2, <1>3
<1>5. /\ a = KpmmAllocPages(mem, STACK_PAGES)
      /\ b = IF a.ret = NULL THEN a ELSE KpmmAllocPages(a, 1)
      /\ c = IF b.ret = NULL THEN b ELSE Window(b, 1, b.ret)
  OBVIOUS
<1>6. Ends(mem, n, k2, procs)
  BY ONLY <1>4, <1>5, StackEnds
<1> QED BY <1>1, <1>6, StepKeeps

\* setup_initial_stack keeps it.
LEMMA SetupKeeps ==
    ASSUME SpacesInv, SetupInitialStack
    PROVE  SpacesInv'
<1>1. boot.pc = "up" /\ UNCHANGED boot /\ mem.cr3 = mem.kdir /\ make.pc = "init"
  BY DEF SetupInitialStack, InShell
<1>2. World(mem, make, procs) /\ HeapTable(mem) # NULL
  BY <1>1, UpBefore
<1> PICK w : w = Window(mem, 2, make.stack + STACK_PAGES - 1)
  OBVIOUS
<1>3. /\ mem' = Fail(GiveUp(w)) /\ make' = Idle
      /\ procs' = IF w.ret = NULL THEN procs
                  ELSE procs \cup {[pd |-> make.pd, stack |-> make.stack, entry |-> make.entry, zombie |-> FALSE]}
  BY DEF SetupInitialStack
<1>4. /\ World(mem', Idle, procs') /\ mem'.kdir = mem.kdir /\ mem'.ret = NULL
      /\ HeapTable(mem) # NULL => HeapTable(mem') # NULL
  BY <1>1, <1>2, <1>3, SetupEnds
<1>5. UpKept
  BY <1>1, <1>2, <1>3, <1>4 DEF UpKept
<1> QED BY <1>5, UpStep

\* A tick changes cr3 only.
LEMMA TickKeeps ==
    ASSUME SpacesInv, NEW d \in {mem.kdir} \cup {p.pd : p \in procs}, TickTo(d)
    PROVE  SpacesInv'
<1>1. boot.pc = "up" /\ mem' = [mem EXCEPT !.cr3 = d] /\ UNCHANGED <<boot, make, procs>>
  BY DEF TickTo
<1>2. World(mem, make, procs) /\ Kernel(mem) /\ HeapTable(mem) # NULL /\ mem.ret = NULL
  BY <1>1, UpBefore
<1> PICK m : m = mem
  OBVIOUS
<1> PICK n : n = mem'
  OBVIOUS
<1>3. /\ n.free = m.free /\ n.low = m.low /\ n.dirs = m.dirs /\ n.tabs = m.tabs
      /\ n.cr3 = d /\ n.kdir = m.kdir /\ n.brk = m.brk /\ n.spare = m.spare
      /\ n.ret = m.ret /\ n.fault = m.fault /\ IsMem(n)
  BY <1>1, <1>2 DEF Kernel, Typed, IsMem
<1>4. HeapTable(n) = HeapTable(m) /\ WindowTable(n) = WindowTable(m) /\ HeapFr(n) = HeapFr(m)
      /\ Used(n) = Used(m)
  BY <1>3 DEF HeapTable, WindowTable, HeapFr, Used
<1>5. Kernel(n)
  <2>1. Typed(n) /\ HeapMapped(n) /\ Apart(n)
    BY <1>2, <1>3, <1>4 DEF Kernel, Typed, HeapMapped, Apart
  <2>2. KernelDir(n)
    BY <1>2, <1>3, <1>4 DEF Kernel, KernelDir
  <2> QED BY <2>1, <2>2 DEF Kernel
<1>6. \A c \in UserDirs(make, procs) : SameSpace(m, n, c)
  <2> TAKE c \in UserDirs(make, procs)
  <2>1. Space(m, c) /\ c \in DOMAIN m.dirs
    BY <1>2, WorldSpaces
  <2>2. Untouched(m, n, c)
    BY <1>3, <2>1 DEF Untouched
  <2> QED BY <1>2, <1>5, <2>1, <2>2, UntouchedSame
<1>7. n.fault => NoMem(n)
  BY <1>2, <1>3 DEF World, NoMem
<1>8. make.pc # "idle" => n.spare < n.brk
  BY <1>2, <1>3 DEF World, MakeOK
<1>9. n.cr3 \in {n.kdir} \cup {p.pd : p \in procs}
  BY <1>3
<1>10. n.free \cup Used(n) \subseteq m.free \cup Used(m) /\ (WindowTable(m) # NULL => WindowTable(n) # NULL)
  BY <1>3, <1>4
<1>11. World(m, make, procs)
  BY <1>2
<1>12. World(n, make, procs)
  BY ONLY <1>5, <1>6, <1>7, <1>8, <1>9, <1>10, <1>11, WorldKept
<1>13. UpKept
  BY <1>1, <1>2, <1>3, <1>4, <1>12 DEF UpKept
<1> QED BY <1>13, UpStep

\* A system call allocates.
LEMMA SyscallKmallocKeeps ==
    ASSUME SpacesInv, NEW p \in procs, SyscallKmalloc(p)
    PROVE  SpacesInv'
<1>1. boot.pc = "up" /\ mem.cr3 = p.pd /\ mem' = Fail(Kmalloc(mem)) /\ UNCHANGED <<boot, make, procs>>
  BY DEF SyscallKmalloc, Running
<1>2. World(mem, make, procs) /\ Kernel(mem) /\ HeapTable(mem) # NULL
  BY <1>1, UpBefore
<1>3. Seen(mem)
  <2>1. Cloned(mem, p.pd)
    BY <1>2 DEF World, ProcOK
  <2> QED BY <1>1, <2>1 DEF Cloned, Seen
<1> PICK a : a = Kmalloc(mem)
  OBVIOUS
<1>4. Kernel(a) /\ Grows(mem, a)
  BY <1>2, <1>3, KmallocGrows
<1>5. World(a, make, procs) /\ a.kdir = mem.kdir /\ HeapTable(a) # NULL
  BY <1>2, <1>4, WorldGrows, HeapTableKept
<1>6. World(mem', make, procs) /\ mem'.ret = NULL /\ mem'.kdir = a.kdir /\ mem'.dirs = a.dirs
  BY <1>1, <1>5, WorldFail
<1>7. HeapTable(mem') # NULL
  BY <1>5, <1>6 DEF HeapTable
<1>8. UpKept
  BY <1>1, <1>5, <1>6, <1>7 DEF UpKept
<1> QED BY <1>8, UpStep

\* A task that exits keeps its address space.
LEMMA ExitKeeps ==
    ASSUME SpacesInv, NEW p \in procs, KtaskExit(p)
    PROVE  SpacesInv'
<1> PICK q : q = [p EXCEPT !.zombie = TRUE]
  OBVIOUS
<1> PICK Q : Q = (procs \ {p}) \cup {q}
  OBVIOUS
<1>1. boot.pc = "up" /\ procs' = Q /\ UNCHANGED <<boot, mem, make>>
  BY DEF KtaskExit, Running
<1>2. World(mem, make, procs) /\ HeapTable(mem) # NULL /\ mem.ret = NULL
  BY <1>1, UpBefore
<1>3. ProcOK(mem, p)
  BY <1>2 DEF World
<1>4. /\ q.pd = p.pd /\ q.stack = p.stack /\ q.entry = p.entry
      /\ q = [pd |-> q.pd, stack |-> q.stack, entry |-> q.entry, zombie |-> q.zombie]
  BY <1>3 DEF ProcOK
<1>5. ProcOK(mem, q)
  <2>1. /\ p.entry \in Entries /\ Cloned(mem, p.pd)
        /\ Opened(mem, p.pd, {0, 1, p.entry[2]}) /\ Stacked(mem, p.pd, p.stack)
    BY <1>3 DEF ProcOK
  <2> QED BY <1>4, <2>1 DEF ProcOK
<1>6. {x.pd : x \in Q} = {x.pd : x \in procs}
  <2>1. \A x \in Q : x = q \/ x \in procs
    OBVIOUS
  <2>2. \A x \in procs : x = p \/ x \in Q
    OBVIOUS
  <2>3. q \in Q /\ p \in procs
    OBVIOUS
  <2>4. ASSUME NEW x \in Q PROVE \E y \in procs : x.pd = y.pd
    <3>1. CASE x = q
      BY ONLY <1>4, <2>3, <3>1
    <3>2. CASE x \in procs
      BY ONLY <3>2
    <3> QED BY ONLY <2>1, <3>1, <3>2, x \in Q
  <2>5. ASSUME NEW x \in procs PROVE \E y \in Q : x.pd = y.pd
    <3>1. CASE x = p
      BY ONLY <1>4, <2>3, <3>1
    <3>2. CASE x \in Q
      BY ONLY <3>2
    <3> QED BY ONLY <2>2, <3>1, <3>2, x \in procs
  <2> QED BY ONLY <2>4, <2>5
<1>7. UserDirs(make, Q) = UserDirs(make, procs)
  BY <1>6 DEF UserDirs
<1>8. MakeOK(mem, make, Q)
  <2>1. MakeOK(mem, make, procs)
    BY <1>2 DEF World
  <2>2. (\A x \in procs : x.pd # make.pd) => (\A x \in Q : x.pd # make.pd)
    BY <1>4
  <2> QED BY <2>1, <2>2 DEF MakeOK
<1>9. \A x, y \in Q : x.pd = y.pd => x = y
  <2> SUFFICES ASSUME NEW x \in Q, NEW y \in Q, x.pd = y.pd PROVE x = y
    OBVIOUS
  <2>1. \A v, w \in procs : v.pd = w.pd => v = w
    BY <1>2 DEF World
  <2>2. (x = q \/ (x \in procs /\ x # p)) /\ (y = q \/ (y \in procs /\ y # p))
    OBVIOUS
  <2>3. q.pd = p.pd
    BY <1>4
  <2> QED BY ONLY <2>1, <2>2, <2>3, p \in procs, x.pd = y.pd
<1>10. World(mem, make, Q)
  BY <1>2, <1>5, <1>6, <1>7, <1>8, <1>9 DEF World
<1>11. UpKept
  BY <1>1, <1>2, <1>10 DEF UpKept
<1> QED BY <1>11, UpStep

----------------------------------------------------------------------------
(* The boot                                                                *)

\* What \div computes.
LEMMA DivIs ==
    ASSUME NEW x \in Nat, NEW n \in Nat \ {0}
    PROVE  x \div n \in Nat /\ (x \div n) * n <= x /\ x < (x \div n) * n + n
  OBVIOUS

\* And the only number that it can be.
LEMMA DivBy ==
    ASSUME NEW x \in Nat, NEW n \in Nat \ {0}, NEW q \in Nat, q * n <= x, x < q * n + n
    PROVE  x \div n = q
  OBVIOUS

\* Rounding up to a page ends on a page, not below and less than one above.
LEMMA AlignedIs ==
    ASSUME NEW x \in Nat, NEW n \in Nat \ {0}
    PROVE  \E q \in Nat : AlignUp(x, n) = q * n /\ x <= q * n /\ q * n < x + n /\ q * n \in Nat
<1> PICK q : q = (x + n - 1) \div n
  OBVIOUS
<1>1. x + n - 1 \in Nat
  OBVIOUS
<1>2. q \in Nat /\ q * n <= x + n - 1 /\ x + n - 1 < q * n + n
  BY <1>1, DivIs
<1>3. q * n \in Nat
  BY <1>2
<1>4. AlignUp(x, n) = q * n
  BY DEF AlignUp
<1> QED BY <1>2, <1>3, <1>4

\* What is on a page stays where it is.
LEMMA AlignedStays ==
    ASSUME NEW q \in Nat, NEW n \in Nat \ {0}
    PROVE  AlignUp(q * n, n) = q * n
<1> PICK x : x = q * n
  OBVIOUS
<1>1. x \in Nat /\ x + n - 1 \in Nat
  OBVIOUS
<1>2. x <= x + n - 1 /\ x + n - 1 < x + n
  BY <1>1
<1>3. (x + n - 1) \div n = q
  BY <1>1, <1>2, DivBy
<1> QED BY <1>3 DEF AlignUp

\* The early allocator gives out an area behind all others, or panics.
LEMMA EarlyIs ==
    ASSUME NEW b, EarlyOK(b), b.pc # "early", NEW at \in Nat, b.cur <= at, NEW bytes \in Nat,
           NEW n, n = Early(b, at, bytes)
    PROVE  /\ EarlyOK(n) /\ n.pc # "early"
           /\ n.pc # "panic" => /\ n.pc = b.pc /\ n.cur = at + bytes /\ n.cur > 0
                                /\ n.cur <= EARLY_START + KEARLY_SIZE /\ b.cur > 0
                                /\ n.areas = b.areas \cup {[at |-> at, len |-> bytes]}
<1>0. /\ b.cur \in Nat /\ b.end \in Nat /\ b.end = EARLY_START + KEARLY_SIZE /\ EARLY_START <= b.cur
      /\ b = [pc |-> b.pc, cur |-> b.cur, end |-> b.end, avail |-> b.avail, areas |-> b.areas]
      /\ EARLY_START \in Nat /\ KEARLY_SIZE \in Nat /\ b.cur <= b.end
  BY SpacesAssumption DEF EarlyOK
<1>1. CASE ~b.avail \/ b.cur = NULL \/ bytes = 0 \/ at - b.cur + bytes > b.end - b.cur
  <2>1. n = [b EXCEPT !.pc = "panic"]
    BY <1>1 DEF Early
  <2>2. /\ n.pc = "panic" /\ n.cur = b.cur /\ n.end = b.end /\ n.avail = b.avail /\ n.areas = b.areas
        /\ n = [pc |-> n.pc, cur |-> n.cur, end |-> n.end, avail |-> n.avail, areas |-> n.areas]
    BY <1>0, <2>1
  <2>3. EarlyOK(n)
    BY <1>0, <2>2 DEF EarlyOK
  <2> QED BY <2>2, <2>3
<1>2. CASE ~(~b.avail \/ b.cur = NULL \/ bytes = 0 \/ at - b.cur + bytes > b.end - b.cur)
  <2> PICK new : new = [at |-> at, len |-> bytes]
    OBVIOUS
  <2>1. n = [b EXCEPT !.cur = at + bytes, !.areas = b.areas \cup {new}]
    BY <1>2 DEF Early
  <2>2. /\ n.pc = b.pc /\ n.cur = at + bytes /\ n.end = b.end /\ n.avail = b.avail
        /\ n.areas = b.areas \cup {new}
        /\ n = [pc |-> n.pc, cur |-> n.cur, end |-> n.end, avail |-> n.avail, areas |-> n.areas]
    BY <1>0, <2>1
  <2>3. n.cur \in Nat /\ b.cur < n.cur /\ n.cur <= n.end /\ b.cur # 0 /\ bytes > 0 /\ b.cur > 0
    BY <1>0, <1>2, <2>2 DEF NULL
  <2>4. new.at = at /\ new.len = bytes
    OBVIOUS
  <2>5. \A a \in b.areas : /\ a.at \in Nat /\ a.len \in Nat /\ a.len > 0
                           /\ EARLY_START <= a.at /\ a.at + a.len <= b.cur
    BY DEF EarlyOK
  <2>6. \A a \in n.areas : /\ a.at \in Nat /\ a.len \in Nat /\ a.len > 0
                           /\ EARLY_START <= a.at /\ a.at + a.len <= n.cur
    BY <1>0, <2>2, <2>3, <2>4, <2>5
  <2>7. \A a, c \in n.areas : a # c => a.at + a.len <= c.at \/ c.at + c.len <= a.at
    <3> SUFFICES ASSUME NEW a \in n.areas, NEW c \in n.areas, a # c
                 PROVE  a.at + a.len <= c.at \/ c.at + c.len <= a.at
      OBVIOUS
    <3>1. CASE a \in b.areas /\ c \in b.areas
      BY <3>1 DEF EarlyOK
    <3>2. CASE a = new /\ c \in b.areas
      BY <1>0, <2>4, <2>5, <3>2
    <3>3. CASE a \in b.areas /\ c = new
      BY <1>0, <2>4, <2>5, <3>3
    <3> QED BY <2>2, <3>1, <3>2, <3>3
  <2>8. EarlyOK(n)
    <3>1. b.pc \in {"early", "pmm", "vmm", "identity", "heap", "kernel", "up", "panic"}
      BY DEF EarlyOK
    <3>2. EARLY_START <= n.cur /\ n.cur > 0
      BY <1>0, <2>2, <2>3
    <3> QED BY <1>0, <2>2, <2>3, <2>6, <2>7, <3>1, <3>2 DEF EarlyOK
  <2> QED BY <1>0, <2>2, <2>3, <2>8
<1> QED BY <1>1, <1>2

\* The allocator's cursor and areas do not depend on how far the boot is.
LEMMA EarlyOn ==
    ASSUME NEW b, EarlyOK(b), b.pc # "early",
           NEW pc \in {"vmm", "identity", "heap", "kernel", "up", "panic"}, pc = "vmm" => b.cur > 0,
           NEW n, n = [b EXCEPT !.pc = pc]
    PROVE  EarlyOK(n) /\ n.pc = pc /\ n.areas = b.areas /\ n.cur = b.cur /\ n.end = b.end
<1>0. b = [pc |-> b.pc, cur |-> b.cur, end |-> b.end, avail |-> b.avail, areas |-> b.areas]
  BY DEF EarlyOK
<1>1. /\ n.pc = pc /\ n.cur = b.cur /\ n.end = b.end /\ n.avail = b.avail /\ n.areas = b.areas
      /\ n = [pc |-> n.pc, cur |-> n.cur, end |-> n.end, avail |-> n.avail, areas |-> n.areas]
  BY <1>0
<1>2. EarlyOK(n)
  BY <1>1 DEF EarlyOK
<1> QED BY <1>1, <1>2

\* One more page for kvmm_init, on the page behind the last.
LEMMA PageTaken ==
    ASSUME NEW b, EarlyOK(b), b.pc # "early", NEW q \in Nat, AlignUp(b.cur, PAGE) = q * PAGE,
           b.cur <= q * PAGE, NEW n, n = KearlyMallocAligned(b, PAGE)
    PROVE  /\ EarlyOK(n) /\ n.pc # "early"
           /\ n.pc # "panic" => /\ n.pc = b.pc /\ n.cur = (q + 1) * PAGE /\ b.cur > 0
                                /\ n.cur <= EARLY_START + KEARLY_SIZE
                                /\ n.areas = b.areas \cup {[at |-> q * PAGE, len |-> PAGE]}
                                /\ AlignUp(n.cur, PAGE) = (q + 1) * PAGE
<1>0. PAGE \in Nat \ {0}
  BY SpacesAssumption
<1> PICK at : at = q * PAGE
  OBVIOUS
<1>1. at \in Nat /\ at + PAGE = (q + 1) * PAGE /\ PAGE \in Nat
  BY <1>0
<1>2. n = Early(b, at, PAGE)
  BY DEF KearlyMallocAligned
<1>3. AlignUp((q + 1) * PAGE, PAGE) = (q + 1) * PAGE
  <2> PICK r \in Nat : r = q + 1
    OBVIOUS
  <2>1. AlignUp(r * PAGE, PAGE) = r * PAGE
    BY <1>0, AlignedStays
  <2> QED BY <2>1
<1>4. /\ EarlyOK(n) /\ n.pc # "early"
      /\ n.pc # "panic" => /\ n.pc = b.pc /\ n.cur = at + PAGE /\ n.cur > 0
                           /\ n.cur <= EARLY_START + KEARLY_SIZE /\ b.cur > 0
                           /\ n.areas = b.areas \cup {[at |-> at, len |-> PAGE]}
  <2>1. EarlyOK(b) /\ b.pc # "early" /\ b.cur <= at
    OBVIOUS
  <2> QED BY ONLY <1>1, <1>2, <2>1, EarlyIs
<1> QED BY <1>1, <1>3, <1>4

\* After a panic there is no way back.
LEMMA PageOrPanic ==
    ASSUME NEW b, EarlyOK(b), b.pc # "early", NEW n, n = KearlyMallocAligned(b, PAGE)
    PROVE  EarlyOK(n) /\ n.pc # "early" /\ (n.pc # "panic" => n.pc = b.pc)
<1>0. PAGE \in Nat \ {0} /\ b.cur \in Nat
  BY SpacesAssumption DEF EarlyOK
<1> PICK q \in Nat : AlignUp(b.cur, PAGE) = q * PAGE /\ b.cur <= q * PAGE
  BY <1>0, AlignedIs
<1> QED BY PageTaken

\* The three pages kvmm_init takes are behind each other, and below the frames.
LEMMA ThreePages ==
    ASSUME NEW b0, EarlyOK(b0), b0.pc = "vmm",
           NEW b, b = KearlyMallocAligned(KearlyMallocAligned(KearlyMallocAligned(b0, PAGE), PAGE), PAGE)
    PROVE  /\ EarlyOK(b) /\ b.pc # "early"
           /\ b.pc # "panic" =>
                \E d \in Nat \ {NULL} :
                  /\ d = (b.cur - 3 * PAGE) \div PAGE /\ d + 2 < FirstFrame
                  /\ \A x \in {d, d + 1, d + 2} : [at |-> x * PAGE, len |-> PAGE] \in b.areas
<1>0. /\ PAGE \in Nat \ {0} /\ b0.cur \in Nat /\ EARLY_START + KEARLY_SIZE \in Nat /\ b0.cur > 0
      /\ b0.pc # "early"
  BY SpacesAssumption DEF EarlyOK
<1> PICK b1 : b1 = KearlyMallocAligned(b0, PAGE)
  OBVIOUS
<1> PICK b2 : b2 = KearlyMallocAligned(b1, PAGE)
  OBVIOUS
<1>1. b = KearlyMallocAligned(b2, PAGE)
  OBVIOUS
<1>2. EarlyOK(b1) /\ b1.pc # "early"
  BY <1>0, PageOrPanic
<1>3. EarlyOK(b2) /\ b2.pc # "early" /\ (b2.pc # "panic" => b1.pc # "panic")
  BY <1>2, PageOrPanic
<1>4. EarlyOK(b) /\ b.pc # "early" /\ (b.pc # "panic" => b2.pc # "panic")
  BY <1>1, <1>3, PageOrPanic
<1>5. ASSUME b.pc # "panic"
      PROVE  \E d \in Nat \ {NULL} :
               /\ d = (b.cur - 3 * PAGE) \div PAGE /\ d + 2 < FirstFrame
               /\ \A x \in {d, d + 1, d + 2} : [at |-> x * PAGE, len |-> PAGE] \in b.areas
  <2> PICK q \in Nat : AlignUp(b0.cur, PAGE) = q * PAGE /\ b0.cur <= q * PAGE
    BY <1>0, AlignedIs
  <2> PICK q1 \in Nat : q1 = q + 1
    OBVIOUS
  <2> PICK q2 \in Nat : q2 = q + 2
    OBVIOUS
  <2>1. /\ b1.cur = q1 * PAGE /\ b1.areas = b0.areas \cup {[at |-> q * PAGE, len |-> PAGE]}
        /\ AlignUp(b1.cur, PAGE) = q1 * PAGE
    BY <1>0, <1>3, <1>4, <1>5, PageTaken
  <2>2. b1.cur <= q1 * PAGE
    BY <1>0, <2>1
  <2>3. /\ b2.cur = (q1 + 1) * PAGE /\ b2.areas = b1.areas \cup {[at |-> q1 * PAGE, len |-> PAGE]}
        /\ AlignUp(b2.cur, PAGE) = (q1 + 1) * PAGE
    BY <1>2, <1>4, <1>5, <2>1, <2>2, PageTaken
  <2>4. b2.cur = q2 * PAGE /\ AlignUp(b2.cur, PAGE) = q2 * PAGE /\ b2.cur <= q2 * PAGE
    <3>1. q1 + 1 = q2 /\ q2 * PAGE \in Nat
      BY <1>0
    <3> QED BY <2>3, <3>1
  <2>5. /\ b.cur = (q2 + 1) * PAGE /\ b.areas = b2.areas \cup {[at |-> q2 * PAGE, len |-> PAGE]}
        /\ b.cur <= EARLY_START + KEARLY_SIZE
    BY <1>1, <1>3, <1>5, <2>4, PageTaken
  <2>6. b.cur - 3 * PAGE = q * PAGE
    BY <1>0, <2>5
  <2>7. (q * PAGE) \div PAGE = q
    <3> PICK x \in Nat : x = q * PAGE
      BY <1>0
    <3>1. q * PAGE <= x /\ x < q * PAGE + PAGE
      BY <1>0
    <3>2. x \div PAGE = q
      BY <1>0, <3>1, DivBy
    <3> QED BY <3>2
  <2>8. q # NULL
    <3>1. q = 0 => q * PAGE = 0
      BY <1>0
    <3> QED BY <1>0, <3>1 DEF NULL
  <2>9. q + 2 < FirstFrame
    <3> PICK e \in Nat : e = EARLY_START + KEARLY_SIZE
      BY <1>0
    <3> PICK g \in Nat : g = e \div PAGE
      BY <1>0, DivIs
    <3>1. e < g * PAGE + PAGE
      BY <1>0, DivIs
    <3>2. (q + 3) * PAGE < (g + 1) * PAGE
      BY <1>0, <2>5, <3>1
    <3>3. q + 3 < g + 1
      BY <1>0, <3>2
    <3> QED BY <3>3 DEF FirstFrame
  <2>10. \A x \in {q, q + 1, q + 2} : [at |-> x * PAGE, len |-> PAGE] \in b.areas
    BY <2>1, <2>3, <2>5
  <2> QED BY <2>6, <2>7, <2>8, <2>9, <2>10
<1> QED BY <1>4, <1>5

----------------------------------------------------------------------------
(* The invariant: the steps of the boot                                    *)

\* As long as nothing is made and no process is there.
LEMMA EmptyWorld ==
    ASSUME NEW m, Kernel(m), m.fault => NoMem(m), m.cr3 = m.kdir
    PROVE  World(m, Idle, {})
<1>1. Idle.pc = "idle" /\ Idle.pd = NULL
      /\ Idle = [pc |-> Idle.pc, pd |-> Idle.pd, stub |-> Idle.stub, stack |-> Idle.stack, entry |-> Idle.entry]
  BY DEF Idle
<1>2. UserDirs(Idle, {}) = {}
  BY <1>1 DEF UserDirs
<1>3. MakeOK(m, Idle, {})
  BY <1>1 DEF MakeOK, Making
<1>4. Disjoint(m, {})
  BY DEF Disjoint
<1> QED BY <1>2, <1>3, <1>4 DEF World

\* The memory as kmain finds it.
LEMMA InitInv ==
    ASSUME SpacesInit
    PROVE  SpacesInv
<1>1. /\ boot.pc = "early" /\ boot.cur = 0 /\ boot.end = 0 /\ boot.areas = {}
      /\ boot = [pc |-> boot.pc, cur |-> boot.cur, end |-> boot.end, avail |-> boot.avail, areas |-> boot.areas]
      /\ make = Idle /\ procs = {}
  BY DEF SpacesInit, NULL
<1>2. EarlyOK(boot)
  BY <1>1 DEF EarlyOK
<1> PICK n \in FrameCounts, low \in Lows :
         mem = [free |-> FirstFrame .. FirstFrame + n - 1, low |-> low, dirs |-> <<>>, tabs |-> <<>>,
                cr3 |-> NULL, kdir |-> NULL, brk |-> 0, spare |-> 0, ret |-> NULL, fault |-> FALSE]
  BY DEF SpacesInit
<1>3. n \in Nat /\ low \in Nat /\ FirstFrame \in Nat
  BY SpacesAssumption, FirstFramePositive
<1>4. /\ mem.free = FirstFrame .. FirstFrame + n - 1 /\ mem.low = low /\ mem.dirs = <<>> /\ mem.tabs = <<>>
      /\ mem.cr3 = NULL /\ mem.kdir = NULL /\ mem.brk = 0 /\ mem.spare = 0 /\ mem.ret = NULL
      /\ mem.fault = FALSE /\ IsMem(mem)
  BY DEF IsMem
<1>5. mem.free \subseteq Nat /\ \A f \in mem.free : f >= FirstFrame
  BY <1>3, <1>4
<1>6. DOMAIN mem.dirs = {} /\ DOMAIN mem.tabs = {}
  BY <1>4
<1>7. mem.brk \in 0 .. KERNEL_HEAP_PAGES /\ mem.spare \in 0 .. mem.brk
  BY <1>4, Numbers
<1>8. Typed(mem)
  BY <1>3, <1>4, <1>5, <1>6, <1>7 DEF Typed
<1>9. Bare(mem, make, procs) /\ ~Started
  BY <1>1, <1>4, <1>8 DEF Bare, Started
<1> QED BY <1>1, <1>2, <1>4, <1>9 DEF SpacesInv

\* kearly_malloc_init.
LEMMA EarlyInitKeeps ==
    ASSUME SpacesInv, KearlyMallocInit
    PROVE  SpacesInv'
<1>0. boot.pc = "early" /\ UNCHANGED <<mem, make, procs>>
      /\ boot' = [boot EXCEPT !.pc = "pmm", !.cur = EARLY_START, !.end = EARLY_START + KEARLY_SIZE]
  BY DEF KearlyMallocInit
<1>1. EarlyOK(boot) /\ ~Started /\ Bare(mem, make, procs) /\ mem.ret = NULL
  BY <1>0 DEF SpacesInv
<1> PICK b : b = boot'
  OBVIOUS
<1>2. /\ b.pc = "pmm" /\ b.cur = EARLY_START /\ b.end = EARLY_START + KEARLY_SIZE /\ b.areas = {}
      /\ b = [pc |-> b.pc, cur |-> b.cur, end |-> b.end, avail |-> b.avail, areas |-> b.areas]
  BY <1>0, <1>1 DEF EarlyOK
<1>3. EarlyOK(b)
  BY <1>2, SpacesAssumption DEF EarlyOK
<1>4. mem.cr3 = mem.kdir /\ make = Idle /\ procs = {}
  BY <1>1 DEF Bare, Started
<1>5. ~Started'
  BY <1>0, <1>1 DEF Started
<1> QED BY <1>0, <1>1, <1>2, <1>3, <1>4, <1>5 DEF SpacesInv

\* kpmm_init takes its bitmap.
LEMMA PmmInitKeeps ==
    ASSUME SpacesInv, KpmmInit
    PROVE  SpacesInv'
<1>0. boot.pc = "pmm" /\ UNCHANGED <<mem, make, procs>>
  BY DEF KpmmInit
<1>1. EarlyOK(boot) /\ ~Started /\ Bare(mem, make, procs) /\ mem.ret = NULL
  BY <1>0 DEF SpacesInv
<1> PICK bytes \in BitmapSizes :
       boot' = Then(KearlyMalloc(boot, bytes), LAMBDA b : IF b.pc = "panic" THEN b ELSE [b EXCEPT !.pc = "vmm"])
  BY DEF KpmmInit
<1> PICK a : a = KearlyMalloc(boot, bytes)
  OBVIOUS
<1>2. boot' = IF a.pc = "panic" THEN a ELSE [a EXCEPT !.pc = "vmm"]
  BY DEF Then
<1>3. AlignUp(bytes, PAGE \div 2) \in Nat
  <2>1. bytes \in Nat /\ PAGE \div 2 \in Nat \ {0}
    BY SpacesAssumption
  <2> PICK n \in Nat \ {0} : n = PAGE \div 2
    BY <2>1
  <2>2. AlignUp(bytes, n) \in Nat
    BY <2>1, AlignedIs
  <2> QED BY <2>2
<1> PICK len \in Nat : len = AlignUp(bytes, PAGE \div 2)
  BY <1>3
<1> PICK at : at = boot.cur
  OBVIOUS
<1>4. a = Early(boot, at, len) /\ at \in Nat /\ boot.cur <= at /\ boot.pc # "early"
  BY <1>0, <1>1 DEF KearlyMalloc, EarlyOK
<1>5. EarlyOK(a) /\ a.pc # "early" /\ (a.pc # "panic" => a.cur > 0)
  BY ONLY <1>1, <1>4, len \in Nat, EarlyIs
<1> PICK n : n = boot'
  OBVIOUS
<1>6. EarlyOK(n) /\ n.pc \in {"panic", "vmm"}
  <2>1. CASE a.pc = "panic"
    BY <1>2, <1>5, <2>1
  <2>2. CASE a.pc # "panic"
    BY <1>2, <1>5, <2>2, EarlyOn
  <2> QED BY <2>1, <2>2
<1>7. mem.cr3 = mem.kdir /\ make = Idle /\ procs = {}
  BY <1>1 DEF Bare, Started
<1>8. ~Started'
  BY <1>0, <1>1 DEF Started
<1> QED BY <1>0, <1>1, <1>6, <1>7, <1>8 DEF SpacesInv

\* The directory and the two tables kvmm_init fills in.
FirstDir(d) ==
    [[e \in Pdes |-> NoTable] EXCEPT
        !["identity"] = [NoTable EXCEPT !.table = d + 1],
        !["image"] = [NoTable EXCEPT !.table = d + 2],
        !["self"] = [NoTable EXCEPT !.table = d]]

\* An entry of a directory is written.
LEMMA EntrySet ==
    ASSUME NEW y, NEW u, NEW x
    PROVE  [[table |-> y, user |-> u] EXCEPT !.table = x] = [table |-> x, user |-> u]
  OBVIOUS

\* An entry that the user may not use.
LEMMA KernelEntry ==
    ASSUME NEW x
    PROVE  /\ [NoTable EXCEPT !.table = x] = [table |-> x, user |-> FALSE]
           /\ x \in Nat => [table |-> x, user |-> FALSE] \in PdEntry
<1>1. [NoTable EXCEPT !.table = x] = [table |-> x, user |-> FALSE]
  BY EntrySet DEF NoTable
<1>2. x \in Nat => [table |-> x, user |-> FALSE] \in PdEntry
  BY DEF PdEntry
<1> QED BY <1>1, <1>2

\* The entries of the first directory.
LEMMA FirstDirIs ==
    ASSUME NEW d \in Nat
    PROVE  /\ FirstDir(d) \in [Pdes -> PdEntry]
           /\ FirstDir(d)["self"] = [table |-> d, user |-> FALSE]
           /\ FirstDir(d)["image"] = [table |-> d + 2, user |-> FALSE]
           /\ FirstDir(d)["identity"] = [table |-> d + 1, user |-> FALSE]
           /\ FirstDir(d)["stack"] = NoTable /\ FirstDir(d)["heap"] = NoTable
           /\ FirstDir(d)["windows"] = NoTable
<1>1. [NoTable EXCEPT !.table = d] = [table |-> d, user |-> FALSE]
  BY KernelEntry
<1> PICK d1 \in Nat : d1 = d + 1
  OBVIOUS
<1> PICK d2 \in Nat : d2 = d + 2
  OBVIOUS
<1>2. [NoTable EXCEPT !.table = d1] = [table |-> d1, user |-> FALSE]
  BY KernelEntry
<1>3. [NoTable EXCEPT !.table = d2] = [table |-> d2, user |-> FALSE]
  BY KernelEntry
<1> PICK s \in PdEntry : s = [table |-> d, user |-> FALSE]
  BY KernelEntry
<1> PICK i \in PdEntry : i = [table |-> d1, user |-> FALSE]
  BY KernelEntry
<1> PICK j \in PdEntry : j = [table |-> d2, user |-> FALSE]
  BY KernelEntry
<1> PICK z \in PdEntry : z = NoTable
  BY DEF PdEntry, NoTable, NULL
<1>4. FirstDir(d) = [[e \in Pdes |-> z] EXCEPT !["identity"] = i, !["image"] = j, !["self"] = s]
  BY <1>1, <1>2, <1>3 DEF FirstDir
<1> PICK F : F = FirstDir(d)
  OBVIOUS
<1>5. F = [[e \in Pdes |-> z] EXCEPT !["identity"] = i, !["image"] = j, !["self"] = s]
  BY <1>4
<1>6. /\ F \in [Pdes -> PdEntry] /\ F["self"] = s /\ F["image"] = j /\ F["identity"] = i
      /\ F["stack"] = z /\ F["heap"] = z /\ F["windows"] = z
  BY ONLY <1>5, s \in PdEntry, i \in PdEntry, j \in PdEntry, z \in PdEntry DEF Pdes
<1> QED BY <1>6

\* The memory as kvmm_init leaves it.
FirstMem(m, d) ==
    [m EXCEPT !.dirs = [x \in {d} |-> FirstDir(d)], !.tabs = [t \in {d + 1, d + 2} |-> Identity],
              !.cr3 = d, !.kdir = d]

\* kvmm_init has taken its pages, the first of them the page d.
FirstStep(m, d, n) ==
    Bare(m, Idle, {}) /\ d \in Nat \ {NULL} /\ d + 2 < FirstFrame /\ n = FirstMem(m, d)

\* It has what the kernel needs.
LEMMA FirstKernel ==
    ASSUME NEW m, NEW d, NEW n, FirstStep(m, d, n)
    PROVE  /\ Kernel(n) /\ n.cr3 = d /\ n.kdir = d /\ n.ret = m.ret /\ n.fault = FALSE
           /\ n.brk = 0 /\ HeapTable(n) = NULL /\ WindowTable(n) = NULL
<1> USE DEF FirstStep
<1>0. /\ Typed(m) /\ IsMem(m) /\ m.brk = 0 /\ m.fault = FALSE /\ FirstFrame \in Nat
  BY FirstFramePositive DEF Bare, Typed
<1> PICK F : F = FirstDir(d)
  OBVIOUS
<1> PICK I : I = Identity
  OBVIOUS
<1> PICK D : D = [x \in {d} |-> F]
  OBVIOUS
<1> PICK T : T = [t \in {d + 1, d + 2} |-> I]
  OBVIOUS
<1>1. /\ IsMem(n) /\ n.dirs = D /\ n.tabs = T /\ n.cr3 = d /\ n.kdir = d /\ n.ret = m.ret
      /\ n.free = m.free /\ n.low = m.low /\ n.brk = m.brk /\ n.spare = m.spare /\ n.fault = m.fault
  BY <1>0 DEF IsMem, FirstMem
<1>2. DOMAIN D = {d} /\ D[d] = F /\ DOMAIN T = {d + 1, d + 2} /\ T[d + 1] = I /\ T[d + 2] = I
  OBVIOUS
<1>3. I \in [0 .. PTES - 1 -> PtEntry]
  BY DEF Identity, PtEntry
<1>4. /\ F \in [Pdes -> PdEntry]
      /\ F["self"] = [table |-> d, user |-> FALSE]
      /\ F["image"] = [table |-> d + 2, user |-> FALSE]
      /\ F["identity"] = [table |-> d + 1, user |-> FALSE]
      /\ F["stack"] = NoTable /\ F["heap"] = NoTable /\ F["windows"] = NoTable
  BY FirstDirIs
<1>5. NoTable.table = NULL /\ NoTable.user = FALSE
  BY DEF NoTable
<1>6. HeapTable(n) = NULL /\ WindowTable(n) = NULL
  BY <1>1, <1>2, <1>4, <1>5 DEF HeapTable, WindowTable
<1>7. Typed(n)
  <2>1. DOMAIN n.dirs \subseteq Nat \ {NULL} /\ DOMAIN n.tabs \subseteq Nat \ {NULL}
    BY <1>1, <1>2 DEF NULL
  <2>2. \A x \in DOMAIN n.dirs : n.dirs[x] \in [Pdes -> PdEntry]
    BY <1>1, <1>2, <1>4
  <2>3. \A t \in DOMAIN n.tabs : n.tabs[t] \in [0 .. PTES - 1 -> PtEntry]
    BY <1>1, <1>2, <1>3
  <2> QED BY <1>0, <1>1, <2>1, <2>2, <2>3 DEF Typed
<1>8. KernelDir(n)
  <2>1. n.dirs[n.kdir] = F /\ n.tabs[n.kdir + 2] = I
    BY <1>1, <1>2
  <2>2. \A e \in {"heap", "windows"} : F[e] = NoTable
    BY <1>4
  <2> QED BY <1>0, <1>1, <1>2, <1>4, <1>5, <1>6, <2>1, <2>2 DEF KernelDir
<1>9. HeapMapped(n)
  BY <1>0, <1>1, <1>6 DEF HeapMapped
<1>10. HeapFr(n) = {}
  BY <1>6 DEF HeapFr
<1>11. Apart(n)
  <2>1. Used(n) = {d, d + 1, d + 2}
    BY <1>1, <1>2, <1>10 DEF Used
  <2>2. \A f \in n.free : f \in Nat /\ f >= FirstFrame
    BY <1>7 DEF Typed
  <2>3. n.free \cap Used(n) = {}
    BY <1>0, <2>1, <2>2
  <2>4. DOMAIN n.dirs \cap DOMAIN n.tabs = {}
    BY <1>1, <1>2
  <2> QED BY <1>10, <2>3, <2>4 DEF Apart
<1> QED BY <1>0, <1>1, <1>6, <1>7, <1>8, <1>9, <1>11 DEF Kernel

\* kvmm_init.
LEMMA VmmInitKeeps ==
    ASSUME SpacesInv, KvmmInit
    PROVE  SpacesInv'
<1>0. boot.pc = "vmm" /\ UNCHANGED <<make, procs>>
  BY DEF KvmmInit
<1>1. EarlyOK(boot) /\ ~Started /\ Bare(mem, make, procs) /\ mem.ret = NULL
  BY <1>0 DEF SpacesInv
<1>2. mem.cr3 = mem.kdir /\ make = Idle /\ procs = {}
  BY <1>1 DEF Bare, Started
<1> PICK b : b = KearlyMallocAligned(KearlyMallocAligned(KearlyMallocAligned(boot, PAGE), PAGE), PAGE)
  OBVIOUS
<1> PICK d : d = (b.cur - 3 * PAGE) \div PAGE
  OBVIOUS
<1>3. IF b.pc = "panic" THEN boot' = b /\ UNCHANGED mem
      ELSE boot' = [b EXCEPT !.pc = "identity"] /\ mem' = FirstMem(mem, d)
  BY DEF KvmmInit, FirstDir, FirstMem
<1>4. /\ EarlyOK(b) /\ b.pc # "early"
      /\ b.pc # "panic" =>
           \E x \in Nat \ {NULL} :
             /\ x = (b.cur - 3 * PAGE) \div PAGE /\ x + 2 < FirstFrame
             /\ \A y \in {x, x + 1, x + 2} : [at |-> y * PAGE, len |-> PAGE] \in b.areas
  BY <1>0, <1>1, ThreePages
<1>5. CASE b.pc = "panic"
  <2>1. boot' = b /\ mem' = mem /\ make' = Idle /\ procs' = {} /\ ~Started'
    BY <1>0, <1>1, <1>2, <1>3, <1>5 DEF Started
  <2> QED BY <1>1, <1>2, <1>4, <1>5, <2>1 DEF SpacesInv
<1>6. CASE b.pc # "panic"
  <2>1. /\ d \in Nat \ {NULL} /\ d + 2 < FirstFrame
        /\ \A y \in {d, d + 1, d + 2} : [at |-> y * PAGE, len |-> PAGE] \in b.areas
    BY <1>4, <1>6
  <2> PICK n : n = mem'
    OBVIOUS
  <2> PICK c : c = boot'
    OBVIOUS
  <2>2. n = FirstMem(mem, d) /\ Bare(mem, Idle, {})
    BY <1>1, <1>2, <1>3, <1>6
  <2>3. /\ Kernel(n) /\ n.cr3 = d /\ n.kdir = d /\ n.ret = mem.ret /\ n.fault = FALSE
        /\ n.brk = 0 /\ HeapTable(n) = NULL /\ WindowTable(n) = NULL
    <3> PICK m : m = mem
      OBVIOUS
    <3>1. FirstStep(m, d, n)
      BY <2>1, <2>2 DEF FirstStep
    <3>2. /\ Kernel(n) /\ n.cr3 = d /\ n.kdir = d /\ n.ret = m.ret /\ n.fault = FALSE
          /\ n.brk = 0 /\ HeapTable(n) = NULL /\ WindowTable(n) = NULL
      BY ONLY <3>1, FirstKernel
    <3> QED BY <3>2
  <2>4. World(n, Idle, {})
    BY <2>3, EmptyWorld
  <2>5. EarlyOK(c) /\ c.pc = "identity" /\ c.areas = b.areas
    <3>1. c = [b EXCEPT !.pc = "identity"]
      BY <1>3, <1>6
    <3> QED BY <1>4, <3>1, EarlyOn
  <2>6. make' = Idle /\ procs' = {} /\ Started'
    BY <1>0, <1>2, <2>1, <2>3 DEF Started
  <2> QED BY <1>1, <2>1, <2>3, <2>4, <2>5, <2>6 DEF SpacesInv
<1> QED BY <1>5, <1>6

\* What the last steps of the boot start from.
LEMMA BootBefore ==
    ASSUME SpacesInv, boot.pc \in {"identity", "heap", "kernel"}
    PROVE  /\ EarlyOK(boot) /\ Started /\ mem.ret = NULL /\ make = Idle /\ procs = {}
           /\ mem.cr3 = mem.kdir /\ Kernel(mem) /\ World(mem, Idle, {}) /\ (mem.fault => NoMem(mem))
           /\ \A d \in {mem.kdir, mem.kdir + 1, mem.kdir + 2} : [at |-> d * PAGE, len |-> PAGE] \in boot.areas
<1>1. EarlyOK(boot) /\ Started /\ mem.ret = NULL /\ make = Idle /\ procs = {} /\ mem.cr3 = mem.kdir
  BY DEF SpacesInv
<1>2. World(mem, Idle, {})
  BY <1>1 DEF SpacesInv
<1> QED BY <1>1, <1>2 DEF SpacesInv, World

\* And what they have to keep.
LEMMA BootStep ==
    ASSUME SpacesInv, boot.pc \in {"identity", "heap", "kernel"}, EarlyOK(boot'), boot'.areas = boot.areas,
           Kernel(mem'), mem'.fault => NoMem(mem'), mem'.kdir = mem.kdir, mem'.cr3 = mem'.kdir,
           mem'.ret = NULL, UNCHANGED <<make, procs>>, boot'.pc \in {"heap", "kernel", "up", "panic"},
           boot'.pc = "heap" => mem'.brk = 0 /\ HeapTable(mem') = NULL /\ WindowTable(mem') = NULL,
           boot'.pc \in {"kernel", "up"} => HeapTable(mem') # NULL
    PROVE  SpacesInv'
<1>1. Started /\ make' = Idle /\ procs' = {}
      /\ \A d \in {mem.kdir, mem.kdir + 1, mem.kdir + 2} : [at |-> d * PAGE, len |-> PAGE] \in boot.areas
  BY BootBefore
<1>2. World(mem', Idle, {})
  BY EmptyWorld
<1>3. Started'
  BY <1>1 DEF Started
<1>4. World(mem', make', procs')
  BY <1>1, <1>2
<1> QED BY <1>1, <1>3, <1>4 DEF SpacesInv

\* kvmm_disable_identity_mapping.
LEMMA IdentityKeeps ==
    ASSUME SpacesInv, KvmmDisableIdentityMapping
    PROVE  SpacesInv'
<1>0. /\ boot.pc = "identity" /\ boot' = [boot EXCEPT !.pc = "heap"] /\ UNCHANGED <<make, procs>>
      /\ mem' = [mem EXCEPT !.dirs[mem.cr3]["identity"] = NoTable]
  BY DEF KvmmDisableIdentityMapping
<1>1. /\ EarlyOK(boot) /\ mem.ret = NULL /\ mem.cr3 = mem.kdir /\ Kernel(mem) /\ (mem.fault => NoMem(mem))
  BY <1>0, BootBefore
<1>2. mem.brk = 0 /\ HeapTable(mem) = NULL /\ WindowTable(mem) = NULL
  BY <1>0 DEF SpacesInv
<1> PICK m : m = mem
  OBVIOUS
<1> PICK n : n = mem'
  OBVIOUS
<1> PICK b : b = boot'
  OBVIOUS
<1> PICK d : d = m.kdir
  OBVIOUS
<1> PICK D : D = [m.dirs EXCEPT ![d]["identity"] = NoTable]
  OBVIOUS
<1>3. Kernel(m) /\ Typed(m) /\ KernelDir(m) /\ IsMem(m) /\ d \in DOMAIN m.dirs /\ m.dirs[d] \in [Pdes -> PdEntry]
  BY <1>1 DEF Kernel, KernelDir, Typed
<1>4. n = [m EXCEPT !.dirs = D]
  BY <1>0, <1>1, <1>3 DEF IsMem
<1>5. /\ IsMem(n) /\ n.dirs = D /\ n.tabs = m.tabs /\ n.cr3 = m.cr3 /\ n.kdir = m.kdir /\ n.ret = m.ret
      /\ n.free = m.free /\ n.low = m.low /\ n.brk = m.brk /\ n.spare = m.spare /\ n.fault = m.fault
  BY <1>3, <1>4 DEF IsMem
<1>6. NoTable \in PdEntry
  BY DEF NoTable, PdEntry, NULL
<1>7. /\ DOMAIN D = DOMAIN m.dirs /\ D[d]["identity"] = NoTable /\ D[d] \in [Pdes -> PdEntry]
      /\ \A e \in Pdes \ {"identity"} : D[d][e] = m.dirs[d][e]
      /\ \A x \in DOMAIN m.dirs \ {d} : D[x] = m.dirs[x]
  BY <1>3, <1>6 DEF Pdes
<1>8. \A e \in {"self", "image", "stack", "heap", "windows"} : n.dirs[n.kdir][e] = m.dirs[m.kdir][e]
  BY <1>5, <1>7 DEF Pdes
<1>9. HeapTable(n) = HeapTable(m) /\ WindowTable(n) = WindowTable(m)
  BY <1>8 DEF HeapTable, WindowTable
<1>10. HeapFr(n) = HeapFr(m) /\ Used(n) = Used(m)
  BY <1>5, <1>7, <1>9 DEF HeapFr, Used
<1>11. Typed(n)
  <2>1. \A x \in DOMAIN n.dirs : n.dirs[x] \in [Pdes -> PdEntry]
    BY <1>3, <1>5, <1>7 DEF Typed
  <2> QED BY <1>3, <1>5, <1>7, <2>1 DEF Typed
<1>12. KernelDir(n)
  <2>1. n.dirs[n.kdir]["identity"] = NoTable
    BY <1>5, <1>7
  <2>2. /\ n.kdir = m.kdir /\ DOMAIN n.dirs = DOMAIN m.dirs /\ n.tabs = m.tabs
        /\ \A e \in {"self", "image", "stack", "heap", "windows"} : n.dirs[m.kdir][e] = m.dirs[m.kdir][e]
    BY <1>5, <1>7, <1>8
  <2> QED BY ONLY <1>3, <1>9, <2>1, <2>2 DEF KernelDir
<1>13. HeapMapped(n) /\ Apart(n)
  BY <1>1, <1>5, <1>7, <1>9, <1>10 DEF Kernel, HeapMapped, Apart
<1>14. Kernel(n) /\ (n.fault => NoMem(n))
  BY <1>1, <1>5, <1>11, <1>12, <1>13 DEF Kernel, NoMem
<1>15. EarlyOK(b) /\ b.pc = "heap" /\ b.areas = boot.areas
  <2>1. boot.pc # "early" /\ b = [boot EXCEPT !.pc = "heap"]
    BY <1>0
  <2> QED BY <1>1, <2>1, EarlyOn
<1> QED BY <1>0, <1>1, <1>2, <1>5, <1>9, <1>14, <1>15, BootStep

\* The early allocator is closed once there is a heap.
LEMMA EarlyClosed ==
    ASSUME NEW b, EarlyOK(b), b.pc # "early", NEW pc \in {"kernel", "panic"},
           NEW n, n = [b EXCEPT !.pc = pc, !.avail = FALSE]
    PROVE  EarlyOK(n) /\ n.pc = pc /\ n.areas = b.areas
<1>0. b = [pc |-> b.pc, cur |-> b.cur, end |-> b.end, avail |-> b.avail, areas |-> b.areas]
  BY DEF EarlyOK
<1>1. /\ n.pc = pc /\ n.cur = b.cur /\ n.end = b.end /\ n.areas = b.areas
      /\ n = [pc |-> n.pc, cur |-> n.cur, end |-> n.end, avail |-> n.avail, areas |-> n.areas]
  BY <1>0
<1>2. EarlyOK(n)
  BY <1>1 DEF EarlyOK
<1> QED BY <1>1, <1>2

\* kmalloc_init.
LEMMA KmallocInitKeeps ==
    ASSUME SpacesInv, KmallocInit
    PROVE  SpacesInv'
<1> PICK m : m = CreateHeapHeader(mem)
  OBVIOUS
<1> PICK pc : pc = IF m.ret = NULL THEN "panic" ELSE "kernel"
  OBVIOUS
<1>0. /\ boot.pc = "heap" /\ UNCHANGED <<make, procs>>
      /\ mem' = IF m.ret = NULL THEN m ELSE [m EXCEPT !.spare = 1, !.ret = NULL]
      /\ boot' = [boot EXCEPT !.pc = pc, !.avail = FALSE]
  BY DEF KmallocInit
<1>1. /\ EarlyOK(boot) /\ mem.ret = NULL /\ mem.cr3 = mem.kdir /\ Kernel(mem) /\ (mem.fault => NoMem(mem))
      /\ mem.brk = 0
  BY <1>0, BootBefore DEF SpacesInv
<1>2. /\ Kernel(m) /\ Grows(mem, m)
      /\ m.ret = NULL => NoMem(m)
      /\ m.ret # NULL => m.brk = mem.brk + 1 /\ HeapTable(m) # NULL /\ m.fault = mem.fault
  BY <1>1, InKernelReaches, HeaderGrows
<1>3. m.kdir = mem.kdir /\ m.cr3 = m.kdir /\ (m.fault => NoMem(m))
  <2>1. NoMem(mem) => NoMem(m)
    BY <1>1, <1>2, NoMemKept
  <2> QED BY <1>1, <1>2, <2>1 DEF Grows
<1> PICK n : n = mem'
  OBVIOUS
<1>4. /\ Kernel(n) /\ (n.fault => NoMem(n)) /\ n.kdir = mem.kdir /\ n.cr3 = n.kdir /\ n.ret = NULL
      /\ m.ret # NULL => HeapTable(n) # NULL
  <2>1. CASE m.ret = NULL
    BY <1>0, <1>2, <1>3, <2>1
  <2>2. CASE m.ret # NULL
    <3> PICK s : s = 1
      OBVIOUS
    <3>1. s \in 0 .. m.brk /\ SpareIs(m, n, s, NULL)
      BY <1>0, <1>1, <1>2, <2>2 DEF SpareIs
    <3>2. /\ Kernel(n) /\ n.ret = NULL /\ n.brk = m.brk /\ n.free = m.free /\ n.dirs = m.dirs
          /\ n.kdir = m.kdir /\ n.cr3 = m.cr3 /\ n.low = m.low /\ n.fault = m.fault
      BY <1>2, <3>1, SpareTaken
    <3>3. HeapTable(n) # NULL
      BY <1>2, <2>2, <3>2 DEF HeapTable
    <3>4. n.fault => NoMem(n)
      BY <1>3, <3>2 DEF NoMem
    <3> QED BY <1>3, <3>2, <3>3, <3>4
  <2> QED BY <2>1, <2>2
<1> PICK b : b = boot'
  OBVIOUS
<1>5. EarlyOK(b) /\ b.pc = pc /\ b.areas = boot.areas
  <2>1. boot.pc # "early" /\ b = [boot EXCEPT !.pc = pc, !.avail = FALSE] /\ pc \in {"kernel", "panic"}
    BY <1>0
  <2> QED BY <1>1, <2>1, EarlyClosed
<1>6. b.pc \in {"kernel", "up"} => HeapTable(n) # NULL
  BY <1>4, <1>5
<1>7. b.pc \in {"heap", "kernel", "up", "panic"} /\ b.pc # "heap"
  BY <1>5
<1> QED BY <1>0, <1>4, <1>5, <1>6, <1>7, BootStep

\* kprocess_kernel_init and kprocess_shell_init.
LEMMA KernelInitKeeps ==
    ASSUME SpacesInv, KprocessKernelInit
    PROVE  SpacesInv'
<1> PICK a : a = KprocessCreateKernel(mem)
  OBVIOUS
<1> PICK m : m = IF a.ret = NULL THEN a ELSE KprocessCreateKernel(a)
  OBVIOUS
<1> PICK pc : pc = IF m.ret = NULL THEN "panic" ELSE "up"
  OBVIOUS
<1>0. /\ boot.pc = "kernel" /\ UNCHANGED <<make, procs>>
      /\ mem' = IF m.ret = NULL THEN Fault(m) ELSE Fail(m)
      /\ boot' = [boot EXCEPT !.pc = pc]
  <2>1. Then(KprocessCreateKernel(mem), LAMBDA x : IF x.ret = NULL THEN x ELSE KprocessCreateKernel(x)) = m
    BY DEF Then
  <2> QED BY <2>1 DEF KprocessKernelInit
<1>1. /\ EarlyOK(boot) /\ mem.ret = NULL /\ mem.cr3 = mem.kdir /\ Kernel(mem) /\ (mem.fault => NoMem(mem))
      /\ HeapTable(mem) # NULL
  BY <1>0, BootBefore DEF SpacesInv
<1>2. HeapCall(mem, a)
  BY <1>1, InKernelReaches, KernelProcessGrows
<1>3. HeapCall(mem, m)
  <2>1. CASE a.ret = NULL
    BY <1>2, <2>1
  <2>2. CASE a.ret # NULL
    <3>1. HeapCall(a, m)
      BY <1>2, <2>2, KernelProcessGrows DEF HeapCall
    <3> QED BY <1>1, <1>2, <2>2, <3>1, HeapCallOn
  <2> QED BY <2>1, <2>2
<1>4. /\ Kernel(m) /\ Grows(mem, m) /\ m.kdir = mem.kdir /\ m.cr3 = m.kdir
      /\ (m.fault => NoMem(m)) /\ HeapTable(m) # NULL /\ (m.ret = NULL => NoMem(m))
  <2>1. Kernel(m) /\ Grows(mem, m) /\ (m.ret = NULL => NoMem(m))
    BY <1>3 DEF HeapCall
  <2>2. NoMem(mem) => NoMem(m)
    BY <1>1, <2>1, NoMemKept
  <2>3. HeapTable(m) # NULL
    BY <1>1, <2>1, HeapTableKept
  <2> QED BY <1>1, <2>1, <2>2, <2>3 DEF Grows
<1> PICK n : n = mem'
  OBVIOUS
<1>5. /\ Kernel(n) /\ (n.fault => NoMem(n)) /\ n.kdir = mem.kdir /\ n.cr3 = n.kdir /\ n.ret = NULL
      /\ HeapTable(n) # NULL
  <2>1. CASE m.ret = NULL
    <3>1. n = Fault(m) /\ Kernel(m) /\ NoMem(m)
      BY <1>0, <1>4, <2>1
    <3>2. Kernel(n) /\ Grows(m, n) /\ n.ret = NULL
      BY <3>1, FaultGrows
    <3>3. NoMem(n) /\ HeapTable(n) # NULL
      BY <1>4, <3>1, <3>2, NoMemKept, HeapTableKept
    <3> QED BY <1>4, <3>2, <3>3 DEF Grows
  <2>2. CASE m.ret # NULL
    <3>1. n = [m EXCEPT !.ret = NULL] /\ Kernel(m)
      BY <1>0, <1>4, <2>2 DEF Fail
    <3> PICK r : r = NULL
      OBVIOUS
    <3>2. Kernel(n) /\ Grows(m, n) /\ n.ret = r /\ SameButFrames(m, n)
      BY <3>1, AnswerGrows
    <3>3. (NoMem(m) => NoMem(n)) /\ HeapTable(n) # NULL
      BY <1>4, <3>1, <3>2, NoMemKept, HeapTableKept
    <3> QED BY <1>4, <3>2, <3>3 DEF Grows, SameButFrames
  <2> QED BY <2>1, <2>2
<1> PICK b : b = boot'
  OBVIOUS
<1>6. EarlyOK(b) /\ b.pc = pc /\ b.areas = boot.areas
  <2>1. boot.pc # "early" /\ b = [boot EXCEPT !.pc = pc] /\ pc \in {"up", "panic"}
    BY <1>0
  <2>2. pc \in {"vmm", "identity", "heap", "kernel", "up", "panic"} /\ pc # "vmm"
    BY <2>1
  <2> QED BY <1>1, <2>1, <2>2, EarlyOn
<1>7. b.pc \in {"heap", "kernel", "up", "panic"} /\ b.pc # "heap"
  BY <1>6
<1> QED BY <1>0, <1>5, <1>6, <1>7, BootStep

\* A step that changes nothing.
LEMMA StutterKeeps ==
    ASSUME SpacesInv, UNCHANGED svars
    PROVE  SpacesInv'
<1>1. boot' = boot /\ mem' = mem /\ make' = make /\ procs' = procs
  BY DEF svars
<1>2. Started' <=> Started
  BY <1>1 DEF Started
<1> QED BY <1>1, <1>2 DEF SpacesInv

\* A step of the creation of a process.
LEMMA CreateKeeps ==
    ASSUME SpacesInv, Create
    PROVE  SpacesInv'
  BY TaskKeeps, TaskStackKeeps, DirectoryKeeps, CloneKeeps, StubKeeps, SyscallKeeps, EntryKeeps, StackKeeps, SetupKeeps
     DEF Create

\* A step of the boot.
LEMMA BootKeeps ==
    ASSUME SpacesInv, Boot
    PROVE  SpacesInv'
  BY EarlyInitKeeps, PmmInitKeeps, VmmInitKeeps, IdentityKeeps, KmallocInitKeeps, KernelInitKeeps DEF Boot

\* Every step keeps the invariant.
LEMMA NextKeeps ==
    ASSUME SpacesInv, [WholeNext]_svars
    PROVE  SpacesInv'
<1>1. CASE Boot
  BY <1>1, BootKeeps
<1>2. CASE Create
  BY <1>2, CreateKeeps
<1>3. CASE \E e \in Entries : KprocessCreate(e)
  BY <1>3, CreateBegins
<1>4. CASE TickToShell
  <2>1. mem.kdir \in {mem.kdir} \cup {p.pd : p \in procs} /\ TickTo(mem.kdir)
    BY <1>4 DEF TickToShell
  <2> QED BY <2>1, TickKeeps
<1>5. CASE TickToProcess
  <2> PICK p \in procs : TickTo(p.pd)
    BY <1>5 DEF TickToProcess
  <2>1. p.pd \in {mem.kdir} \cup {x.pd : x \in procs}
    OBVIOUS
  <2> QED BY <2>1, TickKeeps
<1>6. CASE \E p \in procs : SyscallKmalloc(p) \/ KtaskExit(p)
  BY <1>6, SyscallKmallocKeeps, ExitKeeps
<1>7. CASE Halted \/ Prompt \/ UNCHANGED svars
  BY <1>7, StutterKeeps DEF Halted, Prompt
<1> QED BY <1>1, <1>2, <1>3, <1>4, <1>5, <1>6, <1>7 DEF WholeNext

\* Short of one that ends astray, every step is a step of the system in which
\* the steps of the creation are whole.
LEMMA WholeOrAstray ==
    ASSUME [SpacesNext]_vars, ~Astray'
    PROVE  ~Astray /\ [WholeNext]_svars
<1>1. CASE UNCHANGED vars
  BY <1>1 DEF vars, Astray
<1>2. CASE Astray /\ UNCHANGED vars
  BY <1>2 DEF vars, Astray
<1>3. CASE ~Astray /\ StepBegins
  BY <1>3 DEF StepBegins, InShell, svars
<1>4. CASE ~Astray /\ StepEnds
  BY <1>4 DEF StepEnds, WholeNext
<1>5. ~StepEndsOvertaken
  BY DEF StepEndsOvertaken, Astray
<1>6. CASE ~Astray /\ Between
  BY <1>6 DEF Between, WholeNext
<1>7. CASE ~Astray /\ \E p \in procs : SyscallKmalloc(p)
  BY <1>7 DEF WholeNext
<1> QED BY <1>1, <1>2, <1>3, <1>4, <1>5, <1>6, <1>7 DEF SpacesNext

\* The invariant.
LEMMA SpacesInvariant == SpacesSpec => [](Astray \/ SpacesInv)
<1>1. SpacesInit => SpacesInv
  BY InitInv
<1>2. (Astray \/ SpacesInv) /\ [SpacesNext]_vars => (Astray \/ SpacesInv)'
  BY NextKeeps, WholeOrAstray
<1> QED BY <1>1, <1>2, PTL DEF SpacesSpec

----------------------------------------------------------------------------
(* What follows from it                                                    *)

\* Once kvmm_init has run.
LEMMA StartedWorld ==
    ASSUME SpacesInv, Started
    PROVE  /\ World(mem, make, procs) /\ Kernel(mem) /\ Typed(mem) /\ KernelDir(mem)
           /\ MakeOK(mem, make, procs)
           /\ Dirs = {mem.kdir} \cup UserDirs(make, procs)
           /\ \A d \in UserDirs(make, procs) : Space(mem, d)
<1>1. World(mem, make, procs)
  BY DEF SpacesInv
<1>2. Kernel(mem) /\ Typed(mem) /\ KernelDir(mem) /\ MakeOK(mem, make, procs)
  BY <1>1 DEF World, Kernel
<1>3. \A d \in UserDirs(make, procs) : Space(mem, d)
  BY <1>1, WorldSpaces
<1>4. Dirs = {mem.kdir} \cup UserDirs(make, procs)
  BY DEF Dirs, UserDirs
<1> QED BY <1>1, <1>2, <1>3, <1>4

\* The invariant implies the types.
LEMMA TypesFollow == SpacesInv => SpacesTypeOK
<1> SUFFICES ASSUME SpacesInv PROVE SpacesTypeOK
  OBVIOUS
<1>0. mem.ret = NULL
  BY DEF SpacesInv
<1>1. Typed(mem)
  BY StartedWorld DEF SpacesInv, Bare
<1>2. mem.brk <= KERNEL_HEAP_PAGES /\ mem.spare \in 0 .. mem.brk
  <2>1. mem.brk \in 0 .. KERNEL_HEAP_PAGES /\ mem.spare \in 0 .. mem.brk
    BY <1>1 DEF Typed
  <2> QED BY <2>1, SpacesAssumption
<1>3. \A d \in DOMAIN mem.dirs : DOMAIN mem.dirs[d] = Pdes
  BY <1>1 DEF Typed
<1>4. \A t \in DOMAIN mem.tabs : DOMAIN mem.tabs[t] = 0 .. PTES - 1
  BY <1>1 DEF Typed
<1>5. CASE Started
  <2>1. World(mem, make, procs) /\ MakeOK(mem, make, procs)
    BY <1>5, StartedWorld
  <2>2. mem.cr3 \in {mem.kdir} \cup {p.pd : p \in procs}
    BY <2>1 DEF World
  <2>3. make.pc \in {"idle", "task", "kstack", "pd", "clone", "stub", "syscall", "entry", "stack", "init"}
    BY <2>1 DEF MakeOK, Making
  <2>4. make.pd \in DOMAIN mem.dirs \cup {NULL}
    BY <2>1 DEF MakeOK, Making, Fresh, Cloned
  <2> QED BY <1>0, <1>2, <1>3, <1>4, <2>2, <2>3, <2>4 DEF SpacesTypeOK
<1>6. CASE ~Started
  <2>1. make = Idle
    BY <1>6 DEF SpacesInv, Bare
  <2>2. make.pc = "idle" /\ make.pd = NULL
    BY <2>1 DEF Idle
  <2> QED BY <1>0, <1>2, <1>3, <1>4, <1>6, <2>2 DEF SpacesTypeOK
<1> QED BY <1>5, <1>6

\* It implies that the early areas are apart.
LEMMA AreasFollow == SpacesInv => EarlyAreasApart
<1> SUFFICES ASSUME SpacesInv PROVE EarlyAreasApart
  OBVIOUS
<1>1. EarlyOK(boot) /\ EARLY_START \in Nat /\ KEARLY_SIZE \in Nat
  BY SpacesAssumption DEF SpacesInv
<1>2. \A a \in boot.areas : EARLY_START <= a.at /\ a.at + a.len <= EARLY_START + KEARLY_SIZE
  <2> TAKE a \in boot.areas
  <2>1. boot.pc # "early"
    BY <1>1 DEF EarlyOK
  <2>2. /\ a.at \in Nat /\ a.len \in Nat /\ EARLY_START <= a.at /\ a.at + a.len <= boot.cur
        /\ boot.cur \in Nat /\ boot.end \in Nat /\ boot.cur <= boot.end
        /\ boot.end = EARLY_START + KEARLY_SIZE
    BY <1>1, <2>1 DEF EarlyOK
  <2> QED BY <1>1, <2>2
<1>3. \A a, b \in boot.areas : a # b => a.at + a.len <= b.at \/ b.at + b.len <= a.at
  BY <1>1 DEF EarlyOK
<1>4. Started => \A d \in {mem.kdir, mem.kdir + 1, mem.kdir + 2} :
                   [at |-> d * PAGE, len |-> PAGE] \in boot.areas
  BY DEF SpacesInv
<1> QED BY <1>2, <1>3, <1>4 DEF EarlyAreasApart

\* It implies that the kernel's half is shared.
LEMMA SharingFollows == SpacesInv => KernelSharedByAll
<1> SUFFICES ASSUME SpacesInv, Started, NEW d \in Dirs, ~(make.pc = "clone" /\ d = make.pd)
             PROVE  /\ mem.dirs[d]["self"].table = d
                    /\ \A e \in {"heap", "windows"} : mem.dirs[d][e] = mem.dirs[mem.kdir][e]
                    /\ HeapSeen(mem, d)
  BY DEF KernelSharedByAll
<1>1. /\ World(mem, make, procs) /\ Kernel(mem) /\ KernelDir(mem) /\ MakeOK(mem, make, procs)
      /\ d \in {mem.kdir} \cup UserDirs(make, procs)
  BY StartedWorld
<1>2. CASE d = mem.kdir
  <2>1. mem.dirs[d]["self"].table = d /\ d \in DOMAIN mem.dirs
    BY <1>1, <1>2 DEF KernelDir
  <2>2. HeapSeen(mem, d)
    BY <1>1, <1>2, <2>1, HeapIsSeen
  <2> QED BY <1>2, <2>1, <2>2
<1>3. CASE Cloned(mem, d)
  <2>1. mem.dirs[d]["self"].table = d /\ d \in DOMAIN mem.dirs
    BY <1>3 DEF Cloned
  <2>2. mem.dirs[d]["heap"] = mem.dirs[mem.kdir]["heap"] /\ mem.dirs[d]["windows"] = mem.dirs[mem.kdir]["windows"]
    BY <1>3 DEF Cloned
  <2>3. HeapSeen(mem, d)
    BY <1>1, <2>1, <2>2, HeapIsSeen
  <2> QED BY <2>1, <2>2, <2>3
<1>4. d = mem.kdir \/ Cloned(mem, d)
  <2>1. CASE \E p \in procs : d = p.pd
    BY <1>1, <2>1, WorldSpaces
  <2>2. CASE d = make.pd /\ d # NULL
    BY <1>1, <2>2 DEF MakeOK, Making
  <2> QED BY <1>1, <2>1, <2>2 DEF UserDirs
<1> QED BY <1>2, <1>3, <1>4

\* It implies that faults are for want of memory.
LEMMA FaultFollows == SpacesInv => EndsForWantOfMemory
<1> SUFFICES ASSUME SpacesInv PROVE mem.fault => NoMem(mem)
  BY DEF EndsForWantOfMemory, NoMem
<1>1. CASE Started
  BY <1>1, StartedWorld DEF World
<1>2. CASE ~Started
  BY <1>2 DEF SpacesInv, Bare
<1> QED BY <1>1, <1>2

----------------------------------------------------------------------------
(* Frames                                                                  *)

\* The tables the kernel's directory leads to are in use.
LEMMA KernelTables ==
    ASSUME Kernel(mem)
    PROVE  /\ Tables(mem.kdir) \subseteq Used(mem) /\ mem.kdir \in Tables(mem.kdir)
           /\ mem.kdir + 2 \in Tables(mem.kdir)
           /\ HeapTable(mem) # NULL => HeapTable(mem) \in Tables(mem.kdir)
           /\ WindowTable(mem) # NULL => WindowTable(mem) \in Tables(mem.kdir)
<1>0. KernelDir(mem) /\ mem.kdir \in Nat \ {NULL} /\ mem.kdir + 2 # NULL
  BY DEF Kernel, KernelDir, NULL
<1>1. mem.kdir \in Tables(mem.kdir) /\ mem.kdir + 2 \in Tables(mem.kdir)
  BY <1>0 DEF KernelDir, Tables, Pdes
<1>2. /\ HeapTable(mem) # NULL => HeapTable(mem) \in Tables(mem.kdir)
      /\ WindowTable(mem) # NULL => WindowTable(mem) \in Tables(mem.kdir)
  BY DEF HeapTable, WindowTable, Tables, Pdes
<1>3. \A e \in Pdes : mem.dirs[mem.kdir][e].table \in Used(mem) \cup {NULL}
  <2> TAKE e \in Pdes
  <2>1. CASE e \in {"heap", "windows"}
    BY <1>0, <2>1 DEF KernelDir, Used
  <2>2. CASE e \in {"self", "image", "stack", "identity"}
    <3>1. NoTable.table = NULL
      BY DEF NoTable
    <3> QED BY <1>0, <2>2, <3>1 DEF KernelDir, Used
  <2> QED BY <2>1, <2>2 DEF Pdes
<1>4. Tables(mem.kdir) \subseteq Used(mem)
  BY <1>3 DEF Tables
<1> QED BY <1>1, <1>2, <1>4

\* What a page of an entry without a table is.
LEMMA PagesAre ==
    ASSUME NEW d, NEW e
    PROVE  Pages(d, e) = IF mem.dirs[d][e].table = NULL THEN {}
                         ELSE {mem.tabs[mem.dirs[d][e].table][i].frame : i \in 0 .. PTES - 1} \ {-1}
<1>1. NoPage.frame = -1
  BY DEF NoPage
<1>2. \A i : <<e, i>>[1] = e /\ <<e, i>>[2] = i
  OBVIOUS
<1>3. CASE mem.dirs[d][e].table = NULL
  <2>1. \A i : PageIn(mem, d, <<e, i>>) = NoPage
    BY <1>2, <1>3 DEF PageIn
  <2> QED BY <1>1, <1>3, <2>1 DEF Pages
<1>4. CASE mem.dirs[d][e].table # NULL
  <2>1. \A i : PageIn(mem, d, <<e, i>>) = mem.tabs[mem.dirs[d][e].table][i]
    BY <1>2, <1>4 DEF PageIn
  <2> QED BY <1>4, <2>1 DEF Pages
<1> QED BY <1>3, <1>4

\* The frames of the heap are those below the break.
LEMMA HeapFramesAre ==
    ASSUME Kernel(mem)
    PROVE  HeapFrames = HeapFr(mem)
<1>1. HeapTable(mem) = mem.dirs[mem.kdir]["heap"].table
  BY DEF HeapTable
<1>2. CASE HeapTable(mem) = NULL
  BY <1>1, <1>2, PagesAre DEF HeapFrames, HeapFr
<1>3. CASE HeapTable(mem) # NULL
  <2> PICK T : T = mem.tabs[HeapTable(mem)]
    OBVIOUS
  <2>1. HeapFrames = {T[i].frame : i \in 0 .. PTES - 1} \ {-1}
    BY <1>1, <1>3, PagesAre DEF HeapFrames
  <2>2. HeapFr(mem) = {T[i].frame : i \in 0 .. mem.brk - 1}
    BY <1>3 DEF HeapFr
  <2>3. /\ \A i \in mem.brk .. PTES - 1 : T[i] = NoPage
        /\ \A i \in 0 .. mem.brk - 1 : T[i].frame >= FirstFrame
    BY <1>3 DEF Kernel, HeapMapped
  <2>4. mem.brk \in Nat /\ mem.brk <= PTES /\ PTES \in Nat /\ FirstFrame \in Nat
    BY Numbers, FirstFramePositive DEF Kernel, Typed
  <2>5. NoPage.frame = -1
    BY DEF NoPage
  <2>6. \A i \in 0 .. PTES - 1 : i \in 0 .. mem.brk - 1 \/ T[i].frame = -1
    BY <2>3, <2>4, <2>5
  <2>7. \A i \in 0 .. mem.brk - 1 : i \in 0 .. PTES - 1 /\ T[i].frame # -1
    <3> TAKE i \in 0 .. mem.brk - 1
    <3>1. T \in [0 .. PTES - 1 -> PtEntry]
      BY <1>3, TablesApart DEF Kernel, Typed
    <3>2. i \in 0 .. PTES - 1
      BY <2>4
    <3>3. T[i].frame \in Int
      BY <3>1, <3>2 DEF PtEntry
    <3> QED BY <2>3, <2>4, <3>2, <3>3
  <2> QED BY <2>1, <2>2, <2>6, <2>7
<1> QED BY <1>2, <1>3

\* There are as many as the heap has pages.
LEMMA HeapFramesCounted ==
    ASSUME Kernel(mem)
    PROVE  Cardinality(HeapFr(mem)) = mem.brk
<1>0. mem.brk \in Nat
  BY Numbers DEF Kernel, Typed
<1>1. CASE HeapTable(mem) = NULL
  <2>1. HeapFr(mem) = {} /\ mem.brk = 0
    BY <1>1 DEF HeapFr, Kernel, HeapMapped
  <2> QED BY <2>1, FS_EmptySet
<1>2. CASE HeapTable(mem) # NULL
  <2> PICK T : T = mem.tabs[HeapTable(mem)]
    OBVIOUS
  <2> PICK F : F = HeapFr(mem)
    OBVIOUS
  <2> PICK S : S = 0 .. mem.brk - 1
    OBVIOUS
  <2>1. F = {T[i].frame : i \in S}
    BY <1>2 DEF HeapFr
  <2>2. \A i, j \in S : T[i].frame = T[j].frame => i = j
    BY <1>2 DEF Kernel, HeapMapped
  <2> PICK f : f = [i \in S |-> T[i].frame]
    OBVIOUS
  <2>3. f \in [S -> F] /\ (\A i \in S : f[i] = T[i].frame)
    BY <2>1
  <2>4. f \in Injection(S, F)
    BY <2>2, <2>3 DEF Injection, IsInjective
  <2>5. f \in Surjection(S, F)
    BY <2>1, <2>3 DEF Surjection
  <2>6. ExistsBijection(S, F)
    BY <2>4, <2>5 DEF ExistsBijection, Bijection
  <2>7. IsFiniteSet(S) /\ Cardinality(S) = mem.brk
    <3>1. 0 \in Int /\ mem.brk - 1 \in Int
      BY <1>0
    <3>2. IsFiniteSet(S) /\ Cardinality(S) = IF 0 > mem.brk - 1 THEN 0 ELSE mem.brk - 1 - 0 + 1
      BY <3>1, FS_Interval
    <3> QED BY <1>0, <3>2
  <2>8. Cardinality(F) = Cardinality(S)
    BY <2>6, <2>7, FS_Bijection
  <2> QED BY <2>7, <2>8
<1> QED BY <1>1, <1>2

\* What is a process's own is what its directory alone leads to.
LEMMA OwnIsPrivate ==
    ASSUME Kernel(mem), NEW d, Space(mem, d)
    PROVE  /\ Pages(d, "stack") = StackFr(mem, d)
           /\ Tables(d) \cup {d} \subseteq DOMAIN mem.dirs \cup DOMAIN mem.tabs
           /\ Own(d) \subseteq Private(mem, d)
<1>1. Pages(d, "stack") = StackFr(mem, d)
  BY PagesAre DEF StackFr
<1>2. NoTable.table = NULL
  BY DEF NoTable
<1>3. /\ d \in DOMAIN mem.dirs
      /\ \A t \in {mem.dirs[d]["image"].table, mem.dirs[d]["stack"].table} \ {NULL} : t \in DOMAIN mem.tabs
  BY SpaceTables
<1>4. \A e \in Pdes : \/ mem.dirs[d][e].table = NULL \/ mem.dirs[d][e].table = d
                      \/ mem.dirs[d][e].table \in {mem.dirs[d]["image"].table, mem.dirs[d]["stack"].table}
                      \/ mem.dirs[d][e].table \in ({HeapTable(mem), WindowTable(mem)} \ {NULL})
  <2>1. CASE Fresh(mem, d)
    BY <1>2, <2>1 DEF Fresh
  <2>2. CASE Cloned(mem, d)
    <3>1. /\ mem.dirs[d]["self"].table = d /\ mem.dirs[d]["identity"].table = NULL
          /\ mem.dirs[d]["heap"].table = HeapTable(mem) /\ HeapTable(mem) # NULL
          /\ mem.dirs[d]["windows"].table = WindowTable(mem) /\ WindowTable(mem) # NULL
      BY <1>2, <2>2 DEF Cloned, HeapTable, WindowTable
    <3> QED BY <3>1 DEF Pdes
  <2> QED BY <2>1, <2>2 DEF Space
<1>5. {HeapTable(mem), WindowTable(mem)} \ {NULL} \subseteq DOMAIN mem.tabs
  BY TablesApart
<1>6. Tables(d) \cup {d} \subseteq DOMAIN mem.dirs \cup DOMAIN mem.tabs
  BY <1>3, <1>4, <1>5 DEF Tables
<1>7. \A t \in Tables(d) \ Tables(mem.kdir) :
         t = d \/ t \in {mem.dirs[d]["image"].table, mem.dirs[d]["stack"].table} \ {NULL, mem.kdir + 2}
  <2> TAKE t \in Tables(d) \ Tables(mem.kdir)
  <2>1. t # NULL /\ \E e \in Pdes : t = mem.dirs[d][e].table
    BY DEF Tables
  <2>2. /\ mem.kdir + 2 \in Tables(mem.kdir)
        /\ HeapTable(mem) # NULL => HeapTable(mem) \in Tables(mem.kdir)
        /\ WindowTable(mem) # NULL => WindowTable(mem) \in Tables(mem.kdir)
    BY KernelTables
  <2> QED BY <1>4, <2>1, <2>2
<1>8. Own(d) \subseteq Private(mem, d)
  BY <1>1, <1>7 DEF Own, Private
<1> QED BY <1>1, <1>6, <1>8

\* The kernel's directory has nothing of its own.
LEMMA KernelOwnsNothing ==
    ASSUME Kernel(mem)
    PROVE  Own(mem.kdir) = {}
<1>1. Pages(mem.kdir, "stack") = {}
  <2>1. mem.dirs[mem.kdir]["stack"].table = NULL
    BY DEF Kernel, KernelDir, NoTable
  <2> QED BY <2>1, PagesAre
<1>2. mem.kdir \in Tables(mem.kdir)
  BY KernelTables
<1> QED BY <1>1, <1>2 DEF Own

\* It implies that no frame has two uses.
LEMMA FramesFollow == SpacesInv => NoFrameTwice
<1> SUFFICES ASSUME SpacesInv PROVE NoFrameTwice
  OBVIOUS
<1>1. CASE ~Started
  BY <1>1 DEF NoFrameTwice, Reached
<1>2. CASE Started
  <2>1. /\ World(mem, make, procs) /\ Kernel(mem) /\ Apart(mem)
        /\ Dirs = {mem.kdir} \cup UserDirs(make, procs)
        /\ \A d \in UserDirs(make, procs) : Space(mem, d)
    BY <1>2, StartedWorld DEF Kernel
  <2>2. Disjoint(mem, UserDirs(make, procs))
    BY <2>1 DEF World
  <2>3. Tables(mem.kdir) \subseteq Used(mem) /\ HeapFrames = HeapFr(mem) /\ HeapFr(mem) \subseteq Used(mem)
    BY <2>1, KernelTables, HeapFramesAre DEF Used
  <2>4. ASSUME NEW d \in UserDirs(make, procs)
        PROVE  /\ StackFr(mem, d) \cap (mem.free \cup Used(mem)) = {} /\ Pages(d, "stack") = StackFr(mem, d)
               /\ Tables(d) \cup {d} \subseteq DOMAIN mem.dirs \cup DOMAIN mem.tabs
               /\ Tables(d) \cup {d} \subseteq Used(mem) /\ Own(d) \subseteq Private(mem, d)
    <3>1. StackFr(mem, d) \cap (mem.free \cup Used(mem)) = {}
      BY <2>2 DEF Disjoint
    <3>2. /\ Pages(d, "stack") = StackFr(mem, d)
          /\ Tables(d) \cup {d} \subseteq DOMAIN mem.dirs \cup DOMAIN mem.tabs
          /\ Own(d) \subseteq Private(mem, d)
      BY <2>1, OwnIsPrivate
    <3> QED BY <3>1, <3>2 DEF Used
  <2>5. ASSUME NEW d \in UserDirs(make, procs)
        PROVE  /\ Own(d) \cap mem.free = {}
               /\ Own(d) \cap (HeapFrames \cup Tables(mem.kdir)) = {}
               /\ Tables(d) \cap Pages(d, "stack") = {}
    <3>1. Own(d) = (({d} \cup Tables(d)) \ Tables(mem.kdir)) \cup StackFr(mem, d)
      BY <2>4 DEF Own
    <3>2. mem.free \cap Used(mem) = {} /\ HeapFr(mem) \cap (DOMAIN mem.dirs \cup DOMAIN mem.tabs) = {}
      BY <2>1 DEF Apart
    <3>3. Own(d) \cap mem.free = {}
      BY <2>4, <3>1, <3>2
    <3>4. Own(d) \cap (HeapFrames \cup Tables(mem.kdir)) = {}
      BY <2>3, <2>4, <3>1, <3>2
    <3>5. Tables(d) \cap Pages(d, "stack") = {}
      BY <2>4
    <3> QED BY <3>3, <3>4, <3>5
  <2>6. Own(mem.kdir) = {}
    BY <2>1, KernelOwnsNothing
  <2>7. mem.free \cap Reached = {}
    <3>1. Reached = Tables(mem.kdir) \cup HeapFrames \cup UNION {Own(d) : d \in Dirs}
      BY <1>2 DEF Reached
    <3>2. mem.free \cap Used(mem) = {}
      BY <2>1 DEF Apart
    <3>3. \A d \in Dirs : Own(d) \cap mem.free = {}
      BY <2>1, <2>5, <2>6
    <3> QED BY <2>3, <3>1, <3>2, <3>3
  <2>8. \A c, d \in Dirs \ {mem.kdir} : c # d => Own(c) \cap Own(d) = {}
    <3> SUFFICES ASSUME NEW c \in UserDirs(make, procs), NEW d \in UserDirs(make, procs), c # d
                 PROVE  Own(c) \cap Own(d) = {}
      BY <2>1
    <3>1. Private(mem, c) \cap Private(mem, d) = {}
      BY <2>2 DEF Disjoint
    <3> QED BY <2>4, <3>1
  <2>9. \A d \in Dirs \ {mem.kdir} : /\ Own(d) \cap (HeapFrames \cup Tables(mem.kdir)) = {}
                                     /\ Tables(d) \cap Pages(d, "stack") = {}
    BY <2>1, <2>5
  <2>10. Cardinality(HeapFrames) = mem.brk
    BY <2>1, <2>3, HeapFramesCounted
  <2> QED BY <2>7, <2>8, <2>9, <2>10 DEF NoFrameTwice
<1> QED BY <1>1, <1>2

----------------------------------------------------------------------------
(* What a process sees                                                     *)

\* The entries of the directory of a process, and who may use them.
LEMMA ProcessEntries ==
    ASSUME Kernel(mem), NEW p, ProcOK(mem, p)
    PROVE  /\ \A e \in Pdes : mem.dirs[p.pd][e].user = TRUE <=> e \in {"image", "stack"}
           /\ mem.dirs[p.pd]["image"].table # NULL /\ mem.dirs[p.pd]["stack"].table # NULL
           /\ mem.tabs[mem.dirs[p.pd]["image"].table] = ImageOf({0, 1, p.entry[2]})
           /\ mem.tabs[mem.dirs[p.pd]["stack"].table] = StackOf(p.stack)
           /\ p.stack \in Nat
<1> PICK d : d = p.pd
  OBVIOUS
<1>0. Cloned(mem, d) /\ Opened(mem, d, {0, 1, p.entry[2]}) /\ Stacked(mem, d, p.stack) /\ KernelDir(mem)
  BY DEF ProcOK, Kernel
<1>1. /\ mem.dirs[d]["image"].table # NULL /\ mem.dirs[d]["image"].table # mem.kdir + 2
      /\ mem.dirs[d]["stack"].table # NULL /\ p.stack \in Nat
      /\ mem.tabs[mem.dirs[d]["image"].table] = ImageOf({0, 1, p.entry[2]})
      /\ mem.tabs[mem.dirs[d]["stack"].table] = StackOf(p.stack)
  BY <1>0 DEF Opened, Stacked
<1>2. d \in DOMAIN mem.dirs /\ mem.dirs[d] \in [Pdes -> PdEntry]
  BY <1>0 DEF Cloned, Kernel, Typed
<1>3. \A e \in Pdes : mem.dirs[d][e].user \in BOOLEAN
  BY <1>2 DEF PdEntry
<1>4. mem.dirs[d]["image"].user = TRUE
  <2>1. mem.dirs[mem.kdir]["image"].table = mem.kdir + 2
    BY <1>0 DEF KernelDir
  <2>2. mem.dirs[d]["image"].user
    BY <1>0, <1>1, <2>1 DEF Cloned
  <2> QED BY <1>3, <2>2 DEF Pdes
<1>5. mem.dirs[d]["stack"].user = TRUE
  <2>1. NoTable.table = NULL
    BY DEF NoTable
  <2>2. mem.dirs[d]["stack"].user
    BY <1>0, <1>1, <2>1 DEF Cloned
  <2> QED BY <1>3, <2>2 DEF Pdes
<1>6. \A e \in {"heap", "windows", "self", "identity"} : mem.dirs[d][e].user = FALSE
  <2>1. NoTable.user = FALSE
    BY DEF NoTable
  <2>2. mem.dirs[mem.kdir]["heap"].user = FALSE /\ mem.dirs[mem.kdir]["windows"].user = FALSE
    BY <1>0 DEF KernelDir
  <2>3. mem.dirs[d]["self"].user = FALSE
    BY <1>0 DEF Cloned
  <2>4. mem.dirs[d]["identity"].user = FALSE
    BY <1>0, <2>1 DEF Cloned
  <2>5. mem.dirs[d]["heap"].user = FALSE /\ mem.dirs[d]["windows"].user = FALSE
    BY <1>0, <2>2 DEF Cloned
  <2> QED BY <2>3, <2>4, <2>5
<1>7. \A e \in Pdes : mem.dirs[d][e].user = TRUE <=> e \in {"image", "stack"}
  BY <1>4, <1>5, <1>6 DEF Pdes
<1> QED BY <1>1, <1>7

\* The pages of the tables of a process.
LEMMA ProcessPages ==
    ASSUME Kernel(mem), NEW p, ProcOK(mem, p), NEW i \in 0 .. PTES - 1
    PROVE  /\ PageIn(mem, p.pd, <<"image", i>>).frame = i
           /\ PageIn(mem, mem.kdir, <<"image", i>>).frame = i
           /\ PageIn(mem, p.pd, <<"image", i>>).user <=> i \in {0, 1, p.entry[2]}
           /\ PageIn(mem, p.pd, <<"stack", i>>).user <=> i \in StackBottom .. StackTop
           /\ i \in StackBottom .. StackTop =>
                PageIn(mem, p.pd, <<"stack", i>>).frame = p.stack + i - StackBottom
<1>1. /\ mem.dirs[p.pd]["image"].table # NULL /\ mem.dirs[p.pd]["stack"].table # NULL
      /\ mem.tabs[mem.dirs[p.pd]["image"].table] = ImageOf({0, 1, p.entry[2]})
      /\ mem.tabs[mem.dirs[p.pd]["stack"].table] = StackOf(p.stack)
  BY ProcessEntries
<1>2. \A e : <<e, i>>[1] = e /\ <<e, i>>[2] = i
  OBVIOUS
<1> PICK g : g = PageIn(mem, p.pd, <<"image", i>>)
  OBVIOUS
<1> PICK s : s = PageIn(mem, p.pd, <<"stack", i>>)
  OBVIOUS
<1> PICK h : h = PageIn(mem, mem.kdir, <<"image", i>>)
  OBVIOUS
<1> PICK S : S = {0, 1, p.entry[2]}
  OBVIOUS
<1>3. g = ImageOf(S)[i]
  BY <1>1, <1>2 DEF PageIn
<1>4. s = StackOf(p.stack)[i]
  BY <1>1, <1>2 DEF PageIn
<1>5. h = Identity[i]
  <2>1. /\ mem.dirs[mem.kdir]["image"].table = mem.kdir + 2 /\ mem.kdir + 2 # NULL
        /\ mem.tabs[mem.kdir + 2] = Identity
    BY DEF Kernel, KernelDir, NULL
  <2> QED BY <1>2, <2>1 DEF PageIn
<1>6. h.frame = i
  BY <1>5 DEF Identity
<1>7. g.frame = i /\ (g.user <=> i \in S)
  <2>1. g.frame = i /\ g.user = (i \in S)
    BY <1>3 DEF ImageOf
  <2> QED BY ONLY <2>1
<1>8. s = IF i \in StackBottom .. StackTop THEN [frame |-> p.stack + i - StackBottom, user |-> TRUE] ELSE NoPage
  BY <1>4 DEF StackOf
<1>9. CASE i \in StackBottom .. StackTop
  <2>1. s.frame = p.stack + i - StackBottom /\ s.user
    BY <1>8, <1>9
  <2> QED BY <1>6, <1>7, <1>9, <2>1
<1>10. CASE i \notin StackBottom .. StackTop
  <2>1. ~s.user
    BY <1>8, <1>10 DEF NoPage
  <2> QED BY <1>6, <1>7, <1>10, <2>1
<1> QED BY <1>9, <1>10

\* The pages of a stack.
LEMMA StackPagesAre ==
    /\ \A va : va \in StackVas <=> \E i \in StackBottom .. StackTop : va = <<"stack", i>>
    /\ StackBottom .. StackTop \subseteq 0 .. PTES - 1
    /\ StackBottom \in Nat /\ StackTop = StackBottom + STACK_PAGES - 1
<1>1. StackBottom \in Nat /\ StackTop = StackBottom + STACK_PAGES - 1 /\ StackTop <= PTES - 1
  BY Numbers DEF StackBottom, StackTop
<1>2. \A va : va \in StackVas <=> \E i \in StackBottom .. StackTop : va = <<"stack", i>>
  BY DEF StackVas, StackBottom
<1> QED BY <1>1, <1>2, Numbers

\* It implies that a process sees what is its own and no more.
LEMMA SeeingFollows == SpacesInv => UserSeesOnlyItsOwn
<1> SUFFICES ASSUME SpacesInv, NEW p \in procs,
                    NEW open, open = {va \in Pdes \X (0 .. PTES - 1) :
                                        mem.dirs[p.pd][va[1]].user /\ PageIn(mem, p.pd, va).user}
             PROVE  /\ open = {Stubs, Syscall, p.entry} \cup StackVas
                    /\ \A va \in open \ StackVas :
                         PageIn(mem, p.pd, va).frame = PageIn(mem, mem.kdir, va).frame
                    /\ {PageIn(mem, p.pd, va).frame : va \in StackVas} = p.stack .. p.stack + STACK_PAGES - 1
  BY DEF UserSeesOnlyItsOwn
<1>1. Started
  BY DEF SpacesInv, Bare
<1>2. Kernel(mem) /\ ProcOK(mem, p)
  BY <1>1, StartedWorld DEF World
<1>3. p.entry \in {"image"} \X (0 .. PTES - 1) /\ 0 \in 0 .. PTES - 1 /\ 1 \in 0 .. PTES - 1
  BY <1>2, EntriesAssumption, Numbers DEF ProcOK
<1> PICK y \in 0 .. PTES - 1 : p.entry = <<"image", y>>
  BY <1>3
<1>4. /\ \A e \in Pdes : mem.dirs[p.pd][e].user = TRUE <=> e \in {"image", "stack"}
      /\ p.stack \in Nat
      /\ \A e \in Pdes : mem.dirs[p.pd][e].user \in BOOLEAN
  <2>1. p.pd \in DOMAIN mem.dirs /\ mem.dirs[p.pd] \in [Pdes -> PdEntry]
    BY <1>2 DEF ProcOK, Cloned, Kernel, Typed
  <2>2. \A e \in Pdes : mem.dirs[p.pd][e].user \in BOOLEAN
    BY <2>1 DEF PdEntry
  <2> QED BY <1>2, <2>2, ProcessEntries
<1>5. \A i \in 0 .. PTES - 1 :
           /\ PageIn(mem, p.pd, <<"image", i>>).frame = i
           /\ PageIn(mem, mem.kdir, <<"image", i>>).frame = i
           /\ PageIn(mem, p.pd, <<"image", i>>).user <=> i \in {0, 1, y}
           /\ PageIn(mem, p.pd, <<"stack", i>>).user <=> i \in StackBottom .. StackTop
           /\ i \in StackBottom .. StackTop =>
                PageIn(mem, p.pd, <<"stack", i>>).frame = p.stack + i - StackBottom
  <2>1. p.entry[2] = y
    OBVIOUS
  <2> QED BY <1>2, <2>1, ProcessPages
<1>6. \A e \in Pdes, i \in 0 .. PTES - 1 :
         <<e, i>> \in open <=> \/ e = "image" /\ i \in {0, 1, y}
                               \/ e = "stack" /\ i \in StackBottom .. StackTop
  <2> TAKE e \in Pdes, i \in 0 .. PTES - 1
  <2>1. <<e, i>>[1] = e /\ <<e, i>> \in Pdes \X (0 .. PTES - 1)
    OBVIOUS
  <2>2. <<e, i>> \in open <=> mem.dirs[p.pd][e].user /\ PageIn(mem, p.pd, <<e, i>>).user
    BY <2>1
  <2>3. mem.dirs[p.pd][e].user <=> e \in {"image", "stack"}
    BY <1>4
  <2> QED BY <1>5, <2>2, <2>3
<1>7. open \subseteq Pdes \X (0 .. PTES - 1) /\ "image" \in Pdes /\ "stack" \in Pdes
  BY DEF Pdes
<1>8. open = {Stubs, Syscall, p.entry} \cup StackVas
  <2>1. Stubs = <<"image", 0>> /\ Syscall = <<"image", 1>>
    BY DEF Stubs, Syscall
  <2>2. ASSUME NEW va \in open PROVE va \in {Stubs, Syscall, p.entry} \cup StackVas
    <3> PICK e \in Pdes, i \in 0 .. PTES - 1 : va = <<e, i>>
      BY <1>7
    <3>1. (e = "image" /\ i \in {0, 1, y}) \/ (e = "stack" /\ i \in StackBottom .. StackTop)
      BY <1>6
    <3> QED BY <2>1, <3>1, StackPagesAre
  <2>3. ASSUME NEW va \in StackVas PROVE va \in open
    <3> PICK i \in StackBottom .. StackTop : va = <<"stack", i>>
      BY StackPagesAre
    <3>1. i \in 0 .. PTES - 1
      BY StackPagesAre
    <3> QED BY <1>6, <1>7, <3>1
  <2>4. Stubs \in open /\ Syscall \in open /\ p.entry \in open
    BY <1>3, <1>6, <1>7, <2>1
  <2> QED BY <2>2, <2>3, <2>4
<1>9. \A va \in open \ StackVas : PageIn(mem, p.pd, va).frame = PageIn(mem, mem.kdir, va).frame
  <2> TAKE va \in open \ StackVas
  <2> PICK e \in Pdes, i \in 0 .. PTES - 1 : va = <<e, i>>
    BY <1>7
  <2>1. e = "image"
    BY <1>6, StackPagesAre
  <2> QED BY <1>5, <2>1
<1>10. {PageIn(mem, p.pd, va).frame : va \in StackVas} = p.stack .. p.stack + STACK_PAGES - 1
  <2>1. ASSUME NEW va \in StackVas PROVE PageIn(mem, p.pd, va).frame \in p.stack .. p.stack + STACK_PAGES - 1
    <3> PICK i \in StackBottom .. StackTop : va = <<"stack", i>>
      BY StackPagesAre
    <3>1. i \in 0 .. PTES - 1
      BY StackPagesAre
    <3>2. PageIn(mem, p.pd, va).frame = p.stack + i - StackBottom
      BY <1>5, <3>1
    <3> QED BY <1>4, <3>2, StackPagesAre, Numbers
  <2>2. ASSUME NEW f \in p.stack .. p.stack + STACK_PAGES - 1
        PROVE  \E va \in StackVas : PageIn(mem, p.pd, va).frame = f
    <3> PICK i : i = f - p.stack + StackBottom
      OBVIOUS
    <3>1. i \in StackBottom .. StackTop /\ p.stack + i - StackBottom = f
      BY <1>4, StackPagesAre, Numbers
    <3>2. i \in 0 .. PTES - 1 /\ <<"stack", i>> \in StackVas
      BY <3>1, StackPagesAre
    <3>3. PageIn(mem, p.pd, <<"stack", i>>).frame = f
      BY <1>5, <3>1, <3>2
    <3> QED BY <3>2, <3>3
  <2> QED BY <2>1, <2>2
<1> QED BY <1>8, <1>9, <1>10

----------------------------------------------------------------------------
(* No frame is lost                                                        *)

\* The frames the kernel's own half keeps from the allocator.
Held(m) == ({HeapTable(m), WindowTable(m)} \ {NULL}) \cup HeapFr(m)

\* A call that turns m into n loses no frame but those in S, which its caller has.
Saves(m, n, S) == m.free \cup Held(m) \subseteq n.free \cup Held(n) \cup S

\* Memory is short: the heap was at its limit, or there is no frame left.
Short(m, n) == n.fault \/ m.brk = KERNEL_HEAP_PAGES \/ n.free = {}

\* One call after another.
LEMMA SavesOn ==
    ASSUME NEW m, NEW n, NEW o, NEW S, NEW R, Saves(m, n, S), Saves(n, o, R)
    PROVE  Saves(m, o, S \cup R)
  BY DEF Saves

\* What the kernel's half is made of.
LEMMA HeldSame ==
    ASSUME NEW m, NEW n, n.kdir = m.kdir, n.brk = m.brk, n.dirs[m.kdir] = m.dirs[m.kdir],
           HeapTable(m) # NULL => n.tabs[HeapTable(m)] = m.tabs[HeapTable(m)]
    PROVE  Held(n) = Held(m)
<1>1. HeapTable(n) = HeapTable(m) /\ WindowTable(n) = WindowTable(m)
  BY DEF HeapTable, WindowTable
<1>2. HeapFr(n) = HeapFr(m)
  BY <1>1 DEF HeapFr
<1> QED BY <1>1, <1>2 DEF Held

\* kpmm_alloc_pages hands its frames to the caller.
LEMMA AllocSaves ==
    ASSUME NEW m, Kernel(m), NEW c \in Nat \ {0}, NEW a, a = KpmmAllocPages(m, c), c = 1 \/ a.ret # NULL
    PROVE  /\ a.ret # NULL => Saves(m, a, a.ret .. (a.ret + c - 1))
           /\ a.ret = NULL => Saves(m, a, {})
           /\ Held(a) = Held(m)
<1>1. Typed(m)
  BY DEF Kernel
<1>2. /\ SameButFrames(m, a)
      /\ a.ret = NULL => a.free = m.free
      /\ a.ret # NULL => a.free = m.free \ (a.ret .. (a.ret + c - 1))
  BY <1>1, AllocIs
<1>3. a.kdir = m.kdir /\ a.brk = m.brk /\ a.dirs = m.dirs /\ a.tabs = m.tabs
  BY <1>2 DEF SameButFrames
<1>4. Held(a) = Held(m)
  BY <1>3, HeldSame
<1> QED BY <1>2, <1>4 DEF Saves

\* A new table of the kernel's half is held by it.
LEMMA NewTableSaves ==
    ASSUME NEW m, Kernel(m), m.cr3 = m.kdir, NEW e \in {"heap", "windows"},
           m.dirs[m.kdir][e].table = NULL, NEW n, n = NewTable(m, e)
    PROVE  /\ n.ret # NULL => Saves(m, n, {})
           /\ n.ret = NULL => n.fault \/ n.free = {}
<1> PICK a : a = KpmmAllocPages(m, 1)
  OBVIOUS
<1>0. e \in Pdes /\ Typed(m) /\ KernelDir(m)
  BY DEF Pdes, Kernel
<1>1. Pd(m) = m.kdir
  BY <1>0 DEF Pd, KernelDir
<1>2. CASE a.ret = NULL
  <2>1. n = a /\ a.free = {}
    BY <1>0, <1>2, NewTableIs, AllocOne
  <2> QED BY <1>2, <2>1
<1>3. CASE a.ret # NULL /\ a.ret >= m.low
  <2>1. n = Fault(a) /\ OneFrame(m, a)
    BY <1>0, <1>3, NewTableIs, AllocOne
  <2>2. n.fault = TRUE /\ n.ret = NULL
    BY <2>1 DEF Fault, OneFrame, Typed, IsMem
  <2> QED BY <2>2
<1>4. CASE a.ret # NULL /\ ~(a.ret >= m.low)
  <2> PICK t : t = a.ret
    OBVIOUS
  <2>1. OneFrame(m, a) /\ t \in m.free /\ t # NULL
    BY <1>0, <1>4, AllocOne DEF OneFrame
  <2>2. n = Ok([a EXCEPT !.dirs[m.kdir][e] = [table |-> t, user |-> FALSE],
                         !.tabs = With(@, t, Empty)])
    <3>1. n = IF a.ret = NULL THEN a
              ELSE IF a.ret >= m.low THEN Fault(a)
              ELSE Ok([a EXCEPT !.dirs[Pd(m)][e] = [table |-> a.ret, user |-> FALSE],
                                !.tabs = With(@, a.ret, Empty)])
      BY DEF NewTable, Then
    <3> QED BY <1>1, <1>4, <3>1
  <2>3. /\ n.free = m.free \ {t} /\ n.kdir = m.kdir /\ n.brk = m.brk /\ n.ret = OK
        /\ n.dirs = [m.dirs EXCEPT ![m.kdir][e] = [table |-> t, user |-> FALSE]]
        /\ n.tabs = With(m.tabs, t, Empty)
    BY <2>1, <2>2 DEF Ok, OneFrame, SameButFrames, Typed, IsMem
  <2>4. t \notin DOMAIN m.tabs
    BY <2>1 DEF Kernel, Apart, Used
  <2>5. \A x \in DOMAIN m.tabs : n.tabs[x] = m.tabs[x]
    BY <2>3, <2>4 DEF With
  <2>6. m.kdir \in DOMAIN m.dirs /\ m.dirs[m.kdir] \in [Pdes -> PdEntry]
    BY <1>0 DEF KernelDir, Typed
  <2>7. /\ n.dirs[m.kdir][e] = [table |-> t, user |-> FALSE]
        /\ \A x \in Pdes \ {e} : n.dirs[m.kdir][x] = m.dirs[m.kdir][x]
    BY <1>0, <2>3, <2>6 DEF PdEntry
  <2>8. /\ e = "heap" => HeapTable(n) = t /\ WindowTable(n) = WindowTable(m) /\ HeapTable(m) = NULL
        /\ e = "windows" => HeapTable(n) = HeapTable(m) /\ WindowTable(n) = t /\ WindowTable(m) = NULL
    BY <2>3, <2>7 DEF HeapTable, WindowTable, Pdes
  <2>9. HeapFr(m) \subseteq HeapFr(n)
    <3>1. CASE HeapTable(m) = NULL
      BY <3>1 DEF HeapFr
    <3>2. CASE HeapTable(m) # NULL
      <4>1. HeapTable(m) \in DOMAIN m.tabs /\ HeapTable(n) = HeapTable(m)
        BY <2>8, <3>2, TablesApart
      <4>2. n.tabs[HeapTable(n)] = m.tabs[HeapTable(m)]
        BY <2>5, <4>1
      <4> QED BY <2>3, <3>2, <4>1, <4>2 DEF HeapFr
    <3> QED BY <3>1, <3>2
  <2>10. Held(m) \cup {t} \subseteq Held(n)
    BY <2>1, <2>8, <2>9 DEF Held
  <2>11. n.ret # NULL
    BY <2>3 DEF OK, NULL
  <2> QED BY <2>3, <2>10, <2>11 DEF Saves
<1> QED BY <1>2, <1>3, <1>4

\* So is the table of an entry that has one.
LEMMA TableSaves ==
    ASSUME NEW m, Kernel(m), NEW e \in {"heap", "windows"}, Reaches(m, e), NEW n, n = TableFor(m, e)
    PROVE  /\ n.ret # NULL => Saves(m, n, {})
           /\ n.ret = NULL => n.fault \/ n.free = {}
           /\ m.dirs[m.kdir][e].table # NULL => n.ret # NULL
<1>1. Table(m, e) = m.dirs[m.kdir][e].table
  BY DEF Table, Pd, Reaches
<1>2. CASE m.dirs[m.kdir][e].table # NULL
  <2>1. n = [m EXCEPT !.ret = OK]
    BY <1>1, <1>2 DEF TableFor, Ok
  <2>2. n.ret = OK /\ n.free = m.free /\ n.kdir = m.kdir /\ n.brk = m.brk /\ n.dirs = m.dirs /\ n.tabs = m.tabs
    BY <2>1 DEF Kernel, Typed, IsMem
  <2>3. Held(n) = Held(m)
    BY <2>2, HeldSame
  <2> QED BY <2>2, <2>3 DEF Saves, OK, NULL
<1>3. CASE m.dirs[m.kdir][e].table = NULL
  <2>1. n = NewTable(m, e) /\ m.cr3 = m.kdir
    BY <1>1, <1>3 DEF TableFor, Reaches
  <2> QED BY <1>3, <2>1, NewTableSaves
<1> QED BY <1>2, <1>3

\* What the windows show holds no frame back.
LEMMA WindowHeld ==
    ASSUME NEW m, Kernel(m), WindowTable(m) # NULL, NEW n, SameButTabs(m, n),
           NEW i \in 0 .. PTES - 1, NEW pg \in PtEntry, Written(m, n, WindowTable(m), i, pg)
    PROVE  Held(n) = Held(m)
<1>1. WindowTable(m) \in DOMAIN m.tabs /\ (HeapTable(m) # NULL => HeapTable(m) # WindowTable(m))
      /\ (HeapTable(m) # NULL => HeapTable(m) \in DOMAIN m.tabs)
  BY TablesApart
<1>2. \A x \in DOMAIN m.tabs \ {WindowTable(m)} : n.tabs[x] = m.tabs[x]
  BY <1>1, EntryWritten
<1>3. n.kdir = m.kdir /\ n.brk = m.brk /\ n.dirs[m.kdir] = m.dirs[m.kdir]
  BY DEF SameButTabs
<1>4. HeapTable(m) # NULL => n.tabs[HeapTable(m)] = m.tabs[HeapTable(m)]
  BY <1>1, <1>2
<1> QED BY <1>3, <1>4, HeldSame

\* Nor does taking down what one showed.
LEMMA UnmapSaves ==
    ASSUME NEW m, Kernel(m), m.cr3 = m.kdir, NEW i \in 0 .. PTES - 1,
           NEW n, n = KvmmUnmapPage(m, <<"windows", i>>)
    PROVE  Held(n) = Held(m) /\ n.free = m.free
<1>1. Pd(m) = m.kdir /\ Table(m, "windows") = WindowTable(m)
  BY DEF Pd, Table, WindowTable, Kernel, KernelDir
<1>2. PageIn(m, Pd(m), <<"windows", i>>) =
         IF WindowTable(m) = NULL THEN NoPage ELSE m.tabs[WindowTable(m)][i]
  BY <1>1 DEF PageIn, WindowTable
<1>3. CASE PageIn(m, Pd(m), <<"windows", i>>) = NoPage
  BY <1>3 DEF KvmmUnmapPage
<1>4. CASE PageIn(m, Pd(m), <<"windows", i>>) # NoPage
  <2>1. WindowTable(m) # NULL
    BY <1>2, <1>4
  <2>2. n = [m EXCEPT !.tabs[WindowTable(m)][i] = NoPage]
    <3>1. <<"windows", i>>[1] = "windows" /\ <<"windows", i>>[2] = i
      OBVIOUS
    <3>2. n = [m EXCEPT !.tabs[Table(m, <<"windows", i>>[1])][<<"windows", i>>[2]] = NoPage]
      BY <1>4 DEF KvmmUnmapPage
    <3> QED BY <1>1, <3>1, <3>2
  <2> PICK T : T = [m.tabs EXCEPT ![WindowTable(m)][i] = NoPage]
    OBVIOUS
  <2>3. n = [m EXCEPT !.tabs = T]
    BY <2>2 DEF Kernel, Typed, IsMem
  <2>4. SameButTabs(m, n) /\ n.tabs = T
    BY <2>3 DEF SameButTabs, Kernel, Typed, IsMem
  <2>5. NoPage \in PtEntry /\ Written(m, n, WindowTable(m), i, NoPage)
    BY <2>4 DEF PtEntry, NoPage, Written
  <2>6. Held(n) = Held(m)
    BY <2>1, <2>4, <2>5, WindowHeld
  <2> QED BY <2>4, <2>6 DEF SameButTabs
<1> QED BY <1>3, <1>4

\* A window is mapped: only its table may be missing.
LEMMA MapSaves ==
    ASSUME NEW m, Kernel(m), m.cr3 = m.kdir, NEW i \in 0 .. PTES - 1, NEW f \in Nat,
           WindowTable(m) # NULL => m.tabs[WindowTable(m)][i] = NoPage,
           NEW n, n = KvmmMapPage(m, <<"windows", i>>, f)
    PROVE  /\ n.ret # NULL => Saves(m, n, {})
           /\ n.ret = NULL => n.fault \/ n.free = {}
           /\ WindowTable(m) # NULL => n.ret # NULL
<1> PICK a : a = TableFor(m, "windows")
  OBVIOUS
<1>0. /\ Reaches(m, "windows")
      /\ a.ret # NULL => Saves(m, a, {})
      /\ a.ret = NULL => a.fault \/ a.free = {}
      /\ WindowTable(m) # NULL => a.ret # NULL
  <2>1. Reaches(m, "windows")
    BY InKernelReaches
  <2>2. /\ a.ret # NULL => Saves(m, a, {})
        /\ a.ret = NULL => a.fault \/ a.free = {}
        /\ m.dirs[m.kdir]["windows"].table # NULL => a.ret # NULL
    BY <2>1, TableSaves
  <2> QED BY <2>1, <2>2 DEF WindowTable
<1>1. /\ Kernel(a) /\ Grows(m, a)
      /\ a.ret # NULL => /\ Pd(a) = a.cr3 /\ Table(a, "windows") = a.dirs[a.kdir]["windows"].table
                         /\ Table(a, "windows") # NULL
                         /\ WindowTable(m) # NULL => a.tabs = m.tabs
                         /\ WindowTable(m) = NULL => a.tabs[WindowTable(a)] = Empty
  BY <1>0, TableGot
<1>2. n = IF a.ret = NULL THEN a
          ELSE IF PageIn(a, Pd(a), <<"windows", i>>) # NoPage THEN Fail(a)
          ELSE Ok([a EXCEPT !.tabs[Table(a, "windows")][i] = [frame |-> f, user |-> FALSE]])
  BY MapIs
<1>3. CASE a.ret = NULL
  BY <1>0, <1>2, <1>3
<1>4. CASE a.ret # NULL
  <2>1. Table(a, "windows") = WindowTable(a) /\ WindowTable(a) # NULL
        /\ a.cr3 = a.kdir /\ WindowTable(a) \in DOMAIN a.tabs
    BY <1>1, <1>4, TablesApart DEF WindowTable, Grows
  <2>2. a.tabs[WindowTable(a)][i] = NoPage
    <3>1. CASE WindowTable(m) # NULL
      <4>1. WindowTable(a) = WindowTable(m)
        BY <1>1, <3>1 DEF Grows, WindowTable, Pdes
      <4> QED BY <1>1, <1>4, <3>1, <4>1
    <3>2. CASE WindowTable(m) = NULL
      BY <1>1, <1>4, <3>2 DEF Empty
    <3> QED BY <3>1, <3>2
  <2>3. PageIn(a, Pd(a), <<"windows", i>>) = NoPage
    BY <1>1, <1>4, <2>1, <2>2 DEF PageIn, WindowTable
  <2>4. n = Ok([a EXCEPT !.tabs[WindowTable(a)][i] = [frame |-> f, user |-> FALSE]])
    BY <1>2, <1>4, <2>1, <2>3
  <2> PICK T : T = [a.tabs EXCEPT ![WindowTable(a)][i] = [frame |-> f, user |-> FALSE]]
    OBVIOUS
  <2>5. n = [a EXCEPT !.tabs = T, !.ret = OK]
    BY <1>1, <2>4 DEF Ok, Kernel, Typed, IsMem
  <2>6. SameButTabs(a, n) /\ n.tabs = T /\ n.ret = OK
    BY <1>1, <2>5 DEF SameButTabs, Kernel, Typed, IsMem
  <2>7. [frame |-> f, user |-> FALSE] \in PtEntry
    BY DEF PtEntry
  <2>8. Held(n) = Held(a)
    <3> PICK pg \in PtEntry : pg = [frame |-> f, user |-> FALSE]
      BY <2>7
    <3>1. Written(a, n, WindowTable(a), i, pg)
      BY <2>6 DEF Written
    <3>2. SameButTabs(a, n) /\ Kernel(a) /\ WindowTable(a) # NULL
      BY <1>1, <2>1, <2>6
    <3> QED BY ONLY <3>1, <3>2, i \in 0 .. PTES - 1, pg \in PtEntry, WindowHeld
  <2>9. n.free = a.free /\ n.ret # NULL
    BY <2>6 DEF SameButTabs, OK, NULL
  <2> QED BY <1>0, <1>4, <2>8, <2>9 DEF Saves
<1> QED BY <1>3, <1>4

\* A frame is looked at through a window.
LEMMA WindowSaves ==
    ASSUME NEW m, Kernel(m), m.cr3 = m.kdir, NEW w \in 0 .. 2, NEW f \in Nat,
           NEW n, n = Window(m, w, f)
    PROVE  /\ n.ret # NULL => Saves(m, n, {})
           /\ n.ret = NULL => n.fault \/ n.free = {}
           /\ WindowTable(m) # NULL => n.ret # NULL
<1> PICK u : u = KvmmUnmapPage(m, <<"windows", w>>)
  OBVIOUS
<1>0. w \in 0 .. PTES - 1
  BY Numbers
<1>1. /\ Kernel(u) /\ Grows(m, u) /\ WindowTable(u) = WindowTable(m)
      /\ WindowTable(u) # NULL => u.tabs[WindowTable(u)][w] = NoPage
  BY <1>0, WindowUnmapped
<1>2. Held(u) = Held(m) /\ u.free = m.free
  BY <1>0, UnmapSaves
<1>3. u.cr3 = u.kdir /\ n = KvmmMapPage(u, <<"windows", w>>, f)
  BY <1>1 DEF Grows, Window
<1>4. /\ n.ret # NULL => Saves(u, n, {})
      /\ n.ret = NULL => n.fault \/ n.free = {}
      /\ WindowTable(u) # NULL => n.ret # NULL
  BY <1>0, <1>1, <1>3, MapSaves
<1> QED BY <1>1, <1>2, <1>4 DEF Saves

\* A page more for the heap.  With its table there, a page that cannot be had
\* costs nothing.
LEMMA HeaderSaves ==
    ASSUME NEW m, Kernel(m), Reaches(m, "heap"), NEW n, n = CreateHeapHeader(m)
    PROVE  /\ n.ret # NULL \/ HeapTable(m) # NULL => Saves(m, n, {})
           /\ HeapTable(m) # NULL /\ n.ret = NULL => m.brk = KERNEL_HEAP_PAGES \/ n.free = {}
<1> PICK a : a = KpmmAllocPages(m, 1)
  OBVIOUS
<1> PICK f : f = a.ret
  OBVIOUS
<1>0. Typed(m) /\ 1 \in Nat \ {0}
  BY DEF Kernel
<1>1. CASE m.brk = KERNEL_HEAP_PAGES
  <2>1. n = [m EXCEPT !.ret = NULL]
    BY <1>1 DEF CreateHeapHeader, Fail
  <2>2. SameButFrames(m, n) /\ n.free = m.free
    BY <2>1, AnswerGrows
  <2>3. Held(n) = Held(m)
    BY <2>2, HeldSame DEF SameButFrames
  <2> QED BY <1>1, <2>2, <2>3 DEF Saves
<1>2. CASE m.brk # KERNEL_HEAP_PAGES
  <2>1. n = IF a.ret = NULL THEN a ELSE MapAtBreak(a, a.ret)
    BY <1>2 DEF CreateHeapHeader, Then
  <2>2. Kernel(a) /\ Grows(m, a) /\ SameButFrames(m, a) /\ Used(a) = Used(m) /\ Held(a) = Held(m)
    BY <1>0, AllocGrows, AllocIs, AllocSaves
  <2>3. CASE a.ret = NULL
    <3>1. n = a /\ a.free = m.free /\ a.free = {}
      BY <1>0, <2>1, <2>3, AllocOne
    <3> QED BY <2>2, <3>1 DEF Saves
  <2>4. CASE a.ret # NULL
    <3>1. a.free = m.free \ {f}
      BY <1>0, <2>4, AllocOne DEF OneFrame
    <3> PICK t : t = TableFor(a, "heap")
      OBVIOUS
    <3>2. Reaches(a, "heap")
      BY <2>2 DEF Reaches, SameButFrames
    <3>3. /\ Kernel(t) /\ Grows(a, t) /\ t.brk = a.brk
          /\ t.ret # NULL => Pd(t) = t.cr3 /\ Table(t, "heap") = HeapTable(t) /\ Table(t, "heap") # NULL
      BY <2>2, <3>2, TableGot DEF HeapTable
    <3>4. /\ t.ret # NULL => Saves(a, t, {})
          /\ HeapTable(a) # NULL => t.ret # NULL
      BY <2>2, <3>2, TableSaves DEF HeapTable
    <3> PICK k : k = m.brk
      OBVIOUS
    <3>6. k \in 0 .. PTES - 1 /\ k < KERNEL_HEAP_PAGES /\ k \in Nat /\ a.brk = k
      <4>1. k \in 0 .. KERNEL_HEAP_PAGES
        BY <1>0 DEF Typed
      <4> QED BY <1>2, <2>2, <4>1, Numbers DEF SameButFrames
    <3> PICK b : b = KvmmMapPage(a, <<"heap", a.brk>>, f)
      OBVIOUS
    <3>7. n = IF b.ret = NULL THEN b ELSE [b EXCEPT !.brk = @ + 1]
      <4>1. MapAtBreak(a, f) = IF b.ret = NULL THEN b ELSE [b EXCEPT !.brk = @ + 1]
        BY DEF MapAtBreak, Then
      <4> QED BY <2>1, <2>4, <4>1
    <3>8. b = IF t.ret = NULL THEN t
              ELSE IF PageIn(t, Pd(t), <<"heap", k>>) # NoPage THEN Fail(t)
              ELSE Ok([t EXCEPT !.tabs[Table(t, "heap")][k] = [frame |-> f, user |-> FALSE]])
      BY <3>6, MapIs
    <3>9. CASE t.ret = NULL
      <4>1. HeapTable(a) = HeapTable(m)
        BY <2>2 DEF HeapTable, SameButFrames
      <4> QED BY <3>4, <3>7, <3>8, <3>9, <4>1
    <3>10. CASE t.ret # NULL
      <4>1. PageIn(t, Pd(t), <<"heap", k>>) = NoPage
        <5>1. HeapTable(t) # NULL /\ t.tabs[HeapTable(t)][k] = NoPage
          <6>1. k \in t.brk .. PTES - 1
            BY <3>3, <3>6
          <6> QED BY <3>3, <3>10, <6>1 DEF Kernel, HeapMapped
        <5>2. PageIn(t, Pd(t), <<"heap", k>>) = IF Table(t, "heap") = NULL THEN NoPage ELSE t.tabs[Table(t, "heap")][k]
          <6>1. t.dirs[Pd(t)]["heap"].table = Table(t, "heap")
            BY DEF Table
          <6> QED BY <6>1 DEF PageIn
        <5> QED BY <3>3, <3>10, <5>1, <5>2
      <4> PICK T : T = [t.tabs EXCEPT ![HeapTable(t)][k] = [frame |-> f, user |-> FALSE]]
        OBVIOUS
      <4>2. b = [t EXCEPT !.tabs = T, !.ret = OK]
        <5>1. b = Ok([t EXCEPT !.tabs[HeapTable(t)][k] = [frame |-> f, user |-> FALSE]])
          BY <3>3, <3>8, <3>10, <4>1
        <5> QED BY <3>3, <5>1 DEF Ok, Kernel, Typed, IsMem
      <4>3. SameButTabs(t, b) /\ b.tabs = T /\ b.ret = OK
        BY <3>3, <4>2 DEF SameButTabs, Kernel, Typed, IsMem
      <4>4. n = [b EXCEPT !.brk = b.brk + 1]
        BY <3>7, <4>3 DEF OK, NULL
      <4>5. /\ n.free = t.free /\ n.dirs = t.dirs /\ n.kdir = t.kdir /\ n.brk = k + 1
            /\ n.tabs = T /\ n.ret = OK /\ t.brk = k
        BY <3>3, <3>6, <4>3, <4>4 DEF SameButTabs, IsMem
      <4>6. HeapTable(n) = HeapTable(t) /\ WindowTable(n) = WindowTable(t) /\ HeapTable(t) # NULL
            /\ HeapTable(t) \in DOMAIN t.tabs
        BY <3>3, <3>10, <4>5, TablesApart DEF HeapTable, WindowTable
      <4>7. /\ T[HeapTable(t)][k].frame = f
            /\ \A i \in 0 .. k - 1 : T[HeapTable(t)][i] = t.tabs[HeapTable(t)][i]
        <5>1. t.tabs[HeapTable(t)] \in [0 .. PTES - 1 -> PtEntry]
          BY <3>3, <4>6 DEF Kernel, Typed
        <5> PICK U : U = t.tabs[HeapTable(t)]
          OBVIOUS
        <5>2. T[HeapTable(t)] = [U EXCEPT ![k] = [frame |-> f, user |-> FALSE]]
          BY <4>6
        <5>3. U \in [0 .. PTES - 1 -> PtEntry] /\ DOMAIN U = 0 .. PTES - 1
          BY <5>1
        <5> PICK pg : pg = [frame |-> f, user |-> FALSE]
          OBVIOUS
        <5>4. pg.frame = f
          OBVIOUS
        <5>5. T[HeapTable(t)] = [U EXCEPT ![k] = pg]
          BY <5>2
        <5>6. T[HeapTable(t)][k] = pg
          BY <3>6, <5>3, <5>5
        <5>7. \A i \in 0 .. k - 1 : T[HeapTable(t)][i] = U[i]
          BY <3>6, <5>3, <5>5
        <5> QED BY <5>4, <5>6, <5>7
      <4>8. HeapFr(t) \cup {f} \subseteq HeapFr(n)
        <5>1. HeapFr(n) = {T[HeapTable(t)][i].frame : i \in 0 .. k}
          BY <3>6, <4>5, <4>6 DEF HeapFr
        <5>2. HeapFr(t) = {t.tabs[HeapTable(t)][i].frame : i \in 0 .. k - 1}
          BY <4>5, <4>6 DEF HeapFr
        <5>3. k \in 0 .. k /\ 0 .. k - 1 \subseteq 0 .. k
          BY <3>6
        <5>4. f \in HeapFr(n)
          BY <4>7, <5>1, <5>3
        <5>5. \A x \in HeapFr(t) : x \in HeapFr(n)
          BY <4>7, <5>1, <5>2, <5>3
        <5> QED BY <5>4, <5>5
      <4>9. Held(t) \cup {f} \subseteq Held(n)
        BY <4>6, <4>8 DEF Held
      <4> QED BY <2>2, <3>1, <3>4, <3>10, <4>5, <4>9 DEF Saves, OK, NULL
    <3> QED BY <3>9, <3>10
  <2> QED BY <2>3, <2>4
<1> QED BY <1>1, <1>2

\* A call of the heap's costs no frame, and fails for want of memory.
HeapSaves(m, n) ==
    /\ Saves(m, n, {}) /\ HeapTable(n) # NULL
    /\ n.ret = NULL => n.fault \/ m.brk = KERNEL_HEAP_PAGES \/ n.free = {}

\* kmalloc.
LEMMA KmallocSaves ==
    ASSUME NEW m, Kernel(m), Seen(m), HeapTable(m) # NULL, NEW n, n = Kmalloc(m)
    PROVE  HeapSaves(m, n)
<1>1. HeapSeen(m, Pd(m)) /\ m.spare \in Nat
  <2>1. Pd(m) = m.cr3 /\ m.cr3 \in DOMAIN m.dirs /\ m.dirs[m.cr3]["heap"] = m.dirs[m.kdir]["heap"]
    BY DEF Pd, Seen
  <2> QED BY <2>1, HeapIsSeen DEF Kernel, Typed
<1>2. HeapTable(n) # NULL
  <2>1. Grows(m, n)
    BY KmallocGrows
  <2> QED BY <2>1, HeapTableKept
<1>3. CASE m.spare > 0
  <2>1. n = [m EXCEPT !.spare = m.spare - 1, !.ret = OK]
    BY <1>1, <1>3 DEF Kmalloc, Ok, Kernel, Typed, IsMem
  <2>2. /\ n.free = m.free /\ n.kdir = m.kdir /\ n.brk = m.brk /\ n.dirs = m.dirs
        /\ n.tabs = m.tabs /\ n.ret = OK
    BY <2>1 DEF Kernel, Typed, IsMem
  <2>3. Held(n) = Held(m)
    BY <2>2, HeldSame
  <2> QED BY <1>2, <2>2, <2>3 DEF HeapSaves, Saves, OK, NULL
<1>4. CASE ~(m.spare > 0)
  <2>1. n = CreateHeapHeader(m) /\ Reaches(m, "heap")
    BY <1>1, <1>4, SeenReaches DEF Kmalloc
  <2>2. Saves(m, n, {}) /\ (n.ret = NULL => m.brk = KERNEL_HEAP_PAGES \/ n.free = {})
    BY <2>1, HeaderSaves
  <2> QED BY <1>2, <2>2 DEF HeapSaves
<1> QED BY <1>3, <1>4

\* The stack of a task: that it is missing is a fault.
LEMMA TaskStackSaves ==
    ASSUME NEW m, Kernel(m), Seen(m), HeapTable(m) # NULL, NEW n, n = TaskStack(m)
    PROVE  HeapSaves(m, n) /\ (n.ret = NULL => n.fault)
<1> PICK b : b = Kmalloc(m)
  OBVIOUS
<1>1. HeapCall(m, b) /\ HeapSaves(m, b)
  BY KmallocGrows, KmallocSaves DEF HeapCall
<1>2. n = IF b.ret = NULL THEN Fault(b) ELSE b
  BY DEF TaskStack, Then
<1>3. CASE b.ret = NULL
  <2>1. n = Fault(b) /\ IsMem(b)
    BY <1>1, <1>2, <1>3 DEF HeapCall, Kernel, Typed
  <2>2. /\ n.free = b.free /\ n.kdir = b.kdir /\ n.brk = b.brk /\ n.dirs = b.dirs
        /\ n.tabs = b.tabs /\ n.fault
    BY <2>1 DEF Fault, IsMem
  <2>3. Held(n) = Held(b) /\ HeapTable(n) = HeapTable(b)
    BY <2>2, HeldSame DEF HeapTable
  <2> QED BY <1>1, <2>2, <2>3 DEF HeapSaves, Saves
<1> QED BY <1>1, <1>2, <1>3

\* A task and its stack.
LEMMA TaskSaves ==
    ASSUME NEW m, Kernel(m), Seen(m), HeapTable(m) # NULL, NEW n, n = KtaskCreate(m)
    PROVE  HeapSaves(m, n)
<1> PICK a : a = Kmalloc(m)
  OBVIOUS
<1>1. HeapCall(m, a) /\ HeapSaves(m, a)
  BY KmallocGrows, KmallocSaves DEF HeapCall
<1>2. n = IF a.ret = NULL THEN a ELSE TaskStack(a)
  BY DEF KtaskCreate, Then
<1>3. CASE a.ret # NULL
  <2>1. HeapSaves(a, n) /\ (n.ret = NULL => n.fault)
    BY <1>1, <1>2, <1>3, TaskStackSaves DEF HeapCall, HeapSaves
  <2> QED BY <1>1, <1>3, <2>1 DEF HeapSaves, Saves
<1> QED BY <1>1, <1>2, <1>3

\* A process of the kernel's.
LEMMA KernelProcessSaves ==
    ASSUME NEW m, Kernel(m), Seen(m), HeapTable(m) # NULL, NEW n, n = KprocessCreateKernel(m)
    PROVE  Saves(m, n, {}) /\ HeapTable(n) # NULL
<1> PICK a : a = Kmalloc(m)
  OBVIOUS
<1>1. HeapCall(m, a) /\ HeapSaves(m, a)
  BY KmallocGrows, KmallocSaves DEF HeapCall
<1>2. n = IF a.ret = NULL THEN a ELSE KtaskCreate(a)
  BY DEF KprocessCreateKernel, Then
<1>3. CASE a.ret # NULL
  <2>1. Kernel(a) /\ Seen(a) /\ HeapTable(a) # NULL /\ n = KtaskCreate(a)
    BY <1>1, <1>2, <1>3 DEF HeapCall, HeapSaves
  <2>2. HeapSaves(a, n)
    BY <2>1, TaskSaves
  <2> QED BY <1>1, <2>2 DEF HeapSaves, Saves
<1> QED BY <1>1, <1>2, <1>3 DEF HeapSaves

\* All the frames in use: the kernel's half's, and those of the processes.
Reach(m, k, P) == Held(m) \cup UNION {Private(m, d) : d \in UserDirs(k, P)}

\* The frames a directory leads to while the process is made.
LEMMA PrivateMaking ==
    ASSUME NEW m, NEW k, NEW P, World(m, k, P), k.pc \in Making
    PROVE  /\ k.pc \in {"clone", "stub"} => Private(m, k.pd) = {k.pd}
           /\ k.pc \in {"syscall", "entry", "stack"} => Private(m, k.pd) = {k.pd, k.stub}
           /\ k.pc = "init" =>
                {k.pd, k.stub, m.dirs[k.pd]["stack"].table} \cup (k.stack .. (k.stack + STACK_PAGES - 1))
                  \subseteq Private(m, k.pd)
<1> PICK d : d = k.pd
  OBVIOUS
<1>0. MakeOK(m, k, P) /\ NoTable.table = NULL /\ Kernel(m)
  BY DEF World, NoTable
<1>1. CASE k.pc = "clone"
  <2>1. m.dirs[d]["image"].table = NULL /\ m.dirs[d]["stack"].table = NULL
    BY <1>0, <1>1 DEF MakeOK, Fresh, Pdes
  <2> QED BY <1>1, <2>1 DEF Private, StackFr
<1>2. CASE k.pc = "stub"
  <2>1. m.dirs[d]["image"].table = m.kdir + 2 /\ m.dirs[d]["stack"].table = NULL
    BY <1>0, <1>2 DEF MakeOK
  <2> QED BY <1>2, <2>1 DEF Private, StackFr
<1>3. CASE k.pc \in {"syscall", "entry", "stack"}
  <2>1. m.dirs[d]["image"].table = k.stub /\ m.dirs[d]["stack"].table = NULL
    BY <1>0, <1>3 DEF MakeOK
  <2>2. k.stub \notin {NULL, m.kdir + 2}
    BY <1>0, <1>3 DEF MakeOK, Opened
  <2> QED BY <1>3, <2>1, <2>2 DEF Private, StackFr
<1>4. CASE k.pc = "init"
  <2>1. m.dirs[d]["image"].table = k.stub /\ Stacked(m, d, k.stack) /\ Cloned(m, d)
    BY <1>0, <1>4 DEF MakeOK, Making
  <2>2. k.stub \notin {NULL, m.kdir + 2}
    BY <1>0, <1>4, <2>1 DEF MakeOK, Opened
  <2>3. m.dirs[d]["stack"].table \notin {NULL, m.kdir + 2}
    <3>1. m.dirs[d]["stack"].table # NULL
      BY <2>1 DEF Stacked
    <3> QED BY <1>0, <2>1, <3>1 DEF Cloned, OwnTable
  <2>4. \A f \in k.stack .. (k.stack + STACK_PAGES - 1) : f \in StackFr(m, d)
    <3> TAKE f \in k.stack .. (k.stack + STACK_PAGES - 1)
    <3>1. m.tabs[m.dirs[d]["stack"].table] = StackOf(k.stack) /\ k.stack \in Nat
      BY <2>1 DEF Stacked
    <3> PICK i : i = f - k.stack + StackBottom
      OBVIOUS
    <3>2. i \in StackBottom .. StackTop /\ i \in 0 .. PTES - 1 /\ k.stack + i - StackBottom = f /\ f # -1
      BY <3>1, Numbers, StackPagesAre
    <3>3. StackOf(k.stack)[i].frame = f
      BY <3>2 DEF StackOf
    <3> QED BY <2>3, <3>1, <3>2, <3>3 DEF StackFr
  <2> QED BY <1>4, <2>1, <2>2, <2>3, <2>4 DEF Private
<1> QED BY <1>1, <1>2, <1>3, <1>4 DEF Making

\* A process whose directory is the same has the same frames.
LEMMA PrivateByWorld ==
    ASSUME NEW m, NEW k, NEW n, NEW k2, NEW P, NEW P2, World(m, k, P), World(n, k2, P2), n.kdir = m.kdir,
           NEW p \in P, NEW q \in P2, q.pd = p.pd, q.stack = p.stack, n.dirs[p.pd] = m.dirs[p.pd]
    PROVE  Private(n, p.pd) = Private(m, p.pd)
<1>1. Stacked(m, p.pd, p.stack) /\ Stacked(n, p.pd, p.stack)
  BY DEF World, ProcOK
<1>2. StackFr(n, p.pd) = StackFr(m, p.pd)
  BY <1>1 DEF Stacked, StackFr
<1> QED BY <1>2 DEF Private

\* The kernel's calls leave the processes what they have.
LEMMA ReachKept ==
    ASSUME NEW m, NEW n, NEW k, NEW P, World(m, k, P), Kernel(n), Grows(m, n), NEW d \in UserDirs(k, P)
    PROVE  Private(n, d) = Private(m, d)
<1>1. Kernel(m) /\ Space(m, d)
  BY WorldSpaces
<1>2. SameSpace(m, n, d)
  BY <1>1, GrowsUntouched, UntouchedSame
<1> QED BY <1>2 DEF SameSpace

\* n is w, with other contents of the directory d and of the table t.
Differs(w, n, d, t) ==
    /\ n.free = w.free /\ n.kdir = w.kdir /\ n.brk = w.brk
    /\ \A c \in DOMAIN w.dirs \ {d} : n.dirs[c] = w.dirs[c]
    /\ \A x \in DOMAIN w.tabs \ {t} : n.tabs[x] = w.tabs[x]

\* A step of the creation loses no frame when the directory it works on leads to
\* those it took.
LEMMA Accounted ==
    ASSUME NEW m, NEW w, NEW n, NEW k, NEW k2, NEW P, NEW S, NEW t, World(m, k, P), Kernel(w), Grows(m, w),
           Saves(m, w, S), Differs(w, n, k2.pd, t), t # HeapTable(w), k2.pd # w.kdir, World(n, k2, P),
           k2.pc \in Making, k.pd \in {NULL, k2.pd}, S \subseteq Private(n, k2.pd),
           k.pd # NULL => Private(w, k.pd) \subseteq Private(n, k2.pd)
    PROVE  m.free \cup Reach(m, k, P) \subseteq n.free \cup Reach(n, k2, P)
<1>1. World(w, k, P)
  BY WorldGrows
<1>2. MakeOK(n, k2, P) /\ k2.pd # NULL /\ \A p \in P : p.pd # k2.pd
  BY DEF World, MakeOK
<1>3. Held(n) = Held(w)
  <2>1. n.kdir = w.kdir /\ n.brk = w.brk /\ n.dirs[w.kdir] = w.dirs[w.kdir]
    BY DEF Differs, Kernel, KernelDir
  <2>2. HeapTable(w) # NULL => n.tabs[HeapTable(w)] = w.tabs[HeapTable(w)]
    BY TablesApart DEF Differs
  <2> QED BY <2>1, <2>2, HeldSame
<1>4. \A p \in P : Private(n, p.pd) = Private(w, p.pd)
  <2> TAKE p \in P
  <2>1. p.pd \in DOMAIN w.dirs
    BY <1>1, WorldSpaces
  <2>2. n.dirs[p.pd] = w.dirs[p.pd] /\ n.kdir = w.kdir
    BY <1>2, <2>1 DEF Differs
  <2> QED BY <1>1, <2>2, PrivateByWorld
<1>5. \A d \in UserDirs(k, P) : Private(m, d) \subseteq Reach(n, k2, P)
  <2> TAKE d \in UserDirs(k, P)
  <2>1. Private(m, d) = Private(w, d)
    BY ReachKept
  <2>2. CASE d \in {p.pd : p \in P}
    <3>1. d \in UserDirs(k2, P) /\ Private(w, d) = Private(n, d)
      BY <1>4, <2>2 DEF UserDirs
    <3> QED BY <2>1, <3>1 DEF Reach
  <2>3. CASE d = k.pd /\ d # NULL
    <3>1. k2.pd \in UserDirs(k2, P) /\ Private(w, d) \subseteq Private(n, k2.pd)
      BY <1>2, <2>3 DEF UserDirs
    <3> QED BY <2>1, <3>1 DEF Reach
  <2> QED BY <2>2, <2>3 DEF UserDirs
<1>6. S \subseteq Reach(n, k2, P)
  <2>1. k2.pd \in UserDirs(k2, P)
    BY <1>2 DEF UserDirs
  <2> QED BY <2>1 DEF Reach
<1>7. m.free \cup Held(m) \subseteq n.free \cup Reach(n, k2, P)
  <2>1. m.free \cup Held(m) \subseteq w.free \cup Held(w) \cup S
    BY DEF Saves
  <2>2. Held(n) \subseteq Reach(n, k2, P) /\ n.free = w.free
    BY DEF Reach, Differs
  <2> QED BY <1>3, <1>6, <2>1, <2>2
<1>8. Reach(m, k, P) \subseteq Held(m) \cup Reach(n, k2, P)
  BY <1>5 DEF Reach
<1> QED BY <1>7, <1>8

\* n is w but for the answer and the blocks of the heap.
SameMaps(w, n) ==
    /\ n.free = w.free /\ n.kdir = w.kdir /\ n.brk = w.brk /\ n.dirs = w.dirs
    /\ n.tabs = w.tabs /\ n.fault = w.fault

\* So it is at the end of a step.
LEMMA EndsSame ==
    ASSUME NEW w, IsMem(w)
    PROVE  /\ SameMaps(w, Fail(w)) /\ SameMaps(w, Fail(Kfree(w))) /\ SameMaps(w, Fail(GiveUp(w)))
           /\ Fail(w).ret = NULL
<1> PICK v : v = Kfree(w)
  OBVIOUS
<1>1. v = [w EXCEPT !.spare = @ + 1]
  BY DEF Kfree
<1>2. SameMaps(w, v) /\ IsMem(v)
  <2> PICK s : s = w.spare + 1
    OBVIOUS
  <2>1. v = [w EXCEPT !.spare = s]
    BY <1>1 DEF IsMem
  <2> QED BY <2>1 DEF SameMaps, IsMem
<1>3. \A x : IsMem(x) => SameMaps(x, Fail(x)) /\ Fail(x).ret = NULL
  BY DEF SameMaps, IsMem, Fail
<1>4. SameMaps(w, Fail(v))
  BY <1>2, <1>3 DEF SameMaps
<1>5. GiveUp(w) = v \/ GiveUp(w) = w
  BY DEF GiveUp
<1> QED BY <1>3, <1>4, <1>5

\* What is in use does not depend on them.
LEMMA SameReach ==
    ASSUME NEW w, NEW n, SameMaps(w, n)
    PROVE  Held(n) = Held(w) /\ \A d : Private(n, d) = Private(w, d)
<1>1. Held(n) = Held(w)
  BY HeldSame DEF SameMaps
<1>2. ASSUME NEW d PROVE Private(n, d) = Private(w, d)
  <2>1. StackFr(n, d) = StackFr(w, d)
    BY DEF StackFr, SameMaps
  <2> QED BY <2>1 DEF Private, SameMaps
<1> QED BY <1>1, <1>2

\* A step that only calls the kernel loses no frame.
LEMMA CallAccounted ==
    ASSUME NEW m, NEW w, NEW n, NEW k, NEW k2, NEW P, NEW P2, World(m, k, P), Kernel(w), Grows(m, w),
           Saves(m, w, {}), SameMaps(w, n), UserDirs(k, P) \subseteq UserDirs(k2, P2)
    PROVE  m.free \cup Reach(m, k, P) \subseteq n.free \cup Reach(n, k2, P2)
<1>1. Held(n) = Held(w) /\ \A d : Private(n, d) = Private(w, d)
  BY SameReach
<1>2. \A d \in UserDirs(k, P) : Private(m, d) \subseteq Reach(n, k2, P2)
  <2> TAKE d \in UserDirs(k, P)
  <2>1. Private(m, d) = Private(n, d) /\ d \in UserDirs(k2, P2)
    BY <1>1, ReachKept
  <2> QED BY <2>1 DEF Reach
<1>3. m.free \cup Held(m) \subseteq n.free \cup Reach(n, k2, P2)
  BY <1>1 DEF Saves, SameMaps, Reach
<1>4. Reach(m, k, P) \subseteq Held(m) \cup Reach(n, k2, P2)
  BY <1>2 DEF Reach
<1> QED BY <1>3, <1>4

\* Reached says the same of the frames above the early allocator.
ReachIs ==
    Started => /\ {f \in Reached : f >= FirstFrame} \subseteq Reach(mem, make, procs)
               /\ Reach(mem, make, procs) \subseteq Reached

\* The kernel's own tables.
LEMMA KernelReach ==
    ASSUME Kernel(mem)
    PROVE  /\ \A f \in Tables(mem.kdir) : f >= FirstFrame => f \in Held(mem)
           /\ Held(mem) \subseteq Tables(mem.kdir) \cup HeapFrames
           /\ HeapFrames \subseteq Held(mem)
<1>0. /\ KernelDir(mem) /\ mem.kdir \in Nat /\ FirstFrame \in Nat /\ mem.kdir + 2 < FirstFrame
      /\ NoTable.table = NULL
  BY FirstFramePositive DEF Kernel, KernelDir, NoTable
<1>1. \A e \in Pdes : \/ mem.dirs[mem.kdir][e].table \in {NULL, mem.kdir, mem.kdir + 1, mem.kdir + 2}
                      \/ mem.dirs[mem.kdir][e].table \in {HeapTable(mem), WindowTable(mem)}
  <2>1. /\ mem.dirs[mem.kdir]["self"].table = mem.kdir
        /\ mem.dirs[mem.kdir]["image"].table = mem.kdir + 2
        /\ mem.dirs[mem.kdir]["identity"].table \in {NULL, mem.kdir + 1}
        /\ mem.dirs[mem.kdir]["stack"].table = NULL
    BY <1>0 DEF KernelDir
  <2> QED BY <2>1 DEF Pdes, HeapTable, WindowTable
<1>2. \A f \in Tables(mem.kdir) : f >= FirstFrame => f \in Held(mem)
  <2> SUFFICES ASSUME NEW f \in Tables(mem.kdir), f >= FirstFrame PROVE f \in Held(mem)
    OBVIOUS
  <2>1. f \notin {NULL, mem.kdir, mem.kdir + 1, mem.kdir + 2}
    BY <1>0, FirstFramePositive DEF NULL
  <2>2. f \in {HeapTable(mem), WindowTable(mem)} \ {NULL}
    BY <1>1, <2>1 DEF Tables
  <2> QED BY <2>2 DEF Held
<1>3. HeapFrames = HeapFr(mem)
  BY HeapFramesAre
<1>4. {HeapTable(mem), WindowTable(mem)} \ {NULL} \subseteq Tables(mem.kdir)
  BY KernelTables
<1> QED BY <1>2, <1>3, <1>4 DEF Held

\* What a directory leads to is its process's own.
LEMMA PrivateIsOwn ==
    ASSUME Kernel(mem), NEW d, Space(mem, d)
    PROVE  Private(mem, d) \subseteq Own(d)
<1>0. /\ KernelDir(mem) /\ d \in DOMAIN mem.dirs \ {mem.kdir} /\ DOMAIN mem.dirs \cap DOMAIN mem.tabs = {}
      /\ mem.kdir \in DOMAIN mem.dirs /\ NoTable.table = NULL
  BY SpaceTables DEF Kernel, KernelDir, Apart, NoTable
<1>1. \A f \in Tables(mem.kdir) : f = mem.kdir \/ f \in {mem.kdir + 1, mem.kdir + 2, HeapTable(mem), WindowTable(mem)} \ {NULL}
  <2>1. /\ mem.dirs[mem.kdir]["self"].table = mem.kdir
        /\ mem.dirs[mem.kdir]["image"].table = mem.kdir + 2
        /\ mem.dirs[mem.kdir]["identity"].table \in {NULL, mem.kdir + 1}
        /\ mem.dirs[mem.kdir]["stack"].table = NULL
    BY <1>0 DEF KernelDir
  <2> QED BY <2>1 DEF Pdes, HeapTable, WindowTable, Tables
<1>2. {mem.kdir + 1, mem.kdir + 2, HeapTable(mem), WindowTable(mem)} \ {NULL} \subseteq DOMAIN mem.tabs
  BY TablesApart
<1>3. d \notin Tables(mem.kdir)
  BY <1>0, <1>1, <1>2
<1>4. \A t \in {mem.dirs[d]["image"].table, mem.dirs[d]["stack"].table} \ {NULL, mem.kdir + 2} :
         t \notin Tables(mem.kdir)
  <2> TAKE t \in {mem.dirs[d]["image"].table, mem.dirs[d]["stack"].table} \ {NULL, mem.kdir + 2}
  <2>1. ~Fresh(mem, d)
    BY <1>0 DEF Fresh, Pdes
  <2>2. Cloned(mem, d)
    BY <2>1 DEF Space
  <2>3. mem.dirs[mem.kdir]["image"].table = mem.kdir + 2
    BY <1>0 DEF KernelDir
  <2>4. OwnTable(mem, t)
    BY <1>0, <2>2, <2>3 DEF Cloned
  <2>5. t \in DOMAIN mem.tabs /\ t # mem.kdir
    BY <1>0, <2>4 DEF OwnTable
  <2> QED BY <1>1, <2>4, <2>5 DEF OwnTable
<1>5. {mem.dirs[d]["image"].table, mem.dirs[d]["stack"].table} \ {NULL} \subseteq Tables(d)
  BY DEF Tables, Pdes
<1>6. Pages(d, "stack") = StackFr(mem, d)
  BY OwnIsPrivate
<1> QED BY <1>3, <1>4, <1>5, <1>6 DEF Own, Private

\* It follows from the invariant.
LEMMA ReachFollows == SpacesInv => ReachIs
<1> SUFFICES ASSUME SpacesInv, Started
             PROVE  /\ {f \in Reached : f >= FirstFrame} \subseteq Reach(mem, make, procs)
                    /\ Reach(mem, make, procs) \subseteq Reached
  BY DEF ReachIs
<1> PICK D : D = UserDirs(make, procs)
  OBVIOUS
<1>1. /\ Kernel(mem) /\ Dirs = {mem.kdir} \cup D /\ \A d \in D : Space(mem, d)
  BY StartedWorld
<1>2. Reached = Tables(mem.kdir) \cup HeapFrames \cup UNION {Own(d) : d \in Dirs}
  BY DEF Reached
<1>3. Own(mem.kdir) = {} /\ \A d \in D : Own(d) = Private(mem, d)
  <2>1. Own(mem.kdir) = {}
    BY <1>1, KernelOwnsNothing
  <2>2. ASSUME NEW d \in D PROVE Own(d) = Private(mem, d)
    <3>1. Space(mem, d) /\ Kernel(mem)
      BY <1>1
    <3>2. Own(d) \subseteq Private(mem, d)
      BY ONLY <3>1, OwnIsPrivate
    <3>3. Private(mem, d) \subseteq Own(d)
      BY ONLY <3>1, PrivateIsOwn
    <3> QED BY <3>2, <3>3
  <2> QED BY <2>1, <2>2
<1> PICK U : U = UNION {Private(mem, d) : d \in D}
  OBVIOUS
<1>4. UNION {Own(d) : d \in Dirs} = U
  BY <1>1, <1>3
<1>5. Reach(mem, make, procs) = Held(mem) \cup U
  BY DEF Reach
<1>6. /\ \A f \in Tables(mem.kdir) : f >= FirstFrame => f \in Held(mem)
      /\ Held(mem) \subseteq Tables(mem.kdir) \cup HeapFrames
      /\ HeapFrames \subseteq Held(mem)
  BY <1>1, KernelReach
<1> QED BY <1>2, <1>4, <1>5, <1>6

----------------------------------------------------------------------------
(* What each step does with the frames                                     *)

\* No frame is lost, or the creation is given up for want of memory.
Kept == mem.free \cup Reach(mem, make, procs) \subseteq mem'.free \cup Reach(mem', make', procs')
Paid == (Kept \/ GivenUp \/ mem'.fault \/ boot'.pc = "panic") /\ (GivenUp => Short(mem, mem'))

\* The end of a step of the creation.
LEMMA StepIs ==
    ASSUME SpacesInv', boot.pc = "up", UNCHANGED boot, NEW after, IsMem(after), NEW next, Step(after, next)
    PROVE  /\ World(mem', make', procs') /\ procs' = procs /\ SameMaps(after, mem')
           /\ after.ret = NULL => make' = Idle
           /\ after.ret # NULL => make' = next
<1>1. mem' = Fail(after) /\ procs' = procs /\ make' = IF after.ret = NULL THEN Idle ELSE next
  BY DEF Step
<1>2. World(mem', make', procs')
  BY DEF SpacesInv, Started
<1>3. SameMaps(after, mem')
  BY <1>1, EndsSame
<1> QED BY <1>1, <1>2, <1>3

\* One that is given up.
LEMMA GivenUpPaid ==
    ASSUME make.pc # "idle", make' = Idle, procs' = procs,
           NEW n, mem'.free = n.free, mem'.fault = n.fault,
           n.fault \/ mem.brk = KERNEL_HEAP_PAGES \/ n.free = {}
    PROVE  Paid
<1>1. GivenUp
  BY DEF GivenUp, Idle
<1>2. Short(mem, mem')
  BY DEF Short
<1> QED BY <1>1, <1>2 DEF Paid

\* One that goes on.
LEMMA KeptPaid ==
    ASSUME Kept, make'.pc # "idle" \/ make.pc = "idle"
    PROVE  Paid
  BY DEF Paid, GivenUp

\* kprocess_create takes a block.
LEMMA BeginPaid ==
    ASSUME SpacesInv, SpacesInv', NEW e \in Entries, KprocessCreate(e)
    PROVE  Paid
<1> PICK n : n = Kmalloc(mem)
  OBVIOUS
<1> PICK k2 : k2 = [Idle EXCEPT !.pc = "task", !.entry = e]
  OBVIOUS
<1>1. boot.pc = "up" /\ UNCHANGED boot /\ mem.cr3 = mem.kdir /\ make.pc = "idle" /\ Step(n, k2)
  BY DEF KprocessCreate, InShell
<1>2. World(mem, make, procs) /\ Kernel(mem) /\ Seen(mem) /\ HeapTable(mem) # NULL
  BY <1>1, UpBefore, InKernelReaches
<1>3. Kernel(n) /\ Grows(mem, n) /\ HeapSaves(mem, n)
  BY <1>2, KmallocGrows, KmallocSaves
<1>4. SameMaps(n, mem') /\ procs' = procs
  <2>1. IsMem(n)
    BY <1>3 DEF Kernel, Typed
  <2> QED BY <1>1, <2>1, StepIs
<1>5. UserDirs(make, procs) \subseteq UserDirs(make', procs')
  <2>1. make.pd = NULL
    BY <1>1, <1>2 DEF World, MakeOK, Making
  <2> QED BY <1>4, <2>1 DEF UserDirs
<1>6. Kept
  <2>1. Saves(mem, n, {})
    BY <1>3 DEF HeapSaves
  <2> QED BY <1>2, <1>3, <1>4, <1>5, <2>1, CallAccounted DEF Kept
<1> QED BY <1>1, <1>6, KeptPaid

\* It takes the task, or its stack.
LEMMA TaskStepPaid ==
    ASSUME SpacesInv, SpacesInv', boot.pc = "up", UNCHANGED boot, make.pc \in {"task", "kstack"},
           NEW n, Kernel(n), Grows(mem, n), HeapSaves(mem, n),
           NEW pc \in {"kstack", "pd"}, Step(n, [make EXCEPT !.pc = pc])
    PROVE  Paid
<1> PICK k2 : k2 = [make EXCEPT !.pc = pc]
  OBVIOUS
<1>1. boot.pc = "up" /\ UNCHANGED boot /\ make.pc \in {"task", "kstack"} /\ Step(n, k2)
  OBVIOUS
<1>2. World(mem, make, procs) /\ Kernel(mem) /\ HeapTable(mem) # NULL
  BY <1>1, UpBefore
<1>3. Kernel(n) /\ Grows(mem, n) /\ HeapSaves(mem, n)
  OBVIOUS
<1>4. /\ SameMaps(n, mem') /\ procs' = procs
      /\ n.ret = NULL => make' = Idle
      /\ n.ret # NULL => make' = k2
  <2>1. IsMem(n)
    BY <1>3 DEF Kernel, Typed
  <2> QED BY <1>1, <2>1, StepIs
<1>5. make.pd = NULL /\ make = [pc |-> make.pc, pd |-> make.pd, stub |-> make.stub, stack |-> make.stack, entry |-> make.entry]
  BY <1>1, <1>2 DEF World, MakeOK, Making
<1>6. CASE n.ret = NULL
  <2>1. n.fault \/ mem.brk = KERNEL_HEAP_PAGES \/ n.free = {}
    BY <1>3, <1>6 DEF HeapSaves
  <2> QED BY <1>1, <1>4, <1>6, <2>1, GivenUpPaid DEF SameMaps
<1>7. CASE n.ret # NULL
  <2>1. UserDirs(make, procs) \subseteq UserDirs(make', procs')
    BY <1>4, <1>5 DEF UserDirs
  <2>2. Kept
    <3>1. Saves(mem, n, {})
      BY <1>3 DEF HeapSaves
    <3> QED BY <1>2, <1>3, <1>4, <2>1, <3>1, CallAccounted DEF Kept
  <2>3. make'.pc # "idle"
    BY <1>4, <1>5, <1>7
  <2> QED BY <2>2, <2>3, KeptPaid
<1> QED BY <1>6, <1>7

\* The task.
LEMMA TaskPaid ==
    ASSUME SpacesInv, SpacesInv', KprocessTask
    PROVE  Paid
<1> PICK n : n = Kmalloc(mem)
  OBVIOUS
<1>1. boot.pc = "up" /\ UNCHANGED boot /\ mem.cr3 = mem.kdir /\ make.pc = "task"
      /\ Step(n, [make EXCEPT !.pc = "kstack"])
  BY DEF KprocessTask, InShell
<1>2. Kernel(mem) /\ Seen(mem) /\ HeapTable(mem) # NULL
  BY <1>1, UpBefore, InKernelReaches
<1>3. Kernel(n) /\ Grows(mem, n) /\ HeapSaves(mem, n)
  BY <1>2, KmallocGrows, KmallocSaves
<1> PICK pc \in {"kstack", "pd"} : pc = "kstack"
  OBVIOUS
<1>4. Step(n, [make EXCEPT !.pc = pc])
  BY <1>1
<1> QED BY <1>1, <1>3, <1>4, TaskStepPaid

\* Its stack.
LEMMA TaskStackPaid ==
    ASSUME SpacesInv, SpacesInv', KprocessTaskStack
    PROVE  Paid
<1> PICK n : n = TaskStack(mem)
  OBVIOUS
<1>1. boot.pc = "up" /\ UNCHANGED boot /\ mem.cr3 = mem.kdir /\ make.pc = "kstack"
      /\ Step(n, [make EXCEPT !.pc = "pd"])
  BY DEF KprocessTaskStack, InShell
<1>2. Kernel(mem) /\ Seen(mem) /\ HeapTable(mem) # NULL
  BY <1>1, UpBefore, InKernelReaches
<1>3. Kernel(n) /\ Grows(mem, n) /\ HeapSaves(mem, n)
  BY <1>2, TaskStackGrows, TaskStackSaves DEF HeapCall
<1> PICK pc \in {"kstack", "pd"} : pc = "pd"
  OBVIOUS
<1>4. Step(n, [make EXCEPT !.pc = pc])
  BY <1>1
<1> QED BY <1>1, <1>3, <1>4, TaskStepPaid

\* A frame is taken and looked at.
LEMMA TakenSaves ==
    ASSUME NEW m, Kernel(m), m.cr3 = m.kdir, NEW a, a = KpmmAllocPages(m, 1), NEW i \in 0 .. 2,
           NEW w, w = Window(a, i, a.ret)
    PROVE  /\ a.ret = NULL => a.free = {}
           /\ a.ret # NULL => /\ Kernel(w) /\ Grows(m, w)
                              /\ w.ret # NULL => Saves(m, w, {a.ret})
                              /\ w.ret = NULL => w.fault \/ w.free = {}
                              /\ WindowTable(m) # NULL => w.ret # NULL
<1>0. Typed(m) /\ 1 \in Nat \ {0}
  BY DEF Kernel
<1>1. a.ret = NULL => a.free = {}
  BY <1>0, AllocOne
<1>2. ASSUME a.ret # NULL
      PROVE  /\ Kernel(w) /\ Grows(m, w)
             /\ w.ret # NULL => Saves(m, w, {a.ret})
             /\ w.ret = NULL => w.fault \/ w.free = {}
             /\ WindowTable(m) # NULL => w.ret # NULL
  <2>1. Kernel(a) /\ Grows(m, a)
    BY <1>0, AllocGrows
  <2> PICK f \in Nat : f = a.ret
    BY <1>0, AllocIs
  <2>2. Saves(m, a, {f})
    <3>1. Saves(m, a, f .. (f + 1 - 1))
      BY <1>0, <1>2, AllocSaves
    <3>2. f .. (f + 1 - 1) = {f}
      OBVIOUS
    <3> QED BY <3>1, <3>2
  <2>3. a.cr3 = a.kdir /\ (WindowTable(m) # NULL => WindowTable(a) # NULL) /\ w = Window(a, i, f)
    BY <2>1, HeapTableKept DEF Grows
  <2>4. /\ w.ret # NULL => Saves(a, w, {})
        /\ w.ret = NULL => w.fault \/ w.free = {}
        /\ WindowTable(a) # NULL => w.ret # NULL
    BY <2>1, <2>3, WindowSaves
  <2>5. Kernel(w) /\ Grows(a, w)
    BY <2>1, <2>3, WindowGrows
  <2>6. Grows(m, w)
    BY <2>1, <2>5, GrowsOn
  <2> QED BY <2>2, <2>3, <2>4, <2>5, <2>6 DEF Saves
<1> QED BY <1>1, <1>2

\* alloc_page_directory.
LEMMA DirectoryPaid ==
    ASSUME SpacesInv, SpacesInv', AllocPageDirectory
    PROVE  Paid
<1> PICK a : a = KpmmAllocPages(mem, 1)
  OBVIOUS
<1> PICK b : b = IF a.ret = NULL THEN a ELSE Window(a, 0, a.ret)
  OBVIOUS
<1> PICK n : n = [b EXCEPT !.dirs = IF b.ret = NULL THEN @ ELSE With(@, a.ret, [e \in Pdes |-> NoTable])]
  OBVIOUS
<1> PICK k2 : k2 = [make EXCEPT !.pc = "clone", !.pd = a.ret]
  OBVIOUS
<1> PICK f : f = a.ret
  OBVIOUS
<1>1. boot.pc = "up" /\ UNCHANGED boot /\ mem.cr3 = mem.kdir /\ make.pc = "pd" /\ Step(GiveUp(n), k2)
  BY DEF AllocPageDirectory, DirectoryIn, InShell
<1>2. World(mem, make, procs) /\ Kernel(mem) /\ Typed(mem) /\ HeapTable(mem) # NULL /\ MakeOK(mem, make, procs)
  BY <1>1, UpBefore DEF Kernel
<1>3. /\ a.ret = NULL => a.free = {}
      /\ a.ret # NULL => /\ Kernel(b) /\ Grows(mem, b)
                         /\ b.ret # NULL => Saves(mem, b, {f})
                         /\ b.ret = NULL => b.fault \/ b.free = {}
  <2> PICK w : w = Window(a, 0, a.ret)
    OBVIOUS
  <2>1. 0 \in 0 .. 2
    OBVIOUS
  <2>2. /\ a.ret = NULL => a.free = {}
        /\ a.ret # NULL => /\ Kernel(w) /\ Grows(mem, w)
                           /\ w.ret # NULL => Saves(mem, w, {a.ret})
                           /\ w.ret = NULL => w.fault \/ w.free = {}
    BY <1>1, <1>2, <2>1, TakenSaves
  <2> QED BY <2>2
<1>4. IsMem(b) /\ (a.ret = NULL => b = a)
  <2>1. Kernel(a) /\ 1 \in Nat \ {0}
    BY <1>2, AllocGrows
  <2> QED BY <1>3, <2>1 DEF Kernel, Typed
<1>5. /\ n.free = b.free /\ n.kdir = b.kdir /\ n.brk = b.brk /\ n.tabs = b.tabs /\ n.fault = b.fault
      /\ n.ret = b.ret /\ IsMem(n)
      /\ b.ret # NULL => n.dirs = With(b.dirs, f, NoTables)
  BY <1>4 DEF IsMem, NoTables
<1> PICK o : o = GiveUp(n)
  OBVIOUS
<1>6. IsMem(o) /\ SameMaps(n, o) /\ o.ret = n.ret
  <2> PICK s : s = n.spare + 1
    OBVIOUS
  <2>1. o = n \/ o = [n EXCEPT !.spare = s]
    BY <1>5 DEF GiveUp, Kfree, IsMem
  <2>2. IsMem(n)
    BY <1>5
  <2> QED BY ONLY <2>1, <2>2 DEF IsMem, SameMaps
<1>7. /\ World(mem', make', procs') /\ procs' = procs /\ SameMaps(o, mem')
      /\ o.ret = NULL => make' = Idle
      /\ o.ret # NULL => make' = k2
  BY <1>1, <1>6, StepIs
<1>8. CASE b.ret = NULL
  <2>1. b.fault \/ b.free = {}
    BY <1>3, <1>4, <1>8
  <2>2. mem'.free = b.free /\ mem'.fault = b.fault
    BY <1>5, <1>6, <1>7 DEF SameMaps
  <2>3. make' = Idle /\ procs' = procs /\ make.pc # "idle"
    BY <1>1, <1>5, <1>6, <1>7, <1>8
  <2> QED BY <2>1, <2>2, <2>3, GivenUpPaid
<1>9. CASE b.ret # NULL
  <2>1. a.ret # NULL
    BY <1>4, <1>9
  <2>2. Kernel(b) /\ Grows(mem, b) /\ Saves(mem, b, {f}) /\ HeapTable(b) # NULL
    BY <1>2, <1>3, <1>9, <2>1, HeapTableKept
  <2> PICK k : k = make'
    OBVIOUS
  <2> PICK m : m = mem'
    OBVIOUS
  <2>3. k.pc = "clone" /\ k.pd = f /\ make.pd = NULL
    BY <1>1, <1>2, <1>5, <1>6, <1>7, <1>9 DEF MakeOK, Making
  <2>4. World(m, k, procs) /\ k.pc \in Making
    BY <1>7, <2>3 DEF Making
  <2>5. Private(m, k.pd) = {f} /\ k.pd # m.kdir
    <3>1. Private(m, k.pd) = {f}
      BY <2>3, <2>4, PrivateMaking
    <3> QED BY <2>4, <3>1, WorldSpaces
  <2>6. Differs(b, m, k.pd, NULL) /\ m.kdir = b.kdir
    <3>1. m.dirs = With(b.dirs, f, NoTables)
      BY <1>5, <1>6, <1>7, <1>9 DEF SameMaps
    <3>2. \A c \in DOMAIN b.dirs \ {f} : m.dirs[c] = b.dirs[c]
      BY <3>1 DEF With
    <3>3. m.free = b.free /\ m.kdir = b.kdir /\ m.brk = b.brk /\ m.tabs = b.tabs
      <4>1. SameMaps(n, o) /\ SameMaps(o, m)
        BY <1>6, <1>7
      <4> QED BY ONLY <1>5, <4>1 DEF SameMaps
    <3>4. k.pd = f
      BY <2>3
    <3> QED BY ONLY <3>2, <3>3, <3>4 DEF Differs
  <2>7. mem.free \cup Reach(mem, make, procs) \subseteq m.free \cup Reach(m, k, procs)
    <3> PICK S : S = {f}
      OBVIOUS
    <3> PICK t : t = NULL
      OBVIOUS
    <3>1. /\ World(mem, make, procs) /\ Kernel(b) /\ Grows(mem, b) /\ Saves(mem, b, S)
          /\ Differs(b, m, k.pd, t) /\ t # HeapTable(b) /\ k.pd # b.kdir /\ World(m, k, procs)
          /\ k.pc \in Making /\ make.pd \in {NULL, k.pd} /\ S \subseteq Private(m, k.pd) /\ make.pd = NULL
      BY <1>2, <2>2, <2>3, <2>4, <2>5, <2>6
    <3> QED BY ONLY <3>1, Accounted
  <2>8. Kept
    BY <1>7, <2>7 DEF Kept
  <2> QED BY <2>3, <2>8, KeptPaid
<1> QED BY <1>8, <1>9

\* clone_kernel_high_half.
LEMMA ClonePaid ==
    ASSUME SpacesInv, SpacesInv', CloneKernelHighHalf
    PROVE  Paid
<1> PICK d : d = make.pd
  OBVIOUS
<1> PICK n : n = Ok([mem EXCEPT !.dirs[d] =
                  [e \in Pdes |-> IF e \in HighHalf THEN mem.dirs[Pd(mem)][e]
                                  ELSE IF e = "self" THEN [NoTable EXCEPT !.table = d] ELSE @[e]]])
  OBVIOUS
<1> PICK k2 : k2 = [make EXCEPT !.pc = "stub"]
  OBVIOUS
<1>1. boot.pc = "up" /\ UNCHANGED boot /\ mem.cr3 = mem.kdir /\ make.pc = "clone" /\ Step(n, k2)
  BY DEF CloneKernelHighHalf, InShell
<1>2. World(mem, make, procs) /\ Kernel(mem) /\ HeapTable(mem) # NULL /\ Fresh(mem, d) /\ MakeOK(mem, make, procs)
  BY <1>1, UpBefore DEF MakeOK
<1>3. Clones(mem, n, d)
  BY <1>1, <1>2, CloneIs
<1>4. IsMem(n) /\ n.ret # NULL
  BY ONLY <1>3 DEF Clones, SameButMaps, OK, NULL
<1>5. World(mem', make', procs') /\ procs' = procs /\ SameMaps(n, mem') /\ make' = k2
  BY <1>1, <1>4, StepIs
<1> PICK k : k = make'
  OBVIOUS
<1> PICK m : m = mem'
  OBVIOUS
<1>6. k.pc = "stub" /\ k.pd = d /\ k.pc \in Making /\ World(m, k, procs)
  BY <1>2, <1>5 DEF MakeOK, Making
<1>7. Private(m, d) = {d} /\ Private(mem, d) = {d}
  <2>1. make.pc \in Making
    BY <1>1 DEF Making
  <2> QED BY <1>1, <1>2, <1>6, <2>1, PrivateMaking
<1>8. Differs(mem, m, d, NULL) /\ d # mem.kdir
  <2>1. \A c \in DOMAIN mem.dirs \ {d} : m.dirs[c] = mem.dirs[c]
    BY <1>3, <1>5 DEF Clones, SameMaps
  <2> QED BY <1>2, <1>3, <1>5, <2>1 DEF SameMaps, Differs, Clones, SameButMaps, Fresh
<1>9. mem.free \cup Reach(mem, make, procs) \subseteq m.free \cup Reach(m, k, procs)
  <2> PICK S : S = {}
    OBVIOUS
  <2> PICK t : t = NULL
    OBVIOUS
  <2>1. Grows(mem, mem) /\ Saves(mem, mem, S)
    BY <1>2 DEF Grows, Kernel, Typed, Saves
  <2>2. /\ World(mem, make, procs) /\ Kernel(mem) /\ Grows(mem, mem) /\ Saves(mem, mem, S)
        /\ Differs(mem, m, k.pd, t) /\ t # HeapTable(mem) /\ k.pd # mem.kdir /\ World(m, k, procs)
        /\ k.pc \in Making /\ make.pd \in {NULL, k.pd} /\ S \subseteq Private(m, k.pd)
        /\ Private(mem, make.pd) \subseteq Private(m, k.pd)
    BY <1>2, <1>6, <1>7, <1>8, <2>1
  <2> QED BY ONLY <2>2, Accounted
<1>10. Kept
  BY <1>5, <1>9 DEF Kept
<1> QED BY <1>6, <1>10, KeptPaid

\* The tables but the one a page is opened in are the same.
LEMMA ForUserTabs ==
    ASSUME NEW c, IsMem(c), NEW t, NEW i, NEW n, n = ForUser(c, t, i)
    PROVE  /\ n.free = c.free /\ n.kdir = c.kdir /\ n.brk = c.brk /\ n.dirs = c.dirs /\ n.fault = c.fault
           /\ n.ret = c.ret /\ IsMem(n) /\ \A x \in DOMAIN c.tabs \ {t} : n.tabs[x] = c.tabs[x]
<1> PICK Q : Q = [c.tabs EXCEPT ![t][i].user = TRUE]
  OBVIOUS
<1>1. n = [c EXCEPT !.tabs = Q]
  BY DEF ForUser, IsMem
<1>2. \A x \in DOMAIN c.tabs \ {t} : Q[x] = c.tabs[x]
  OBVIOUS
<1>3. IsMem(c)
  OBVIOUS
<1>4. /\ n.free = c.free /\ n.kdir = c.kdir /\ n.brk = c.brk /\ n.dirs = c.dirs /\ n.fault = c.fault
      /\ n.ret = c.ret /\ IsMem(n) /\ n.tabs = Q
  BY ONLY <1>1, <1>3 DEF IsMem
<1> QED BY <1>2, <1>4

\* map_stub_user_page.
LEMMA StubPaid ==
    ASSUME SpacesInv, SpacesInv', MapStubUserPage
    PROVE  Paid
<1> PICK d : d = make.pd
  OBVIOUS
<1> PICK a : a = KpmmAllocPages(mem, 1)
  OBVIOUS
<1> PICK w : w = Window(a, 1, a.ret)
  OBVIOUS
<1> PICK f : f = a.ret
  OBVIOUS
<1> PICK c : c = CopyTable(mem, make.pd, "image")
  OBVIOUS
<1> PICK n : n = IF c.ret = NULL THEN Kfree(c) ELSE ForUser(c, c.ret, 0)
  OBVIOUS
<1> PICK k2 : k2 = [make EXCEPT !.pc = "syscall", !.stub = c.ret]
  OBVIOUS
<1>0. Stubs[1] = "image" /\ Stubs[2] = 0 /\ 1 \in 0 .. 2
  BY DEF Stubs
<1>1. boot.pc = "up" /\ UNCHANGED boot /\ mem.cr3 = mem.kdir /\ make.pc = "stub" /\ Step(n, k2)
  BY <1>0 DEF MapStubUserPage, StubIn, InShell
<1>2. /\ World(mem, make, procs) /\ Kernel(mem) /\ HeapTable(mem) # NULL /\ MakeOK(mem, make, procs)
      /\ WindowTable(mem) # NULL /\ make.pc \in Making
  BY <1>1, UpBefore DEF MakeOK, Making
<1>3. /\ a.ret = NULL => a.free = {}
      /\ a.ret # NULL => Kernel(w) /\ Grows(mem, w) /\ w.ret # NULL /\ Saves(mem, w, {a.ret})
  <2> PICK i \in 0 .. 2 : i = 1
    BY <1>0
  <2>1. Kernel(mem) /\ mem.cr3 = mem.kdir /\ a = KpmmAllocPages(mem, 1) /\ w = Window(a, i, a.ret)
    BY <1>1, <1>2
  <2>2. /\ a.ret = NULL => a.free = {}
        /\ a.ret # NULL => /\ Kernel(w) /\ Grows(mem, w)
                           /\ w.ret # NULL => Saves(mem, w, {a.ret})
                           /\ WindowTable(mem) # NULL => w.ret # NULL
    BY ONLY <2>1, i \in 0 .. 2, TakenSaves
  <2> QED BY <1>2, <2>2
<1>4. c = IF a.ret = NULL THEN a
          ELSE IF w.ret = NULL THEN w
          ELSE Copied(w, d, "image", f)
  BY CopyIs
<1>5. Kernel(a) /\ (a.ret # NULL => Loose(w, UserDirs(make, procs), a.ret))
  BY <1>1, <1>2, TakenAndShown
<1>6. CASE a.ret = NULL
  <2>1. c = a /\ n = Kfree(a) /\ IsMem(a)
    BY <1>4, <1>5, <1>6 DEF Kernel, Typed
  <2>2. IsMem(n) /\ SameMaps(a, n) /\ n.ret = NULL
    <3> PICK s : s = a.spare + 1
      OBVIOUS
    <3>1. n = [a EXCEPT !.spare = s]
      BY <2>1 DEF Kfree, IsMem
    <3> QED BY <1>6, <2>1, <3>1 DEF IsMem, SameMaps
  <2>3. procs' = procs /\ SameMaps(n, mem') /\ make' = Idle
    BY <1>1, <2>2, StepIs
  <2>4. mem'.free = a.free /\ mem'.fault = a.fault /\ make.pc # "idle" /\ a.free = {}
    BY <1>1, <1>3, <1>6, <2>2, <2>3 DEF SameMaps
  <2> QED BY <2>3, <2>4, GivenUpPaid
<1>7. CASE a.ret # NULL
  <2>1. /\ Kernel(w) /\ Grows(mem, w) /\ Saves(mem, w, {f}) /\ IsMem(w) /\ f # NULL
        /\ Loose(w, UserDirs(make, procs), f) /\ HeapTable(w) # NULL /\ World(w, make, procs)
    BY <1>2, <1>3, <1>5, <1>7, HeapTableKept, WorldGrows DEF Kernel, Typed
  <2> PICK Q : Q = With(w.tabs, f, w.tabs[Table(w, "image")])
    OBVIOUS
  <2> PICK E : E = [w.dirs EXCEPT ![d]["image"] = [table |-> f, user |-> TRUE]]
    OBVIOUS
  <2>2. c = [w EXCEPT !.tabs = Q, !.dirs = E, !.ret = f]
    BY <1>3, <1>4, <1>7, <2>1 DEF IsMem, Copied
  <2>3. /\ IsMem(c) /\ c.free = w.free /\ c.kdir = w.kdir /\ c.brk = w.brk /\ c.tabs = Q /\ c.dirs = E /\ c.ret = f
    <3>1. IsMem(w)
      BY <2>1
    <3> QED BY ONLY <2>2, <3>1 DEF IsMem
  <2>4. n = ForUser(c, f, 0)
    BY <2>1, <2>3
  <2>5. /\ n.free = c.free /\ n.kdir = c.kdir /\ n.brk = c.brk /\ n.dirs = c.dirs
        /\ n.ret = c.ret /\ IsMem(n) /\ \A x \in DOMAIN c.tabs \ {f} : n.tabs[x] = c.tabs[x]
    BY <2>3, <2>4, ForUserTabs
  <2>6. World(mem', make', procs') /\ procs' = procs /\ SameMaps(n, mem') /\ make' = k2
    BY <1>1, <2>1, <2>3, <2>5, StepIs
  <2> PICK k : k = make'
    OBVIOUS
  <2> PICK m : m = mem'
    OBVIOUS
  <2>7. k.pc = "syscall" /\ k.pd = d /\ k.stub = f /\ k.pc \in Making /\ World(m, k, procs)
    BY <1>2, <2>3, <2>6 DEF MakeOK, Making
  <2>8. Private(m, d) = {d, f} /\ Private(w, d) = {d}
    BY <1>1, <1>2, <2>1, <2>7, PrivateMaking
  <2>9. Differs(w, m, d, f) /\ d # w.kdir /\ f # HeapTable(w)
    <3>1. \A x \in DOMAIN w.dirs \ {d} : m.dirs[x] = w.dirs[x]
      BY <2>3, <2>5, <2>6 DEF SameMaps
    <3>2. \A x \in DOMAIN w.tabs \ {f} : m.tabs[x] = w.tabs[x]
      <4>1. \A x \in DOMAIN w.tabs \ {f} : x \in DOMAIN Q /\ Q[x] = w.tabs[x]
        BY DEF With
      <4>2. m.tabs = n.tabs
        BY <2>6 DEF SameMaps
      <4>3. \A x \in DOMAIN Q \ {f} : n.tabs[x] = Q[x]
        BY <2>3, <2>5
      <4> QED BY <4>1, <4>2, <4>3
    <3>3. d # w.kdir
      BY <1>2, <2>1, WorldSpaces
    <3>4. f # HeapTable(w)
      BY <2>1, TablesApart DEF Loose, Used
    <3> QED BY <2>3, <2>5, <2>6, <3>1, <3>2, <3>3, <3>4 DEF SameMaps, Differs
  <2>10. mem.free \cup Reach(mem, make, procs) \subseteq m.free \cup Reach(m, k, procs)
    <3> PICK S : S = {f}
      OBVIOUS
    <3>1. /\ World(mem, make, procs) /\ Kernel(w) /\ Grows(mem, w) /\ Saves(mem, w, S)
          /\ Differs(w, m, k.pd, f) /\ f # HeapTable(w) /\ k.pd # w.kdir /\ World(m, k, procs)
          /\ k.pc \in Making /\ make.pd \in {NULL, k.pd} /\ S \subseteq Private(m, k.pd)
          /\ Private(w, make.pd) \subseteq Private(m, k.pd)
      BY <1>2, <2>1, <2>7, <2>8, <2>9
    <3> QED BY ONLY <3>1, Accounted
  <2>11. Kept
    BY <2>6, <2>10 DEF Kept
  <2> QED BY <2>7, <2>11, KeptPaid
<1> QED BY <1>6, <1>7

\* map_entry_if_kernel, for the page of the system call and for that of the entry.
LEMMA OpenPaid ==
    ASSUME SpacesInv, SpacesInv', boot.pc = "up", UNCHANGED boot, mem.cr3 = mem.kdir,
           make.pc \in {"syscall", "entry"}, NEW i \in 0 .. PTES - 1,
           Step(GiveUp(MapEntryIfKernel(mem, <<"image", i>>)),
                [make EXCEPT !.pc = IF make.pc = "syscall" THEN "entry" ELSE "stack"])
    PROVE  Paid
<1> PICK t : t = make.stub
  OBVIOUS
<1> PICK d : d = make.pd
  OBVIOUS
<1> PICK c : c = MapEntryIfKernel(mem, <<"image", i>>)
  OBVIOUS
<1> PICK u : u = [mem EXCEPT !.ret = t]
  OBVIOUS
<1> PICK w : w = Window(u, 1, t)
  OBVIOUS
<1> PICK k2 : k2 = [make EXCEPT !.pc = IF make.pc = "syscall" THEN "entry" ELSE "stack"]
  OBVIOUS
<1>0. /\ World(mem, make, procs) /\ Kernel(mem) /\ HeapTable(mem) # NULL /\ MakeOK(mem, make, procs)
      /\ WindowTable(mem) # NULL /\ make.pc \in Making /\ 1 \in 0 .. 2
      /\ mem.dirs[d]["image"].table = t /\ (\E S : Opened(mem, d, S)) /\ Cloned(mem, d)
  BY UpBefore DEF MakeOK, Making
<1>1. t # NULL /\ t \in Nat /\ t \in DOMAIN mem.tabs /\ t # HeapTable(mem)
  <2>1. t \notin {NULL, mem.kdir + 2} /\ mem.dirs[mem.kdir]["image"].table = mem.kdir + 2
    BY <1>0 DEF Opened, Kernel, KernelDir
  <2> QED BY <1>0, <2>1 DEF Cloned, OwnTable, Kernel, Typed
<1>2. Kernel(u) /\ Grows(mem, u) /\ u.ret = t /\ u.free = mem.free /\ SameButFrames(mem, u)
  BY ONLY <1>0, u = [mem EXCEPT !.ret = t], AnswerGrows
<1>3. u.cr3 = u.kdir /\ WindowTable(u) # NULL /\ Saves(mem, u, {})
  <2>1. Held(u) = Held(mem)
    BY <1>2, HeldSame DEF SameButFrames
  <2> QED BY <1>0, <1>2, <2>1 DEF SameButFrames, WindowTable, Saves
<1>4. Kernel(w) /\ Grows(u, w) /\ w.ret # NULL /\ Saves(u, w, {})
  <2>1. Kernel(u) /\ u.cr3 = u.kdir /\ 1 \in 0 .. 2 /\ t \in Nat /\ w = Window(u, 1, t)
    BY <1>0, <1>1, <1>2, <1>3
  <2>2. Kernel(w) /\ Grows(u, w)
    BY ONLY <2>1, WindowGrows
  <2>3. /\ w.ret # NULL => Saves(u, w, {})
        /\ WindowTable(u) # NULL => w.ret # NULL
    BY ONLY <2>1, WindowSaves
  <2> QED BY <1>3, <2>2, <2>3
<1>5. Grows(mem, w) /\ World(w, make, procs) /\ Saves(mem, w, {}) /\ HeapTable(w) = HeapTable(mem)
  <2>1. Grows(mem, w)
    BY <1>0, <1>2, <1>4, GrowsOn
  <2> QED BY <1>0, <1>3, <1>4, <2>1, WorldGrows, HeapTableKept DEF Saves
<1>6. c = ForUser(w, t, i)
  <2>1. /\ Kernel(mem) /\ mem.cr3 = mem.kdir /\ make.stub # NULL /\ u.ret = make.stub
        /\ u = [mem EXCEPT !.ret = make.stub] /\ w = Window(u, 1, make.stub)
    BY <1>0, <1>1, <1>2
  <2>2. MapEntryIfKernel(mem, <<"image", i>>) = IF w.ret = NULL THEN w ELSE ForUser(w, make.stub, i)
    BY ONLY <2>1, i \in 0 .. PTES - 1, EntryIs
  <2> QED BY <1>4, <2>2
<1>7. /\ c.free = w.free /\ c.kdir = w.kdir /\ c.brk = w.brk /\ c.dirs = w.dirs
      /\ c.ret = w.ret /\ IsMem(c) /\ \A x \in DOMAIN w.tabs \ {t} : c.tabs[x] = w.tabs[x]
  <2>1. IsMem(w) /\ c = ForUser(w, t, i)
    BY <1>4, <1>6 DEF Kernel, Typed
  <2> QED BY ONLY <2>1, ForUserTabs
<1>8. World(mem', make', procs') /\ procs' = procs /\ SameMaps(c, mem') /\ make' = k2
  <2>1. GiveUp(c) = c /\ c.ret # NULL
    BY <1>4, <1>7 DEF GiveUp
  <2>2. Step(c, k2) /\ IsMem(c)
    BY <1>7, <2>1
  <2> QED BY <2>1, <2>2, StepIs
<1> PICK k : k = make'
  OBVIOUS
<1> PICK m : m = mem'
  OBVIOUS
<1>9. /\ k.pc = IF make.pc = "syscall" THEN "entry" ELSE "stack"
      /\ k.pd = d /\ k.stub = t /\ World(m, k, procs)
  BY <1>0, <1>8 DEF MakeOK
<1>10. k.pc \in {"syscall", "entry", "stack"} /\ k.pc \in Making
  BY <1>9 DEF Making
<1>11. Private(m, d) = {d, t} /\ Private(w, d) = {d, t}
  BY <1>0, <1>5, <1>9, <1>10, PrivateMaking
<1>12. Differs(w, m, d, t) /\ d # w.kdir /\ t # HeapTable(w)
  <2>1. d # w.kdir
    BY <1>0, <1>5, WorldSpaces
  <2> QED BY <1>1, <1>5, <1>7, <1>8, <2>1 DEF SameMaps, Differs
<1>13. mem.free \cup Reach(mem, make, procs) \subseteq m.free \cup Reach(m, k, procs)
  <2> PICK S : S = {}
    OBVIOUS
  <2>1. /\ World(mem, make, procs) /\ Kernel(w) /\ Grows(mem, w) /\ Saves(mem, w, S)
        /\ Differs(w, m, k.pd, t) /\ t # HeapTable(w) /\ k.pd # w.kdir /\ World(m, k, procs)
        /\ k.pc \in Making /\ make.pd \in {NULL, k.pd} /\ S \subseteq Private(m, k.pd)
        /\ Private(w, make.pd) \subseteq Private(m, k.pd)
    BY <1>0, <1>4, <1>5, <1>9, <1>10, <1>11, <1>12
  <2> QED BY ONLY <2>1, Accounted
<1>14. Kept
  BY <1>8, <1>13 DEF Kept
<1> QED BY <1>10, <1>14, KeptPaid

\* For the page of the system call.
LEMMA SyscallPaid ==
    ASSUME SpacesInv, SpacesInv', MapSyscall
    PROVE  Paid
<1> PICK i \in 0 .. PTES - 1 : i = 1
  BY Numbers
<1>0. Syscall = <<"image", i>>
  BY DEF Syscall
<1>1. /\ boot.pc = "up" /\ UNCHANGED boot /\ mem.cr3 = mem.kdir /\ make.pc = "syscall"
      /\ Step(GiveUp(MapEntryIfKernel(mem, <<"image", i>>)), [make EXCEPT !.pc = "entry"])
  BY <1>0 DEF MapSyscall, InShell
<1>2. Step(GiveUp(MapEntryIfKernel(mem, <<"image", i>>)),
           [make EXCEPT !.pc = IF make.pc = "syscall" THEN "entry" ELSE "stack"])
  BY <1>1
<1> QED BY <1>1, <1>2, OpenPaid

\* And for that of the entry.
LEMMA EntryPaid ==
    ASSUME SpacesInv, SpacesInv', MapEntry
    PROVE  Paid
<1>0. boot.pc = "up" /\ UNCHANGED boot /\ mem.cr3 = mem.kdir /\ make.pc = "entry" /\ MakeOK(mem, make, procs)
  BY UpBefore DEF MapEntry, InShell
<1>1. make.entry \in {"image"} \X (0 .. PTES - 1)
  BY <1>0, EntriesAssumption DEF MakeOK
<1> PICK i \in 0 .. PTES - 1 : make.entry = <<"image", i>>
  BY <1>1
<1>2. Step(GiveUp(MapEntryIfKernel(mem, <<"image", i>>)), [make EXCEPT !.pc = "stack"])
  BY DEF MapEntry
<1>3. Step(GiveUp(MapEntryIfKernel(mem, <<"image", i>>)),
           [make EXCEPT !.pc = IF make.pc = "syscall" THEN "entry" ELSE "stack"])
  BY <1>0, <1>2
<1> QED BY <1>0, <1>3, OpenPaid

\* Frames for a stack and for its table.
TakenForStack(m, k, P, a, b, c) ==
    /\ b.ret = NULL => b.free = {} /\ IsMem(b)
    /\ b.ret # NULL => /\ Kernel(c) /\ Grows(m, c) /\ c.ret # NULL
                       /\ Saves(m, c, {b.ret} \cup (a.ret .. (a.ret + STACK_PAGES - 1)))
                       /\ World(c, k, P) /\ Loose(c, UserDirs(k, P), b.ret)
LEMMA StackTaken ==
    ASSUME NEW m, NEW k, NEW P, World(m, k, P), m.cr3 = m.kdir, WindowTable(m) # NULL,
           NEW a, a = KpmmAllocPages(m, STACK_PAGES), a.ret # NULL, NEW b, b = KpmmAllocPages(a, 1),
           NEW c, c = Window(b, 1, b.ret)
    PROVE  TakenForStack(m, k, P, a, b, c)
<1>0. Kernel(m) /\ STACK_PAGES \in Nat \ {0} /\ 1 \in Nat \ {0} /\ 1 \in 0 .. 2
  BY Numbers DEF World
<1>1. Kernel(a) /\ Grows(m, a)
  BY ONLY <1>0, a = KpmmAllocPages(m, STACK_PAGES), a.ret # NULL, AllocGrows
<1> PICK R : R = a.ret .. (a.ret + STACK_PAGES - 1)
  OBVIOUS
<1>2. Saves(m, a, R)
  BY <1>0, AllocSaves
<1>3. World(a, k, P) /\ a.cr3 = a.kdir /\ WindowTable(a) # NULL
  BY <1>1, WorldGrows, HeapTableKept DEF Grows
<1>4. /\ b.ret = NULL => b.free = {}
      /\ b.ret # NULL => Kernel(c) /\ Grows(a, c) /\ c.ret # NULL /\ Saves(a, c, {b.ret})
  <2> PICK i \in 0 .. 2 : i = 1
    BY <1>0
  <2>1. Kernel(a) /\ a.cr3 = a.kdir /\ b = KpmmAllocPages(a, 1) /\ c = Window(b, i, b.ret)
    BY <1>1, <1>3
  <2>2. /\ b.ret = NULL => b.free = {}
        /\ b.ret # NULL => /\ Kernel(c) /\ Grows(a, c)
                           /\ c.ret # NULL => Saves(a, c, {b.ret})
                           /\ WindowTable(a) # NULL => c.ret # NULL
    BY ONLY <2>1, i \in 0 .. 2, TakenSaves
  <2> QED BY <1>3, <2>2
<1>5. Kernel(b) /\ (b.ret # NULL => World(c, k, P) /\ Loose(c, UserDirs(k, P), b.ret))
  BY <1>3, TakenAndShown
<1>6. b.ret # NULL => Grows(m, c) /\ Saves(m, c, {b.ret} \cup R)
  <2> SUFFICES ASSUME b.ret # NULL PROVE Grows(m, c) /\ Saves(m, c, {b.ret} \cup R)
    OBVIOUS
  <2>1. Grows(m, c)
    BY <1>0, <1>1, <1>4, GrowsOn
  <2>2. Saves(m, c, R \cup {b.ret})
    BY <1>2, <1>4, SavesOn
  <2>3. R \cup {b.ret} = {b.ret} \cup R
    OBVIOUS
  <2> QED BY <2>1, <2>2, <2>3
<1> QED BY <1>4, <1>5, <1>6 DEF TakenForStack, Kernel, Typed

\* map_user_stack.
LEMMA StackPaid ==
    ASSUME SpacesInv, SpacesInv', MapUserStack
    PROVE  Paid
<1> PICK a : a = KpmmAllocPages(mem, STACK_PAGES)
  OBVIOUS
<1> PICK b : b = IF a.ret = NULL THEN a ELSE KpmmAllocPages(a, 1)
  OBVIOUS
<1> PICK c : c = IF b.ret = NULL THEN b ELSE Window(b, 1, b.ret)
  OBVIOUS
<1> PICK T : T = [i \in DOMAIN Empty |-> IF <<"stack", i>> \notin StackVas THEN NoPage
                    ELSE [frame |-> a.ret + i - (StackTop - STACK_PAGES + 1), user |-> TRUE]]
  OBVIOUS
<1> PICK n : n = IF c.ret = NULL THEN Kfree(c) ELSE WithStack(c, make.pd, b.ret, T)
  OBVIOUS
<1> PICK k2 : k2 = [make EXCEPT !.pc = "init", !.stack = a.ret]
  OBVIOUS
<1> PICK d : d = make.pd
  OBVIOUS
<1> PICK base : base = a.ret
  OBVIOUS
<1> PICK t : t = b.ret
  OBVIOUS
<1>1. boot.pc = "up" /\ UNCHANGED boot /\ mem.cr3 = mem.kdir /\ make.pc = "stack" /\ Step(n, k2)
  BY DEF MapUserStack, StackIn, InShell, WithStack
<1>2. /\ World(mem, make, procs) /\ Kernel(mem) /\ Typed(mem) /\ HeapTable(mem) # NULL /\ MakeOK(mem, make, procs)
      /\ WindowTable(mem) # NULL /\ make.pc \in Making /\ make.pc # "idle"
  BY <1>1, UpBefore DEF MakeOK, Making, Kernel
<1>3. ASSUME c.ret = NULL, IsMem(c)
      PROVE  make' = Idle /\ procs' = procs /\ mem'.free = c.free /\ mem'.fault = c.fault
  <2>1. n = Kfree(c)
    BY <1>3
  <2>2. IsMem(n) /\ SameMaps(c, n) /\ n.ret = NULL
    <3> PICK s : s = c.spare + 1
      OBVIOUS
    <3>1. n = [c EXCEPT !.spare = s]
      BY <1>3, <2>1 DEF Kfree, IsMem
    <3> QED BY ONLY <1>3, <3>1 DEF IsMem, SameMaps
  <2>3. procs' = procs /\ SameMaps(n, mem') /\ make' = Idle
    BY <1>1, <2>2, StepIs
  <2> QED BY <2>2, <2>3 DEF SameMaps
<1>4. CASE a.ret = NULL
  <2>0. STACK_PAGES \in Nat \ {0}
    BY Numbers
  <2>1. b = a /\ c = a
    BY <1>4
  <2>2. \/ mem.free = {} /\ a = Fail(mem)
        \/ a = Fault(mem)
    BY <1>2, <1>4, <2>0, AllocFails
  <2>3. IsMem(a) /\ (a.fault \/ a.free = {})
    BY <1>2, <2>2 DEF Typed, IsMem, Fail, Fault
  <2>4. make' = Idle /\ procs' = procs /\ mem'.free = a.free /\ mem'.fault = a.fault
    BY <1>3, <1>4, <2>1, <2>3
  <2> QED BY <1>2, <2>3, <2>4, GivenUpPaid
<1>5. CASE a.ret # NULL
  <2> PICK x : x = Window(b, 1, b.ret)
    OBVIOUS
  <2>1. /\ b.ret = NULL => b.free = {} /\ IsMem(b)
        /\ b.ret # NULL => /\ Kernel(x) /\ Grows(mem, x) /\ x.ret # NULL
                           /\ Saves(mem, x, {b.ret} \cup (a.ret .. (a.ret + STACK_PAGES - 1)))
                           /\ World(x, make, procs) /\ Loose(x, UserDirs(make, procs), b.ret)
    <3> PICK m, k, P : m = mem /\ k = make /\ P = procs
      OBVIOUS
    <3>1. /\ World(m, k, P) /\ m.cr3 = m.kdir /\ WindowTable(m) # NULL /\ a = KpmmAllocPages(m, STACK_PAGES)
          /\ a.ret # NULL /\ b = KpmmAllocPages(a, 1) /\ x = Window(b, 1, b.ret)
      BY <1>1, <1>2, <1>5
    <3>2. TakenForStack(m, k, P, a, b, x)
      BY ONLY <3>1, StackTaken
    <3> QED BY ONLY <3>2, m = mem, k = make, P = procs DEF TakenForStack
  <2>2. CASE b.ret = NULL
    <3>1. c = b
      BY <2>2
    <3>2. make' = Idle /\ procs' = procs /\ mem'.free = b.free /\ mem'.fault = b.fault
      BY <1>3, <2>1, <2>2, <3>1
    <3> QED BY <1>2, <2>1, <2>2, <3>2, GivenUpPaid
  <2>3. CASE b.ret # NULL
    <3> PICK S : S = {t} \cup (base .. (base + STACK_PAGES - 1))
      OBVIOUS
    <3>1. c = x /\ n = WithStack(c, d, t, T) /\ IsMem(c)
      BY <2>1, <2>3 DEF Kernel, Typed
    <3>2. /\ Kernel(c) /\ Grows(mem, c) /\ c.ret # NULL /\ Saves(mem, c, S) /\ World(c, make, procs)
          /\ Loose(c, UserDirs(make, procs), t) /\ HeapTable(c) # NULL
      BY <1>2, <2>1, <2>3, <3>1, HeapTableKept
    <3>3. n.ret = c.ret /\ NewTableIn(c, n, d, "stack", t, T)
      BY ONLY <3>1, WithStackIs
    <3>4. World(mem', make', procs') /\ procs' = procs /\ SameMaps(n, mem') /\ make' = k2
      <4>1. IsMem(n) /\ n.ret # NULL
        BY <3>2, <3>3 DEF NewTableIn, SameButMaps
      <4> QED BY <1>1, <4>1, StepIs
    <3> PICK k : k = make'
      OBVIOUS
    <3> PICK m : m = mem'
      OBVIOUS
    <3>5. k.pc = "init" /\ k.pd = d /\ k.stub = make.stub /\ k.stack = base /\ k.pc \in Making /\ World(m, k, procs)
      BY <1>2, <3>4 DEF MakeOK, Making
    <3>6. m.dirs[d]["stack"].table = t
      <4>1. d \in DOMAIN c.dirs /\ c.dirs[d] \in [Pdes -> PdEntry] /\ "stack" \in Pdes
        BY <1>2, <3>2, WorldSpaces DEF Kernel, Typed, Pdes
      <4>2. m.dirs = [c.dirs EXCEPT ![d]["stack"] = [table |-> t, user |-> TRUE]]
        BY <3>3, <3>4 DEF NewTableIn, SameMaps
      <4> QED BY ONLY <4>1, <4>2
    <3>7. S \subseteq Private(m, d) /\ Private(c, d) \subseteq Private(m, d)
      <4>1. {d, make.stub, t} \cup (base .. (base + STACK_PAGES - 1)) \subseteq Private(m, d)
        BY <3>5, <3>6, PrivateMaking
      <4>2. Private(c, d) = {d, make.stub}
        BY <1>1, <1>2, <3>2, PrivateMaking
      <4> QED BY <4>1, <4>2
    <3>8. Differs(c, m, d, t) /\ d # c.kdir /\ t # HeapTable(c)
      <4>0. /\ m.dirs = [c.dirs EXCEPT ![d]["stack"] = [table |-> t, user |-> TRUE]]
            /\ m.tabs = With(c.tabs, t, T) /\ m.free = c.free /\ m.kdir = c.kdir /\ m.brk = c.brk
        <5>1. NewTableIn(c, n, d, "stack", t, T) /\ SameMaps(n, m)
          BY <3>3, <3>4
        <5> QED BY ONLY <5>1 DEF NewTableIn, SameMaps, SameButMaps
      <4>1. \A y \in DOMAIN c.dirs \ {d} : m.dirs[y] = c.dirs[y]
        BY ONLY <4>0
      <4>2. \A y \in DOMAIN c.tabs \ {t} : m.tabs[y] = c.tabs[y]
        BY ONLY <4>0 DEF With
      <4>3. d # c.kdir
        BY <1>2, <3>2, WorldSpaces
      <4>4. t # HeapTable(c)
        BY <3>2, TablesApart DEF Loose, Used
      <4> QED BY ONLY <4>0, <4>1, <4>2, <4>3, <4>4 DEF Differs
    <3>9. mem.free \cup Reach(mem, make, procs) \subseteq m.free \cup Reach(m, k, procs)
      <4>1. /\ World(mem, make, procs) /\ Kernel(c) /\ Grows(mem, c) /\ Saves(mem, c, S)
            /\ Differs(c, m, k.pd, t) /\ t # HeapTable(c) /\ k.pd # c.kdir /\ World(m, k, procs)
            /\ k.pc \in Making /\ make.pd \in {NULL, k.pd} /\ S \subseteq Private(m, k.pd)
            /\ Private(c, make.pd) \subseteq Private(m, k.pd)
        BY <1>2, <3>2, <3>5, <3>7, <3>8
      <4> QED BY ONLY <4>1, Accounted
    <3>10. Kept
      BY <3>4, <3>9 DEF Kept
    <3> QED BY <3>5, <3>10, KeptPaid
  <2> QED BY <2>2, <2>3
<1> QED BY <1>4, <1>5

\* setup_initial_stack: the process takes over what was made for it.
LEMMA SetupPaid ==
    ASSUME SpacesInv, SpacesInv', SetupInitialStack
    PROVE  Paid
<1>1. boot.pc = "up" /\ UNCHANGED boot /\ mem.cr3 = mem.kdir /\ make.pc = "init"
  BY DEF SetupInitialStack, InShell
<1>2. /\ World(mem, make, procs) /\ Kernel(mem) /\ MakeOK(mem, make, procs) /\ WindowTable(mem) # NULL
      /\ make.stack \in Nat /\ \A p \in procs : p.pd # make.pd
  BY <1>1, UpBefore DEF MakeOK, Making, Stacked
<1> PICK f \in Nat : f = make.stack + STACK_PAGES - 1
  BY <1>2, Numbers
<1> PICK i \in 0 .. 2 : i = 2
  OBVIOUS
<1> PICK w : w = Window(mem, 2, f)
  OBVIOUS
<1>3. Kernel(w) /\ Grows(mem, w) /\ w.ret # NULL /\ Saves(mem, w, {}) /\ IsMem(w)
  <2>1. Kernel(mem) /\ mem.cr3 = mem.kdir /\ w = Window(mem, i, f)
    BY <1>1, <1>2
  <2>2. Kernel(w) /\ Grows(mem, w)
    BY ONLY <2>1, i \in 0 .. 2, f \in Nat, WindowGrows
  <2>3. /\ w.ret # NULL => Saves(mem, w, {})
        /\ WindowTable(mem) # NULL => w.ret # NULL
    BY ONLY <2>1, i \in 0 .. 2, f \in Nat, WindowSaves
  <2> QED BY <1>2, <2>2, <2>3 DEF Kernel, Typed
<1> PICK q : q = [pd |-> make.pd, stack |-> make.stack, entry |-> make.entry, zombie |-> FALSE]
  OBVIOUS
<1>4. mem' = Fail(w) /\ make' = Idle /\ procs' = procs \cup {q}
  BY <1>3 DEF SetupInitialStack, GiveUp
<1>5. UserDirs(make, procs) \subseteq UserDirs(make', procs') /\ q \notin procs
  <2>1. q.pd = make.pd
    OBVIOUS
  <2>2. q \in procs' /\ procs \subseteq procs'
    BY <1>4
  <2> QED BY <1>2, <2>1, <2>2 DEF UserDirs
<1>6. SameMaps(w, mem')
  BY <1>3, <1>4, EndsSame
<1>7. Kept
  <2> PICK m, k, P, n, k2, P2 : m = mem /\ k = make /\ P = procs /\ n = mem' /\ k2 = make' /\ P2 = procs'
    OBVIOUS
  <2>1. /\ World(m, k, P) /\ Kernel(w) /\ Grows(m, w) /\ Saves(m, w, {}) /\ SameMaps(w, n)
        /\ UserDirs(k, P) \subseteq UserDirs(k2, P2)
    BY <1>2, <1>3, <1>5, <1>6
  <2>2. m.free \cup Reach(m, k, P) \subseteq n.free \cup Reach(n, k2, P2)
    BY ONLY <2>1, CallAccounted
  <2> QED BY <2>2 DEF Kept
<1>8. ~GivenUp
  BY <1>4, <1>5 DEF GivenUp
<1> QED BY <1>7, <1>8 DEF Paid

\* A tick takes no frame.
LEMMA TickPaid ==
    ASSUME SpacesInv, NEW d, TickTo(d)
    PROVE  Paid
<1>1. boot.pc = "up" /\ mem' = [mem EXCEPT !.cr3 = d] /\ UNCHANGED <<make, procs>>
  BY DEF TickTo
<1>2. World(mem, make, procs) /\ Kernel(mem) /\ Typed(mem)
  BY <1>1, UpBefore DEF Kernel
<1>3. SameMaps(mem, mem')
  BY <1>1, <1>2 DEF SameMaps, Typed, IsMem
<1>4. Held(mem') = Held(mem) /\ (\A c : Private(mem', c) = Private(mem, c)) /\ mem'.free = mem.free
  BY <1>3, SameReach DEF SameMaps
<1>5. Kept
  <2>1. make' = make /\ procs' = procs
    BY <1>1
  <2> QED BY <1>4, <2>1 DEF Kept, Reach
<1> QED BY <1>1, <1>5 DEF Paid, GivenUp

\* Nor does a step that changes nothing.
LEMMA StutterPaid ==
    ASSUME UNCHANGED svars
    PROVE  Paid
<1>1. mem' = mem /\ make' = make /\ procs' = procs
  BY DEF svars
<1>2. Kept /\ ~GivenUp
  BY <1>1 DEF Kept, GivenUp
<1> QED BY <1>2 DEF Paid

\* A system call may grow the heap.
LEMMA SyscallKmallocPaid ==
    ASSUME SpacesInv, NEW p \in procs, SyscallKmalloc(p)
    PROVE  Paid
<1>1. boot.pc = "up" /\ mem.cr3 = p.pd /\ mem' = Fail(Kmalloc(mem)) /\ make' = make /\ procs' = procs
  BY DEF SyscallKmalloc, Running
<1>2. World(mem, make, procs) /\ Kernel(mem) /\ HeapTable(mem) # NULL
  BY <1>1, UpBefore
<1>3. Seen(mem)
  <2>1. Cloned(mem, p.pd)
    BY <1>2 DEF World, ProcOK
  <2> QED BY <1>1, <2>1 DEF Cloned, Seen
<1> PICK a : a = Kmalloc(mem)
  OBVIOUS
<1>4. Kernel(a) /\ Grows(mem, a) /\ Saves(mem, a, {}) /\ IsMem(a)
  BY <1>2, <1>3, KmallocGrows, KmallocSaves DEF HeapSaves, Kernel, Typed
<1>5. SameMaps(a, mem')
  BY <1>1, <1>4, EndsSame
<1> PICK m, k, P, n : m = mem /\ k = make /\ P = procs /\ n = mem'
  OBVIOUS
<1>6. m.free \cup Reach(m, k, P) \subseteq n.free \cup Reach(n, k, P)
  <2>1. /\ World(m, k, P) /\ Kernel(a) /\ Grows(m, a) /\ Saves(m, a, {}) /\ SameMaps(a, n)
        /\ UserDirs(k, P) \subseteq UserDirs(k, P)
    BY <1>2, <1>4, <1>5
  <2> QED BY ONLY <2>1, CallAccounted
<1>7. Kept
  BY <1>1, <1>6 DEF Kept
<1> QED BY <1>1, <1>7 DEF Paid, GivenUp

\* A process that ends keeps its frames.
LEMMA ExitPaid ==
    ASSUME SpacesInv, NEW p \in procs, KtaskExit(p)
    PROVE  Paid
<1> PICK q : q = [p EXCEPT !.zombie = TRUE]
  OBVIOUS
<1> PICK Q : Q = (procs \ {p}) \cup {q}
  OBVIOUS
<1>1. boot.pc = "up" /\ procs' = Q /\ mem' = mem /\ make' = make
  BY DEF KtaskExit, Running
<1>2. ProcOK(mem, p)
  BY <1>1, UpBefore DEF World
<1>3. q.pd = p.pd
  BY <1>2 DEF ProcOK
<1>4. \A x \in procs : \E y \in Q : x.pd = y.pd
  <2> TAKE x \in procs
  <2>1. CASE x = p
    <3>1. q \in Q
      OBVIOUS
    <3> QED BY ONLY <1>3, <2>1, <3>1
  <2>2. CASE x # p
    <3>1. x \in Q
      BY <2>2
    <3> QED BY ONLY <3>1
  <2> QED BY ONLY <2>1, <2>2
<1>5. UserDirs(make, procs) \subseteq UserDirs(make, Q)
  <2>1. {x.pd : x \in procs} \subseteq {y.pd : y \in Q}
    BY ONLY <1>4
  <2> QED BY <2>1 DEF UserDirs
<1>6. Reach(mem, make, procs) \subseteq Reach(mem, make, Q)
  BY <1>5 DEF Reach
<1>7. Kept
  BY <1>1, <1>6 DEF Kept
<1> QED BY <1>1, <1>7 DEF Paid, GivenUp

\* While the kernel boots, all that is in use is the kernel's half's.
LEMMA BootPaid ==
    ASSUME make = Idle, procs = {}, UNCHANGED <<make, procs>>,
           Saves(mem, mem', {}) \/ boot'.pc = "panic"
    PROVE  Paid
<1>1. \A m : Reach(m, Idle, {}) = Held(m)
  <2>1. UserDirs(Idle, {}) = {}
    BY DEF UserDirs, Idle
  <2> QED BY <2>1 DEF Reach
<1>2. make' = Idle /\ procs' = {} /\ ~GivenUp
  BY DEF GivenUp
<1>3. Saves(mem, mem', {}) => Kept
  BY <1>1, <1>2 DEF Saves, Kept
<1> QED BY <1>2, <1>3 DEF Paid

\* kvmm_disable_identity_mapping.
LEMMA IdentityPaid ==
    ASSUME SpacesInv, KvmmDisableIdentityMapping
    PROVE  Paid
<1>0. /\ boot.pc = "identity" /\ UNCHANGED <<make, procs>>
      /\ mem' = [mem EXCEPT !.dirs[mem.cr3]["identity"] = NoTable]
  BY DEF KvmmDisableIdentityMapping
<1>1. make = Idle /\ procs = {} /\ mem.cr3 = mem.kdir /\ Kernel(mem)
  BY <1>0, BootBefore
<1> PICK m, n, d : m = mem /\ n = mem' /\ d = mem.kdir
  OBVIOUS
<1> PICK D : D = [m.dirs EXCEPT ![d]["identity"] = NoTable]
  OBVIOUS
<1>2. IsMem(m) /\ d \in DOMAIN m.dirs /\ m.dirs[d] \in [Pdes -> PdEntry]
  BY <1>1 DEF Kernel, KernelDir, Typed
<1>3. n = [m EXCEPT !.dirs = D]
  BY <1>0, <1>1, <1>2 DEF IsMem
<1>4. n.dirs = D /\ n.tabs = m.tabs /\ n.kdir = d /\ n.free = m.free /\ n.brk = m.brk
  BY <1>2, <1>3 DEF IsMem
<1>5. D[d]["heap"] = m.dirs[d]["heap"] /\ D[d]["windows"] = m.dirs[d]["windows"]
  BY <1>2 DEF Pdes
<1>6. HeapTable(n) = HeapTable(m) /\ WindowTable(n) = WindowTable(m)
  BY <1>4, <1>5 DEF HeapTable, WindowTable
<1>7. Held(n) = Held(m)
  BY <1>4, <1>6 DEF Held, HeapFr
<1>8. Saves(mem, mem', {})
  BY <1>4, <1>7 DEF Saves
<1> QED BY <1>0, <1>1, <1>8, BootPaid

\* kmalloc_init.
LEMMA KmallocInitPaid ==
    ASSUME SpacesInv, KmallocInit
    PROVE  Paid
<1> PICK m : m = CreateHeapHeader(mem)
  OBVIOUS
<1> PICK pc : pc = IF m.ret = NULL THEN "panic" ELSE "kernel"
  OBVIOUS
<1>0. /\ boot.pc = "heap" /\ UNCHANGED <<make, procs>>
      /\ mem' = IF m.ret = NULL THEN m ELSE [m EXCEPT !.spare = 1, !.ret = NULL]
      /\ boot' = [boot EXCEPT !.pc = pc, !.avail = FALSE]
  BY DEF KmallocInit
<1>1. make = Idle /\ procs = {} /\ mem.cr3 = mem.kdir /\ Kernel(mem) /\ EarlyOK(boot)
  BY <1>0, BootBefore
<1>2. Reaches(mem, "heap")
  BY <1>1, InKernelReaches
<1>3. Kernel(m) /\ (m.ret # NULL => Saves(mem, m, {}))
  BY <1>1, <1>2, HeaderGrows, HeaderSaves
<1>4. boot'.pc = pc
  <2>1. boot = [pc |-> boot.pc, cur |-> boot.cur, end |-> boot.end, avail |-> boot.avail, areas |-> boot.areas]
    BY <1>1 DEF EarlyOK
  <2> QED BY <1>0, <2>1
<1>5. m.ret # NULL => Saves(mem, mem', {})
  <2> SUFFICES ASSUME m.ret # NULL PROVE Saves(mem, mem', {})
    OBVIOUS
  <2>1. mem' = [m EXCEPT !.spare = 1, !.ret = NULL] /\ IsMem(m)
    BY <1>0, <1>3 DEF Kernel, Typed
  <2>2. SameMaps(m, mem')
    BY <2>1 DEF SameMaps, IsMem
  <2>3. Held(mem') = Held(m) /\ mem'.free = m.free
    BY <2>2, SameReach DEF SameMaps
  <2> QED BY <1>3, <2>3 DEF Saves
<1> QED BY <1>0, <1>1, <1>4, <1>5, BootPaid

\* kprocess_kernel_init and kprocess_shell_init.
LEMMA KernelInitPaid ==
    ASSUME SpacesInv, KprocessKernelInit
    PROVE  Paid
<1> PICK a : a = KprocessCreateKernel(mem)
  OBVIOUS
<1> PICK m : m = IF a.ret = NULL THEN a ELSE KprocessCreateKernel(a)
  OBVIOUS
<1> PICK pc : pc = IF m.ret = NULL THEN "panic" ELSE "up"
  OBVIOUS
<1>0. /\ boot.pc = "kernel" /\ UNCHANGED <<make, procs>>
      /\ mem' = IF m.ret = NULL THEN Fault(m) ELSE Fail(m)
      /\ boot' = [boot EXCEPT !.pc = pc]
  <2>1. Then(KprocessCreateKernel(mem), LAMBDA x : IF x.ret = NULL THEN x ELSE KprocessCreateKernel(x)) = m
    BY DEF Then
  <2> QED BY <2>1 DEF KprocessKernelInit
<1>1. /\ make = Idle /\ procs = {} /\ mem.cr3 = mem.kdir /\ Kernel(mem) /\ EarlyOK(boot)
      /\ HeapTable(mem) # NULL
  BY <1>0, BootBefore DEF SpacesInv
<1>2. boot'.pc = pc
  <2>1. boot = [pc |-> boot.pc, cur |-> boot.cur, end |-> boot.end, avail |-> boot.avail, areas |-> boot.areas]
    BY <1>1 DEF EarlyOK
  <2> QED BY <1>0, <2>1
<1>3. m.ret # NULL => Saves(mem, mem', {})
  <2> SUFFICES ASSUME m.ret # NULL PROVE Saves(mem, mem', {})
    OBVIOUS
  <2>1. Seen(mem) /\ HeapCall(mem, a) /\ Saves(mem, a, {}) /\ HeapTable(a) # NULL
    BY <1>1, InKernelReaches, KernelProcessGrows, KernelProcessSaves
  <2>2. a.ret # NULL /\ m = KprocessCreateKernel(a)
    OBVIOUS
  <2>3. HeapCall(a, m) /\ Saves(a, m, {})
    <3>1. Kernel(a) /\ Seen(a)
      BY <2>1, <2>2 DEF HeapCall
    <3> QED BY <2>1, <2>2, <3>1, KernelProcessGrows, KernelProcessSaves
  <2>4. Saves(mem, m, {}) /\ IsMem(m)
    BY <2>1, <2>3 DEF Saves, HeapCall, Kernel, Typed
  <2>5. SameMaps(m, mem')
    BY <1>0, <2>4, EndsSame
  <2>6. Held(mem') = Held(m) /\ mem'.free = m.free
    BY <2>5, SameReach DEF SameMaps
  <2> QED BY <2>4, <2>6 DEF Saves
<1> QED BY <1>0, <1>1, <1>2, <1>3, BootPaid

\* Before kvmm_init has run no frame is in use, and none is taken.
LEMMA BarePaid ==
    ASSUME SpacesInv, SpacesInv', ~Started, [WholeNext]_svars
    PROVE  mem'.free = mem.free /\ make.pc = "idle"
<1>1. Bare(mem, make, procs) /\ IsMem(mem) /\ make.pc = "idle" /\ procs = {}
  BY DEF SpacesInv, Bare, Typed, Idle
<1>2. boot.pc \notin {"identity", "heap", "kernel", "up"}
  BY DEF SpacesInv
<1>3. ~Create /\ ~TickToShell /\ ~TickToProcess
  BY <1>1, <1>2 DEF Create, KprocessTask, KprocessTaskStack, AllocPageDirectory, CloneKernelHighHalf, MapStubUserPage, MapSyscall,
     MapEntry, MapUserStack, SetupInitialStack, InShell, TickToShell, TickToProcess, TickTo
<1>4. ~(\E e \in Entries : KprocessCreate(e)) /\ ~(\E p \in procs : SyscallKmalloc(p) \/ KtaskExit(p))
  BY <1>1, <1>2 DEF KprocessCreate, InShell
<1>5. CASE KvmmInit
  <2>1. mem' = mem \/ \E D, T, d : mem' = [mem EXCEPT !.dirs = D, !.tabs = T, !.cr3 = d, !.kdir = d]
    <3>1. CASE UNCHANGED mem
      BY <3>1
    <3>2. CASE ~UNCHANGED mem
      <4> PICK b : LET d == (b.cur - 3 * PAGE) \div PAGE
                   IN  mem' = [mem EXCEPT
                          !.dirs = [x \in {d} |-> [[e \in Pdes |-> NoTable] EXCEPT
                                           !["identity"] = [NoTable EXCEPT !.table = d + 1],
                                           !["image"] = [NoTable EXCEPT !.table = d + 2],
                                           !["self"] = [NoTable EXCEPT !.table = d]]],
                          !.tabs = [t \in {d + 1, d + 2} |-> Identity], !.cr3 = d, !.kdir = d]
        BY <1>5, <3>2 DEF KvmmInit
      <4> QED OBVIOUS
    <3> QED BY <3>1, <3>2
  <2>2. CASE mem' = mem
    BY <1>1, <2>2
  <2>3. CASE \E D, T, d : mem' = [mem EXCEPT !.dirs = D, !.tabs = T, !.cr3 = d, !.kdir = d]
    BY <1>1, <2>3 DEF IsMem
  <2> QED BY <2>1, <2>2, <2>3
<1>6. CASE KearlyMallocInit \/ KpmmInit \/ Halted \/ Prompt \/ UNCHANGED svars
  BY <1>1, <1>6 DEF KearlyMallocInit, KpmmInit, Halted, Prompt, svars
<1>7. ~KvmmDisableIdentityMapping /\ ~KmallocInit /\ ~KprocessKernelInit
  BY <1>2 DEF KvmmDisableIdentityMapping, KmallocInit, KprocessKernelInit
<1> QED BY <1>3, <1>4, <1>5, <1>6, <1>7 DEF WholeNext, Boot

\* Once it has, no step loses a frame it need not.
LEMMA NextPaid ==
    ASSUME SpacesInv, SpacesInv', Started, [WholeNext]_svars
    PROVE  Paid
<1>0. boot.pc \notin {"early", "pmm", "vmm"}
  BY DEF SpacesInv
<1>1. CASE Boot
  <2>1. ~KearlyMallocInit /\ ~KpmmInit /\ ~KvmmInit
    BY <1>0 DEF KearlyMallocInit, KpmmInit, KvmmInit
  <2> QED BY <1>1, <2>1, IdentityPaid, KmallocInitPaid, KernelInitPaid DEF Boot
<1>2. CASE Create
  BY <1>2, TaskPaid, TaskStackPaid, DirectoryPaid, ClonePaid, StubPaid, SyscallPaid, EntryPaid, StackPaid, SetupPaid DEF Create
<1>3. CASE \E e \in Entries : KprocessCreate(e)
  BY <1>3, BeginPaid
<1>4. CASE TickToShell \/ TickToProcess
  BY <1>4, TickPaid DEF TickToShell, TickToProcess
<1>5. CASE \E p \in procs : SyscallKmalloc(p) \/ KtaskExit(p)
  BY <1>5, SyscallKmallocPaid, ExitPaid
<1>6. CASE Halted \/ Prompt \/ UNCHANGED svars
  BY <1>6, StutterPaid DEF Halted, Prompt
<1> QED BY <1>1, <1>2, <1>3, <1>4, <1>5, <1>6 DEF WholeNext

\* The kernel's directory stays, short of a panic.
LEMMA StartedStays ==
    ASSUME SpacesInv, SpacesInv', Started, [WholeNext]_svars
    PROVE  Started' \/ boot'.pc = "panic"
<1>0. /\ boot.pc \notin {"early", "pmm", "vmm"}
      /\ boot'.pc \in {"identity", "heap", "kernel", "up"} => Started'
      /\ boot = [pc |-> boot.pc, cur |-> boot.cur, end |-> boot.end, avail |-> boot.avail, areas |-> boot.areas]
  BY DEF SpacesInv, EarlyOK
<1>1. CASE Boot
  <2>1. \/ \E pc \in {"heap", "kernel", "up", "panic"} : boot' = [boot EXCEPT !.pc = pc]
        \/ \E pc \in {"kernel", "panic"} : boot' = [boot EXCEPT !.pc = pc, !.avail = FALSE]
    BY <1>0, <1>1 DEF Boot, KearlyMallocInit, KpmmInit, KvmmInit, KvmmDisableIdentityMapping, KmallocInit,
       KprocessKernelInit
  <2>2. boot'.pc \in {"heap", "kernel", "up", "panic"}
    BY <1>0, <2>1
  <2> QED BY <1>0, <2>2
<1>2. CASE Create \/ (\E e \in Entries : KprocessCreate(e))
  <2>1. boot.pc = "up" /\ boot' = boot
    BY <1>2 DEF Create, KprocessCreate, KprocessTask, KprocessTaskStack, AllocPageDirectory, CloneKernelHighHalf, MapStubUserPage,
       MapSyscall, MapEntry, MapUserStack, SetupInitialStack, InShell
  <2> QED BY <1>0, <2>1
<1>3. CASE TickToShell \/ TickToProcess \/ (\E p \in procs : SyscallKmalloc(p) \/ KtaskExit(p))
  <2>1. boot.pc = "up" /\ boot' = boot
    BY <1>3 DEF TickToShell, TickToProcess, TickTo, SyscallKmalloc, KtaskExit, Running
  <2> QED BY <1>0, <2>1
<1>4. CASE Halted \/ Prompt \/ UNCHANGED svars
  BY <1>4 DEF Halted, Prompt, svars, Started
<1> QED BY <1>1, <1>2, <1>3, <1>4 DEF WholeNext

----------------------------------------------------------------------------
(* The theorems                                                            *)

\* The steps of the shell's task may be interrupted anywhere, and system calls
\* come within them.  All of this holds until such a step ends on what it had
\* read before a system call (Astray); then a frame can have two uses
\* (NoFrameTwice fails) and the kernel end with memory left (EndsForWantOfMemory).

\* Between the steps of the boot and of a creation no call is half done: no
\* answer is pending, the heap lies within its limit, cr3 holds a directory.
THEOREM SpacesTypesKept == SpacesSpec => [](Astray \/ SpacesTypeOK)
  BY SpacesInvariant, TypesFollow, PTL

\* kearly_malloc and kearly_malloc_aligned give out areas inside the allocator
\* and apart, three of them the kernel's directory and tables, on pages.
THEOREM EarlyAreasStayApart == SpacesSpec => [](Astray \/ EarlyAreasApart)
  BY SpacesInvariant, AreasFollow, PTL

\* No frame has two uses, whatever processes are made, given up or ended, as long
\* as no search of kpmm_alloc_pages marks what a system call has taken meanwhile.
THEOREM FramesExclusiveUnlessOvertaken == SpacesSpec => []FramesExclusive
<1>1. (Astray \/ SpacesInv) => FramesExclusive
  BY FramesFollow DEF FramesExclusive
<1> QED BY <1>1, SpacesInvariant, PTL

\* A process may touch the pages of the stubs, of the system call, of its entry
\* and of its stack, and no other, from kprocess_create on.
THEOREM UserOnlyEverSeesItsOwn == SpacesSpec => [](Astray \/ UserSeesOnlyItsOwn)
  BY SpacesInvariant, SeeingFollows, PTL

\* clone_kernel_high_half shares tables that no growth of the heap, in any
\* address space, makes differ.
THEOREM KernelAlwaysShared == SpacesSpec => [](Astray \/ KernelSharedByAll)
  BY SpacesInvariant, SharingFollows, PTL

\* The kernel neither faults nor panics while there is memory, as long as no
\* kmalloc maps its frame at a break a system call has moved meanwhile.
THEOREM FaultsNeedNoMemoryUnlessOvertaken == SpacesSpec => []FaultMeansNoMemory
<1>1. (Astray \/ SpacesInv) => FaultMeansNoMemory
  BY FaultFollows DEF FaultMeansNoMemory
<1> QED BY <1>1, SpacesInvariant, PTL

\* FramesLostByGivingUp: frames the allocator has, or an address space leads to,
\* are lost only when kprocess_create returns half-way, when the kernel ends or
\* by an overtaken step; and kprocess_create returns half-way only when the heap
\* is at its limit or no frame is left, or overtaken.
THEOREM FramesOnlyLostByGivingUp == SpacesSpec => FramesLostByGivingUp
<1>1. SpacesInv /\ SpacesInv' /\ ReachIs /\ ReachIs' /\ [WholeNext]_svars =>
        /\ {f \in mem.free \cup Reached : f >= FirstFrame} \subseteq (mem'.free \cup Reached')
           \/ GivenUp \/ mem'.fault \/ boot'.pc = "panic"
        /\ GivenUp => mem'.fault \/ mem.brk = KERNEL_HEAP_PAGES \/ mem'.free = {}
  <2> SUFFICES ASSUME SpacesInv, SpacesInv', ReachIs, ReachIs', [WholeNext]_svars
               PROVE  /\ \/ \A f \in mem.free \cup Reached : f >= FirstFrame => f \in mem'.free \cup Reached'
                         \/ GivenUp \/ mem'.fault \/ boot'.pc = "panic"
                      /\ GivenUp => Short(mem, mem')
    BY DEF Short
  <2>1. CASE Started
    <3>1. Paid
      BY <2>1, NextPaid
    <3>2. ASSUME Kept, Started', NEW f \in mem.free \cup Reached, f >= FirstFrame
          PROVE  f \in mem'.free \cup Reached'
      <4>1. f \in mem.free \cup Reach(mem, make, procs)
        BY <2>1, <3>2 DEF ReachIs
      <4>2. f \in mem'.free \cup Reach(mem', make', procs')
        BY <3>2, <4>1 DEF Kept
      <4>3. Reach(mem', make', procs') \subseteq Reached'
        BY <3>2 DEF ReachIs
      <4> QED BY <4>2, <4>3
    <3>3. Started' \/ boot'.pc = "panic"
      BY <2>1, StartedStays
    <3> QED BY <3>1, <3>2, <3>3 DEF Paid
  <2>2. CASE ~Started
    <3>1. mem'.free = mem.free /\ make.pc = "idle"
      BY <2>2, BarePaid
    <3>2. Reached = {}
      BY <2>2 DEF Reached
    <3> QED BY <3>1, <3>2 DEF GivenUp
  <2> QED BY <2>1, <2>2
<1>2. SpacesInv => ReachIs
  BY ReachFollows
<1>3. (Astray \/ SpacesInv) /\ (Astray \/ SpacesInv)' /\ [SpacesNext]_vars =>
        [Astray' \/
         /\ {f \in mem.free \cup Reached : f >= FirstFrame} \subseteq (mem'.free \cup Reached')
            \/ GivenUp \/ mem'.fault \/ boot'.pc = "panic"
         /\ GivenUp => mem'.fault \/ mem.brk = KERNEL_HEAP_PAGES \/ mem'.free = {}]_vars
  <2> SUFFICES ASSUME Astray \/ SpacesInv, (Astray \/ SpacesInv)', [SpacesNext]_vars, ~Astray'
               PROVE  /\ {f \in mem.free \cup Reached : f >= FirstFrame} \subseteq (mem'.free \cup Reached')
                         \/ GivenUp \/ mem'.fault \/ boot'.pc = "panic"
                      /\ GivenUp => mem'.fault \/ mem.brk = KERNEL_HEAP_PAGES \/ mem'.free = {}
    OBVIOUS
  <2>1. ~Astray /\ [WholeNext]_svars
    BY WholeOrAstray
  <2>2. SpacesInv /\ SpacesInv'
    BY <2>1
  <2>3. ReachIs /\ ReachIs'
    BY <2>2, ReachFollows, PTL
  <2> QED BY <1>1, <2>1, <2>2, <2>3
<1> QED BY <1>3, SpacesInvariant, PTL DEF SpacesSpec, FramesLostByGivingUp
=============================================================================
