----------------------------- MODULE HeapProofs ----------------------------
(***************************************************************************)
(* Proofs about the kernel heap (Heap), for every size of the heap, of a   *)
(* page and of a header, every set of callers and every e820 map.          *)
(***************************************************************************)
EXTENDS Heap, PmmProofs

\* No sum of kmalloc wraps around 32 bits: the end of the heap plus a size that
\* is asked for, with its roundings, is an address.  The heap of del-os ends at
\* 0xD0064000, 768 MiB below 2^32.  krealloc asks for a block's size when it is
\* given 0.
SizesFit ==
    \A n \in Sizes \cup (IF 0 \in Sizes THEN 0 .. (LIMIT - BASE) ELSE {0}) :
        LIMIT + n + ALIGN + HDR + PAGE <= WORD

\* The addresses of pages.
OnGrid(x) == \E i \in Nat : x = BASE + i * PAGE

----------------------------------------------------------------------------
(* Arithmetic of pages                                                     *)

\* The page and the word are not empty.
LEMMA Positive ==
    /\ PAGE \in Nat \ {0} /\ WORD \in Nat \ {0} /\ HDR \in Nat \ {0} /\ HDR < PAGE
    /\ BASE \in Nat \ {0} /\ LIMIT \in Nat /\ LIMIT < WORD /\ BASE + PAGE <= LIMIT
    /\ ALIGN \in Nat \ {0} /\ OnGrid(LIMIT)
BY PmmAssumption, HeapAssumption DEF OnGrid

\* Products are natural numbers and grow with their factors.
LEMMA Times ==
    ASSUME NEW i \in Nat, NEW j \in Nat, NEW p \in Nat \ {0}
    PROVE  /\ i * p \in Nat /\ (i + j) * p = i * p + j * p
           /\ i < j => i * p + p <= j * p
<1>1. i * p \in Nat /\ (i + j) * p = i * p + j * p
  OBVIOUS
<1>2. ASSUME i < j PROVE i * p + p <= j * p
  <2>1. PICK d \in Nat : j = i + 1 + d
    <3>1. j - i - 1 \in Nat /\ j = i + 1 + (j - i - 1)
      BY <1>2
    <3> QED BY <3>1
  <2>2. j * p = i * p + p + d * p /\ d * p \in Nat
    BY <2>1
  <2> QED BY <1>1, <2>2
<1> QED BY <1>1, <1>2

\* Two page addresses are a page apart.
LEMMA GridApart ==
    ASSUME NEW x, NEW y, OnGrid(x), OnGrid(y)
    PROVE  /\ x \in Nat /\ y \in Nat /\ BASE <= x
           /\ x < y => x + PAGE <= y
<1>1. PICK i \in Nat : x = BASE + i * PAGE
  BY DEF OnGrid
<1>2. PICK j \in Nat : y = BASE + j * PAGE
  BY DEF OnGrid
<1>3. i * PAGE \in Nat /\ j * PAGE \in Nat
  BY Positive, Times
<1>4. ASSUME x < y PROVE x + PAGE <= y
  <2>1. i * PAGE < j * PAGE
    BY <1>1, <1>2, <1>3, <1>4, Positive
  <2>2. i < j
    <3>1. CASE j < i
      <4>1. j * PAGE + PAGE <= i * PAGE
        BY <3>1, Positive, Times
      <4> QED BY <2>1, <4>1, <1>3, Positive
    <3>2. CASE j = i
      BY <2>1, <3>2, <1>3
    <3> QED BY <3>1, <3>2
  <2>3. i * PAGE + PAGE <= j * PAGE
    BY <2>2, Positive, Times
  <2> QED BY <1>1, <1>2, <1>3, <2>3, Positive
<1> QED BY <1>1, <1>2, <1>3, <1>4, Positive

\* A whole number of pages leads from page to page.
LEMMA GridMoves ==
    ASSUME NEW x, OnGrid(x), NEW n \in Nat
    PROVE  /\ OnGrid(x + n * PAGE) /\ OnGrid(x + PAGE * n) /\ n * PAGE \in Nat
           /\ PAGE * n = n * PAGE /\ x + n * PAGE \in Nat
<1>1. PICK i \in Nat : x = BASE + i * PAGE
  BY DEF OnGrid
<1>2. i * PAGE \in Nat /\ n * PAGE \in Nat /\ (i + n) * PAGE = i * PAGE + n * PAGE
  BY Positive, Times
<1>3. x + n * PAGE = BASE + (i + n) * PAGE
  BY <1>1, <1>2, Positive
<1>4. PAGE * n = n * PAGE
  BY Positive
<1>5. OnGrid(x + n * PAGE)
  BY <1>3 DEF OnGrid
<1>6. x + n * PAGE \in Nat
  BY <1>1, <1>2, Positive
<1> QED BY <1>2, <1>4, <1>5, <1>6

\* create_heap_header asks for pages enough for the data and its header, and
\* its test of the limit, made on bytes, keeps whole pages below the limit.
LEMMA PagesCover ==
    ASSUME NEW b, OnGrid(b), NEW n \in Nat, b + n + HDR <= LIMIT,
           n + HDR + PAGE <= WORD
    PROVE  /\ PagesToGet(n) \in Nat \ {0}
           /\ n + HDR <= PAGE * PagesToGet(n)
           /\ b + PAGE * PagesToGet(n) <= LIMIT
<1> DEFINE x == n + HDR
<1> PICK p : p = PagesToGet(n)
  OBVIOUS
<1>1. b \in Nat
  BY GridApart
<1>2. (x + PAGE - 1) % WORD = x + PAGE - 1
  BY Positive
<1>3. p = (x + PAGE - 1) \div PAGE
  BY <1>2 DEF PagesToGet
<1>4. p \in Nat /\ PAGE * p <= x + PAGE - 1 /\ x + PAGE - 1 < PAGE * p + PAGE
  BY <1>3, Positive
<1>5. PAGE * p \in Nat /\ PAGE * p = p * PAGE
  BY <1>4, Positive
<1>6. x <= PAGE * p
  BY <1>4, <1>5, Positive
<1>7. p # 0
  BY <1>6, Positive
<1>8. OnGrid(b + PAGE * p)
  BY <1>4, GridMoves
<1>9. b + PAGE * p <= LIMIT
  <2> SUFFICES ASSUME LIMIT < b + PAGE * p PROVE FALSE
    BY <1>1, <1>5, Positive
  <2>1. LIMIT + PAGE <= b + PAGE * p
    BY <1>8, Positive, GridApart
  <2> QED BY <2>1, <1>1, <1>4, <1>5, Positive
<1> QED BY <1>4, <1>6, <1>7, <1>9

----------------------------------------------------------------------------
(* The inductive invariant                                                 *)

Calls ==
    [pc : {"idle", "find", "take", "create", "search", "mark", "map", "store",
           "link", "brk", "copy"},
     asked : Nat, size : Nat, cur : Nat, old : Nat, hdr : Nat, pages : Nat,
     start : Nat, mapped : Nat]

Headers == [free : BOOLEAN, size : Nat \ {0}, next : Nat]

\* A call names blocks that exist, keeps sums below 2^32 and, once it has read
\* the break, holds a page at or below the break with room for its pages.  The
\* page it has found absent is absent until it stores the entry.
CallOK(c) ==
    /\ c \in Calls
    /\ c.cur \in Blocks \cup {NULL} /\ c.old \in Blocks \cup {NULL}
    /\ c.asked <= c.size /\ LIMIT + c.size + HDR + PAGE <= WORD
    /\ c.pc \in {"search", "mark", "map", "store", "link", "brk"} =>
           /\ OnGrid(c.hdr) /\ c.hdr <= kernel_heap_brk
           /\ c.pages # 0 /\ c.hdr + PAGE * c.pages <= LIMIT
    /\ c.pc \in {"find", "create", "search", "mark"} => c.mapped = 0
    /\ c.pc \in {"map", "store"} => c.mapped < c.pages
    /\ c.pc \in {"link", "brk"} => c.mapped = c.pages
    /\ c.pc = "store" => PageDue(c) \notin DOMAIN pte

\* a has mapped pages and not yet moved the break.
Building(a) == \/ call[a].pc \in {"link", "brk"}
               \/ call[a].pc \in {"map", "store"} /\ call[a].mapped # 0

\* The mapped pages are those below e.
Mapped(e) == \A v : v \in DOMAIN pte <=> OnGrid(v) /\ v < e

\* One call at most has pages mapped above the break: those it is adding.
Built ==
    /\ OnGrid(kernel_heap_brk) /\ BASE < kernel_heap_brk /\ kernel_heap_brk <= LIMIT
    /\ \A a, b \in Callers : Building(a) /\ Building(b) => a = b
    /\ \A a \in Callers : Building(a) =>
           /\ call[a].hdr = kernel_heap_brk
           /\ Mapped(kernel_heap_brk + PAGE * call[a].mapped)
    /\ (\A a \in Callers : ~Building(a)) => Mapped(kernel_heap_brk)

\* The list: each block ends where the one before it in the list begins.
Listed ==
    /\ kernel_heap_lh \in Blocks
    /\ \A h \in Blocks :
           /\ OnGrid(h) /\ h <= kernel_heap_lh /\ h + HDR + header[h].size <= LIMIT
           /\ h = kernel_heap_lh \/ h + HDR + header[h].size <= kernel_heap_lh
           /\ IF h = BASE THEN header[h].next = NULL
              ELSE LET n == header[h].next
                   IN n \in Blocks /\ n + HDR + header[n].size = h
    /\ \A a \in Callers : call[a].pc = "brk" =>
           /\ kernel_heap_lh = kernel_heap_brk
           /\ header[kernel_heap_lh].size = BlockSize(call[a].pages)
    /\ (\A a \in Callers : call[a].pc # "brk") =>
           kernel_heap_lh + HDR + header[kernel_heap_lh].size = kernel_heap_brk

\* Before kmalloc_init.
NoHeap ==
    /\ Blocks = {} /\ DOMAIN pte = {} /\ kernel_heap_lh = NULL
    /\ \A a \in Callers : call[a] = NoCall /\ held[a] = {}

HeapIndInv ==
    /\ Bits \subseteq Nat
    /\ header \in [Blocks -> Headers]
    /\ call \in [Callers -> Calls]
    /\ held \in [Callers -> SUBSET [ptr : Blocks, asked : Nat]]
    /\ \A a \in Callers : CallOK(call[a])
    /\ kernel_heap_brk = NULL => NoHeap
    /\ kernel_heap_brk # NULL => Built /\ Listed

\* Blocks keep their place, size and order; some may change hands.
SameBlocks ==
    /\ header' \in [Blocks -> Headers]
    /\ \A h \in Blocks : header'[h].size = header[h].size /\ header'[h].next = header[h].next

----------------------------------------------------------------------------
(* Steps                                                                   *)

\* A step of one caller that maps nothing, links nothing and leaves the break.
LEMMA QuietStep ==
    ASSUME HeapIndInv, kernel_heap_brk # NULL, NEW a \in Callers,
           call' \in [Callers -> Calls],
           \A b \in Callers \ {a} : call'[b] = call[b],
           CallOK(call'[a]), ~Building(a), ~Building(a)', call'[a].pc # "brk",
           SameBlocks, held' \in [Callers -> SUBSET [ptr : Blocks, asked : Nat]],
           UNCHANGED <<kernel_heap_lh, kernel_heap_brk>>, DOMAIN pte' = DOMAIN pte,
           Bits' \subseteq Nat
    PROVE  HeapIndInv'
<1>1. Blocks' = Blocks /\ header' \in [Blocks' -> Headers]
  BY DEF SameBlocks, Blocks
<1>2. \A b \in Callers : CallOK(call[b])'
  <2>1. \A b \in Callers : CallOK(call'[b])
    BY DEF HeapIndInv
  <2> QED BY <1>1, <2>1 DEF CallOK, PageDue
<1>3. /\ \A b \in Callers : Building(b)' <=> Building(b)
      /\ \A b \in Callers : Building(b) => call'[b] = call[b]
      /\ \A b \in Callers : call'[b].pc = "brk" <=> call[b].pc = "brk"
  BY DEF Building
<1>4. Built'
  <2>1. \A e : Mapped(e)' <=> Mapped(e)
    BY DEF Mapped
  <2> QED BY <1>3, <2>1 DEF Built, HeapIndInv
<1>5. Listed'
  <2>1. Listed /\ kernel_heap_lh \in Blocks
    BY DEF HeapIndInv, Listed
  <2>2. \A h \in Blocks' :
           /\ OnGrid(h) /\ h <= kernel_heap_lh' /\ h + HDR + header'[h].size <= LIMIT
           /\ h = kernel_heap_lh' \/ h + HDR + header'[h].size <= kernel_heap_lh'
           /\ IF h = BASE THEN header'[h].next = NULL
              ELSE LET n == header'[h].next
                   IN n \in Blocks' /\ n + HDR + header'[n].size = h
    BY <1>1, <2>1 DEF SameBlocks, Listed
  <2>3. \A b \in Callers : call'[b].pc = "brk" =>
           /\ kernel_heap_lh' = kernel_heap_brk'
           /\ header'[kernel_heap_lh'].size = BlockSize(call'[b].pages)
    BY <1>3, <2>1 DEF Listed, SameBlocks, Building
  <2>4. (\A b \in Callers : call'[b].pc # "brk") =>
           kernel_heap_lh' + HDR + header'[kernel_heap_lh'].size = kernel_heap_brk'
    BY <1>3, <2>1 DEF Listed, SameBlocks
  <2> QED BY <1>1, <2>1, <2>2, <2>3, <2>4 DEF Listed
<1> QED BY <1>1, <1>2, <1>4, <1>5 DEF HeapIndInv

\* ALIGN_UP rounds up, by less than the alignment, where nothing wraps.
LEMMA AlignUpBounds ==
    ASSUME NEW n \in Nat, n + ALIGN <= WORD
    PROVE  AlignUp(n) \in Nat /\ n <= AlignUp(n) /\ AlignUp(n) < n + ALIGN
<1> PICK m : m = n + ALIGN - 1
  OBVIOUS
<1>1. m \in Nat /\ m % WORD = m
  BY Positive
<1>2. m % ALIGN \in 0 .. (ALIGN - 1) /\ m % ALIGN <= m
  BY <1>1, Positive
<1>3. AlignUp(n) = m - (m % ALIGN)
  BY <1>1 DEF AlignUp
<1> QED BY <1>1, <1>2, <1>3, Positive

\* kmalloc begins: the size is rounded and the search starts at the newest block.
LEMMA EnterCall ==
    ASSUME SizesFit, HeapIndInv, kernel_heap_brk # NULL, NEW a \in Callers,
           NEW n \in Nat, LIMIT + n + ALIGN + HDR + PAGE <= WORD,
           NEW p \in Blocks \cup {NULL}, Enter(a, n, p)
    PROVE  /\ call' \in [Callers -> Calls] /\ CallOK(call'[a])
           /\ \A b \in Callers \ {a} : call'[b] = call[b]
           /\ call'[a].pc = "find"
<1>1. /\ AlignUp(n) \in Nat /\ n <= AlignUp(n)
      /\ LIMIT + AlignUp(n) + HDR + PAGE <= WORD
  BY AlignUpBounds, Positive
<1>2. kernel_heap_lh \in Blocks /\ Blocks \subseteq Nat
  <2>1. \A h \in Blocks : OnGrid(h)
    BY DEF HeapIndInv, Listed
  <2> QED BY <2>1, GridApart DEF HeapIndInv, Listed
<1>3. call \in [Callers -> Calls]
  BY DEF HeapIndInv
<1> PICK r : r = [NoCall EXCEPT !.pc = "find", !.asked = n, !.old = p,
                                !.size = AlignUp(n), !.cur = kernel_heap_lh]
  OBVIOUS
<1>4. call' = [call EXCEPT ![a] = r]
  BY DEF Enter
<1>5. /\ r.pc = "find" /\ r.asked = n /\ r.old = p /\ r.size = AlignUp(n)
      /\ r.cur = kernel_heap_lh
  BY DEF NoCall
<1>6. r \in Calls
  <2>1. p \in Nat
    BY <1>2 DEF NULL
  <2> QED BY <1>1, <1>2, <2>1 DEF NoCall, NULL, Calls
<1>7. r.mapped = 0
  BY DEF NoCall
<1> QED BY <1>1, <1>2, <1>3, <1>4, <1>5, <1>6, <1>7 DEF CallOK

\* A call moves on, and keeps what it knows.
LEMMA GotoCall ==
    ASSUME HeapIndInv, NEW a \in Callers, NEW l \in {"create", "take", "map", "store", "brk"},
           Goto(a, l)
    PROVE  /\ call' \in [Callers -> Calls]
           /\ \A b \in Callers \ {a} : call'[b] = call[b]
           /\ call'[a].pc = l
           /\ call'[a].asked = call[a].asked /\ call'[a].size = call[a].size
           /\ call'[a].cur = call[a].cur /\ call'[a].old = call[a].old
           /\ call'[a].hdr = call[a].hdr /\ call'[a].pages = call[a].pages
           /\ call'[a].start = call[a].start /\ call'[a].mapped = call[a].mapped
<1>1. call \in [Callers -> Calls] /\ call[a] \in Calls
  BY DEF HeapIndInv
<1>2. call' = [call EXCEPT ![a] = [call[a] EXCEPT !.pc = l]]
  BY DEF Goto
<1>3. [call[a] EXCEPT !.pc = l] \in Calls
  BY <1>1 DEF Calls
<1> QED BY <1>1, <1>2, <1>3 DEF Calls

\* kmalloc answers a block or NULL; the caller is idle, or copies.
LEMMA AnswerCall ==
    ASSUME HeapIndInv, NEW a \in Callers, NEW h \in Nat, Answer(a, h)
    PROVE  /\ call' \in [Callers -> Calls]
           /\ \A b \in Callers \ {a} : call'[b] = call[b] /\ held'[b] = held[b]
           /\ \/ /\ call[a].old # NULL /\ held' = held
                 /\ call'[a].pc = "copy" /\ call'[a].cur = h
                 /\ call'[a].asked = call[a].asked /\ call'[a].size = call[a].size
                 /\ call'[a].old = call[a].old
              \/ /\ call[a].old = NULL /\ call'[a] = NoCall
                 /\ held'[a] = IF h = NULL THEN held[a]
                               ELSE held[a] \cup {[ptr |-> h, asked |-> call[a].asked]}
                 /\ held' = [b \in Callers |-> held'[b]]
<1>1. call \in [Callers -> Calls] /\ call[a] \in Calls /\ held = [b \in Callers |-> held[b]]
  BY DEF HeapIndInv
<1>2. NoCall \in Calls
  BY DEF NoCall, Calls, NULL
<1>3. CASE call[a].old # NULL
  <2>1. /\ call' = [call EXCEPT ![a] = [call[a] EXCEPT !.pc = "copy", !.cur = h]]
        /\ held' = held
    BY <1>3 DEF Answer
  <2>2. [call[a] EXCEPT !.pc = "copy", !.cur = h] \in Calls
    BY <1>1 DEF Calls
  <2> QED BY <1>1, <1>3, <2>1, <2>2 DEF Calls
<1>4. CASE call[a].old = NULL
  <2>1. /\ call' = [call EXCEPT ![a] = NoCall]
        /\ held' = IF h = NULL THEN held
                   ELSE [held EXCEPT ![a] = @ \cup {[ptr |-> h, asked |-> call[a].asked]}]
    BY <1>4 DEF Answer
  <2> QED BY <1>1, <1>2, <1>4, <2>1
<1> QED BY <1>3, <1>4

\* The call and the pointers are well formed after an answer.
LEMMA AnswerOK ==
    ASSUME HeapIndInv, NEW a \in Callers, NEW h \in Blocks \cup {NULL}, h \in Nat,
           Answer(a, h)
    PROVE  /\ CallOK(call'[a]) /\ call'[a].pc \in {"idle", "copy"}
           /\ held' \in [Callers -> SUBSET [ptr : Blocks, asked : Nat]]
<1>1. /\ CallOK(call[a]) /\ call[a] \in Calls /\ call'[a] \in Calls
      /\ held \in [Callers -> SUBSET [ptr : Blocks, asked : Nat]]
  BY AnswerCall DEF HeapIndInv
<1>2. CASE /\ call[a].old # NULL /\ held' = held
           /\ call'[a].pc = "copy" /\ call'[a].cur = h
           /\ call'[a].asked = call[a].asked /\ call'[a].size = call[a].size
           /\ call'[a].old = call[a].old
  BY <1>1, <1>2 DEF CallOK
<1>3. CASE /\ call[a].old = NULL /\ call'[a] = NoCall
           /\ held'[a] = IF h = NULL THEN held[a]
                         ELSE held[a] \cup {[ptr |-> h, asked |-> call[a].asked]}
           /\ held' = [b \in Callers |-> held'[b]]
  <2>1. call'[a].pc = "idle" /\ CallOK(call'[a])
    <3>1. /\ call'[a].pc = "idle" /\ call'[a].cur = NULL /\ call'[a].old = NULL
          /\ call'[a].asked = 0 /\ call'[a].size = 0
      BY <1>3 DEF NoCall
    <3>2. LIMIT + 0 + HDR + PAGE <= WORD
      BY <1>1, Positive DEF CallOK, Calls
    <3> QED BY <1>1, <3>1, <3>2 DEF CallOK
  <2>2. \A b \in Callers : held'[b] \in SUBSET [ptr : Blocks, asked : Nat]
    <3>1. held'[a] \in SUBSET [ptr : Blocks, asked : Nat]
      BY <1>1, <1>3 DEF Calls
    <3> QED BY <1>1, <3>1, AnswerCall
  <2> QED BY <1>3, <2>1, <2>2
<1> QED BY <1>2, <1>3, AnswerCall

\* Nothing about the blocks has changed.
LEMMA BlocksKept ==
    ASSUME HeapIndInv, UNCHANGED header
    PROVE  SameBlocks
BY DEF HeapIndInv, SameBlocks

\* The free flag of a block is written.
LEMMA FlagWritten ==
    ASSUME HeapIndInv, NEW h, NEW v \in BOOLEAN, header' = [header EXCEPT ![h].free = v]
    PROVE  SameBlocks
<1>1. header \in [Blocks -> Headers] /\ header' = [header EXCEPT ![h] = [header[h] EXCEPT !.free = v]]
  BY DEF HeapIndInv
<1>2. CASE h \in Blocks
  <2>1. [header[h] EXCEPT !.free = v] \in Headers
    BY <1>1, <1>2 DEF Headers
  <2> QED BY <1>1, <1>2, <2>1 DEF SameBlocks, Headers
<1>3. CASE h \notin Blocks
  BY <1>1, <1>3 DEF SameBlocks
<1> QED BY <1>2, <1>3

\* Headers lie on pages, and their addresses are numbers.
LEMMA BlocksAreNat ==
    ASSUME HeapIndInv
    PROVE  Blocks \subseteq Nat /\ \A h \in Blocks : h # NULL
<1>1. \A h \in Blocks : OnGrid(h)
  BY DEF HeapIndInv, Listed, NoHeap
<1>2. ASSUME NEW h \in Blocks PROVE h \in Nat /\ BASE <= h
  BY <1>1, GridApart
<1> QED BY <1>2, Positive DEF NULL

\* kmalloc and krealloc begin.
LEMMA EnterStep ==
    ASSUME SizesFit, HeapIndInv, NEW a \in Callers, Kmalloc(a) \/ Krealloc(a)
    PROVE  HeapIndInv'
<1> SUFFICES ASSUME NEW n \in Nat, LIMIT + n + ALIGN + HDR + PAGE <= WORD,
                    NEW p \in Blocks \cup {NULL}, Enter(a, n, p)
             PROVE  HeapIndInv'
  <2>1. CASE Kmalloc(a)
    <3>1. PICK n \in Sizes \ {0} : Enter(a, n, NULL)
      BY <2>1 DEF Kmalloc
    <3>2. n \in Nat /\ LIMIT + n + ALIGN + HDR + PAGE <= WORD
      BY HeapAssumption, Positive DEF SizesFit
    <3> QED BY <3>1, <3>2
  <2>2. CASE Krealloc(a)
    <3>1. PICK b \in held[a] : \E n \in Sizes :
              Enter(a, IF n = 0 THEN header[b.ptr].size ELSE n, b.ptr)
      BY <2>2 DEF Krealloc
    <3>2. PICK n \in Sizes : Enter(a, IF n = 0 THEN header[b.ptr].size ELSE n, b.ptr)
      BY <3>1
    <3>3. b.ptr \in Blocks
      BY DEF HeapIndInv
    <3>4. CASE n # 0
      <4>1. n \in Nat /\ LIMIT + n + ALIGN + HDR + PAGE <= WORD
        BY HeapAssumption, Positive DEF SizesFit
      <4> QED BY <3>2, <3>3, <3>4, <4>1
    <3>5. CASE n = 0
      <4> PICK k : k = header[b.ptr].size
        OBVIOUS
      <4>1. k \in Nat /\ OnGrid(b.ptr) /\ b.ptr + HDR + k <= LIMIT
        BY <3>3 DEF HeapIndInv, Listed, NoHeap, Headers
      <4>2. BASE <= b.ptr /\ b.ptr \in Nat
        BY <4>1, GridApart
      <4>3. k \in 0 .. (LIMIT - BASE)
        BY <4>1, <4>2, Positive
      <4>4. LIMIT + k + ALIGN + HDR + PAGE <= WORD
        BY <4>3, <3>5 DEF SizesFit
      <4> QED BY <3>2, <3>3, <3>5, <4>1, <4>4
    <3> QED BY <3>4, <3>5
  <2> QED BY <2>1, <2>2
<1>1. /\ kernel_heap_brk # NULL /\ call[a].pc = "idle"
      /\ UNCHANGED <<pmmvars, header, kernel_heap_lh, kernel_heap_brk, pte, held>>
  BY DEF Kmalloc, Krealloc, At, MayRun
<1>2. Bits' = Bits
  BY <1>1 DEF Bits, pmmvars
<1>3. /\ call' \in [Callers -> Calls] /\ CallOK(call'[a])
      /\ \A b \in Callers \ {a} : call'[b] = call[b]
      /\ call'[a].pc = "find"
  BY <1>1, EnterCall
<1> QED BY <1>1, <1>2, <1>3, BlocksKept, QuietStep DEF Building, HeapIndInv

\* kfree.
LEMMA KfreeStep ==
    ASSUME HeapIndInv, NEW a \in Callers, Kfree(a)
    PROVE  HeapIndInv'
<1>1. PICK b \in held[a] : /\ header' = [header EXCEPT ![b.ptr].free = TRUE]
                           /\ held' = [held EXCEPT ![a] = @ \ {b}]
  BY DEF Kfree
<1>2. /\ kernel_heap_brk # NULL /\ call[a].pc = "idle"
      /\ UNCHANGED <<pmmvars, kernel_heap_lh, kernel_heap_brk, pte, call>>
  BY DEF Kfree, At, MayRun
<1>3. Bits' = Bits
  BY <1>2 DEF Bits, pmmvars
<1>4. SameBlocks
  BY <1>1, FlagWritten
<1>5. held' \in [Callers -> SUBSET [ptr : Blocks, asked : Nat]]
  BY <1>1 DEF HeapIndInv
<1> QED BY <1>2, <1>3, <1>4, <1>5, QuietStep DEF Building, HeapIndInv

\* find_free_heap_header.
LEMMA FindStep ==
    ASSUME HeapIndInv, NEW a \in Callers, FindFreeHeapHeader(a)
    PROVE  HeapIndInv'
<1>1. /\ kernel_heap_brk # NULL /\ call[a].pc = "find"
      /\ UNCHANGED <<pmmvars, header, kernel_heap_lh, kernel_heap_brk, pte, held>>
  BY DEF FindFreeHeapHeader, At, MayRun
<1>2. Bits' = Bits
  BY <1>1 DEF Bits, pmmvars
<1>3. CallOK(call[a]) /\ call[a] \in Calls /\ call \in [Callers -> Calls]
  BY DEF HeapIndInv
<1>4. /\ call' \in [Callers -> Calls]
      /\ \A b \in Callers \ {a} : call'[b] = call[b]
      /\ call'[a].pc \in {"create", "take", "find"}
      /\ call'[a].asked = call[a].asked /\ call'[a].size = call[a].size
      /\ call'[a].cur \in Blocks \cup {NULL} /\ call'[a].old = call[a].old
      /\ call'[a].mapped = 0
  <2>0. call[a].mapped = 0
    BY <1>1, <1>3 DEF CallOK
  <2>1. CASE Goto(a, "create")
    BY <1>3, <2>0, <2>1, GotoCall DEF CallOK
  <2>2. CASE Goto(a, "take")
    BY <1>3, <2>0, <2>2, GotoCall DEF CallOK
  <2>3. CASE call[a].cur # NULL /\ call' = [call EXCEPT ![a].cur = header[call[a].cur].next]
    <3> PICK n : n = header[call[a].cur].next
      OBVIOUS
    <3>1. call[a].cur \in Blocks
      BY <1>3, <2>3 DEF CallOK
    <3>2. n \in Blocks \cup {NULL}
      BY <1>1, <3>1 DEF HeapIndInv, Listed
    <3>3. n \in Nat
      BY <3>2, BlocksAreNat DEF NULL
    <3>4. call' = [call EXCEPT ![a] = [call[a] EXCEPT !.cur = n]]
      BY <2>3
    <3>5. [call[a] EXCEPT !.cur = n] \in Calls
      BY <1>3, <3>3 DEF Calls
    <3> QED BY <1>1, <1>3, <2>0, <3>2, <3>4, <3>5 DEF Calls
  <2> QED BY <2>1, <2>2, <2>3 DEF FindFreeHeapHeader
<1>5. CallOK(call'[a])
  BY <1>3, <1>4 DEF CallOK
<1> QED BY <1>1, <1>2, <1>4, <1>5, BlocksKept, QuietStep DEF Building, HeapIndInv

\* kmalloc takes the block it found.
LEMMA TakeStep ==
    ASSUME HeapIndInv, NEW a \in Callers, Take(a)
    PROVE  HeapIndInv'
<1>1. /\ kernel_heap_brk # NULL /\ call[a].pc = "take"
      /\ UNCHANGED <<pmmvars, kernel_heap_lh, kernel_heap_brk, pte>>
      /\ header' = [header EXCEPT ![call[a].cur].free = FALSE]
      /\ Answer(a, call[a].cur)
  BY DEF Take, At, MayRun
<1>2. Bits' = Bits
  BY <1>1 DEF Bits, pmmvars
<1>3. PICK h \in Blocks \cup {NULL} : h = call[a].cur
  BY DEF HeapIndInv, CallOK
<1>4. h \in Nat
  BY BlocksAreNat DEF NULL
<1>5. SameBlocks
  BY <1>1, FlagWritten
<1>6. Answer(a, h)
  BY <1>1, <1>3
<1> QED BY <1>1, <1>2, <1>4, <1>5, <1>6, AnswerCall, AnswerOK, QuietStep
        DEF Building, HeapIndInv

\* Where NoRoom finds room there are whole pages for the data and its header.
LEMMA RoomIsRoom ==
    ASSUME HeapIndInv, kernel_heap_brk # NULL, NEW n \in Nat,
           LIMIT + n + HDR + PAGE <= WORD, ~NoRoom(n)
    PROVE  /\ PagesToGet(n) \in Nat \ {0} /\ n + HDR <= PAGE * PagesToGet(n)
           /\ kernel_heap_brk + PAGE * PagesToGet(n) <= LIMIT
<1>1. OnGrid(kernel_heap_brk) /\ kernel_heap_brk <= LIMIT
  BY DEF HeapIndInv, Built
<1>2. kernel_heap_brk \in Nat
  BY <1>1, GridApart
<1> PICK b : b = kernel_heap_brk + n + HDR
  OBVIOUS
<1>3. b \in Nat /\ b < WORD
  BY <1>1, <1>2, Positive
<1>4. b % WORD = b
  BY <1>3, Positive
<1>5. kernel_heap_brk + n + HDR <= LIMIT
  BY <1>3, <1>4, Positive DEF NoRoom
<1>6. n + HDR + PAGE <= WORD
  BY Positive
<1> QED BY <1>1, <1>5, <1>6, PagesCover

\* create_heap_header reads the break, and gives up or asks for frames.
LEMMA CreateStep ==
    ASSUME HeapIndInv, NEW a \in Callers, CreateHeapHeader(a)
    PROVE  HeapIndInv'
<1>1. /\ kernel_heap_brk # NULL /\ call[a].pc = "create"
      /\ UNCHANGED <<pmmvars, header, kernel_heap_lh, kernel_heap_brk, pte>>
  BY DEF CreateHeapHeader, At, MayRun
<1>2. Bits' = Bits
  BY <1>1 DEF Bits, pmmvars
<1>3. CASE Answer(a, NULL)
  <2>1. NULL \in Nat
    BY DEF NULL
  <2> QED BY <1>1, <1>2, <1>3, <2>1, BlocksKept, AnswerCall, AnswerOK, QuietStep
          DEF Building, HeapIndInv
<1>4. CASE ~Answer(a, NULL)
  <2> PICK n : n = call[a].size
    OBVIOUS
  <2> PICK p : p = PagesToGet(n)
    OBVIOUS
  <2>1. /\ ~NoRoom(n) /\ held' = held
        /\ call' = [call EXCEPT ![a].pc = "search", ![a].hdr = kernel_heap_brk,
                                ![a].pages = p]
    BY <1>4 DEF CreateHeapHeader
  <2>2. /\ CallOK(call[a]) /\ call[a] \in Calls /\ call \in [Callers -> Calls]
        /\ n \in Nat /\ LIMIT + n + HDR + PAGE <= WORD
        /\ OnGrid(kernel_heap_brk) /\ kernel_heap_brk <= LIMIT /\ call[a].mapped = 0
    BY <1>1 DEF HeapIndInv, CallOK, Built, Calls
  <2>3. kernel_heap_brk \in Nat
    BY <2>2, GridApart
  <2>4. p \in Nat \ {0} /\ kernel_heap_brk + PAGE * p <= LIMIT
    BY <1>1, <2>1, <2>2, RoomIsRoom
  <2> PICK c : c = [call[a] EXCEPT !.pc = "search", !.hdr = kernel_heap_brk, !.pages = p]
    OBVIOUS
  <2>5. call' = [call EXCEPT ![a] = c]
    BY <2>1
  <2>6. /\ c \in Calls /\ c.pc = "search" /\ c.hdr = kernel_heap_brk /\ c.pages = p
        /\ c.cur = call[a].cur /\ c.old = call[a].old /\ c.mapped = 0
        /\ c.asked = call[a].asked /\ c.size = call[a].size
    BY <2>2, <2>3, <2>4 DEF Calls
  <2>7. CallOK(c)
    BY <2>2, <2>3, <2>4, <2>6 DEF CallOK
  <2>8. /\ call' \in [Callers -> Calls] /\ call'[a] = c
         /\ \A b \in Callers \ {a} : call'[b] = call[b]
    BY <2>2, <2>5, <2>6
  <2> QED BY <1>1, <1>2, <2>1, <2>6, <2>7, <2>8, BlocksKept, QuietStep
          DEF Building, HeapIndInv
<1> QED BY <1>3, <1>4

\* The search of kpmm_alloc_pages, which may panic.
LEMMA SearchStep ==
    ASSUME HeapIndInv, NEW a \in Callers, SearchFrames(a)
    PROVE  HeapIndInv'
<1>1. /\ kernel_heap_brk # NULL /\ call[a].pc = "search"
      /\ UNCHANGED <<kpmm_bitmap, header, kernel_heap_lh, kernel_heap_brk, pte>>
  BY DEF SearchFrames, At, MayRun
<1>2. Bits' = Bits
  BY <1>1 DEF Bits
<1>3. CASE Answer(a, NULL)
  <2>1. NULL \in Nat
    BY DEF NULL
  <2> QED BY <1>1, <1>2, <1>3, <2>1, BlocksKept, AnswerCall, AnswerOK, QuietStep
          DEF Building, HeapIndInv
<1>4. CASE UNCHANGED <<call, held>>
  BY <1>1, <1>2, <1>4, BlocksKept, QuietStep DEF Building, HeapIndInv
<1>5. CASE ~Answer(a, NULL) /\ ~UNCHANGED <<call, held>>
  <2> PICK n : n = call[a].pages
    OBVIOUS
  <2> PICK s : s = GetNContinuous(n)
    OBVIOUS
  <2>1. Runs(n) # {} /\ call' = [call EXCEPT ![a].pc = "mark", ![a].start = s] /\ held' = held
    BY <1>5 DEF SearchFrames
  <2>2. CallOK(call[a]) /\ call[a] \in Calls /\ call \in [Callers -> Calls] /\ Bits \subseteq Nat
    BY DEF HeapIndInv
  <2>3. Runs(n) \subseteq Nat
    BY <2>2 DEF Runs
  <2>4. s \in Nat
    BY <2>1, <2>3, MinIn DEF GetNContinuous
  <2> PICK c : c = [call[a] EXCEPT !.pc = "mark", !.start = s]
    OBVIOUS
  <2>5. call' = [call EXCEPT ![a] = c]
    BY <2>1
  <2>6. /\ c \in Calls /\ c.pc = "mark" /\ c.hdr = call[a].hdr /\ c.pages = call[a].pages
        /\ c.cur = call[a].cur /\ c.old = call[a].old /\ c.mapped = call[a].mapped
        /\ c.asked = call[a].asked /\ c.size = call[a].size
    BY <2>2, <2>4 DEF Calls
  <2>7. CallOK(c)
    BY <1>1, <2>2, <2>6 DEF CallOK
  <2>8. /\ call' \in [Callers -> Calls] /\ call'[a] = c
        /\ \A b \in Callers \ {a} : call'[b] = call[b]
    BY <2>2, <2>5, <2>6
  <2> QED BY <1>1, <1>2, <2>1, <2>6, <2>7, <2>8, BlocksKept, QuietStep
          DEF Building, HeapIndInv
<1> QED BY <1>3, <1>4, <1>5

\* The stores of kpmm_alloc_pages.
LEMMA MarkStep ==
    ASSUME HeapIndInv, NEW a \in Callers, MarkFrames(a)
    PROVE  HeapIndInv'
<1>1. /\ kernel_heap_brk # NULL /\ call[a].pc = "mark" /\ Goto(a, "map")
      /\ UNCHANGED <<header, kernel_heap_lh, kernel_heap_brk, pte, held>>
      /\ Bits' = Bits
  BY DEF MarkFrames, SetValue, Bits, At, MayRun
<1>2. CallOK(call[a]) /\ call[a].mapped = 0 /\ call[a].pages \in Nat \ {0}
  BY <1>1 DEF HeapIndInv, CallOK, Calls
<1>3. CallOK(call'[a]) /\ call'[a].mapped = 0 /\ call'[a].pc = "map"
  BY <1>1, <1>2, GotoCall DEF CallOK
<1> QED BY <1>1, <1>3, GotoCall, BlocksKept, QuietStep DEF Building, HeapIndInv

\* The second half of krealloc.
LEMMA CopyStep ==
    ASSUME HeapIndInv, NEW a \in Callers, KreallocCopy(a)
    PROVE  HeapIndInv'
<1>1. /\ kernel_heap_brk # NULL /\ call[a].pc = "copy"
      /\ UNCHANGED <<pmmvars, kernel_heap_lh, kernel_heap_brk, pte>>
  BY DEF KreallocCopy, At, MayRun
<1>2. Bits' = Bits
  BY <1>1 DEF Bits, pmmvars
<1>3. CASE UNCHANGED <<header, call, held>>
  BY <1>1, <1>2, <1>3, BlocksKept, QuietStep DEF Building, HeapIndInv
<1>4. CASE ~UNCHANGED <<header, call, held>>
  <2>1. /\ header' = [header EXCEPT ![call[a].old].free = TRUE]
        /\ held' = [held EXCEPT ![a] =
               {b \in @ : b.ptr # call[a].old} \cup
               (IF call[a].cur = NULL THEN {}
                ELSE {[ptr |-> call[a].cur, asked |-> call[a].asked]})]
        /\ call' = [call EXCEPT ![a] = NoCall]
    BY <1>4 DEF KreallocCopy
  <2>2. /\ CallOK(call[a]) /\ call[a] \in Calls /\ call \in [Callers -> Calls]
        /\ held \in [Callers -> SUBSET [ptr : Blocks, asked : Nat]]
    BY DEF HeapIndInv
  <2>3. NoCall \in Calls
    BY DEF NoCall, Calls, NULL
  <2>4. LIMIT + 0 + HDR + PAGE <= WORD
    BY <2>2, Positive DEF CallOK, Calls
  <2>5. CallOK(NoCall)
    BY <2>3, <2>4 DEF CallOK, NoCall
  <2>6. /\ call' \in [Callers -> Calls] /\ call'[a] = NoCall
        /\ \A b \in Callers \ {a} : call'[b] = call[b]
    BY <2>1, <2>2, <2>3
  <2>7. held' \in [Callers -> SUBSET [ptr : Blocks, asked : Nat]]
    <3>1. held'[a] \in SUBSET [ptr : Blocks, asked : Nat]
      BY <2>1, <2>2 DEF CallOK, Calls
    <3> QED BY <2>1, <2>2, <3>1
  <2>8. NoCall.pc = "idle"
    BY DEF NoCall
  <2> QED BY <1>1, <1>2, <2>1, <2>5, <2>6, <2>7, <2>8, FlagWritten, QuietStep
          DEF Building, HeapIndInv
<1> QED BY <1>3, <1>4

\* The pages of a range.
LEMMA GridRange ==
    ASSUME NEW x, OnGrid(x), NEW p \in Nat, NEW v
    PROVE  v \in {x + i * PAGE : i \in 0 .. (p - 1)} <=>
               OnGrid(v) /\ x <= v /\ v < x + PAGE * p
<1>1. x \in Nat /\ PAGE * p = p * PAGE /\ p * PAGE \in Nat
  BY GridApart, GridMoves
<1>2. ASSUME NEW i \in 0 .. (p - 1), v = x + i * PAGE
      PROVE  OnGrid(v) /\ x <= v /\ v < x + PAGE * p
  <2>1. i \in Nat /\ i < p
    OBVIOUS
  <2>2. i * PAGE \in Nat /\ i * PAGE + PAGE <= p * PAGE
    BY <2>1, Positive, Times
  <2>3. OnGrid(v)
    BY <1>2, <2>1, GridMoves
  <2> QED BY <1>1, <1>2, <2>2, <2>3, Positive
<1>3. ASSUME OnGrid(v), x <= v, v < x + PAGE * p
      PROVE  \E i \in 0 .. (p - 1) : v = x + i * PAGE
  <2>1. PICK k \in Nat : x = BASE + k * PAGE
    BY DEF OnGrid
  <2>2. PICK j \in Nat : v = BASE + j * PAGE
    BY <1>3 DEF OnGrid
  <2>3. k * PAGE \in Nat /\ j * PAGE \in Nat
    BY Positive, Times
  <2>4. k <= j
    <3> SUFFICES ASSUME j < k PROVE FALSE
      OBVIOUS
    <3>1. j * PAGE + PAGE <= k * PAGE
      BY Positive, Times
    <3> QED BY <1>3, <2>1, <2>2, <2>3, <3>1, Positive
  <2> PICK i \in Nat : j = k + i
    <3>1. j - k \in Nat /\ j = k + (j - k)
      BY <2>4
    <3> QED BY <3>1
  <2>5. j * PAGE = k * PAGE + i * PAGE /\ i * PAGE \in Nat
    BY Positive, Times
  <2>6. v = x + i * PAGE
    BY <2>1, <2>2, <2>3, <2>5, Positive
  <2>7. i < p
    <3> SUFFICES ASSUME p <= i PROVE FALSE
      OBVIOUS
    <3>1. p * PAGE <= i * PAGE
      <4>1. CASE p = i
        BY <4>1, <2>5
      <4>2. CASE p < i
        <5>1. p * PAGE + PAGE <= i * PAGE
          BY <4>2, Positive, Times
        <5> QED BY <5>1, <1>1, <2>5, Positive
      <4> QED BY <4>1, <4>2
    <3> QED BY <1>1, <1>3, <2>5, <2>6, <3>1
  <2> QED BY <2>6, <2>7
<1> QED BY <1>2, <1>3

\* How far the heap is mapped.
LEMMA MappedUpTo ==
    ASSUME HeapIndInv, kernel_heap_brk # NULL
    PROVE  \E e \in Nat : /\ Mapped(e) /\ kernel_heap_brk <= e
                          /\ (\A b \in Callers : ~Building(b)) => e = kernel_heap_brk
                          /\ (\E b \in Callers : Building(b)) => kernel_heap_brk < e
<1>1. Built /\ kernel_heap_brk \in Nat
  BY GridApart DEF HeapIndInv, Built
<1>2. CASE \A b \in Callers : ~Building(b)
  BY <1>1, <1>2 DEF Built
<1>3. ASSUME NEW b \in Callers, Building(b)
      PROVE  \E e \in Nat : Mapped(e) /\ kernel_heap_brk < e
  <2> PICK p : p = call[b].mapped
    OBVIOUS
  <2>1. p \in Nat \ {0}
    BY <1>3 DEF HeapIndInv, CallOK, Calls, Building
  <2>2. PAGE * p \in Nat \ {0}
    BY <2>1, Positive
  <2>3. Mapped(kernel_heap_brk + PAGE * p)
    BY <1>1, <1>3 DEF Built
  <2> QED BY <1>1, <2>2, <2>3
<1> QED BY <1>1, <1>2, <1>3

\* The page a call is at is the one behind those it has mapped at the break, or
\* its first.
LEMMA DuePage ==
    ASSUME HeapIndInv, kernel_heap_brk # NULL, NEW a \in Callers,
           call[a].pc \in {"map", "store"}, PageDue(call[a]) \notin DOMAIN pte
    PROVE  /\ call[a].hdr = kernel_heap_brk /\ PageDue(call[a]) = kernel_heap_brk + PAGE * call[a].mapped
           /\ Mapped(PageDue(call[a]))
           /\ \A b \in Callers : Building(b) => b = a
<1> PICK c : c = call[a]
  OBVIOUS
<1>1. Built
  BY DEF HeapIndInv
<1>2. CASE Building(a)
  <2>1. c.hdr = kernel_heap_brk /\ Mapped(kernel_heap_brk + PAGE * c.mapped)
    BY <1>1, <1>2 DEF Built
  <2> QED BY <1>1, <1>2, <2>1 DEF Built, PageDue
<1>3. CASE ~Building(a)
  <2>1. OnGrid(c.hdr) /\ c.hdr <= kernel_heap_brk /\ c.mapped = 0
    BY <1>3 DEF HeapIndInv, CallOK, Calls, Building
  <2>2. c.hdr \in Nat /\ OnGrid(kernel_heap_brk) /\ kernel_heap_brk \in Nat
    BY <1>1, <2>1, GridApart DEF Built
  <2>3. PAGE * 0 = 0
    BY Positive
  <2>4. PageDue(c) = c.hdr
    BY <2>1, <2>2, <2>3 DEF PageDue
  <2>5. PICK e \in Nat : /\ Mapped(e) /\ kernel_heap_brk <= e
                         /\ (\A b \in Callers : ~Building(b)) => e = kernel_heap_brk
                         /\ (\E b \in Callers : Building(b)) => kernel_heap_brk < e
    BY MappedUpTo
  <2>6. ~(c.hdr < e)
    BY <2>1, <2>4, <2>5 DEF Mapped
  <2>7. c.hdr = kernel_heap_brk /\ ~(kernel_heap_brk < e)
    BY <2>1, <2>2, <2>5, <2>6
  <2>8. \A b \in Callers : ~Building(b)
    BY <2>5, <2>7
  <2>9. e = kernel_heap_brk /\ kernel_heap_brk + PAGE * c.mapped = c.hdr
    BY <2>1, <2>2, <2>3, <2>5, <2>7, <2>8
  <2> QED BY <2>4, <2>5, <2>7, <2>8, <2>9
<1> QED BY <1>2, <1>3

\* The test of kvmm_map_page.  Once the first page was absent none that follows
\* is present.
LEMMA TestStep ==
    ASSUME HeapIndInv, NEW a \in Callers, TestPage(a)
    PROVE  HeapIndInv'
<1> PICK c : c = call[a]
  OBVIOUS
<1>1. /\ kernel_heap_brk # NULL /\ c.pc = "map" /\ Blocks' = Blocks
      /\ UNCHANGED <<pmmvars, header, kernel_heap_lh, kernel_heap_brk, pte>>
      /\ IF Present(c) THEN Answer(a, NULL) ELSE Goto(a, "store") /\ UNCHANGED held
  BY DEF TestPage, At, MayRun, Blocks
<1>2. Bits' = Bits
  BY <1>1 DEF Bits, pmmvars
<1>3. CallOK(c) /\ c \in Calls
  BY DEF HeapIndInv
<1>4. CASE Present(c)
  <2>1. ~Building(a)
    <3> SUFFICES ASSUME Building(a) PROVE FALSE
      OBVIOUS
    <3>1. c.hdr = kernel_heap_brk /\ Mapped(kernel_heap_brk + PAGE * c.mapped)
      BY <1>1 DEF HeapIndInv, Built
    <3>2. Mapped(PageDue(c)) /\ PageDue(c) \in DOMAIN pte
      BY <1>4, <3>1 DEF PageDue, Present
    <3>3. PageDue(c) < PageDue(c) /\ OnGrid(PageDue(c))
      BY <3>2 DEF Mapped
    <3>4. PageDue(c) \in Nat
      BY <3>3, GridApart
    <3> QED BY <3>3, <3>4
  <2>2. NULL \in Nat
    BY DEF NULL
  <2>3. Answer(a, NULL)
    BY <1>1, <1>4
  <2>4. call'[a].pc \in {"idle", "copy"} /\ CallOK(call'[a])
        /\ held' \in [Callers -> SUBSET [ptr : Blocks, asked : Nat]]
    BY <2>2, <2>3, AnswerOK
  <2>5. call' \in [Callers -> Calls] /\ \A b \in Callers \ {a} : call'[b] = call[b]
    BY <2>2, <2>3, AnswerCall
  <2>6. ~Building(a)'
    BY <2>4 DEF Building
  <2> QED BY <1>1, <1>2, <2>1, <2>4, <2>5, <2>6, BlocksKept, QuietStep DEF HeapIndInv
<1>5. CASE ~Present(c)
  <2>1. Goto(a, "store") /\ held' = held
    BY <1>1, <1>5
  <2>2. /\ call' \in [Callers -> Calls]
        /\ \A b \in Callers \ {a} : call'[b] = call[b]
        /\ call'[a].pc = "store"
        /\ call'[a].asked = c.asked /\ call'[a].size = c.size
        /\ call'[a].cur = c.cur /\ call'[a].old = c.old
        /\ call'[a].hdr = c.hdr /\ call'[a].pages = c.pages
        /\ call'[a].mapped = c.mapped
    BY <2>1, GotoCall
  <2>3. CallOK(call'[a])
    <3>1. call'[a] \in Calls /\ PageDue(call'[a]) \notin DOMAIN pte
      BY <1>5, <2>2 DEF Present, PageDue
    <3> QED BY <1>1, <1>3, <2>2, <3>1 DEF CallOK
  <2>4. \A b \in Callers : CallOK(call'[b])
    BY <2>2, <2>3 DEF HeapIndInv
  <2>5. \A b \in Callers : CallOK(call[b])'
    BY <1>1, <2>4 DEF CallOK, PageDue
  <2>6. /\ \A b \in Callers : Building(b)' <=> Building(b)
        /\ \A b \in Callers : call'[b].pc = "brk" => call[b].pc = "brk" /\ b # a
        /\ \A b \in Callers : call[b].pc = "brk" => call'[b].pc = "brk"
    BY <1>1, <2>2 DEF Building
  <2>7. Built'
    <3>1. \A e : Mapped(e)' <=> Mapped(e)
      BY <1>1 DEF Mapped
    <3>2. \A b \in Callers : call'[b].hdr = call[b].hdr /\ call'[b].mapped = call[b].mapped
      BY <2>2
    <3> QED BY <1>1, <2>6, <3>1, <3>2 DEF Built, HeapIndInv
  <2>8. Listed'
    <3>1. Listed
      BY <1>1 DEF HeapIndInv
    <3> QED BY <1>1, <2>2, <2>6, <3>1 DEF Listed
  <2> QED BY <1>1, <1>2, <2>1, <2>2, <2>5, <2>7, <2>8 DEF HeapIndInv
<1> QED BY <1>4, <1>5

\* The stores of kvmm_map_page, while no other call that found the page absent
\* stores it.
LEMMA StoreStep ==
    ASSUME HeapIndInv, NEW a \in Callers, StorePage(a), ~clash'
    PROVE  HeapIndInv'
<1> PICK c : c = call[a]
  OBVIOUS
<1> PICK m : m = c.mapped + 1
  OBVIOUS
<1> PICK v : v = PageDue(c)
  OBVIOUS
<1> PICK l : l = IF m = c.pages THEN "link" ELSE "map"
  OBVIOUS
<1>1. /\ kernel_heap_brk # NULL /\ c.pc = "store" /\ Blocks' = Blocks
      /\ UNCHANGED <<pmmvars, header, kernel_heap_lh, kernel_heap_brk, held>>
      /\ DOMAIN pte' = DOMAIN pte \cup {v}
      /\ call' = [call EXCEPT ![a].mapped = m, ![a].pc = l]
  BY DEF StorePage, At, MayRun, Blocks, Put
<1>2. Bits' = Bits
  BY <1>1 DEF Bits, pmmvars
<1>3. \A b \in Callers \ {a} : call[b].pc = "store" => PageDue(call[b]) # v
  BY DEF StorePage
<1>4. /\ CallOK(c) /\ c \in Calls /\ call \in [Callers -> Calls]
      /\ v \notin DOMAIN pte /\ c.mapped < c.pages
      /\ OnGrid(c.hdr) /\ c.mapped \in Nat /\ c.pages \in Nat
  BY <1>1 DEF HeapIndInv, CallOK, Calls
<1>5. /\ c.hdr = kernel_heap_brk /\ v = kernel_heap_brk + PAGE * c.mapped /\ Mapped(v)
      /\ \A b \in Callers : Building(b) => b = a
  BY <1>1, <1>4, DuePage
<1> PICK r : r = [c EXCEPT !.mapped = m, !.pc = l]
  OBVIOUS
<1>8. /\ m \in Nat /\ m # 0 /\ l \in {"link", "map"}
      /\ l = "link" => m = c.pages
      /\ l = "map" => m < c.pages
  BY <1>4
<1>6. /\ r \in Calls /\ r.pc = l /\ r.mapped = m /\ r.asked = c.asked /\ r.size = c.size
      /\ r.cur = c.cur /\ r.old = c.old /\ r.hdr = c.hdr /\ r.pages = c.pages
  BY <1>4, <1>8 DEF Calls
<1>7. /\ call' \in [Callers -> Calls] /\ call'[a] = r
      /\ \A b \in Callers \ {a} : call'[b] = call[b]
  <2>1. call' = [call EXCEPT ![a] = r]
    BY <1>1
  <2> QED BY <1>4, <1>6, <2>1
<1>9. \A b \in Callers : CallOK(call[b])'
  <2>1. CallOK(r)'
    BY <1>1, <1>4, <1>6, <1>8 DEF CallOK
  <2>2. ASSUME NEW b \in Callers \ {a} PROVE CallOK(call[b])'
    <3>1. call'[b] = call[b] /\ CallOK(call[b])
      BY <1>7 DEF HeapIndInv
    <3>2. call[b].pc = "store" => PageDue(call[b]) \notin DOMAIN pte'
      BY <1>1, <1>3, <3>1 DEF CallOK
    <3> QED BY <1>1, <3>1, <3>2 DEF CallOK, PageDue
  <2>3. CallOK(call[a])'
    BY <1>7, <2>1
  <2> QED BY <2>2, <2>3
<1>10. \A b \in Callers : Building(b)' <=> b = a
  <2>1. Building(a)'
    BY <1>6, <1>7, <1>8 DEF Building
  <2>2. \A b \in Callers \ {a} : Building(b)' <=> Building(b)
    BY <1>7 DEF Building
  <2> QED BY <1>5, <2>1, <2>2
<1>11. Built'
  <2>1. OnGrid(v) /\ v \in Nat
    <3>1. OnGrid(v)
      BY <1>4, <1>5, GridMoves
    <3> QED BY <3>1, GridApart
  <2>2. kernel_heap_brk + PAGE * m = v + PAGE
    <3>1. kernel_heap_brk \in Nat
      BY <1>4, <1>5, GridApart
    <3>2. PAGE * m = PAGE * c.mapped + PAGE /\ PAGE * c.mapped \in Nat
      BY <1>4, Positive
    <3> QED BY <1>5, <3>1, <3>2, Positive
  <2>3. ASSUME NEW w PROVE w \in DOMAIN pte' <=> OnGrid(w) /\ w < v + PAGE
    <3>1. OnGrid(w) => w \in Nat /\ (v < w => v + PAGE <= w)
      BY <2>1, GridApart
    <3>2. w \in DOMAIN pte <=> OnGrid(w) /\ w < v
      BY <1>5 DEF Mapped
    <3> QED BY <1>1, <2>1, <3>1, <3>2, Positive
  <2>4. Mapped(v + PAGE)'
    BY <2>3 DEF Mapped
  <2>5. Mapped(kernel_heap_brk + PAGE * call[a].mapped)'
    BY <1>1, <1>6, <1>7, <2>2, <2>4
  <2>6. call'[a].hdr = kernel_heap_brk'
    BY <1>1, <1>5, <1>6, <1>7
  <2> QED BY <1>1, <1>10, <2>5, <2>6 DEF Built, HeapIndInv
<1>12. Listed'
  <2>1. Listed
    BY <1>1 DEF HeapIndInv
  <2>2. \A b \in Callers : call'[b].pc = "brk" <=> call[b].pc = "brk"
    BY <1>1, <1>6, <1>7, <1>8
  <2>3. \A b \in Callers : call'[b].pc = "brk" => call'[b] = call[b]
    BY <1>6, <1>7, <1>8
  <2> QED BY <1>1, <2>1, <2>2, <2>3 DEF Listed
<1> QED BY <1>1, <1>2, <1>7, <1>9, <1>11, <1>12 DEF HeapIndInv

\* The header is written at the break and becomes the first of the list.
LEMMA LinkStep ==
    ASSUME HeapIndInv, NEW a \in Callers, LinkHeader(a)
    PROVE  HeapIndInv'
<1> PICK b : b = kernel_heap_brk
  OBVIOUS
<1> PICK p : p = call[a].pages
  OBVIOUS
<1>1. /\ kernel_heap_brk # NULL /\ call[a].pc = "link" /\ Goto(a, "brk")
      /\ UNCHANGED <<pmmvars, kernel_heap_brk, pte, held>>
      /\ kernel_heap_lh' = call[a].hdr
      /\ header' = Put(header, call[a].hdr,
                       [free |-> FALSE, size |-> BlockSize(p), next |-> kernel_heap_lh])
  BY DEF LinkHeader, At, MayRun
<1>2. Bits' = Bits
  BY <1>1 DEF Bits, pmmvars
<1>3. /\ Built /\ Listed /\ header \in [Blocks -> Headers] /\ Blocks = DOMAIN header
      /\ p \in Nat \ {0} /\ b + PAGE * p <= LIMIT /\ call[a].hdr = b
      /\ CallOK(call[a]) /\ call[a].mapped = p
  BY <1>1 DEF HeapIndInv, Built, Building, CallOK, Calls, Blocks
<1>4. /\ \A x \in Callers : call[x].pc # "brk"
      /\ \A x \in Callers : Building(x) => x = a
  BY <1>1, <1>3 DEF Built, Building
<1>5. kernel_heap_lh + HDR + header[kernel_heap_lh].size = b /\ kernel_heap_lh \in Blocks
  BY <1>3, <1>4 DEF Listed
<1>6. b \in Nat /\ OnGrid(b) /\ BASE < b
  BY <1>3, GridApart DEF Built
<1>7. \A h \in Blocks : h \in Nat /\ h < b
  <2>1. kernel_heap_lh < b
    <3>1. header[kernel_heap_lh].size \in Nat \ {0}
      BY <1>3, <1>5 DEF Headers
    <3>2. kernel_heap_lh \in Nat
      BY <1>5, BlocksAreNat
    <3> QED BY <1>5, <3>1, <3>2, Positive
  <2> QED BY <1>3, <1>5, <1>6, <2>1, BlocksAreNat DEF Listed
<1>8. PAGE * p \in Nat /\ PAGE <= PAGE * p
  BY <1>3, Positive
<1>9. BlockSize(p) \in Nat \ {0} /\ b + HDR + BlockSize(p) = b + PAGE * p
  BY <1>6, <1>8, Positive DEF BlockSize
<1> PICK new : new = [free |-> FALSE, size |-> BlockSize(p), next |-> kernel_heap_lh]
  OBVIOUS
<1>10. new \in Headers /\ new.size = BlockSize(p) /\ new.next = kernel_heap_lh
  BY <1>5, <1>7, <1>9 DEF Headers
<1>11. /\ Blocks' = Blocks \cup {b} /\ header'[b] = new
       /\ \A h \in Blocks : header'[h] = header[h]
       /\ header' \in [Blocks' -> Headers]
  BY <1>1, <1>3, <1>7, <1>10 DEF Put, Blocks
<1>12. /\ call' \in [Callers -> Calls]
       /\ \A x \in Callers \ {a} : call'[x] = call[x]
       /\ call'[a].pc = "brk" /\ call'[a].hdr = b /\ call'[a].pages = p
       /\ call'[a].mapped = p /\ CallOK(call'[a])
  BY <1>1, <1>3, GotoCall DEF CallOK
<1>13. \A x \in Callers : CallOK(call[x])'
  <2>1. \A x \in Callers : CallOK(call'[x])
    BY <1>12 DEF HeapIndInv
  <2> QED BY <1>1, <1>11, <2>1 DEF CallOK, PageDue
<1>14. Built'
  <2>1. \A x \in Callers : Building(x)' <=> x = a
    BY <1>4, <1>12 DEF Building
  <2>2. Mapped(b + PAGE * p)
    BY <1>1, <1>3 DEF Built, Building
  <2>3. Mapped(b + PAGE * p)'
    BY <1>1, <2>2 DEF Mapped
  <2>4. Mapped(kernel_heap_brk + PAGE * call[a].mapped)'
    BY <1>1, <1>12, <2>3
  <2> QED BY <1>1, <1>3, <1>12, <2>1, <2>4 DEF Built
<1>15. Listed'
  <2>1. kernel_heap_lh' = b /\ kernel_heap_brk' = b
    BY <1>1, <1>3
  <2>2. ASSUME NEW h \in Blocks'
        PROVE  /\ OnGrid(h) /\ h <= b /\ h + HDR + header'[h].size <= LIMIT
               /\ h = b \/ h + HDR + header'[h].size <= b
               /\ IF h = BASE THEN header'[h].next = NULL
                  ELSE LET n == header'[h].next
                       IN n \in Blocks' /\ n + HDR + header'[n].size = h
    <3>1. CASE h = b
      BY <1>3, <1>5, <1>6, <1>9, <1>10, <1>11, <3>1
    <3>2. CASE h \in Blocks
      <4>1. h + HDR + header[h].size <= b
        <5>1. header[h].size \in Nat /\ h \in Nat /\ kernel_heap_lh \in Nat /\ kernel_heap_lh < b
          BY <1>3, <1>5, <1>7, <3>2 DEF Headers
        <5>2. h = kernel_heap_lh \/ h + HDR + header[h].size <= kernel_heap_lh
          BY <1>3, <3>2 DEF Listed
        <5> QED BY <1>5, <1>6, <5>1, <5>2, Positive
      <4> QED BY <1>3, <1>6, <1>7, <1>11, <3>2, <4>1 DEF Listed
    <3> QED BY <3>1, <3>2, <1>11
  <2>3. \A x \in Callers : call'[x].pc = "brk" =>
            header'[kernel_heap_lh'].size = BlockSize(call'[x].pages)
    BY <1>4, <1>10, <1>11, <1>12, <2>1
  <2> QED BY <1>11, <1>12, <2>1, <2>2, <2>3 DEF Listed
<1>16. held' \in [Callers -> SUBSET [ptr : Blocks', asked : Nat]]
  BY <1>1, <1>11 DEF HeapIndInv
<1> QED BY <1>1, <1>2, <1>11, <1>12, <1>13, <1>14, <1>15, <1>16 DEF HeapIndInv

\* The break is moved behind the new block.
LEMMA MoveBreakStep ==
    ASSUME HeapIndInv, NEW a \in Callers, MoveBreak(a)
    PROVE  HeapIndInv'
<1> PICK b : b = kernel_heap_brk
  OBVIOUS
<1> PICK p : p = call[a].pages
  OBVIOUS
<1>1. /\ kernel_heap_brk # NULL /\ call[a].pc = "brk" /\ Answer(a, call[a].hdr)
      /\ UNCHANGED <<pmmvars, header, kernel_heap_lh, pte>>
      /\ kernel_heap_brk' = b + PAGE * p
  BY DEF MoveBreak, NewBreak, At, MayRun
<1>2. Bits' = Bits /\ Blocks' = Blocks
  BY <1>1 DEF Bits, Blocks, pmmvars
<1>3. /\ Built /\ Listed /\ p \in Nat \ {0} /\ b + PAGE * p <= LIMIT
      /\ call[a].hdr = b /\ kernel_heap_lh = b /\ b \in Blocks
      /\ header[b].size = BlockSize(p) /\ Mapped(b + PAGE * p)
  BY <1>1 DEF HeapIndInv, Built, Listed, Building, CallOK, Calls
<1>4. OnGrid(b) /\ b \in Nat /\ BASE < b
  BY <1>3, GridApart DEF Built
<1>5. PAGE * p \in Nat /\ OnGrid(b + PAGE * p) /\ b + HDR + BlockSize(p) = b + PAGE * p
  <2>1. PAGE * p \in Nat
    BY <1>3, Positive
  <2>2. OnGrid(b + PAGE * p)
    BY <1>3, <1>4, GridMoves
  <2> QED BY <1>4, <2>1, <2>2, Positive DEF BlockSize
<1>6. \A x \in Callers : Building(x) => x = a
  BY <1>1, <1>3 DEF Built, Building
<1>7. /\ call' \in [Callers -> Calls] /\ CallOK(call'[a])
      /\ call'[a].pc \in {"idle", "copy"}
      /\ \A x \in Callers \ {a} : call'[x] = call[x]
      /\ held' \in [Callers -> SUBSET [ptr : Blocks, asked : Nat]]
  <2>1. Answer(a, b) /\ b \in Blocks \cup {NULL}
    BY <1>1, <1>3
  <2> QED BY <1>4, <2>1, AnswerCall, AnswerOK
<1>8. \A x \in Callers : ~Building(x)' /\ call'[x].pc # "brk"
  BY <1>6, <1>7 DEF Building
<1>9. \A x \in Callers : CallOK(call[x])'
  <2>1. ASSUME NEW x \in Callers, CallOK(call'[x]) PROVE CallOK(call[x])'
    <3>1. call'[x].hdr \in Nat
      BY <2>1 DEF CallOK, Calls
    <3>2. call'[x].hdr <= b => call'[x].hdr <= b + PAGE * p
      BY <1>4, <1>5, <3>1
    <3> QED BY <1>1, <1>2, <2>1, <3>2 DEF CallOK, PageDue
  <2> QED BY <1>7, <2>1 DEF HeapIndInv
<1>10. Built'
  <2>1. Mapped(b + PAGE * p)'
    BY <1>1, <1>3 DEF Mapped
  <2>2. BASE < b + PAGE * p
    BY <1>4, <1>5, Positive
  <2> QED BY <1>1, <1>3, <1>5, <1>8, <2>1, <2>2 DEF Built
<1>11. Listed'
  BY <1>1, <1>2, <1>3, <1>5, <1>8 DEF Listed
<1>12. kernel_heap_brk' # NULL
  BY <1>1, <1>4, <1>5, Positive DEF NULL
<1> QED BY <1>1, <1>2, <1>7, <1>9, <1>10, <1>11, <1>12 DEF HeapIndInv

\* kmalloc_init makes the first block.
LEMMA KmallocInitStep ==
    ASSUME HeapIndInv, KmallocInit
    PROVE  HeapIndInv'
<1>1. kernel_heap_brk = NULL /\ NoHeap /\ UNCHANGED <<call, held>>
  BY DEF KmallocInit, HeapIndInv
<1>2. CASE Cardinality(Clear) < 2
  <2>1. UNCHANGED <<kpmm_bitmap, header, pte, kernel_heap_lh, kernel_heap_brk>>
    BY <1>2 DEF KmallocInit
  <2> QED BY <1>1, <2>1 DEF HeapIndInv, NoHeap, Bits, Blocks, CallOK
<1>3. CASE ~(Cardinality(Clear) < 2)
  <2> PICK new : new = [free |-> TRUE, size |-> PAGE - HDR, next |-> NULL]
    OBVIOUS
  <2>1. /\ Bits' = Bits
        /\ DOMAIN pte' = DOMAIN pte \cup {BASE}
        /\ header' = Put(header, BASE, new)
        /\ kernel_heap_brk' = BASE + PAGE /\ kernel_heap_lh' = BASE
    BY <1>3 DEF KmallocInit, Bits, Put
  <2>2. new \in Headers /\ new.size = PAGE - HDR /\ new.next = NULL
    BY Positive DEF Headers, NULL
  <2>3. Blocks' = {BASE} /\ header' \in [Blocks' -> Headers] /\ header'[BASE] = new
    BY <1>1, <2>1, <2>2 DEF Put, Blocks, NoHeap
  <2>4. /\ call' \in [Callers -> Calls] /\ \A a \in Callers : call'[a] = NoCall
        /\ held' \in [Callers -> SUBSET [ptr : Blocks', asked : Nat]]
    BY <1>1 DEF NoHeap, HeapIndInv
  <2>5. \A a \in Callers : CallOK(call[a])'
    BY <1>1, <2>4 DEF CallOK, HeapIndInv, NoHeap, NoCall
  <2>6. OnGrid(BASE) /\ OnGrid(BASE + PAGE)
    <3>1. BASE = BASE + 0 * PAGE /\ BASE + PAGE = BASE + 1 * PAGE
      BY Positive
    <3> QED BY <3>1 DEF OnGrid
  <2>7. \A a \in Callers : call'[a].pc = "idle" /\ ~Building(a)'
    BY <2>4 DEF NoCall, Building
  <2>8. Built'
    <3>1. ASSUME NEW v PROVE v \in DOMAIN pte' <=> OnGrid(v) /\ v < BASE + PAGE
      <4>1. OnGrid(v) => v \in Nat /\ BASE <= v /\ (BASE < v => BASE + PAGE <= v)
        BY <2>6, GridApart
      <4> QED BY <1>1, <2>1, <2>6, <4>1, Positive DEF NoHeap
    <3>2. Mapped(kernel_heap_brk)'
      BY <2>1, <3>1 DEF Mapped
    <3> QED BY <2>1, <2>6, <2>7, <3>2, Positive DEF Built
  <2>9. Listed'
    BY <2>1, <2>2, <2>3, <2>6, <2>7, Positive DEF Listed
  <2>10. kernel_heap_brk' # NULL
    BY <2>1, Positive DEF NULL
  <2> QED BY <2>1, <2>3, <2>4, <2>5, <2>8, <2>9, <2>10 DEF HeapIndInv
<1> QED BY <1>2, <1>3

\* The heap is not touched.
LEMMA HeapKept ==
    ASSUME HeapIndInv, UNCHANGED heapvars, Bits' \subseteq Nat
    PROVE  HeapIndInv'
<1>1. /\ UNCHANGED <<header, kernel_heap_lh, kernel_heap_brk, pte, call, held>>
      /\ Blocks' = Blocks
  BY DEF heapvars, Blocks
<1>2. /\ \A a \in Callers : CallOK(call[a])' <=> CallOK(call[a])
      /\ \A e : Mapped(e)' <=> Mapped(e)
      /\ \A a \in Callers : Building(a)' <=> Building(a)
  BY <1>1 DEF CallOK, Mapped, Building
<1>3. (Built => Built') /\ (Listed => Listed') /\ (NoHeap => NoHeap')
  BY <1>1, <1>2 DEF Built, Listed, NoHeap
<1> QED BY <1>1, <1>2, <1>3 DEF HeapIndInv

\* A clash is not forgotten.
LEMMA ClashKept == clash /\ [HeapNext]_hvars => clash'
<1> SUFFICES ASSUME clash, [HeapNext]_hvars PROVE clash'
  OBVIOUS
<1>1. CASE UNCHANGED clash
  BY <1>1
<1>2. ASSUME NEW a \in Callers, StorePage(a) PROVE clash'
  BY <1>2 DEF StorePage
<1>3. ASSUME NEW a \in Callers, ~StorePage(a),
             Kmalloc(a) \/ Krealloc(a) \/ Kfree(a) \/ CallStep(a)
      PROVE  clash' = clash
  BY <1>3 DEF Kmalloc, Krealloc, Kfree, CallStep, FindFreeHeapHeader, Take,
     CreateHeapHeader, SearchFrames, MarkFrames, TestPage, LinkHeader, MoveBreak,
     KreallocCopy
<1>4. CASE PmmBoot \/ KmallocInit \/ Died \/ UNCHANGED hvars
  BY <1>1, <1>4 DEF PmmBoot, KmallocInit, Died, hvars, heapvars
<1> QED BY <1>1, <1>2, <1>3, <1>4 DEF HeapNext

\* Every step keeps the invariant, but the second store of a clash.
LEMMA HeapStep == SizesFit /\ HeapIndInv /\ [HeapNext]_hvars => clash' \/ HeapIndInv'
<1> SUFFICES ASSUME SizesFit, HeapIndInv, [HeapNext]_hvars, ~clash' PROVE HeapIndInv'
  OBVIOUS
<1>1. CASE PmmBoot
  <2>1. Bits' \subseteq Nat
    <3>1. CASE KpmmInit
      <4>1. CASE UNCHANGED kpmm_bitmap
        BY <4>1 DEF Bits, HeapIndInv
      <4>2. ASSUME NEW k, kpmm_bitmap' = [b \in 0 .. (8 * k - 1) |-> TRUE]
            PROVE  Bits' \subseteq Nat
        <5>1. Bits' = 0 .. (8 * k - 1)
          BY <4>2 DEF Bits
        <5> QED BY <5>1
      <4> QED BY <3>1, <4>1, <4>2 DEF KpmmInit
    <3>2. CASE FreePagesFromE820 \/ KpmmInitDone
      BY <3>2 DEF FreePagesFromE820, KpmmInitDone, Bits, HeapIndInv
    <3> QED BY <1>1, <3>1, <3>2 DEF PmmBoot
  <2> QED BY <1>1, <2>1, HeapKept DEF PmmBoot
<1>2. CASE UNCHANGED hvars
  BY <1>2, HeapKept DEF hvars, pmmvars, Bits, HeapIndInv
<1>3. ASSUME NEW a \in Callers, Kmalloc(a) \/ Krealloc(a) \/ Kfree(a) \/ CallStep(a)
      PROVE  HeapIndInv'
  BY <1>3, EnterStep, KfreeStep, FindStep, TakeStep, CreateStep, SearchStep, MarkStep,
     TestStep, StoreStep, LinkStep, MoveBreakStep, CopyStep DEF CallStep
<1> QED BY <1>1, <1>2, <1>3, KmallocInitStep DEF HeapNext, Died

\* What HeapInit sets up.
LEMMA HeapInitInv == SizesFit /\ HeapInit => HeapIndInv
<1> SUFFICES ASSUME SizesFit, HeapInit PROVE HeapIndInv
  OBVIOUS
<1>1. Blocks = {} /\ DOMAIN pte = {} /\ header \in [Blocks -> Headers] /\ Bits = {}
  BY DEF HeapInit, PmmInit, Blocks, Bits
<1>2. /\ NoCall \in Calls /\ NoCall.pc = "idle" /\ NoCall.cur = NULL /\ NoCall.old = NULL
      /\ NoCall.asked = 0 /\ NoCall.size = 0
  BY DEF NoCall, Calls, NULL
<1>3. LIMIT + 0 + HDR + PAGE <= WORD
  <2>1. 0 \in 0 .. (LIMIT - BASE)
    BY Positive
  <2>2. LIMIT + 0 + ALIGN + HDR + PAGE <= WORD
    BY <2>1 DEF SizesFit
  <2> QED BY <2>2, Positive
<1>4. CallOK(NoCall)
  BY <1>2, <1>3 DEF CallOK
<1> QED BY <1>1, <1>2, <1>4 DEF HeapInit, HeapIndInv, NoHeap

\* The inductive invariant holds, for any set of callers, in every state that no
\* clash has led to.
LEMMA HeapInvariant ==
    ASSUME SizesFit
    PROVE  HeapSpec => [](clash \/ HeapIndInv)
BY HeapInitInv, HeapStep, ClashKept, PTL DEF HeapSpec

\* The blocks tile the heap up to the break, whatever calls are under way and
\* wherever they are preempted, with one exception: a call stopped between
\* kvmm_map_page's test of the present bit and its stores (vmm_map.c:55-58) while
\* another call maps the same page.
THEOREM HeapTiledUnlessClash ==
    ASSUME SizesFit
    PROVE  HeapSpec => []TiledUnlessClash
<1>1. HeapIndInv => HeapTiled
  <2> SUFFICES ASSUME HeapIndInv, kernel_heap_brk # NULL PROVE HeapTiled
    BY DEF HeapTiled
  <2> DEFINE due == {call[a].pages : a \in {b \in Callers : call[b].pc = "brk"}}
  <2>1. Built /\ Listed /\ OnGrid(kernel_heap_brk) /\ kernel_heap_brk \in Nat
    BY GridApart DEF HeapIndInv, Built
  <2>2. CASE \A a \in Callers : call[a].pc # "brk"
    <3>1. due = {} /\ PAGE * 0 = 0
      BY <2>2, Positive
    <3>2. BreakDue = kernel_heap_brk
      BY <2>1, <3>1 DEF BreakDue
    <3> QED BY <2>1, <2>2, <3>2 DEF HeapTiled, Listed, Built
  <2>3. ASSUME NEW a \in Callers, call[a].pc = "brk" PROVE HeapTiled
    <3> PICK p : p = call[a].pages
      OBVIOUS
    <3>1. \A b \in Callers : call[b].pc = "brk" => b = a
      BY <2>1, <2>3 DEF Built, Building
    <3>2. due = {p} /\ p \in Nat
      BY <2>3, <3>1 DEF HeapIndInv, Calls
    <3>3. Max({p}) = p
      BY <3>2 DEF Max
    <3>4. BreakDue = kernel_heap_brk + PAGE * p
      BY <3>2, <3>3 DEF BreakDue
    <3>5. /\ kernel_heap_lh = kernel_heap_brk
          /\ header[kernel_heap_lh].size = PAGE * p - HDR
          /\ kernel_heap_brk + PAGE * p <= LIMIT
      BY <2>1, <2>3 DEF Listed, BlockSize, HeapIndInv, CallOK, Built, Building
    <3>6. PAGE * p \in Nat
      BY <3>2, Positive
    <3>7. kernel_heap_lh + HDR + header[kernel_heap_lh].size = BreakDue
      BY <2>1, <3>4, <3>5, <3>6, Positive
    <3> QED BY <2>1, <3>4, <3>5, <3>7 DEF HeapTiled, Listed
  <2> QED BY <2>2, <2>3
<1>2. clash \/ HeapIndInv => TiledUnlessClash
  BY <1>1 DEF TiledUnlessClash
<1> QED BY HeapInvariant, <1>2, PTL

----------------------------------------------------------------------------
(* Types                                                                   *)

\* A block of kpmm_alloc_pages may be as large as the heap.
CountsFit == LIMIT - BASE <= MaxCount * PAGE

\* The types of the PMM under the heap.
PmmTyped == PmmTypeOK /\ entry # 0 /\ fault \in BOOLEAN

\* A number of pages that fits the heap fits MaxCount.
LEMMA CountBounded ==
    ASSUME CountsFit, NEW x, OnGrid(x), NEW p \in Nat, x + PAGE * p <= LIMIT
    PROVE  p <= MaxCount
<1>1. x \in Nat /\ BASE <= x /\ MaxCount \in Nat
  BY GridApart, PmmAssumption
<1>2. PAGE * p = p * PAGE /\ p * PAGE \in Nat /\ MaxCount * PAGE \in Nat
  BY <1>1, Positive
<1>3. p * PAGE <= MaxCount * PAGE
  BY <1>1, <1>2, Positive DEF CountsFit
<1> SUFFICES ASSUME MaxCount < p PROVE FALSE
  BY <1>1
<1>4. MaxCount * PAGE + PAGE <= p * PAGE
  BY <1>1, Positive, Times
<1> QED BY <1>2, <1>3, <1>4, Positive

\* Two clear frames for kmalloc_init.
LEMMA TwoFrames ==
    ASSUME Bits \subseteq Nat, ~(Cardinality(Clear) < 2)
    PROVE  /\ GetNContinuous(1) \in Clear
           /\ Min(Clear \ {GetNContinuous(1)}) \in Clear \ {GetNContinuous(1)}
<1>1. Clear \subseteq Nat
  BY DEF Clear
<1>2. Cardinality({}) = 0 /\ \A x : Cardinality({x}) = 1
  BY FS_EmptySet, FS_Singleton
<1>3. \A x : Clear # {} /\ Clear # {x}
  <2>1. Clear # {}
    <3> SUFFICES ASSUME Clear = {} PROVE Cardinality(Clear) < 2
      OBVIOUS
    <3>1. Cardinality(Clear) = 0
      BY <1>2
    <3> QED BY <3>1
  <2>2. ASSUME NEW x, Clear = {x} PROVE FALSE
    <3>1. Cardinality(Clear) = 1
      BY <1>2, <2>2
    <3> QED BY <3>1
  <2> QED BY <2>1, <2>2
<1>4. \A s \in Nat : s .. (s + 1 - 1) = {s}
  OBVIOUS
<1>5. Runs(1) = Clear
  BY <1>1, <1>4 DEF Runs, FreeRun, Clear
<1>6. GetNContinuous(1) \in Clear
  BY <1>1, <1>3, <1>5, MinIn DEF GetNContinuous
<1> PICK s : s = GetNContinuous(1)
  OBVIOUS
<1>7. Clear \ {s} # {} /\ Clear \ {s} \subseteq Nat
  BY <1>1, <1>3
<1> QED BY <1>6, <1>7, MinIn

\* The boot of the PMM.
LEMMA BootTypes ==
    ASSUME PmmTyped, KpmmInit \/ FreePagesFromE820 \/ KpmmInitDone
    PROVE  PmmTypeOK' /\ entry' # 0
<1> USE DEF PmmTyped, PmmTypeOK
<1>1. CASE KpmmInit
  <2> PICK k : k = PagesUp(PagesUp(MaxPhys, PAGE), 8)
    OBVIOUS
  <2>1. PagesUp(MaxPhys, PAGE) \in Nat
    BY MaxPhysBounds, Positive, Rounding
  <2>2. /\ kpmm_pages_amount' \in Nat /\ phase' \in {"boot", "e820", "ready", "panic"}
        /\ UNCHANGED <<e820, entry, kpmm_free_pages_amount, live>>
    BY <1>1, <2>1 DEF KpmmInit
  <2>3. kpmm_bitmap' \in [Bits' -> BOOLEAN] /\ Bits' \subseteq Nat
    <3>1. CASE UNCHANGED kpmm_bitmap
      BY <3>1 DEF Bits
    <3>2. CASE kpmm_bitmap' = [b \in 0 .. (8 * k - 1) |-> TRUE]
      <4>1. Bits' = 0 .. (8 * k - 1)
        BY <3>2 DEF Bits
      <4> QED BY <3>2, <4>1
    <3> QED BY <1>1, <3>1, <3>2 DEF KpmmInit
  <2> QED BY <2>2, <2>3
<1>2. CASE FreePagesFromE820
  <2>1. entry \in DOMAIN e820
    BY <1>2, MapEntries DEF FreePagesFromE820
  <2>2. Cardinality(PagesOf(e820[entry])) \in Nat
    BY <2>1, EntryPages, FS_CardinalityType
  <2>3. kpmm_free_pages_amount' \in 0 .. (WORD - 1)
    BY <1>2, <2>2, Positive DEF FreePagesFromE820
  <2>4. kpmm_bitmap' \in [Bits' -> BOOLEAN] /\ Bits' = Bits
    BY <1>2 DEF FreePagesFromE820, Bits
  <2> QED BY <1>2, <2>3, <2>4 DEF FreePagesFromE820
<1>3. CASE KpmmInitDone
  BY <1>3 DEF KpmmInitDone, Bits
<1> QED BY <1>1, <1>2, <1>3

\* Every step keeps the types of the PMM.
LEMMA PmmTypedStep ==
    CountsFit /\ HeapIndInv /\ PmmTyped /\ [HeapNext]_hvars => PmmTyped'
<1> SUFFICES ASSUME CountsFit, HeapIndInv, PmmTyped, [HeapNext]_hvars PROVE PmmTyped'
  OBVIOUS
<1>0. \A x \in Nat : PageAddr(x) \in 0 .. (WORD - 1)
  <2> SUFFICES ASSUME NEW x \in Nat PROVE PageAddr(x) \in 0 .. (WORD - 1)
    OBVIOUS
  <2>1. x * PAGE \in Nat
    BY Positive
  <2> QED BY <2>1, Positive DEF PageAddr
<1>1. CASE PmmBoot
  BY <1>1, BootTypes DEF PmmBoot, heapvars, PmmTyped
<1>2. CASE KmallocInit
  <2>1. CASE Cardinality(Clear) < 2
    BY <1>2, <2>1 DEF KmallocInit, PmmTyped, PmmTypeOK, pmmconst, Bits
  <2>2. CASE ~(Cardinality(Clear) < 2)
    <3> PICK s : s = GetNContinuous(1)
      OBVIOUS
    <3> PICK t : t = Min(Clear \ {s})
      OBVIOUS
    <3>1. /\ kpmm_bitmap' = [kpmm_bitmap EXCEPT ![s] = TRUE, ![t] = TRUE]
          /\ kpmm_free_pages_amount' = (kpmm_free_pages_amount - 2) % WORD
          /\ live' = {[addr |-> PageAddr(x), count |-> 1] : x \in {s, t}}
          /\ UNCHANGED <<e820, entry, kpmm_pages_amount, phase, fault>>
      BY <1>2, <2>2 DEF KmallocInit, pmmconst
    <3>2. s \in Nat /\ t \in Nat
      BY <2>2, TwoFrames DEF HeapIndInv, Clear
    <3>3. kpmm_bitmap' \in [Bits' -> BOOLEAN] /\ Bits' = Bits
      BY <3>1 DEF PmmTyped, PmmTypeOK, Bits
    <3>4. kpmm_free_pages_amount' \in 0 .. (WORD - 1)
      BY <3>1, Positive DEF PmmTyped, PmmTypeOK
    <3>5. 1 \in 1 .. MaxCount
      BY PmmAssumption
    <3>6. \A b \in live' : b.addr \in 0 .. (WORD - 1) /\ b.count \in 1 .. MaxCount
      BY <1>0, <3>1, <3>2, <3>5
    <3> QED BY <3>1, <3>3, <3>4, <3>6 DEF PmmTyped, PmmTypeOK
  <2> QED BY <2>1, <2>2
<1>3. ASSUME NEW a \in Callers, MarkFrames(a) PROVE PmmTyped'
  <2> PICK p : p = call[a].pages
    OBVIOUS
  <2> PICK s : s = call[a].start
    OBVIOUS
  <2>1. /\ SetValue(s, p, TRUE)
        /\ kpmm_free_pages_amount' = (kpmm_free_pages_amount - p) % WORD
        /\ live' = live \cup {[addr |-> PageAddr(s), count |-> p]}
        /\ UNCHANGED <<e820, entry, kpmm_pages_amount, phase, fault>>
        /\ call[a].pc = "mark"
    BY <1>3 DEF MarkFrames, At, pmmconst
  <2>2. /\ s \in Nat /\ p \in Nat \ {0} /\ OnGrid(call[a].hdr)
        /\ call[a].hdr + PAGE * p <= LIMIT
    BY <2>1 DEF HeapIndInv, CallOK, Calls
  <2>3. p \in 1 .. MaxCount
    BY <2>2, CountBounded, PmmAssumption
  <2>4. kpmm_bitmap' \in [Bits' -> BOOLEAN] /\ Bits' = Bits
    BY <2>1 DEF SetValue, Bits, PmmTyped, PmmTypeOK
  <2>5. kpmm_free_pages_amount' \in 0 .. (WORD - 1)
    BY <2>1, <2>2, Positive DEF PmmTyped, PmmTypeOK
  <2>6. \A b \in live' : b.addr \in 0 .. (WORD - 1) /\ b.count \in 1 .. MaxCount
    BY <1>0, <2>1, <2>2, <2>3 DEF PmmTyped, PmmTypeOK
  <2> QED BY <2>1, <2>4, <2>5, <2>6 DEF PmmTyped, PmmTypeOK
<1>4. ASSUME NEW a \in Callers, SearchFrames(a) PROVE PmmTyped'
  BY <1>4 DEF SearchFrames, pmmconst, PmmTyped, PmmTypeOK, Bits
<1>5. ASSUME UNCHANGED pmmvars, fault' \in BOOLEAN PROVE PmmTyped'
  BY <1>5 DEF pmmvars, PmmTyped, PmmTypeOK, Bits
<1>6. CASE UNCHANGED hvars
  BY <1>5, <1>6 DEF hvars, heapvars, PmmTyped
<1>7. ASSUME NEW a \in Callers, ~MarkFrames(a), ~SearchFrames(a),
             Kmalloc(a) \/ Krealloc(a) \/ Kfree(a) \/ CallStep(a)
      PROVE  PmmTyped'
  BY <1>5, <1>7 DEF Kmalloc, Krealloc, Kfree, CallStep, FindFreeHeapHeader, Take,
     CreateHeapHeader, TestPage, StorePage, LinkHeader, MoveBreak, KreallocCopy, PmmTyped
<1> QED BY <1>1, <1>2, <1>3, <1>4, <1>6, <1>7 DEF HeapNext, CallStep, Died

\* The types of the heap, up to a clash: the list and the calls walking it name
\* headers that were written, and the break stays inside the heap.
THEOREM HeapTypesKept ==
    ASSUME SizesFit, CountsFit
    PROVE  HeapSpec => [](clash \/ HeapTypeOK)
<1>1. HeapInit => PmmTyped
  <2> SUFFICES ASSUME HeapInit PROVE PmmTyped
    OBVIOUS
  <2>1. /\ e820 \in Maps /\ entry = 1 /\ live = {} /\ phase = "boot" /\ fault = FALSE
        /\ kpmm_pages_amount = 0 /\ kpmm_free_pages_amount = 0
        /\ kpmm_bitmap = [b \in {} |-> TRUE]
    BY DEF HeapInit, PmmInit
  <2>2. Bits = {} /\ kpmm_bitmap \in [Bits -> BOOLEAN]
    BY <2>1 DEF Bits
  <2>3. 0 \in 0 .. (WORD - 1)
    BY Positive
  <2>4. PmmTypeOK
    BY <2>1, <2>2, <2>3 DEF PmmTypeOK
  <2>5. fault \in BOOLEAN
    BY <2>1
  <2>6. entry # 0
    BY <2>1
  <2> QED BY <2>4, <2>5, <2>6 DEF PmmTyped
<1>2. HeapIndInv /\ PmmTyped => HeapTypeOK
  <2> SUFFICES ASSUME HeapIndInv, PmmTyped PROVE HeapTypeOK
    OBVIOUS
  <2>1. ASSUME NEW h \in Blocks
        PROVE  /\ header[h].free \in BOOLEAN
               /\ header[h].size \in 1 .. (WORD - 1)
               /\ header[h].next \in Blocks \cup {NULL}
    <3>1. /\ header[h].free \in BOOLEAN /\ header[h].size \in Nat \ {0}
          /\ h \in Nat /\ h + HDR + header[h].size <= LIMIT
      BY BlocksAreNat DEF HeapIndInv, Headers, Listed, NoHeap
    <3>2. header[h].next \in Blocks \cup {NULL}
      BY DEF HeapIndInv, Listed, NoHeap
    <3> QED BY <3>1, <3>2, Positive
  <2>2. kernel_heap_lh \in Blocks \cup {NULL}
    BY DEF HeapIndInv, Listed, NoHeap
  <2>3. kernel_heap_brk \in {NULL} \cup (BASE .. LIMIT)
    <3>1. CASE kernel_heap_brk # NULL
      <4>1. OnGrid(kernel_heap_brk) /\ kernel_heap_brk <= LIMIT
        BY <3>1 DEF HeapIndInv, Built
      <4>2. kernel_heap_brk \in Nat /\ BASE <= kernel_heap_brk
        BY <4>1, GridApart
      <4> QED BY <4>1, <4>2, Positive
    <3> QED BY <3>1
  <2> QED BY <2>1, <2>2, <2>3 DEF HeapTypeOK, PmmTyped, HeapIndInv, CallOK
<1>3. clash \/ (HeapIndInv /\ PmmTyped) => clash \/ HeapTypeOK
  BY <1>2
<1>4. (clash \/ HeapIndInv) /\ (clash \/ PmmTyped) /\ [HeapNext]_hvars => (clash \/ PmmTyped)'
  BY ClashKept, PmmTypedStep
<1> QED BY HeapInvariant, <1>1, <1>3, <1>4, PTL DEF HeapSpec

----------------------------------------------------------------------------
(* One caller at a time                                                    *)

\* The hypothesis of what follows: the kernel heap has one user.  Two of them
\* may find the same free block, or the same free frames, before either takes
\* it.
OneCaller == \A a, b \in Callers : a = b

\* One caller clashes with nobody.
LEMMA NeverClashes == OneCaller /\ ~clash /\ [HeapNext]_hvars => ~clash'
<1> SUFFICES ASSUME OneCaller, ~clash, [HeapNext]_hvars PROVE ~clash'
  OBVIOUS
<1>1. ASSUME NEW a \in Callers, StorePage(a) PROVE ~clash'
  BY <1>1 DEF StorePage, OneCaller
<1>2. ASSUME NEW a \in Callers, ~StorePage(a),
             Kmalloc(a) \/ Krealloc(a) \/ Kfree(a) \/ CallStep(a)
      PROVE  clash' = clash
  BY <1>2 DEF Kmalloc, Krealloc, Kfree, CallStep, FindFreeHeapHeader, Take,
     CreateHeapHeader, SearchFrames, MarkFrames, TestPage, LinkHeader, MoveBreak,
     KreallocCopy
<1>3. CASE PmmBoot \/ KmallocInit \/ Died \/ UNCHANGED hvars
  BY <1>3 DEF PmmBoot, KmallocInit, Died, hvars, heapvars
<1> QED BY <1>1, <1>2, <1>3 DEF HeapNext

\* So the invariant holds for it in every state.
LEMMA LoneInvariant ==
    ASSUME SizesFit, OneCaller
    PROVE  HeapSpec => []HeapIndInv
<1>1. HeapInit => ~clash
  BY DEF HeapInit
<1> QED BY HeapInvariant, NeverClashes, <1>1, PTL DEF HeapSpec

\* Caller a owns what it was given, the block it is about to be given is free
\* to take or new, and the block krealloc is to release is still its own.
Owns(a) ==
    LET c == call[a]
    IN /\ \A x, y \in held[a] : x.ptr = y.ptr => x = y
       /\ \A x \in held[a] : ~header[x.ptr].free /\ header[x.ptr].size >= x.asked
       /\ c.old # NULL => c.pc # "idle" /\ \E x \in held[a] : x.ptr = c.old
       /\ c.pc = "take" =>
              c.cur # NULL /\ header[c.cur].free /\ header[c.cur].size >= c.size
       /\ c.pc \in {"search", "mark", "map", "store", "link", "brk"} =>
              BlockSize(c.pages) >= c.size
       /\ c.pc = "brk" =>
              ~header[c.hdr].free /\ \A x \in held[a] : x.ptr # c.hdr
       /\ c.pc = "copy" /\ c.cur # NULL =>
              /\ ~header[c.cur].free /\ header[c.cur].size >= c.asked
              /\ \A x \in held[a] : x.ptr # c.cur

Owned == \A a \in Callers : Owns(a)

\* What the invariant says of the caller and its blocks.
LEMMA CallerTypes ==
    ASSUME HeapIndInv, NEW a \in Callers
    PROVE  /\ call[a] \in Calls /\ CallOK(call[a]) /\ call \in [Callers -> Calls]
           /\ \A x \in held[a] : x \in [ptr : Blocks, asked : Nat]
           /\ held = [b \in Callers |-> held[b]]
           /\ header \in [Blocks -> Headers]
BY DEF HeapIndInv

\* A block that is not held is answered, and is now held.
LEMMA AnswerOwned ==
    ASSUME HeapIndInv, NEW a \in Callers, Owns(a), NEW h \in Blocks \cup {NULL}, h \in Nat,
           Answer(a, h), SameBlocks,
           \A x \in held[a] : header'[x.ptr].free = header[x.ptr].free,
           h # NULL => /\ ~header'[h].free /\ header[h].size >= call[a].size
                       /\ \A x \in held[a] : x.ptr # h
    PROVE  Owns(a)'
<1>1. /\ call[a].asked \in Nat /\ call[a].size \in Nat /\ call[a].asked <= call[a].size
      /\ \A x \in held[a] : x \in [ptr : Blocks, asked : Nat]
      /\ \A b \in Blocks : header[b].size \in Nat /\ header'[b].size = header[b].size
  BY CallerTypes DEF CallOK, Calls, Headers, SameBlocks
<1>2. h # NULL => header'[h].size >= call[a].asked
  BY <1>1
<1>3. \A x \in held[a] : ~header'[x.ptr].free /\ header'[x.ptr].size >= x.asked
  BY <1>1 DEF Owns
<1>4. CASE call[a].old # NULL
  <2>1. /\ held' = held /\ call'[a].pc = "copy" /\ call'[a].cur = h
        /\ call'[a].asked = call[a].asked /\ call'[a].old = call[a].old
    BY <1>4, AnswerCall
  <2> QED BY <1>2, <1>3, <2>1 DEF Owns
<1>5. CASE call[a].old = NULL
  <2>0. /\ call'[a] = NoCall
        /\ held'[a] = IF h = NULL THEN held[a]
                      ELSE held[a] \cup {[ptr |-> h, asked |-> call[a].asked]}
    BY <1>5, AnswerCall
  <2>1. /\ call'[a].pc = "idle" /\ call'[a].old = NULL
        /\ held'[a] = IF h = NULL THEN held[a]
                      ELSE held[a] \cup {[ptr |-> h, asked |-> call[a].asked]}
    BY <2>0 DEF NoCall
  <2>2. \A x, y \in held'[a] : x.ptr = y.ptr => x = y
    BY <2>1 DEF Owns
  <2>3. \A x \in held'[a] : ~header'[x.ptr].free /\ header'[x.ptr].size >= x.asked
    BY <1>2, <1>3, <2>1
  <2> QED BY <2>1, <2>2, <2>3 DEF Owns
<1> QED BY <1>4, <1>5

\* The header that is about to be written is not in the list.
LEMMA HdrIsNew ==
    ASSUME HeapIndInv, NEW a \in Callers, LinkHeader(a)
    PROVE  call[a].hdr \notin Blocks
<1>1. Built /\ Listed /\ call[a].pc = "link" /\ call[a].hdr = kernel_heap_brk
  BY DEF HeapIndInv, LinkHeader, At, MayRun, Built, Building
<1>2. \A x \in Callers : call[x].pc # "brk"
  BY <1>1 DEF Built, Building
<1>3. /\ kernel_heap_lh + HDR + header[kernel_heap_lh].size = kernel_heap_brk
      /\ kernel_heap_lh \in Nat /\ header[kernel_heap_lh].size \in Nat
      /\ \A h \in Blocks : h \in Nat /\ h <= kernel_heap_lh
  BY <1>1, <1>2, BlocksAreNat DEF Listed, HeapIndInv, Headers
<1> QED BY <1>1, <1>3, Positive

\* krealloc copies between two blocks.
LEMMA CopyAside ==
    ASSUME NEW a \in Callers, Owns(a), call[a].pc = "copy", call[a].cur # NULL
    PROVE  call[a].cur # call[a].old
BY DEF Owns

\* A step of the only caller keeps the ownership.
LEMMA OwnedStep ==
    ASSUME SizesFit, HeapIndInv, NEW a \in Callers, Owns(a),
           Kmalloc(a) \/ Krealloc(a) \/ Kfree(a) \/ CallStep(a)
    PROVE  Owns(a)'
<1>0. NULL \in Nat /\ (Answer(a, NULL) /\ UNCHANGED header => Owns(a)')
  <2>1. NULL \in Nat
    BY DEF NULL
  <2> QED BY <2>1, BlocksKept, AnswerOwned
<1>t. /\ call[a] \in Calls /\ CallOK(call[a]) /\ call \in [Callers -> Calls]
      /\ \A x \in held[a] : x \in [ptr : Blocks, asked : Nat]
      /\ held = [b \in Callers |-> held[b]] /\ header \in [Blocks -> Headers]
  BY CallerTypes
<1>1. CASE Kmalloc(a) \/ Krealloc(a)
  <2>1. PICK n, p : /\ Enter(a, n, p) /\ UNCHANGED <<header, held>>
                    /\ p # NULL => \E x \in held[a] : x.ptr = p
    BY <1>1 DEF Kmalloc, Krealloc
  <2>2. call'[a].pc = "find" /\ call'[a].old = p
    BY <2>1, <1>t DEF Enter, NoCall
  <2> QED BY <2>1, <2>2 DEF Owns
<1>2. CASE Kfree(a)
  <2>1. PICK b \in held[a] : /\ header' = [header EXCEPT ![b.ptr].free = TRUE]
                             /\ held' = [held EXCEPT ![a] = @ \ {b}]
    BY <1>2 DEF Kfree
  <2>2. call[a].pc = "idle" /\ call' = call
    BY <1>2 DEF Kfree, At
  <2>3. held'[a] = held[a] \ {b}
    BY <1>t, <2>1
  <2>4. \A x \in held'[a] : header'[x.ptr] = header[x.ptr]
    BY <1>t, <2>1, <2>3 DEF Owns
  <2>5. call[a].old = NULL
    BY <2>2 DEF Owns
  <2> QED BY <2>2, <2>3, <2>4, <2>5 DEF Owns
<1>3. CASE FindFreeHeapHeader(a)
  <2>1. call[a].pc = "find" /\ UNCHANGED <<header, held>>
    BY <1>3 DEF FindFreeHeapHeader, At
  <2>2. CASE Goto(a, "create")
    BY <2>1, <2>2, GotoCall DEF Owns
  <2>3. CASE call[a].cur # NULL /\ Fits(call[a].cur, call[a].size) /\ Goto(a, "take")
    BY <2>1, <2>3, GotoCall DEF Owns, Fits
  <2>4. CASE call' = [call EXCEPT ![a].cur = header[call[a].cur].next]
    <3>1. call'[a].pc = "find" /\ call'[a].old = call[a].old
      BY <1>t, <2>1, <2>4 DEF Calls
    <3> QED BY <2>1, <3>1 DEF Owns
  <2> QED BY <1>3, <2>2, <2>3, <2>4 DEF FindFreeHeapHeader
<1>4. CASE Take(a)
  <2> PICK h : h = call[a].cur
    OBVIOUS
  <2>1. /\ call[a].pc = "take" /\ Answer(a, h)
        /\ header' = [header EXCEPT ![h].free = FALSE]
    BY <1>4 DEF Take, At
  <2>2. h \in Blocks /\ header[h].free /\ header[h].size >= call[a].size /\ h # NULL
    BY <1>t, <2>1 DEF Owns, CallOK
  <2>3. h \in Nat
    BY <2>2, BlocksAreNat
  <2>4. SameBlocks
    BY <2>1, FlagWritten
  <2>5. ~header'[h].free
    BY <1>t, <2>1, <2>2 DEF Headers
  <2>6. \A x \in held[a] : x.ptr # h
    BY <2>2 DEF Owns
  <2>7. \A x \in held[a] : header'[x.ptr].free = header[x.ptr].free
    BY <1>t, <2>1, <2>6
  <2> QED BY <2>1, <2>2, <2>3, <2>4, <2>5, <2>6, <2>7, AnswerOwned
<1>5. CASE CreateHeapHeader(a)
  <2>1. call[a].pc = "create" /\ UNCHANGED header /\ kernel_heap_brk # NULL
    BY <1>5 DEF CreateHeapHeader, At, MayRun
  <2>2. CASE ~Answer(a, NULL)
    <3> PICK n : n = call[a].size
      OBVIOUS
    <3> PICK p : p = PagesToGet(n)
      OBVIOUS
    <3>1. /\ ~NoRoom(n) /\ held' = held
          /\ call' = [call EXCEPT ![a].pc = "search", ![a].hdr = kernel_heap_brk,
                                  ![a].pages = p]
      BY <1>5, <2>2 DEF CreateHeapHeader
    <3>2. p \in Nat \ {0} /\ n + HDR <= PAGE * p /\ n \in Nat
      BY <1>t, <2>1, <3>1, RoomIsRoom DEF CallOK, Calls
    <3>3. PAGE * p \in Nat
      BY <3>2, Positive
    <3>4. BlockSize(p) >= n
      BY <3>2, <3>3, Positive DEF BlockSize
    <3>5. /\ call'[a].pc = "search" /\ call'[a].pages = p /\ call'[a].size = n
          /\ call'[a].old = call[a].old
      BY <1>t, <3>1 DEF Calls
    <3> QED BY <2>1, <3>1, <3>4, <3>5 DEF Owns
  <2> QED BY <1>0, <2>1, <2>2
<1>6. CASE SearchFrames(a)
  <2>1. call[a].pc = "search" /\ UNCHANGED header
    BY <1>6 DEF SearchFrames, At
  <2>2. CASE UNCHANGED <<call, held>>
    BY <2>1, <2>2 DEF Owns
  <2>3. CASE ~Answer(a, NULL) /\ ~UNCHANGED <<call, held>>
    <3>1. /\ held' = held
          /\ \E s : call' = [call EXCEPT ![a].pc = "mark", ![a].start = s]
      BY <1>6, <2>3 DEF SearchFrames
    <3>2. /\ call'[a].pc = "mark" /\ call'[a].pages = call[a].pages
          /\ call'[a].size = call[a].size /\ call'[a].old = call[a].old
      BY <1>t, <3>1 DEF Calls
    <3> QED BY <2>1, <3>1, <3>2 DEF Owns
  <2> QED BY <1>0, <2>1, <2>2, <2>3
<1>7. CASE MarkFrames(a)
  <2>1. call[a].pc = "mark" /\ Goto(a, "map") /\ UNCHANGED <<header, held>>
    BY <1>7 DEF MarkFrames, At
  <2> QED BY <2>1, GotoCall DEF Owns
<1>8. CASE TestPage(a)
  <2>1. /\ call[a].pc = "map" /\ UNCHANGED header
        /\ (Goto(a, "store") /\ UNCHANGED held) \/ Answer(a, NULL)
    BY <1>8 DEF TestPage, At
  <2>2. CASE Goto(a, "store") /\ UNCHANGED held
    BY <2>1, <2>2, GotoCall DEF Owns
  <2> QED BY <1>0, <2>1, <2>2
<1>12. CASE StorePage(a)
  <2> PICK m : m = call[a].mapped + 1
    OBVIOUS
  <2> PICK l : l = IF m = call[a].pages THEN "link" ELSE "map"
    OBVIOUS
  <2>1. l \in {"link", "map"} /\ call' = [call EXCEPT ![a].mapped = m, ![a].pc = l]
    BY <1>12 DEF StorePage
  <2>2. call[a].pc = "store" /\ UNCHANGED <<header, held>>
    BY <1>12 DEF StorePage, At
  <2>3. /\ call'[a].pc = l /\ call'[a].pages = call[a].pages
        /\ call'[a].size = call[a].size /\ call'[a].old = call[a].old
    BY <1>t, <2>1 DEF Calls
  <2> QED BY <2>2, <2>3 DEF Owns
<1>9. CASE LinkHeader(a)
  <2> PICK b : b = call[a].hdr
    OBVIOUS
  <2> PICK new : new = [free |-> FALSE, size |-> BlockSize(call[a].pages),
                        next |-> kernel_heap_lh]
    OBVIOUS
  <2>1. /\ call[a].pc = "link" /\ Goto(a, "brk") /\ UNCHANGED held
        /\ header' = Put(header, b, new)
    BY <1>9 DEF LinkHeader, At
  <2>2. b \notin Blocks
    BY <1>9, HdrIsNew
  <2>3. header'[b] = new /\ \A h \in Blocks : header'[h] = header[h]
    BY <2>1, <2>2 DEF Put, Blocks
  <2>4. ~header'[b].free
    BY <2>3
  <2>5. /\ call'[a].pc = "brk" /\ call'[a].hdr = b /\ call'[a].pages = call[a].pages
        /\ call'[a].size = call[a].size /\ call'[a].old = call[a].old
    BY <2>1, GotoCall
  <2>6. \A x \in held[a] : header'[x.ptr] = header[x.ptr] /\ x.ptr # b
    BY <1>t, <2>2, <2>3
  <2> QED BY <2>1, <2>4, <2>5, <2>6 DEF Owns
<1>10. CASE MoveBreak(a)
  <2> PICK b : b = call[a].hdr
    OBVIOUS
  <2>1. call[a].pc = "brk" /\ Answer(a, b) /\ UNCHANGED header /\ kernel_heap_brk # NULL
    BY <1>10 DEF MoveBreak, At, MayRun
  <2>2. b = kernel_heap_lh /\ b \in Blocks /\ header[b].size = BlockSize(call[a].pages)
    BY <2>1 DEF HeapIndInv, Built, Building, Listed
  <2>3. b \in Nat
    BY <2>2, BlocksAreNat
  <2>4. ~header[b].free /\ header[b].size >= call[a].size /\ \A x \in held[a] : x.ptr # b
    BY <2>1, <2>2 DEF Owns
  <2> QED BY <2>1, <2>2, <2>3, <2>4, BlocksKept, AnswerOwned
<1>11. CASE KreallocCopy(a)
  <2>1. call[a].pc = "copy"
    BY <1>11 DEF KreallocCopy, At
  <2>2. CASE UNCHANGED <<header, call, held>>
    BY <2>2 DEF Owns
  <2>3. CASE ~UNCHANGED <<header, call, held>>
    <3> PICK c : c = call[a]
      OBVIOUS
    <3> PICK got : got = [ptr |-> c.cur, asked |-> c.asked]
      OBVIOUS
    <3>1. /\ header' = [header EXCEPT ![c.old].free = TRUE]
          /\ held' = [held EXCEPT ![a] =
                 {b \in @ : b.ptr # c.old} \cup (IF c.cur = NULL THEN {} ELSE {got})]
          /\ call' = [call EXCEPT ![a] = NoCall]
      BY <1>11, <2>3 DEF KreallocCopy
    <3>2. call'[a].pc = "idle" /\ call'[a].old = NULL
      BY <1>t, <3>1 DEF NoCall
    <3>3. held'[a] = {b \in held[a] : b.ptr # c.old} \cup (IF c.cur = NULL THEN {} ELSE {got})
      BY <1>t, <3>1
    <3>4. \A x \in held'[a] : x.ptr # c.old /\ x.ptr \in Blocks
      BY <1>t, <2>1, <3>3, CopyAside DEF CallOK, Owns
    <3>5. \A x \in held'[a] : header'[x.ptr] = header[x.ptr]
      BY <1>t, <3>1, <3>4
    <3>6. \A x, y \in held'[a] : x.ptr = y.ptr => x = y
      BY <2>1, <3>3 DEF Owns
    <3>7. \A x \in held'[a] : ~header[x.ptr].free /\ header[x.ptr].size >= x.asked
      BY <2>1, <3>3 DEF Owns
    <3> QED BY <3>2, <3>5, <3>6, <3>7 DEF Owns
  <2> QED BY <2>2, <2>3
<1> QED BY <1>1, <1>2, <1>3, <1>4, <1>5, <1>6, <1>7, <1>8, <1>9, <1>10, <1>11, <1>12
        DEF CallStep

\* A block is in the hands of one caller and as large as asked for, while the
\* heap has one user.
THEOREM BlocksStayExclusive ==
    ASSUME SizesFit, OneCaller
    PROVE  HeapSpec => []BlocksExclusive
<1>1. HeapInit => Owned
  BY DEF HeapInit, Owned, Owns, NoCall
<1>2. HeapIndInv /\ Owned /\ [HeapNext]_hvars => Owned'
  <2> SUFFICES ASSUME HeapIndInv, Owned, [HeapNext]_hvars PROVE Owned'
    OBVIOUS
  <2>1. ASSUME NEW a \in Callers, Kmalloc(a) \/ Krealloc(a) \/ Kfree(a) \/ CallStep(a)
        PROVE  Owned'
    BY <2>1, OwnedStep DEF Owned, OneCaller
  <2>2. CASE UNCHANGED <<header, call, held>>
    BY <2>2 DEF Owned, Owns
  <2>3. CASE KmallocInit
    <3>1. NoHeap /\ UNCHANGED <<call, held>>
      BY <2>3 DEF KmallocInit, HeapIndInv
    <3> QED BY <3>1 DEF NoHeap, Owned, Owns, NoCall
  <2> QED BY <2>1, <2>2, <2>3 DEF HeapNext, PmmBoot, Died, hvars, heapvars
<1>3. Owned => BlocksExclusive
  BY DEF Owned, Owns, BlocksExclusive, OneCaller
<1> QED BY LoneInvariant, <1>1, <1>2, <1>3, PTL DEF HeapSpec

----------------------------------------------------------------------------
(* Frames behind the heap, with one caller and a clean memory map          *)

RunOf(c) == c.start .. (c.start + c.pages - 1)

\* The frames a call has marked and not mapped yet.
InHand(c) == IF c.pc \in {"map", "store"}
             THEN (c.start + c.mapped) .. (c.start + c.pages - 1) ELSE {}

\* A frame is named by one address.
LEMMA FrameAddress ==
    ASSUME NEW f \in Nat, NEW g \in Nat
    PROVE  /\ f * PAGE \in Nat /\ (f * PAGE) \div PAGE = f
           /\ f * PAGE = g * PAGE => f = g
           /\ f * PAGE + g * PAGE = (f + g) * PAGE
<1>1. f * PAGE \in Nat /\ g * PAGE \in Nat
  BY Positive
<1>2. f * PAGE = g * PAGE => f = g
  <2> SUFFICES ASSUME f # g, f * PAGE = g * PAGE PROVE FALSE
    OBVIOUS
  <2>1. CASE f < g
    <3>1. f * PAGE + PAGE <= g * PAGE
      BY <2>1, Positive, Times
    <3> QED BY <1>1, <3>1, Positive
  <2>2. CASE g < f
    <3>1. g * PAGE + PAGE <= f * PAGE
      BY <2>2, Positive, Times
    <3> QED BY <1>1, <3>1, Positive
  <2> QED BY <2>1, <2>2
<1>3. f * PAGE + g * PAGE = (f + g) * PAGE
  BY Positive
<1>4. (f * PAGE) \div PAGE = f
  BY <1>1, Positive
<1> QED BY <1>1, <1>2, <1>3, <1>4

\* The page tables map used frames, each once.
MapsUsedFrames ==
    /\ \A v \in DOMAIN pte : \E f \in Bits \ Clear : pte[v] = f * PAGE
    /\ \A v, w \in DOMAIN pte : pte[v] = pte[w] => v = w

\* What a call has learnt from the PMM still holds.
CallFrames(c) ==
    /\ c.pc \in {"search", "mark", "map", "store"} => c.hdr = kernel_heap_brk
    /\ c.pc = "mark" => RunOf(c) \subseteq Clear
    /\ c.pc \in {"map", "store"} => c.start * PAGE < WORD
    /\ \A f \in InHand(c) : /\ f \in Bits \ Clear
                            /\ \A v \in DOMAIN pte : pte[v] # f * PAGE

\* A frame the heap took is the page table t, mapped, or about to be mapped.
Accounted(t) ==
    \A b \in live : \A f \in PagesOfBlock(b) :
        \/ f = t
        \/ \E v \in DOMAIN pte : pte[v] = f * PAGE
        \/ \E a \in Callers : f \in InHand(call[a])

Backing ==
    /\ Shape /\ ClearUsable
    /\ phase \in {"boot", "e820"} => kernel_heap_brk = NULL
    /\ kernel_heap_brk = NULL => live = {}
    /\ MapsUsedFrames
    /\ \A a \in Callers : CallFrames(call[a])
    /\ \E t : Accounted(t)

\* A step of the only caller that leaves frames and page tables alone.
LEMMA FramesKept ==
    ASSUME OneCaller, Backing, kernel_heap_brk # NULL, kernel_heap_brk' # NULL,
           NEW a \in Callers, UNCHANGED <<e820, entry, kpmm_bitmap, live, pte>>,
           phase' = phase \/ phase' = "panic",
           CallFrames(call[a])', InHand(call[a]) \subseteq InHand(call'[a])
    PROVE  Backing'
<1>1. Bits' = Bits /\ Clear' = Clear /\ Usable' = Usable
  BY DEF Bits, Clear, Usable
<1>2. Shape' /\ ClearUsable'
  BY <1>1 DEF Backing, Shape, ClearUsable
<1>3. MapsUsedFrames'
  BY <1>1 DEF Backing, MapsUsedFrames
<1>4. \A b \in Callers : CallFrames(call[b])'
  BY DEF OneCaller
<1>5. PICK t : Accounted(t)
  BY DEF Backing
<1>6. \A b \in Callers : b = a
  BY DEF OneCaller
<1>7. Accounted(t)'
  <2> SUFFICES ASSUME NEW b \in live, NEW f \in PagesOfBlock(b)
               PROVE  \/ f = t \/ \E v \in DOMAIN pte : pte[v] = f * PAGE
                      \/ f \in InHand(call'[a])
    BY DEF Accounted, PagesOfBlock, InHand
  <2> QED BY <1>5, <1>6 DEF Accounted
<1> QED BY <1>2, <1>3, <1>4, <1>7 DEF Backing

\* The clean map makes every clear frame addressable.
LEMMA ClearAddressable ==
    ASSUME CleanMemory, Backing, NEW f \in Clear
    PROVE  f \in Nat /\ f * PAGE < WORD /\ PageAddr(f) = f * PAGE
<1>1. f \in Nat /\ f \in Usable
  BY DEF Backing, Shape, ClearUsable, Clear
<1>2. f * PAGE < WORD
  BY <1>1 DEF Backing, Shape, CleanMemory, CleanMap, Usable
<1>3. f * PAGE \in Nat
  BY <1>1, Positive
<1> QED BY <1>1, <1>2, <1>3, Positive DEF PageAddr

\* A block handed out covers the frames it was made from.
LEMMA BlockCovers ==
    ASSUME NEW s \in Nat, s * PAGE < WORD, NEW n
    PROVE  PagesOfBlock([addr |-> PageAddr(s), count |-> n]) = s .. (s + n - 1)
BY AddressNamesPage DEF PagesOfBlock

\* kmalloc_init.
LEMMA InitBacks ==
    ASSUME CleanMemory, HeapIndInv, Backing, KmallocInit
    PROVE  Backing'
<1>1. /\ NoHeap /\ UNCHANGED <<call, e820, entry>> /\ phase = "ready"
      /\ kernel_heap_brk = NULL
  BY DEF KmallocInit, HeapIndInv, pmmconst
<1>2. \A a \in Callers : CallFrames(call[a])'
  <2>1. \A a \in Callers : call'[a].pc = "idle"
    BY <1>1 DEF NoHeap, NoCall
  <2> QED BY <2>1 DEF CallFrames, InHand
<1>3. CASE Cardinality(Clear) < 2
  <2>1. UNCHANGED <<kpmm_bitmap, live, pte, kernel_heap_brk>> /\ phase' = "panic"
    BY <1>3 DEF KmallocInit
  <2>2. Bits' = Bits /\ Clear' = Clear /\ Usable' = Usable
    BY <1>1, <2>1 DEF Bits, Clear, Usable
  <2>3. live = {} /\ live' = {}
    BY <1>1, <2>1 DEF Backing
  <2>4. Accounted(0)'
    BY <2>3 DEF Accounted
  <2> QED BY <1>1, <1>2, <2>1, <2>2, <2>3, <2>4
          DEF Backing, Shape, ClearUsable, MapsUsedFrames, NoHeap
<1>4. CASE ~(Cardinality(Clear) < 2)
  <2> PICK s : s = GetNContinuous(1)
    OBVIOUS
  <2> PICK t : t = Min(Clear \ {s})
    OBVIOUS
  <2>1. /\ kpmm_bitmap' = [kpmm_bitmap EXCEPT ![s] = TRUE, ![t] = TRUE]
        /\ live' = {[addr |-> PageAddr(x), count |-> 1] : x \in {s, t}}
        /\ pte' = Put(pte, BASE, PageAddr(s))
        /\ kernel_heap_brk' = BASE + PAGE /\ phase' = phase
    BY <1>4 DEF KmallocInit
  <2>2. s \in Clear /\ t \in Clear \ {s}
    BY <1>4, TwoFrames DEF HeapIndInv
  <2>3. /\ s \in Nat /\ s * PAGE < WORD /\ PageAddr(s) = s * PAGE
        /\ t \in Nat /\ t * PAGE < WORD /\ PageAddr(t) = t * PAGE
    BY <2>2, ClearAddressable
  <2>4. /\ Bits' = Bits /\ Clear' = Clear \ {s, t} /\ Usable' = Usable
        /\ kpmm_bitmap' = [b \in Bits' |-> kpmm_bitmap'[b]]
        /\ \A b \in Bits' : kpmm_bitmap'[b] \in BOOLEAN
    BY <1>1, <2>1, <2>2 DEF Backing, Shape, Bits, Clear, Usable
  <2>5. Shape' /\ ClearUsable'
    <3>1. PageAddr(s) \in Nat /\ PageAddr(t) \in Nat
      BY <2>3, AddressNamesPage
    <3>2. \A b \in live' : b \in [addr : Nat, count : Nat \ {0}]
      BY <2>1, <3>1
    <3> QED BY <1>1, <2>1, <2>4, <3>2 DEF Backing, Shape, ClearUsable
  <2>6. DOMAIN pte' = {BASE} /\ pte'[BASE] = s * PAGE
    BY <1>1, <2>1, <2>3 DEF Put, NoHeap
  <2>7. MapsUsedFrames'
    BY <2>2, <2>4, <2>6 DEF MapsUsedFrames, Clear
  <2>8. Accounted(t)'
    <3>1. ASSUME NEW b \in live', NEW f \in PagesOfBlock(b) PROVE f = t \/ pte'[BASE] = f * PAGE
      <4>1. PICK x \in {s, t} : b = [addr |-> PageAddr(x), count |-> 1]
        BY <2>1
      <4>2. x \in Nat /\ x * PAGE < WORD
        BY <2>3
      <4>3. f \in x .. (x + 1 - 1)
        BY <4>1, <4>2, BlockCovers
      <4>4. f = x
        BY <4>2, <4>3
      <4> QED BY <2>6, <4>4
    <3> QED BY <2>6, <3>1 DEF Accounted, PagesOfBlock
  <2>9. kernel_heap_brk' # NULL
    BY <2>1, Positive DEF NULL
  <2> QED BY <1>1, <1>2, <2>1, <2>5, <2>7, <2>8, <2>9 DEF Backing
<1> QED BY <1>3, <1>4

\* The search finds clear frames.
LEMMA SearchBacks ==
    ASSUME OneCaller, HeapIndInv, Backing, NEW a \in Callers, SearchFrames(a)
    PROVE  Backing'
<1>1. /\ kernel_heap_brk # NULL /\ kernel_heap_brk' # NULL /\ call[a].pc = "search"
      /\ UNCHANGED <<e820, entry, kpmm_bitmap, live, pte, kernel_heap_brk>>
      /\ phase' = phase \/ phase' = "panic"
  BY DEF SearchFrames, At, MayRun, pmmconst
<1>t. call[a] \in Calls /\ call \in [Callers -> Calls] /\ CallFrames(call[a])
  BY CallerTypes DEF Backing
<1>5. InHand(call[a]) = {}
  BY <1>1 DEF InHand
<1>2. CASE Answer(a, NULL)
  <2>1. call'[a].pc \in {"idle", "copy"}
    BY <1>2, AnswerOK DEF NULL
  <2>2. CallFrames(call[a])'
    BY <2>1 DEF CallFrames, InHand
  <2> QED BY <1>1, <1>5, <2>2, FramesKept
<1>3. CASE UNCHANGED call
  <2>1. CallFrames(call[a])'
    BY <1>1, <1>3, <1>t DEF CallFrames, InHand
  <2> QED BY <1>1, <1>3, <1>5, <2>1, FramesKept
<1>4. CASE ~Answer(a, NULL) /\ ~UNCHANGED call
  <2> PICK n : n = call[a].pages
    OBVIOUS
  <2> PICK s : s = GetNContinuous(n)
    OBVIOUS
  <2>1. Runs(n) # {} /\ call' = [call EXCEPT ![a].pc = "mark", ![a].start = s]
    BY <1>4 DEF SearchFrames
  <2>2. n \in Nat
    BY <1>t DEF Calls
  <2>3. s .. (s + n - 1) \subseteq Clear
    BY <2>1, <2>2, FirstFitIsRun DEF Backing
  <2>4. /\ call'[a].pc = "mark" /\ call'[a].start = s /\ call'[a].pages = n
        /\ call'[a].hdr = call[a].hdr
    BY <1>t, <2>1 DEF Calls
  <2>5. Clear' = Clear
    BY <1>1 DEF Clear, Bits
  <2>6. RunOf(call'[a]) \subseteq Clear' /\ call'[a].hdr = kernel_heap_brk'
    BY <1>1, <1>t, <2>3, <2>4, <2>5 DEF RunOf, CallFrames
  <2>7. CallFrames(call[a])'
    BY <2>4, <2>6 DEF CallFrames, RunOf, InHand
  <2> QED BY <1>1, <1>5, <2>7, FramesKept
<1> QED BY <1>2, <1>3, <1>4

\* The frames found are marked, and are still the caller's alone.
LEMMA MarkBacks ==
    ASSUME CleanMemory, OneCaller, HeapIndInv, Backing, NEW a \in Callers, MarkFrames(a)
    PROVE  Backing'
<1> PICK s : s = call[a].start
  OBVIOUS
<1> PICK n : n = call[a].pages
  OBVIOUS
<1> PICK new : new = [addr |-> PageAddr(s), count |-> n]
  OBVIOUS
<1>1. /\ kernel_heap_brk # NULL /\ call[a].pc = "mark" /\ Goto(a, "map")
      /\ SetValue(s, n, TRUE) /\ live' = live \cup {new} /\ phase = "ready"
      /\ UNCHANGED <<e820, entry, phase, pte, kernel_heap_brk>>
  BY DEF MarkFrames, At, MayRun, pmmconst
<1>2. /\ s \in Nat /\ n \in Nat \ {0} /\ RunOf(call[a]) = s .. (s + n - 1)
      /\ call[a].hdr = kernel_heap_brk /\ RunOf(call[a]) \subseteq Clear
      /\ call[a].mapped = 0
  BY <1>1, CallerTypes DEF Calls, CallOK, Backing, CallFrames, RunOf
<1>3. /\ Bits' = Bits /\ Clear' = Clear \ (s .. (s + n - 1)) /\ Usable' = Usable
      /\ kpmm_bitmap' = [b \in Bits' |-> kpmm_bitmap'[b]]
      /\ \A b \in Bits' : kpmm_bitmap'[b] \in BOOLEAN
  <2>1. Shape /\ n \in Nat
    BY <1>2 DEF Backing
  <2>2. Usable' = Usable
    BY <1>1 DEF Usable
  <2> QED BY <1>1, <1>2, <2>1, <2>2, SetValueEffect
<1>4. s \in s .. (s + n - 1)
  BY <1>2
<1>5. s * PAGE < WORD
  BY <1>2, <1>4, ClearAddressable
<1>6. PagesOfBlock(new) = s .. (s + n - 1) /\ new \in [addr : Nat, count : Nat \ {0}]
  BY <1>2, <1>5, BlockCovers, AddressNamesPage
<1>7. Shape' /\ ClearUsable'
  BY <1>1, <1>3, <1>6 DEF Backing, Shape, ClearUsable
<1>8. MapsUsedFrames'
  BY <1>1, <1>3 DEF Backing, MapsUsedFrames
<1>9. /\ call'[a].pc = "map" /\ call'[a].hdr = kernel_heap_brk' /\ call'[a].start = s
      /\ InHand(call'[a]) = s .. (s + n - 1)
  BY <1>1, <1>2, GotoCall DEF InHand
<1>10. ASSUME NEW v \in DOMAIN pte, NEW f \in s .. (s + n - 1) PROVE pte[v] # f * PAGE
  <2>1. PICK g \in Bits \ Clear : pte[v] = g * PAGE
    BY DEF Backing, MapsUsedFrames
  <2>2. f \in Clear /\ f \in Nat /\ g \in Nat /\ f # g
    BY <1>2 DEF Backing, Shape
  <2> QED BY <2>1, <2>2, FrameAddress
<1>11. CallFrames(call[a])'
  <2>1. s .. (s + n - 1) \subseteq Bits' \ Clear'
    BY <1>2, <1>3 DEF Clear
  <2>2. \A f \in InHand(call'[a]) : f \in Bits' \ Clear' /\ \A v \in DOMAIN pte' : pte'[v] # f * PAGE
    BY <1>1, <1>9, <1>10, <2>1
  <2> QED BY <1>1, <1>5, <1>9, <2>2 DEF CallFrames, InHand
<1>12. PICK t : Accounted(t)
  BY DEF Backing
<1>13. Accounted(t)'
  <2> SUFFICES ASSUME NEW b \in live', NEW f \in PagesOfBlock(b)
               PROVE  \/ f = t \/ \E v \in DOMAIN pte : pte[v] = f * PAGE
                      \/ f \in InHand(call'[a])
    BY <1>1, <1>9 DEF Accounted, PagesOfBlock, InHand
  <2>1. CASE b = new
    BY <1>6, <1>9, <2>1
  <2>2. CASE b \in live
    <3>1. \A x \in Callers : InHand(call[x]) = {}
      BY <1>1 DEF InHand, OneCaller
    <3> QED BY <1>12, <2>2, <3>1 DEF Accounted
  <2> QED BY <1>1, <2>1, <2>2
<1>14. \A b \in Callers : CallFrames(call[b])'
  BY <1>11 DEF OneCaller
<1> QED BY <1>1, <1>7, <1>8, <1>13, <1>14 DEF Backing

\* The only caller maps its next page at the end of what is mapped.
LEMMA NextPage ==
    ASSUME OneCaller, HeapIndInv, kernel_heap_brk # NULL, Backing, NEW a \in Callers,
           call[a].pc \in {"map", "store"}
    PROVE  PageDue(call[a]) \notin DOMAIN pte
<1> PICK c : c = call[a]
  OBVIOUS
<1>1. c.hdr = kernel_heap_brk /\ OnGrid(c.hdr) /\ c.mapped \in Nat /\ Built
  BY CallerTypes DEF CallOK, Calls, Backing, CallFrames, HeapIndInv
<1>2. CASE Building(a)
  <2>1. Mapped(PageDue(c))
    BY <1>1, <1>2 DEF Built, PageDue
  <2>2. PageDue(c) \in DOMAIN pte => PageDue(c) < PageDue(c) /\ OnGrid(PageDue(c))
    BY <2>1 DEF Mapped
  <2> QED BY <2>2, GridApart
<1>3. CASE ~Building(a)
  <2>1. c.mapped = 0 /\ \A b \in Callers : ~Building(b)
    BY <1>3 DEF Building, OneCaller
  <2>2. PAGE * 0 = 0 /\ c.hdr \in Nat
    BY <1>1, Positive, GridApart
  <2>3. PageDue(c) = kernel_heap_brk /\ Mapped(kernel_heap_brk) /\ kernel_heap_brk \in Nat
    BY <1>1, <2>1, <2>2 DEF PageDue, Built
  <2> QED BY <2>3 DEF Mapped
<1> QED BY <1>2, <1>3

\* The page is absent, as it should be.
LEMMA TestBacks ==
    ASSUME OneCaller, HeapIndInv, Backing, NEW a \in Callers, TestPage(a)
    PROVE  Backing'
<1>1. /\ kernel_heap_brk # NULL /\ call[a].pc = "map"
      /\ UNCHANGED <<pmmvars, kernel_heap_brk, pte>>
  BY DEF TestPage, At, MayRun
<1>2. Goto(a, "store")
  BY <1>1, NextPage DEF TestPage, Present
<1>3. /\ call'[a].pc = "store" /\ call'[a].hdr = call[a].hdr
      /\ call'[a].start = call[a].start /\ call'[a].pages = call[a].pages
      /\ call'[a].mapped = call[a].mapped
  BY <1>2, GotoCall
<1>4. InHand(call'[a]) = InHand(call[a])
  BY <1>1, <1>3 DEF InHand
<1>5. CallFrames(call[a])
  BY DEF Backing
<1>6. Bits' = Bits /\ Clear' = Clear
  BY <1>1 DEF Bits, Clear, pmmvars
<1>7. \A f \in InHand(call'[a]) : f \in Bits' \ Clear' /\ \A v \in DOMAIN pte' : pte'[v] # f * PAGE
  BY <1>1, <1>4, <1>5, <1>6 DEF CallFrames
<1>8. CallFrames(call[a])'
  BY <1>1, <1>3, <1>5, <1>7 DEF CallFrames, InHand
<1> QED BY <1>1, <1>4, <1>8, FramesKept DEF pmmvars

\* The next of the frames marked is mapped at the break.
LEMMA StoreBacks ==
    ASSUME OneCaller, HeapIndInv, Backing, NEW a \in Callers, StorePage(a)
    PROVE  Backing'
<1> PICK c : c = call[a]
  OBVIOUS
<1> PICK g : g = c.start + c.mapped
  OBVIOUS
<1> PICK d : d = PageDue(c)
  OBVIOUS
<1>1. /\ kernel_heap_brk # NULL /\ c.pc = "store" /\ UNCHANGED <<pmmvars, kernel_heap_brk>>
      /\ pte' = Put(pte, d, PageAddr(c.start) + PAGE * c.mapped)
      /\ call' = [call EXCEPT ![a].mapped = c.mapped + 1,
                              ![a].pc = IF c.mapped + 1 = c.pages THEN "link" ELSE "map"]
  BY DEF StorePage, At, MayRun
<1>2. /\ c.start \in Nat /\ c.mapped \in Nat /\ c.pages \in Nat /\ c.mapped < c.pages
      /\ c.start * PAGE < WORD /\ c.hdr = kernel_heap_brk
      /\ InHand(c) = g .. (c.start + c.pages - 1)
      /\ \A f \in InHand(c) : f \in Bits \ Clear /\ \A v \in DOMAIN pte : pte[v] # f * PAGE
  BY <1>1, CallerTypes DEF Calls, CallOK, Backing, CallFrames, InHand
<1>3. d \notin DOMAIN pte
  BY <1>1, NextPage
<1>4. g \in InHand(c) /\ g \in Nat
  BY <1>2
<1>5. PageAddr(c.start) + PAGE * c.mapped = g * PAGE
  <2> PICK x : x = c.start * PAGE
    OBVIOUS
  <2>1. x \in Nat /\ x < WORD
    BY <1>2, Positive
  <2>2. x % WORD = x
    BY <2>1, Positive
  <2>3. PAGE * c.mapped = c.mapped * PAGE
    BY <1>2, Positive
  <2>4. x + c.mapped * PAGE = g * PAGE
    BY <1>2, FrameAddress
  <2> QED BY <2>2, <2>3, <2>4 DEF PageAddr
<1>6. /\ DOMAIN pte' = DOMAIN pte \cup {d} /\ pte'[d] = g * PAGE
      /\ \A v \in DOMAIN pte : pte'[v] = pte[v]
  BY <1>1, <1>3, <1>5 DEF Put
<1>7. /\ call'[a].mapped = c.mapped + 1 /\ call'[a].hdr = c.hdr
      /\ call'[a].start = c.start /\ call'[a].pages = c.pages
      /\ call'[a].pc = (IF c.mapped + 1 = c.pages THEN "link" ELSE "map")
  BY <1>1, CallerTypes DEF Calls
<1>8. \A f : f \in InHand(call'[a]) <=> f \in InHand(c) /\ f # g
  <2>1. CASE c.mapped + 1 = c.pages
    <3>1. InHand(call'[a]) = {}
      BY <1>7, <2>1 DEF InHand
    <3>2. c.start + c.pages - 1 = g
      BY <1>2, <2>1
    <3>3. InHand(c) = g .. g
      BY <1>2, <3>2
    <3> QED BY <1>4, <3>1, <3>3
  <2>2. CASE c.mapped + 1 # c.pages
    <3>1. InHand(call'[a]) = (c.start + (c.mapped + 1)) .. (c.start + c.pages - 1)
      BY <1>7, <2>2 DEF InHand
    <3>2. c.start + (c.mapped + 1) = g + 1
      BY <1>2
    <3>3. InHand(call'[a]) = (g + 1) .. (c.start + c.pages - 1)
      BY <3>1, <3>2
    <3> QED BY <1>2, <1>4, <3>3
  <2> QED BY <2>1, <2>2
<1>9. Bits' = Bits /\ Clear' = Clear /\ Usable' = Usable /\ Shape' /\ ClearUsable'
  BY <1>1 DEF Bits, Clear, Usable, Backing, Shape, ClearUsable, pmmvars
<1>10. \A f \in InHand(c) : f \in Nat
  BY <1>2
<1>11. MapsUsedFrames'
  <2>1. ASSUME NEW v \in DOMAIN pte' PROVE \E f \in Bits' \ Clear' : pte'[v] = f * PAGE
    BY <1>2, <1>4, <1>6, <1>9 DEF Backing, MapsUsedFrames
  <2>2. ASSUME NEW v \in DOMAIN pte', NEW w \in DOMAIN pte', pte'[v] = pte'[w]
        PROVE  v = w
    <3>1. \A x \in DOMAIN pte : pte'[x] # g * PAGE
      BY <1>2, <1>4, <1>6
    <3> QED BY <1>6, <2>2, <3>1 DEF Backing, MapsUsedFrames
  <2> QED BY <2>1, <2>2 DEF MapsUsedFrames
<1>12. \A f \in InHand(call'[a]) : f \in Bits' \ Clear' /\ \A v \in DOMAIN pte' : pte'[v] # f * PAGE
  <2> SUFFICES ASSUME NEW f \in InHand(call'[a])
               PROVE  f \in Bits' \ Clear' /\ \A v \in DOMAIN pte' : pte'[v] # f * PAGE
    OBVIOUS
  <2>1. f \in InHand(c) /\ f # g
    BY <1>8
  <2>2. f * PAGE # g * PAGE
    BY <1>4, <1>10, <2>1, FrameAddress
  <2> QED BY <1>2, <1>6, <1>9, <2>1, <2>2
<1>13. CallFrames(call[a])'
  <2>1. /\ call'[a].pc \in {"link", "map"} /\ call'[a].hdr = kernel_heap_brk'
        /\ call'[a].start * PAGE < WORD
    BY <1>1, <1>2, <1>7
  <2> QED BY <1>12, <2>1 DEF CallFrames, InHand
<1>14. \A b \in Callers : CallFrames(call[b])'
  BY <1>13 DEF OneCaller
<1>15. PICK t : Accounted(t)
  BY DEF Backing
<1>16. Accounted(t)'
  <2> SUFFICES ASSUME NEW b \in live, NEW f \in PagesOfBlock(b)
               PROVE  \/ f = t \/ \E v \in DOMAIN pte' : pte'[v] = f * PAGE
                      \/ f \in InHand(call'[a])
    BY <1>1 DEF Accounted, PagesOfBlock, pmmvars, InHand
  <2>1. f = t \/ (\E v \in DOMAIN pte : pte[v] = f * PAGE) \/ f \in InHand(c)
    BY <1>15 DEF Accounted, OneCaller
  <2> QED BY <1>6, <1>8, <2>1
<1> QED BY <1>1, <1>9, <1>11, <1>14, <1>16 DEF Backing, pmmvars

\* Every step keeps the frames of the heap its own.
LEMMA BackingStep ==
    CleanMemory /\ OneCaller /\ HeapIndInv /\ HeapIndInv' /\ Backing /\ [HeapNext]_hvars
        => Backing'
<1> SUFFICES ASSUME CleanMemory, OneCaller, HeapIndInv, HeapIndInv', Backing,
                    [HeapNext]_hvars
             PROVE  Backing'
  OBVIOUS
<1>1. CASE PmmBoot
  <2>1. phase \in {"boot", "e820"} /\ kernel_heap_brk = NULL /\ UNCHANGED heapvars
    BY <1>1 DEF PmmBoot, KpmmInit, FreePagesFromE820, KpmmInitDone, Backing
  <2>2. live = {} /\ live' = {}
    BY <1>1, <2>1 DEF PmmBoot, KpmmInit, FreePagesFromE820, KpmmInitDone, Backing
  <2>3. PmmIndInv
    BY <2>2 DEF PmmIndInv, LiveBlocksExclusive, Backing
  <2>4. Shape' /\ ClearUsable'
    BY <1>1, <2>3, BootStep DEF PmmBoot, PmmIndInv
  <2>5. NoHeap /\ UNCHANGED <<call, pte, kernel_heap_brk>>
    BY <2>1 DEF HeapIndInv, heapvars
  <2>6. \A a \in Callers : CallFrames(call[a])'
    BY <2>5 DEF NoHeap, NoCall, CallFrames, InHand
  <2>7. MapsUsedFrames'
    BY <2>5 DEF NoHeap, MapsUsedFrames
  <2>8. Accounted(0)'
    BY <2>2 DEF Accounted
  <2> QED BY <2>1, <2>2, <2>4, <2>5, <2>6, <2>7, <2>8 DEF Backing
<1>2. CASE UNCHANGED hvars
  <2>1. Bits' = Bits /\ Clear' = Clear /\ Usable' = Usable
    BY <1>2 DEF hvars, pmmvars, Bits, Clear, Usable
  <2>2. /\ \A a \in Callers : CallFrames(call[a]) => CallFrames(call[a])'
        /\ \A t : Accounted(t) => Accounted(t)'
        /\ MapsUsedFrames => MapsUsedFrames'
        /\ Shape /\ ClearUsable => Shape' /\ ClearUsable'
    BY <1>2, <2>1 DEF hvars, heapvars, pmmvars, CallFrames, Accounted, RunOf, InHand,
       PagesOfBlock, MapsUsedFrames, Shape, ClearUsable
  <2> QED BY <1>2, <2>2 DEF hvars, heapvars, pmmvars, Backing
<1>3. ASSUME NEW a \in Callers,
             SearchFrames(a) \/ MarkFrames(a) \/ TestPage(a) \/ StorePage(a)
      PROVE  Backing'
  BY <1>3, SearchBacks, MarkBacks, TestBacks, StoreBacks
<1>4. ASSUME NEW a \in Callers, UNCHANGED <<pmmvars, pte>>, MayRun(a),
             call[a].pc \notin {"map", "store"}, CallFrames(call[a])'
      PROVE  Backing'
  <2>1. kernel_heap_brk # NULL /\ kernel_heap_brk' # NULL
    <3>1. kernel_heap_brk # NULL /\ DOMAIN pte' = DOMAIN pte
      BY <1>4 DEF MayRun
    <3>2. BASE \in DOMAIN pte
      <4>1. PICK e \in Nat : Mapped(e) /\ kernel_heap_brk <= e
        BY <3>1, MappedUpTo
      <4>2. OnGrid(BASE)
        <5>1. BASE = BASE + 0 * PAGE
          BY Positive
        <5> QED BY <5>1 DEF OnGrid
      <4>3. BASE < kernel_heap_brk /\ kernel_heap_brk \in Nat
        BY <3>1, GridApart DEF HeapIndInv, Built
      <4>4. BASE < e
        BY <4>1, <4>3, Positive
      <4> QED BY <4>1, <4>2, <4>4 DEF Mapped
    <3> QED BY <3>1, <3>2 DEF HeapIndInv, NoHeap
  <2>2. InHand(call[a]) = {}
    BY <1>4 DEF InHand
  <2> QED BY <1>4, <2>1, <2>2, FramesKept DEF pmmvars
<1>5. ASSUME NEW a \in Callers, Kmalloc(a) \/ Krealloc(a) \/ Kfree(a)
      PROVE  Backing'
  <2>1. MayRun(a) /\ call[a].pc = "idle" /\ UNCHANGED <<pmmvars, pte>>
    BY <1>5 DEF Kmalloc, Krealloc, Kfree, At
  <2>2. call'[a].pc \in {"idle", "find"}
    <3>1. CASE Kfree(a)
      BY <2>1, <3>1 DEF Kfree
    <3>2. CASE Kmalloc(a) \/ Krealloc(a)
      <4>1. PICK n, p : Enter(a, n, p)
        BY <3>2 DEF Kmalloc, Krealloc
      <4> QED BY <4>1, CallerTypes DEF Enter, NoCall
    <3> QED BY <1>5, <3>1, <3>2
  <2>3. CallFrames(call[a])'
    BY <2>2 DEF CallFrames, InHand
  <2> QED BY <1>4, <2>1, <2>2, <2>3
<1>6. ASSUME NEW a \in Callers, FindFreeHeapHeader(a) PROVE Backing'
  <2>1. MayRun(a) /\ call[a].pc = "find" /\ UNCHANGED <<pmmvars, pte>>
    BY <1>6 DEF FindFreeHeapHeader, At
  <2>2. call'[a].pc \in {"find", "create", "take"}
    BY <1>6, <2>1, GotoCall, CallerTypes DEF FindFreeHeapHeader, Calls
  <2>3. CallFrames(call[a])'
    BY <2>2 DEF CallFrames, InHand
  <2> QED BY <1>4, <2>1, <2>2, <2>3
<1>7. ASSUME NEW a \in Callers, CreateHeapHeader(a) PROVE Backing'
  <2>1. MayRun(a) /\ call[a].pc = "create" /\ UNCHANGED <<pmmvars, pte, kernel_heap_brk>>
    BY <1>7 DEF CreateHeapHeader, At
  <2>2. \/ call'[a].pc \in {"idle", "copy"}
        \/ call'[a].pc = "search" /\ call'[a].hdr = kernel_heap_brk
    <3>1. CASE Answer(a, NULL)
      BY <3>1, AnswerOK DEF NULL
    <3>2. CASE ~Answer(a, NULL)
      <4>1. \E p : call' = [call EXCEPT ![a].pc = "search", ![a].hdr = kernel_heap_brk,
                                        ![a].pages = p]
        BY <1>7, <3>2 DEF CreateHeapHeader
      <4> QED BY <4>1, CallerTypes DEF Calls
    <3> QED BY <3>1, <3>2
  <2>3. CallFrames(call[a])'
    BY <2>1, <2>2 DEF CallFrames, InHand
  <2> QED BY <1>4, <2>1, <2>3
<1>8. ASSUME NEW a \in Callers, Take(a) \/ LinkHeader(a) \/ MoveBreak(a) \/ KreallocCopy(a)
      PROVE  Backing'
  <2>1. MayRun(a) /\ call[a].pc \notin {"map", "store"} /\ UNCHANGED <<pmmvars, pte>>
    BY <1>8 DEF Take, LinkHeader, MoveBreak, KreallocCopy, At
  <2>2. call'[a].pc \in {"idle", "copy", "brk"}
    <3>1. ASSUME NEW h, Answer(a, h) PROVE call'[a].pc \in {"idle", "copy"}
      BY <3>1, CallerTypes DEF Answer, NoCall, Calls
    <3>2. CASE Take(a) \/ MoveBreak(a)
      BY <3>1, <3>2 DEF Take, MoveBreak
    <3>3. CASE LinkHeader(a)
      BY <3>3, GotoCall DEF LinkHeader
    <3>4. CASE KreallocCopy(a)
      BY <3>4, CallerTypes DEF KreallocCopy, At, NoCall
    <3> QED BY <1>8, <3>2, <3>3, <3>4
  <2>3. CallFrames(call[a])'
    BY <2>2 DEF CallFrames, InHand
  <2> QED BY <1>4, <2>1, <2>2, <2>3
<1> QED BY <1>1, <1>2, <1>3, <1>5, <1>6, <1>7, <1>8, InitBacks DEF HeapNext, CallStep, Died

\* Every page of a block lies below the end of what is mapped.
LEMMA BlockMapped ==
    ASSUME HeapIndInv, NEW h \in Blocks, NEW v \in h .. (h + HDR + header[h].size - 1),
           (v - BASE) % PAGE = 0
    PROVE  v \in DOMAIN pte
<1>1. kernel_heap_brk # NULL /\ Built /\ Listed
  BY DEF HeapIndInv, NoHeap
<1>2. /\ header[h].size \in Nat \ {0} /\ kernel_heap_lh \in Blocks
      /\ header[kernel_heap_lh].size \in Nat \ {0}
  BY <1>1 DEF HeapIndInv, Headers, Listed
<1>3. h \in Nat /\ kernel_heap_lh \in Nat /\ BASE <= h
  <2>1. OnGrid(h)
    BY <1>1 DEF Listed
  <2> QED BY <1>2, <2>1, GridApart, BlocksAreNat
<1>4. v \in Nat /\ h <= v /\ v < h + HDR + header[h].size
  BY <1>2, <1>3, Positive
<1>5. OnGrid(v)
  <2> PICK d : d = v - BASE
    OBVIOUS
  <2>1. d \in Nat /\ d % PAGE = 0
    BY <1>3, <1>4, Positive
  <2>2. d \div PAGE \in Nat /\ d = (d \div PAGE) * PAGE
    BY <2>1, Positive
  <2>3. v = BASE + (d \div PAGE) * PAGE
    BY <1>4, <2>2, Positive
  <2> QED BY <2>2, <2>3 DEF OnGrid
<1> PICK e : e = kernel_heap_lh + HDR + header[kernel_heap_lh].size
  OBVIOUS
<1>6. v < e
  BY <1>1, <1>2, <1>3, <1>4, Positive DEF Listed
<1>7. \E m \in Nat : Mapped(m) /\ e <= m
  <2>1. CASE \A a \in Callers : call[a].pc # "brk"
    <3>1. e = kernel_heap_brk
      BY <1>1, <2>1 DEF Listed
    <3> QED BY <1>1, <3>1, MappedUpTo
  <2>2. ASSUME NEW a \in Callers, call[a].pc = "brk" PROVE \E m \in Nat : Mapped(m) /\ e <= m
    <3> PICK p : p = call[a].pages
      OBVIOUS
    <3>1. /\ kernel_heap_lh = kernel_heap_brk /\ header[kernel_heap_lh].size = PAGE * p - HDR
          /\ Mapped(kernel_heap_brk + PAGE * p) /\ p \in Nat
      BY <1>1, <2>2, CallerTypes DEF Listed, Built, Building, BlockSize, Calls, CallOK
    <3>2. PAGE * p \in Nat
      BY <3>1, Positive
    <3>3. e = kernel_heap_brk + PAGE * p /\ e \in Nat
      BY <1>3, <3>1, <3>2, Positive
    <3> QED BY <3>1, <3>3
  <2> QED BY <2>1, <2>2
<1>8. PICK m \in Nat : Mapped(m) /\ e <= m
  BY <1>7
<1>9. v < m
  BY <1>2, <1>3, <1>4, <1>6, <1>8, Positive
<1> QED BY <1>5, <1>8, <1>9 DEF Mapped

\* The frames of the heap are those mapped and the page table.
LEMMA FramesCounted ==
    ASSUME HeapIndInv, Backing, \A a \in Callers : call[a].pc = "idle"
    PROVE  Cardinality(UNION {PagesOfBlock(b) : b \in live}) <= Cardinality(DOMAIN pte) + 1
<1> DEFINE Pages == UNION {PagesOfBlock(b) : b \in live}
           frame == [v \in DOMAIN pte |-> pte[v] \div PAGE]
           Framed == {pte[v] \div PAGE : v \in DOMAIN pte}
<1>1. IsFiniteSet(DOMAIN pte)
  <2>1. CASE kernel_heap_brk = NULL
    BY <2>1, FS_EmptySet DEF HeapIndInv, NoHeap
  <2>2. CASE kernel_heap_brk # NULL
    <3>1. PICK e \in Nat : Mapped(e)
      BY <2>2, MappedUpTo
    <3>2. \A v \in DOMAIN pte : v \in Nat /\ v <= e
      <4> SUFFICES ASSUME NEW v \in DOMAIN pte PROVE v \in Nat /\ v <= e
        OBVIOUS
      <4>1. OnGrid(v) /\ v < e
        BY <3>1 DEF Mapped
      <4>2. v \in Nat
        BY <4>1, GridApart
      <4> QED BY <4>1, <4>2
    <3> QED BY <3>2, FS_BoundedSetOfNaturals
  <2> QED BY <2>1, <2>2
<1>2. frame \in Surjection(DOMAIN pte, Framed)
  BY DEF Surjection
<1>3. IsFiniteSet(Framed) /\ Cardinality(Framed) <= Cardinality(DOMAIN pte)
  BY <1>1, <1>2, FS_Surjection
<1>4. PICK t : Accounted(t)
  BY DEF Backing
<1>5. Pages \subseteq Framed \cup {t}
  <2> SUFFICES ASSUME NEW b \in live, NEW f \in PagesOfBlock(b) PROVE f \in Framed \cup {t}
    OBVIOUS
  <2>1. f = t \/ \E v \in DOMAIN pte : pte[v] = f * PAGE
    BY <1>4 DEF Accounted, InHand
  <2>2. f \in Nat
    <3>1. b.addr \in Nat /\ b.count \in Nat
      BY DEF Backing, Shape
    <3>2. b.addr \div PAGE \in Nat
      BY <3>1, Positive
    <3> QED BY <3>1, <3>2 DEF PagesOfBlock
  <2>3. (f * PAGE) \div PAGE = f
    BY <2>2, FrameAddress
  <2> QED BY <2>1, <2>3
<1> HIDE DEF Pages, Framed
<1>6. IsFiniteSet(Framed \cup {t}) /\ Cardinality(Framed \cup {t}) <= Cardinality(Framed) + 1
  <2>1. Cardinality(Framed) \in Nat
    BY <1>3, FS_CardinalityType
  <2>2. /\ IsFiniteSet(Framed \cup {t})
        /\ Cardinality(Framed \cup {t}) =
               IF t \in Framed THEN Cardinality(Framed) ELSE Cardinality(Framed) + 1
    BY <1>3, FS_AddElement
  <2> QED BY <2>1, <2>2
<1>7. IsFiniteSet(Pages) /\ Cardinality(Pages) <= Cardinality(Framed \cup {t})
  BY <1>5, <1>6, FS_Subset
<1>8. /\ Cardinality(Pages) \in Nat /\ Cardinality(Framed) \in Nat
      /\ Cardinality(Framed \cup {t}) \in Nat /\ Cardinality(DOMAIN pte) \in Nat
  BY <1>1, <1>3, <1>6, <1>7, FS_CardinalityType
<1> QED BY <1>3, <1>6, <1>7, <1>8 DEF Pages

\* Every page of every block is backed by a used frame of its own and no frame
\* is lost, while the heap has one user and the memory map is clean.
THEOREM HeapStaysBacked ==
    ASSUME SizesFit, CleanMemory, OneCaller
    PROVE  HeapSpec => []HeapBacked
<1>1. HeapInit => Backing
  <2> SUFFICES ASSUME HeapInit PROVE Backing
    OBVIOUS
  <2>1. Shape /\ ClearUsable /\ live = {} /\ kernel_heap_brk = NULL
    BY PmmInitInv DEF HeapInit, PmmInit, PmmIndInv
  <2>2. DOMAIN pte = {} /\ \A a \in Callers : call[a].pc = "idle"
    BY DEF HeapInit, NoCall
  <2>3. Accounted(0)
    BY <2>1 DEF Accounted
  <2> QED BY <2>1, <2>2, <2>3 DEF Backing, MapsUsedFrames, CallFrames, InHand
<1>2. HeapIndInv /\ Backing => HeapBacked
  <2> SUFFICES ASSUME HeapIndInv, Backing PROVE HeapBacked
    OBVIOUS
  <2>1. ASSUME NEW v \in DOMAIN pte PROVE pte[v] \div PAGE \in Bits \ Clear
    <3>1. PICK f \in Bits \ Clear : pte[v] = f * PAGE
      BY DEF Backing, MapsUsedFrames
    <3>2. f \in Nat
      BY DEF Backing, Shape
    <3> QED BY <3>1, <3>2, FrameAddress
  <2> QED BY <2>1, BlockMapped, FramesCounted DEF HeapBacked, Backing, MapsUsedFrames
<1> QED BY LoneInvariant, BackingStep, <1>1, <1>2, PTL DEF HeapSpec
=============================================================================
