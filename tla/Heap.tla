-------------------------------- MODULE Heap -------------------------------
(***************************************************************************)
(* The kernel heap: kmalloc, krealloc and kfree over a list of page-sized  *)
(* blocks, newest first, grown by kernel_heap_brk with frames of the PMM   *)
(* mapped at the break.  Composes the PMM (Pmm.tla).                       *)
(*                                                                         *)
(* Two kinds of callers: kernel threads, which run with interrupts on and  *)
(* may be preempted between any two steps of a call, and system calls,     *)
(* which run with interrupts off, so that a call they begin ends before a  *)
(* thread goes on.  Which of them allocate is a parameter.                 *)
(***************************************************************************)
EXTENDS Pmm

CONSTANTS
    BASE,            \* __kernel_heap_start
    LIMIT,           \* __kernel_heap_end
    HDR,             \* sizeof(kmalloc_header_t)
    ALIGN,           \* 8
    Threads,         \* preemptible callers
    Syscalls,        \* callers that run with interrupts off
    Sizes            \* the sizes asked for

NULL == 0

ASSUME HeapAssumption ==
    /\ BASE \in Nat \ {0} /\ LIMIT \in Nat /\ BASE + PAGE <= LIMIT /\ LIMIT < WORD
    /\ \E n \in 0 .. LIMIT : LIMIT = BASE + n * PAGE
    /\ HDR \in Nat \ {0} /\ HDR < PAGE /\ ALIGN \in Nat \ {0}
    /\ Threads \cap Syscalls = {} /\ Sizes \subseteq 0 .. (WORD - 1)

Callers == Threads \cup Syscalls

VARIABLES
    header,          \* headers written so far: address -> free, size, next
    kernel_heap_lh, kernel_heap_brk,
    pte,             \* heap page -> the frame it is mapped to
    call,            \* the call each caller is in
    held,            \* pointers each caller was given (history)
    fault,           \* a page fault, which panics
    clash            \* two callers found one page absent and both mapped it (history)

heapvars == <<header, kernel_heap_lh, kernel_heap_brk, pte, call, held, fault, clash>>
hvars == <<pmmvars, heapvars>>
pmmconst == <<e820, entry, kpmm_pages_amount>>

NoCall == [pc |-> "idle", asked |-> 0, size |-> 0, cur |-> NULL, old |-> NULL,
           hdr |-> NULL, pages |-> 0, start |-> 0, mapped |-> 0]

\* f with the pair x -> v added or replaced.
Put(f, x, v) == [y \in DOMAIN f \cup {x} |-> IF y = x THEN v ELSE f[y]]

HeapInit ==
    /\ PmmInit
    /\ header = [h \in {} |-> NULL] /\ pte = [p \in {} |-> NULL]
    /\ kernel_heap_lh = NULL /\ kernel_heap_brk = NULL
    /\ call = [a \in Callers |-> NoCall]
    /\ held = [a \in Callers |-> {}]
    /\ fault = FALSE /\ clash = FALSE

\* kpmm_init, before any heap.
PmmBoot == (KpmmInit \/ FreePagesFromE820 \/ KpmmInitDone) /\ UNCHANGED heapvars

\* kmalloc_init: one frame for the first block and, since the heap's page
\* directory entry is absent, one for its page table.
KmallocInit ==
    /\ phase = "ready" /\ kernel_heap_brk = NULL
    /\ IF Cardinality(Clear) < 2
         THEN /\ phase' = "panic"
              /\ UNCHANGED <<kpmm_bitmap, kpmm_free_pages_amount, live, header,
                             pte, kernel_heap_lh, kernel_heap_brk>>
         ELSE LET s == GetNContinuous(1)
                  t == Min(Clear \ {s})
              IN /\ kpmm_bitmap' = [kpmm_bitmap EXCEPT ![s] = TRUE, ![t] = TRUE]
                 /\ kpmm_free_pages_amount' = (kpmm_free_pages_amount - 2) % WORD
                 /\ live' = {[addr |-> PageAddr(x), count |-> 1] : x \in {s, t}}
                 /\ pte' = Put(pte, BASE, PageAddr(s))
                 /\ header' = Put(header, BASE, [free |-> TRUE,
                                                 size |-> PAGE - HDR,
                                                 next |-> NULL])
                 /\ kernel_heap_brk' = BASE + PAGE
                 /\ kernel_heap_lh' = BASE
                 /\ UNCHANGED phase
    /\ UNCHANGED <<pmmconst, call, held, fault, clash>>

----------------------------------------------------------------------------
\* A thread does not run while a system call is in the kernel.
MayRun(a) ==
    /\ phase = "ready" /\ kernel_heap_brk # NULL /\ ~fault
    /\ a \in Threads => \A s \in Syscalls : call[s].pc = "idle"

At(a, label) == MayRun(a) /\ call[a].pc = label

Goto(a, label) == call' = [call EXCEPT ![a].pc = label]

\* ALIGN_UP(size, 8) in 32 bits; ALIGN is a power of two.
AlignUp(n) == LET m == (n + ALIGN - 1) % WORD IN m - (m % ALIGN)

\* kmalloc(asked), alone or as the first half of krealloc(old, asked).
Enter(a, asked, old) ==
    call' = [call EXCEPT ![a] =
                [NoCall EXCEPT !.pc = "find", !.asked = asked, !.old = old,
                               !.size = AlignUp(asked), !.cur = kernel_heap_lh]]

\* kmalloc; a size of 0 is answered with NULL at once.
Kmalloc(a) ==
    /\ At(a, "idle")
    /\ \E n \in Sizes \ {0} : Enter(a, n, NULL)
    /\ UNCHANGED <<pmmvars, header, kernel_heap_lh, kernel_heap_brk, pte, held,
                   fault, clash>>

\* krealloc; a size of 0 stands for the size of the old block.
Krealloc(a) ==
    /\ At(a, "idle")
    /\ \E b \in held[a] : \E n \in Sizes :
           Enter(a, IF n = 0 THEN header[b.ptr].size ELSE n, b.ptr)
    /\ UNCHANGED <<pmmvars, header, kernel_heap_lh, kernel_heap_brk, pte, held,
                   fault, clash>>

\* kfree of a pointer the caller was given.  A block that is already free is
\* reported as a double free and left alone.
Kfree(a) ==
    /\ At(a, "idle")
    /\ \E b \in held[a] :
           /\ header' = [header EXCEPT ![b.ptr].free = TRUE]
           /\ held' = [held EXCEPT ![a] = @ \ {b}]
    /\ UNCHANGED <<pmmvars, kernel_heap_lh, kernel_heap_brk, pte, call, fault, clash>>

\* kmalloc answers block h (NULL: none).  krealloc goes on with its copy.
Answer(a, h) ==
    IF call[a].old # NULL
      THEN /\ call' = [call EXCEPT ![a].pc = "copy", ![a].cur = h]
           /\ UNCHANGED held
      ELSE /\ call' = [call EXCEPT ![a] = NoCall]
           /\ held' = IF h = NULL THEN held
                      ELSE [held EXCEPT ![a] = @ \cup
                               {[ptr |-> h, asked |-> call[a].asked]}]

\* Mutant: a block in use is good enough.
FitsUsed(h, n) == header[h].size >= n

Fits(h, n) == header[h].free /\ header[h].size >= n

\* One turn of the loop of find_free_heap_header.
FindFreeHeapHeader(a) ==
    /\ At(a, "find")
    /\ LET h == call[a].cur
       IN IF h = NULL THEN Goto(a, "create")
          ELSE IF Fits(h, call[a].size) THEN Goto(a, "take")
          ELSE call' = [call EXCEPT ![a].cur = header[h].next]
    /\ UNCHANGED <<pmmvars, header, kernel_heap_lh, kernel_heap_brk, pte, held,
                   fault, clash>>

\* The block found is marked in use.
Take(a) ==
    /\ At(a, "take")
    /\ header' = [header EXCEPT ![call[a].cur].free = FALSE]
    /\ Answer(a, call[a].cur)
    /\ UNCHANGED <<pmmvars, kernel_heap_lh, kernel_heap_brk, pte, fault, clash>>

PagesToGet(n) == ((n + HDR + PAGE - 1) % WORD) \div PAGE

\* Mutant: the header is left out of the sum.
NoRoomForData(n) == (kernel_heap_brk + n) % WORD > LIMIT

NoRoom(n) == (kernel_heap_brk + n + HDR) % WORD > LIMIT

\* create_heap_header, up to its call of kpmm_alloc_pages.
CreateHeapHeader(a) ==
    /\ At(a, "create")
    /\ LET n == call[a].size
       IN IF n = 0 \/ PagesToGet(n) = 0 \/ NoRoom(n)
            THEN Answer(a, NULL)
            ELSE /\ call' = [call EXCEPT ![a].pc = "search",
                                         ![a].hdr = kernel_heap_brk,
                                         ![a].pages = PagesToGet(n)]
                 /\ UNCHANGED held
    /\ UNCHANGED <<pmmvars, header, kernel_heap_lh, kernel_heap_brk, pte, fault, clash>>

\* kpmm_alloc_pages: the search ...
SearchFrames(a) ==
    /\ At(a, "search")
    /\ LET n == call[a].pages
       IN IF Refuses(n) THEN Answer(a, NULL) /\ UNCHANGED phase
          ELSE IF Runs(n) = {}
          THEN phase' = "panic" /\ UNCHANGED <<call, held>>
          ELSE /\ call' = [call EXCEPT ![a].pc = "mark",
                                       ![a].start = GetNContinuous(n)]
               /\ UNCHANGED <<phase, held>>
    /\ UNCHANGED <<pmmconst, kpmm_bitmap, kpmm_free_pages_amount, live, header,
                   kernel_heap_lh, kernel_heap_brk, pte, fault, clash>>

\* ... and the stores.
MarkFrames(a) ==
    /\ At(a, "mark") /\ Goto(a, "map")
    /\ SetValue(call[a].start, call[a].pages, TRUE)
    /\ kpmm_free_pages_amount' = (kpmm_free_pages_amount - call[a].pages) % WORD
    /\ live' = live \cup {[addr |-> PageAddr(call[a].start),
                           count |-> call[a].pages]}
    /\ UNCHANGED <<pmmconst, phase, header, kernel_heap_lh, kernel_heap_brk, pte,
                   held, fault, clash>>

\* The page kvmm_map_range is at: behind those it has mapped.
PageDue(c) == c.hdr + PAGE * c.mapped

\* Mutant: kvmm_map_page overwrites an entry that is present.
PresentOverwritten(c) == FALSE

Present(c) == PageDue(c) \in DOMAIN pte

\* kvmm_map_page, for each page of kvmm_map_range: the test, which makes the
\* range, and kmalloc, fail on a page that is present ...
TestPage(a) ==
    /\ At(a, "map")
    /\ IF Present(call[a]) THEN Answer(a, NULL) ELSE Goto(a, "store") /\ UNCHANGED held
    /\ UNCHANGED <<pmmvars, header, kernel_heap_lh, kernel_heap_brk, pte, fault, clash>>

\* ... and the stores, which do not look again.
StorePage(a) ==
    LET c == call[a]
    IN /\ At(a, "store")
       /\ pte' = Put(pte, PageDue(c), PageAddr(c.start) + PAGE * c.mapped)
       /\ call' = [call EXCEPT ![a].mapped = c.mapped + 1,
                       ![a].pc = IF c.mapped + 1 = c.pages THEN "link" ELSE "map"]
       /\ clash' = (clash \/ \E b \in Callers \ {a} :
                       call[b].pc = "store" /\ PageDue(call[b]) = PageDue(c))
       /\ UNCHANGED <<pmmvars, header, kernel_heap_lh, kernel_heap_brk, held, fault>>

\* Mutant: the header is counted as data.
BlockSizeWhole(pages) == PAGE * pages

BlockSize(pages) == PAGE * pages - HDR

\* Mutant: the two last stores swapped, so that the header follows itself.
LinkHeaderSwapped(a) ==
    /\ At(a, "link") /\ Goto(a, "brk")
    /\ header' = Put(header, call[a].hdr,
                     [free |-> FALSE, size |-> BlockSize(call[a].pages),
                      next |-> call[a].hdr])
    /\ kernel_heap_lh' = call[a].hdr
    /\ UNCHANGED <<pmmvars, kernel_heap_brk, pte, held, fault, clash>>

\* The header is written and becomes the first of the list.
LinkHeader(a) ==
    /\ At(a, "link") /\ Goto(a, "brk")
    /\ header' = Put(header, call[a].hdr,
                     [free |-> FALSE, size |-> BlockSize(call[a].pages),
                      next |-> kernel_heap_lh])
    /\ kernel_heap_lh' = call[a].hdr
    /\ UNCHANGED <<pmmvars, kernel_heap_brk, pte, held, fault, clash>>

NewBreak(pages) == kernel_heap_brk + PAGE * pages

\* The break is moved.
MoveBreak(a) ==
    /\ At(a, "brk")
    /\ kernel_heap_brk' = NewBreak(call[a].pages)
    /\ Answer(a, call[a].hdr)
    /\ UNCHANGED <<pmmvars, header, kernel_heap_lh, pte, fault, clash>>

\* The heap pages touched by a copy of n bytes from the data of block h.
Touched(h, n) == {h + i * PAGE : i \in 0 .. ((HDR + n - 1) \div PAGE)}

\* The second half of krealloc: asked bytes are read from the old block,
\* whatever its size, unless kmalloc failed; the old block is freed anyway.
KreallocCopy(a) ==
    LET c == call[a]
    IN /\ At(a, "copy")
       /\ IF c.cur # NULL /\ ~(Touched(c.old, c.asked) \subseteq DOMAIN pte)
            THEN fault' = TRUE /\ UNCHANGED <<header, call, held>>
            ELSE /\ header' = [header EXCEPT ![c.old].free = TRUE]
                 /\ held' = [held EXCEPT ![a] =
                        {b \in @ : b.ptr # c.old} \cup
                        (IF c.cur = NULL THEN {}
                         ELSE {[ptr |-> c.cur, asked |-> c.asked]})]
                 /\ call' = [call EXCEPT ![a] = NoCall]
                 /\ UNCHANGED fault
       /\ UNCHANGED <<pmmvars, kernel_heap_lh, kernel_heap_brk, pte, clash>>

Died == (phase = "panic" \/ fault) /\ UNCHANGED hvars

CallStep(a) == \/ FindFreeHeapHeader(a) \/ Take(a) \/ CreateHeapHeader(a)
               \/ SearchFrames(a) \/ MarkFrames(a) \/ TestPage(a) \/ StorePage(a)
               \/ LinkHeader(a) \/ MoveBreak(a) \/ KreallocCopy(a)

HeapNext == \/ PmmBoot \/ KmallocInit \/ Died
            \/ \E a \in Callers : Kmalloc(a) \/ Krealloc(a) \/ Kfree(a) \/ CallStep(a)

HeapSpec == HeapInit /\ [][HeapNext]_hvars

\* A call that has begun goes on: preempted threads are resumed (sched_ring).
HeapFairSpec == HeapSpec /\ \A a \in Callers : WF_hvars(CallStep(a))

----------------------------------------------------------------------------
(* What is checked                                                         *)

Blocks == DOMAIN header

\* Types; the list and its readers name headers that were written; the break
\* stays inside the heap, up to the boundary test of kmalloc.c:55.
HeapTypeOK ==
    /\ PmmTypeOK
    /\ \A h \in Blocks : /\ header[h].free \in BOOLEAN
                         /\ header[h].size \in 1 .. (WORD - 1)
                         /\ header[h].next \in Blocks \cup {NULL}
    /\ {kernel_heap_lh} \subseteq Blocks \cup {NULL}
    /\ kernel_heap_brk \in {NULL} \cup BASE .. LIMIT
    /\ \A a \in Callers : call[a].cur \in Blocks \cup {NULL}
    /\ fault \in BOOLEAN

\* The break a thread in the last step of create_heap_header is about to set.
BreakDue ==
    LET due == {call[a].pages : a \in {b \in Callers : call[b].pc = "brk"}}
    IN kernel_heap_brk + PAGE * (IF due = {} THEN 0 ELSE Max(due))

\* The blocks tile the heap: followed from kernel_heap_lh each header lies right
\* behind the block its _next names, down to the first, and the newest block
\* ends at the break: "[HEADER_DATA] [DATA] ... [HEADER_DATA] [DATA]" (kmalloc.h:43).
HeapTiled ==
    kernel_heap_brk # NULL =>
        /\ kernel_heap_lh \in Blocks
        /\ kernel_heap_lh + HDR + header[kernel_heap_lh].size = BreakDue
        /\ BreakDue <= LIMIT
        /\ \A h \in Blocks :
              IF h = BASE THEN header[h].next = NULL
              ELSE LET n == header[h].next
                   IN n \in Blocks /\ n + HDR + header[n].size = h

\* kmalloc.c holds no lock.  Wherever a thread is preempted by a caller that
\* allocates, what keeps two create_heap_header at one break apart is the present
\* bit of the first page; only between kvmm_map_page's test of that bit and its
\* stores (vmm_map.c:55-58) can the tiling be lost.
TiledUnlessClash == clash \/ HeapTiled

\* Every page of every block is mapped, no two heap pages share a frame, and
\* every mapped frame is marked used in the bitmap.  No frame is lost: one the
\* heap took is the page table or is mapped, unless its call is still on the
\* way from the PMM to the page table.
HeapBacked ==
    /\ \A h \in Blocks : \A v \in h .. (h + HDR + header[h].size - 1) :
           (v - BASE) % PAGE = 0 => v \in DOMAIN pte
    /\ \A v, w \in DOMAIN pte : pte[v] = pte[w] => v = w
    /\ \A v \in DOMAIN pte : pte[v] \div PAGE \in Bits \ Clear
    /\ (\A a \in Callers : call[a].pc = "idle") =>
         Cardinality(UNION {PagesOfBlock(b) : b \in live}) <= Cardinality(DOMAIN pte) + 1

\* A block is in the hands of one caller at a time, is not free meanwhile, and
\* is of "an amount of bytes" (kmalloc.h:63) no smaller than asked for.
BlocksExclusive ==
    /\ \A a, b \in Callers : \A x \in held[a], y \in held[b] :
           x.ptr = y.ptr => a = b /\ x = y
    /\ \A a \in Callers : \A x \in held[a] :
           ~header[x.ptr].free /\ header[x.ptr].size >= x.asked

\* Every call ends, in an answer or in a panic.
CallsEnd ==
    \A a \in Callers :
        call[a].pc # "idle" ~> (call[a].pc = "idle" \/ phase = "panic" \/ fault)
=============================================================================
