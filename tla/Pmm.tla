-------------------------------- MODULE Pmm --------------------------------
(***************************************************************************)
(* The physical memory manager: a bitmap with one bit per page frame, set  *)
(* when the frame is used, built at boot from the e820 map of the BIOS,    *)
(* and a counter of free frames kept beside it.                            *)
(***************************************************************************)
EXTENDS Integers, Sequences, FiniteSetsExt

CONSTANTS
    PAGE,            \* KPMM_PAGE_SIZE, in bytes
    WORD,            \* 2^32 in the code: addresses and counters are 32 bits
    MIN_FREE,        \* first byte that may be handed out: above the kernel
                     \* and above KPMM_MIN_BASE, page aligned
    EARLY_HEAP,      \* bytes the early allocator has left for the bitmap
    Maps,            \* the e820 maps the BIOS may report
    MaxCount         \* bound: largest number of pages asked for at once

ASSUME PmmAssumption ==
    /\ PAGE \in Nat \ {0} /\ WORD \in Nat \ {0} /\ MIN_FREE \in Nat
    /\ EARLY_HEAP \in Nat /\ MaxCount \in Nat \ {0}
    /\ \A m \in Maps :
           m \in Seq([base : Nat, length : Nat, type : {"FREE", "USED"}])

VARIABLES
    e820,                    \* the map: a sequence of entries
    entry,                   \* index of the entry being released
    kpmm_bitmap,             \* bit -> TRUE (used) or FALSE (free)
    kpmm_pages_amount,
    kpmm_free_pages_amount,
    live,                    \* blocks handed out and not freed (history)
    phase                    \* boot, e820, ready or panic

pmmvars == <<e820, entry, kpmm_bitmap, kpmm_pages_amount,
             kpmm_free_pages_amount, live, phase>>

Bits == DOMAIN kpmm_bitmap

Clear == {b \in Bits : ~kpmm_bitmap[b]}

\* ALIGN_UP(x, a) / a and ALIGN_DOWN(x, a) / a, exact on 64-bit values.
PagesUp(x, a) == (x + a - 1) \div a
PagesDown(x, a) == x \div a

----------------------------------------------------------------------------
(* Boot                                                                    *)

PmmInit ==
    /\ e820 \in Maps
    /\ entry = 1
    /\ kpmm_bitmap = [b \in {} |-> TRUE]
    /\ kpmm_pages_amount = 0 /\ kpmm_free_pages_amount = 0
    /\ live = {}
    /\ phase = "boot"

MaxPhys == Max({0} \cup {e820[i].base + e820[i].length : i \in DOMAIN e820})

\* kearly_malloc rounds to 8 bytes and refuses 0 bytes and what does not fit.
EarlyMallocFits(bytes) == bytes # 0 /\ 8 * PagesUp(bytes, 8) <= EARLY_HEAP

\* kpmm_init: the bitmap covers the highest address of any entry, of whatever
\* type; every bit starts as used.
KpmmInit ==
    LET pages == PagesUp(MaxPhys, PAGE)
        bytes == PagesUp(pages, 8)
    IN /\ phase = "boot"
       /\ kpmm_pages_amount' = pages
       /\ IF EarlyMallocFits(bytes)
            THEN /\ kpmm_bitmap' = [b \in 0 .. (8 * bytes - 1) |-> TRUE]
                 /\ phase' = "e820"
            ELSE phase' = "panic" /\ UNCHANGED kpmm_bitmap
       /\ UNCHANGED <<e820, entry, kpmm_free_pages_amount, live>>

\* The pages one entry releases: whole pages of a free region above MIN_FREE.
PagesOf(e) ==
    LET start == IF e.base < MIN_FREE THEN MIN_FREE ELSE e.base
        end == e.base + e.length
    IN IF e.type = "FREE" /\ end > MIN_FREE
         THEN PagesUp(start, PAGE) .. (PagesDown(end, PAGE) - 1)
         ELSE {}

\* One turn of the loop of pmm_free_pages_from_e820.
FreePagesFromE820 ==
    /\ phase = "e820" /\ entry <= Len(e820)
    /\ kpmm_bitmap' = [b \in Bits |-> kpmm_bitmap[b] /\ b \notin PagesOf(e820[entry])]
    /\ kpmm_free_pages_amount' =
           (kpmm_free_pages_amount + Cardinality(PagesOf(e820[entry]))) % WORD
    /\ entry' = entry + 1
    /\ UNCHANGED <<e820, kpmm_pages_amount, live, phase>>

KpmmInitDone ==
    /\ phase = "e820" /\ entry > Len(e820)
    /\ phase' = "ready"
    /\ UNCHANGED <<e820, entry, kpmm_bitmap, kpmm_pages_amount,
                   kpmm_free_pages_amount, live>>

----------------------------------------------------------------------------
(* Allocation                                                              *)

\* Mutant: a run one page too short is accepted.
FreeRunShort(s, n) == s \in Bits /\ \A k \in s .. (s + n - 2) : k \in Clear

\* The n pages from bit s are all free.
FreeRun(s, n) == \A k \in s .. (s + n - 1) : k \in Clear

Runs(n) == {s \in Bits : FreeRun(s, n)}

\* Mutant: last fit.
GetNContinuousLast(n) == Max(Runs(n))

\* kpmm_bitmap_get_n_continuous: the first run of n clear bits.
GetNContinuous(n) == Min(Runs(n))

\* The loops of kpmm_bitmap_get_n_continuous, bit by bit: the run being counted,
\* where it began, and the answer once there is one.
ScanStart == [bit_tmp |-> 0, continous |-> 0, found |-> FALSE]

ScanBit(s, i, n) ==
    IF s.found THEN s
    ELSE IF kpmm_bitmap[i] THEN [s EXCEPT !.continous = 0]
    ELSE [bit_tmp |-> IF s.continous = 0 THEN i ELSE s.bit_tmp,
          continous |-> s.continous + 1,
          found |-> s.continous + 1 >= n]

ScanUpTo(n) ==
    LET scan[i \in Bits \cup {-1}] ==
            IF i = -1 THEN ScanStart ELSE ScanBit(scan[i - 1], i, n)
    IN scan

ScanFor(n) == ScanUpTo(n)[Cardinality(Bits) - 1]

\* kpmm_bitmap_get_page_addr: the product is cut to 32 bits.
PageAddr(bit) == (bit * PAGE) % WORD

\* Mutant: a bit can only be set.
SetValueSticky(first, n, being_used) ==
    kpmm_bitmap' = [b \in Bits |-> kpmm_bitmap[b] \/ b \in first .. (first + n - 1)]

\* kpmm_bitmap_set_value on n consecutive bits.
SetValue(first, n, being_used) ==
    kpmm_bitmap' = [b \in Bits |-> IF b \in first .. (first + n - 1)
                                     THEN being_used ELSE kpmm_bitmap[b]]

\* The early return of kpmm_alloc_pages.
Refuses(n) == n = 0 \/ kpmm_free_pages_amount = 0

\* kpmm_alloc_pages, its early return: NULL, and nothing changes.
KpmmAllocNull(n) ==
    /\ phase = "ready" /\ Refuses(n)
    /\ UNCHANGED pmmvars

\* kpmm_alloc_pages; when no run is long enough the bitmap search panics.
KpmmAllocPages(n) ==
    /\ phase = "ready" /\ ~Refuses(n)
    /\ IF Runs(n) # {}
         THEN LET s == GetNContinuous(n)
              IN /\ SetValue(s, n, TRUE)
                 /\ kpmm_free_pages_amount' = (kpmm_free_pages_amount - n) % WORD
                 /\ live' = live \cup {[addr |-> PageAddr(s), count |-> n]}
                 /\ UNCHANGED phase
         ELSE /\ phase' = "panic"
              /\ UNCHANGED <<kpmm_bitmap, kpmm_free_pages_amount, live>>
    /\ UNCHANGED <<e820, entry, kpmm_pages_amount>>

\* kpmm_free_pages, called with a block as it was handed out.
KpmmFreePages(b) ==
    /\ phase = "ready" /\ b \in live
    /\ SetValue(b.addr \div PAGE, b.count, FALSE)
    /\ kpmm_free_pages_amount' = (kpmm_free_pages_amount + b.count) % WORD
    /\ live' = live \ {b}
    /\ UNCHANGED <<e820, entry, kpmm_pages_amount, phase>>

Halted == phase = "panic" /\ UNCHANGED pmmvars

PmmNext == \/ KpmmInit \/ FreePagesFromE820 \/ KpmmInitDone
           \/ \E n \in 0 .. MaxCount : KpmmAllocNull(n) \/ KpmmAllocPages(n)
           \/ \E b \in live : KpmmFreePages(b)
           \/ Halted

PmmSpec == PmmInit /\ [][PmmNext]_pmmvars

----------------------------------------------------------------------------
(* What is checked                                                         *)

\* Types; no block of zero pages is ever handed out (pmm_alloc.c:23).
PmmTypeOK ==
    /\ e820 \in Maps /\ entry \in Nat
    /\ kpmm_bitmap \in [Bits -> BOOLEAN] /\ Bits \subseteq Nat
    /\ kpmm_pages_amount \in Nat
    /\ kpmm_free_pages_amount \in 0 .. (WORD - 1)
    /\ \A b \in live : b.addr \in 0 .. (WORD - 1) /\ b.count \in 1 .. MaxCount
    /\ phase \in {"boot", "e820", "ready", "panic"}

PagesOfBlock(b) == (b.addr \div PAGE) .. (b.addr \div PAGE + b.count - 1)

\* Pages of RAM that may be handed out: whole, inside a free entry, above the
\* kernel.
Usable == UNION {PagesOf(e820[i]) : i \in DOMAIN e820}

\* Blocks handed out by kpmm_alloc_pages never overlap, lie in usable RAM, and
\* are still marked in the bitmap, after any history of allocations and frees.
LiveBlocksExclusive ==
    /\ \A b \in live : PagesOfBlock(b) \subseteq Usable \cap (Bits \ Clear)
    /\ \A b, c \in live : b # c => PagesOfBlock(b) \cap PagesOfBlock(c) = {}

\* A map whose free entries share no page and whose frames a word can address
\* and count; on another the counter of kpmm_init is wrong from the start.
CleanMap(m) ==
    /\ \A i, j \in DOMAIN m : i # j => PagesOf(m[i]) \cap PagesOf(m[j]) = {}
    /\ \A i \in DOMAIN m : \A p \in PagesOf(m[i]) : p * PAGE < WORD
    /\ Cardinality(UNION {PagesOf(m[i]) : i \in DOMAIN m}) < WORD

CleanMemory == \A m \in Maps : CleanMap(m)

\* No frame is lost: once booted, each usable frame is clear or in a block, and
\* kpmm_free_pages_amount, on which alone kpmm_alloc_pages answers NULL, "is the
\* amount of free pages available in the bitmap" (pmm.h:34).
FramesConserved ==
    /\ phase = "ready" => Usable = Clear \cup UNION {PagesOfBlock(b) : b \in live}
    /\ phase \in {"ready", "panic"} => kpmm_free_pages_amount = Cardinality(Clear)

\* The loops of kpmm_bitmap_get_n_continuous find a run exactly when there is
\* one, and then the first one, on every bitmap that allocations and frees
\* produce.
ScanIsFirstFit ==
    phase = "ready" =>
        \A n \in 1 .. MaxCount :
            /\ ScanFor(n).found <=> Runs(n) # {}
            /\ Runs(n) # {} => ScanFor(n).bit_tmp = GetNContinuous(n)
=============================================================================
