------------------------------- MODULE MCPmm -------------------------------
(***************************************************************************)
(* Instances of Pmm for TLC: 4-byte pages, at most 8 pages of memory.      *)
(***************************************************************************)
EXTENDS Pmm

Entry(b, l, t) == [base |-> b, length |-> l, type |-> t]

\* Maps with disjoint entries, in any order: one below MIN_FREE and one across
\* it, unaligned ends, a hole, a reserved entry on top, one so far up that
\* the bitmap does not fit in the early heap.
CleanMaps ==
    LET low == Entry(0, 6, "FREE")
        all == Entry(0, 32, "FREE")
        mid == Entry(6, 11, "FREE")
        rom == Entry(17, 2, "USED")
        high == Entry(19, 13, "FREE")
        top == Entry(32, 32, "USED")
        far == Entry(400, 40, "USED")
    IN {<<>>, <<low>>, <<all>>, <<low, mid, rom, high>>, <<high, mid, low>>,
        <<mid, rom, high>>, <<all, top>>, <<all, far>>}

ASSUME MapsAreClean == CleanMemory
=============================================================================
