------------------------------- MODULE MCHeap ------------------------------
(***************************************************************************)
(* Instances of Heap for TLC: 8-byte pages, 3-byte headers, alignment 2, a *)
(* heap of four pages, addresses and sizes of 6 bits.                      *)
(***************************************************************************)
EXTENDS Heap

\* Enough frames for the heap, or too few; or enough, but in pieces.
HeapMaps ==
    LET region(b, l) == [base |-> b, length |-> l, type |-> "FREE"]
    IN {<<region(0, 56)>>, <<region(0, 32)>>, <<region(8, 24), region(40, 16)>>}

\* One map, with a frame to spare.
OneMap == {<<[base |-> 0, length |-> 48, type |-> "FREE"]>>}

ASSUME MapsAreClean == CleanMemory
=============================================================================
