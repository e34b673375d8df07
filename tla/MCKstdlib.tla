----------------------------- MODULE MCKstdlib -----------------------------
(***************************************************************************)
(* Instances of Kstdlib for TLC.                                           *)
(***************************************************************************)
EXTENDS Kstdlib

\* The largest and the smallest number of a word of 8 bits, and some between.
Edges == {-2 ^ (WORD - 1), -7, 0, 13, K_LONG_MAX}
=============================================================================
