------------------------- MODULE MCRangeAllocator -------------------------
(* Model of RangeAllocator for TLC.                                        *)
EXTENDS RangeAllocator

CONSTANTS a1, a2, a3, a4

MCAccels == {a1, a2, a3, a4}
MCSymmetry == Permutations(MCAccels)
===========================================================================
