-------------------------- MODULE MCShaderTables --------------------------
(* Models of ShaderTables for TLC.                                         *)
EXTENDS ShaderTables

CONSTANTS a1, i1, g1, g2

MCOneAccel == {a1}
MCInstAccels == {i1}
MCTwoGeoms == {g1, g2}
MCNone == {}
MCSymmetry == Permutations(MCTwoGeoms)
===========================================================================
