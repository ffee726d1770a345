---------------------------- MODULE MCAccelTree ----------------------------
(* Model of AccelTree for TLC.                                             *)
EXTENDS AccelTree

CONSTANTS a1, a2, i1, i2

MCGeomAccels == {a1, a2}
MCInstAccels == {i1, i2}
MCMaxInstances == [i \in MCInstAccels |-> IF i = i1 THEN 2 ELSE 1]
===========================================================================
