---------------------------- MODULE MCLifetimes ----------------------------
(* Model of Lifetimes for TLC: a driver instance with two GPUs and one with*)
(* a single GPU.                                                           *)
EXTENDS Lifetimes

CONSTANTS i1, i2, d1, d2, d3

MCInstances == {i1, i2}
MCDevices == {d1, d2, d3}
MCDriverOf == [d \in MCDevices |-> IF d = d3 THEN i2 ELSE i1]
=============================================================================
