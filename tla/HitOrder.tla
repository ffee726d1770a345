------------------------------ MODULE HitOrder ------------------------------
(***************************************************************************)
(* The order in which prime reports the hits of a ray: the device code's   *)
(* HitRef and less().                                                      *)
(***************************************************************************)
EXTENDS Integers

CONSTANT IntMax  \* INT_MAX: larger than any ID of a hit

ASSUME IntMaxAssumption == IntMax \in Nat

\* A hit that exists; the IDs are those of the triangle in its mesh, of the
\* mesh, and of the instance in its model.
HitRef == [t : Nat, primID : 0 .. IntMax - 1, geomID : 0 .. IntMax - 1, instID : 0 .. IntMax - 1]

\* What stands for "no hit" at a distance: it comes after every hit there.
After(t) == [t |-> t, primID |-> IntMax, geomID |-> IntMax, instID |-> IntMax]

Less(a, b) ==
  \/ a.t < b.t
  \/ a.t = b.t /\ a.primID < b.primID
  \/ a.t = b.t /\ a.primID = b.primID /\ a.geomID < b.geomID
  \/ a.t = b.t /\ a.primID = b.primID /\ a.geomID = b.geomID /\ a.instID < b.instID

Greater(a, b) == Less(b, a)
=============================================================================
