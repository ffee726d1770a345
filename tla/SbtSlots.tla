----------------------------- MODULE SbtSlots -----------------------------
(***************************************************************************)
(* What the SBT range allocator promises the acceleration structures of a  *)
(* context: while an accel lives it owns a contiguous run of hit-group     *)
(* slots of the shader binding table, no two accels own the same slot, and *)
(* an accel's slots never move.  How the slots are found and recycled is   *)
(* not said here; RangeAllocator says it and is shown to implement this.   *)
(***************************************************************************)
EXTENDS Integers

CONSTANT Accels      \* the acceleration structures of one context

VARIABLE slots       \* slots[a]: the SBT slots accel a owns

---------------------------------------------------------------------------
Contiguous(S) == \A x, y \in S : x .. y \subseteq S

Init == slots = [a \in Accels |-> {}]

\* An accel obtains a run of slots nobody else owns.
Acquire(a) ==
  /\ slots[a] = {}
  /\ slots'[a] \subseteq Nat
  /\ Contiguous(slots'[a])
  /\ \A b \in Accels \ {a} : slots[b] \cap slots'[a] = {}
  /\ slots' = [slots EXCEPT ![a] = slots'[a]]

\* An accel dies and gives up all its slots at once.
GiveUp(a) == slots' = [slots EXCEPT ![a] = {}]

Next == \E a \in Accels : Acquire(a) \/ GiveUp(a)

Spec == Init /\ [][Next]_slots
===========================================================================
