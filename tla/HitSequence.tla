---------------------------- MODULE HitSequence ----------------------------
(***************************************************************************)
(* The sequence of results the device code of prime means to write for one *)
(* ray, whatever way the GPU takes through the model:                      *)
(* VP_TRACE_MODE_FIRST_HIT a hit nearest to the ray's origin, and every    *)
(* VP_TRACE_MODE_NEXT_HIT after it one that comes later in the order of    *)
(* hits and is nearest among those, until none is left.  When no two hits  *)
(* have the same distance these are all hits, each once.                   *)
(*                                                                         *)
(* The results are PrimeHit records, as the device code writes and reads   *)
(* them (deviceCode.h:28).  They are not the VPHit records of prime.h:54,  *)
(* which an application reads from the same memory: those have other       *)
(* fields at other places, and say that nothing was hit in another way.    *)
(***************************************************************************)
EXTENDS HitOrder

CONSTANTS
  Hits,       \* the places where the ray meets the model
  TMin, TMax  \* the interval of the ray

VARIABLES
  key,  \* the HitRef of each place
  hit   \* the PrimeHit written last

\* Before the first call, and what the device code writes when there is no hit
\* left: INT_MAX for every number, the end of the ray for the distance.
Nothing == After(TMin)
Miss == After(TMax)

Init ==
  /\ key \in [Hits -> HitRef]
  /\ hit = Nothing

\* The hits after k in the interval of the ray, and the nearest of them.
Remaining(k) == {h \in Hits : Less(k, key[h]) /\ key[h].t < TMax}
Nearest(k) == {h \in Remaining(k) : \A g \in Remaining(k) : key[h].t <= key[g].t}

Report(k) ==
  /\ IF Remaining(k) = {} THEN hit' = Miss ELSE \E h \in Nearest(k) : hit' = key[h]
  /\ UNCHANGED key

FirstHit == Report(Nothing)
NextHit == Report(hit)

Next == FirstHit \/ NextHit

Spec == Init /\ [][Next]_<<key, hit>>
=============================================================================
