----------------------------- MODULE PrimeTrace -----------------------------
(***************************************************************************)
(* prime: one ray through a model, by vpTrace() and its device code.  The  *)
(* result is the PrimeHit of the device code (deviceCode.h:28).            *)
(*                                                                         *)
(* A trace is a call of vpTrace(), which waits for the GPU.  The ray       *)
(* generation program sets up the hurdle (the hit reported before) and the *)
(* ray; the GPU walks the model and calls the any-hit program for the hits *)
(* it meets, in any order, and more than once for one hit if it likes (the *)
(* geometry flag that forbids it is not set); at the end the best hit so   *)
(* far is the result.  Rays do not see each other, so one is enough.       *)
(*                                                                         *)
(* Distances stand for floats: an even number is one, and the odd number   *)
(* below it nextLowerThan() of it.                                         *)
(***************************************************************************)
EXTENDS HitOrder, FiniteSets

CONSTANTS
  Hits,        \* the places where the ray meets the model
  Models,      \* the models to try: each gives every place its HitRef
  TMin, TMax,  \* the interval of the ray
  MayRepeat    \* whether the any-hit program is called again for the same hit

ASSUME IntervalAssumption == TMin \in Nat /\ TMax \in Nat /\ TMin < TMax

\* No two places are the same triangle, and none is exactly at the end of the
\* ray, where it is up to the GPU whether it counts.
ASSUME ModelsAssumption ==
  \A m \in Models :
    /\ m \in [Hits -> HitRef]
    /\ \A h, g \in Hits : m[h] = m[g] => h = g
    /\ \A h \in Hits : m[h].t # TMax

ASSUME MayRepeatAssumption == MayRepeat \in BOOLEAN

VARIABLES
  key,      \* the model
  hit,      \* hits[rayID]: the result of the last trace
  tracing,  \* whether the GPU is at it
  hurdle,   \* PRD::hurdle
  closest,  \* PRD::closestSoFar.hit
  rayTMin,  \* the interval in which the GPU still looks for hits: RayDesc::TMin,
  rayTMax,  \* RayTCurrent() of the hit accepted last
  visited,  \* the hits the any-hit program was called for
  reported  \* the results since the last VP_TRACE_MODE_FIRST_HIT

resultVars == <<hit, reported>>
rayVars == <<hurdle, rayTMin>>
vars == <<key, resultVars, tracing, rayVars, closest, rayTMax, visited>>

Nothing == After(TMin)
Miss == After(TMax)

Init ==
  /\ key \in Models
  /\ hit = Nothing /\ reported = {}
  /\ tracing = FALSE
  /\ hurdle = Nothing /\ closest = Miss
  /\ rayTMin = TMin /\ rayTMax = TMax
  /\ visited = {}

---------------------------------------------------------------------------
NextLowerThan(t) == t - 1

Start ==
  /\ ~ tracing
  /\ tracing' = TRUE
  /\ closest' = Miss /\ rayTMax' = TMax
  /\ visited' = {}
  /\ UNCHANGED <<key, hit>>

\* Mutant: every ray steps back.
TraceFirstSteppingBack ==
  /\ Start
  /\ hurdle' = Nothing /\ rayTMin' = NextLowerThan(TMin)
  /\ reported' = {}

\* vpTrace() in VP_TRACE_MODE_FIRST_HIT
TraceFirst ==
  /\ Start
  /\ hurdle' = Nothing /\ rayTMin' = TMin
  /\ reported' = {}

\* vpTrace() in VP_TRACE_MODE_NEXT_HIT: the ray starts just before the previous
\* hit, so that others at the same distance are met again.
TraceNext ==
  /\ hit # Nothing
  /\ Start
  /\ hurdle' = hit /\ rayTMin' = NextLowerThan(hit.t)
  /\ UNCHANGED reported

---------------------------------------------------------------------------
(* The any-hit program at h.  Ignoring a hit leaves the ray as long as it   *)
(* is; accepting one makes the GPU look only for nearer ones from there on. *)

Met(h) ==
  /\ tracing
  /\ rayTMin <= key[h].t /\ key[h].t <= rayTMax
  /\ MayRepeat \/ h \notin visited

Visit(h) == Met(h) /\ visited' = visited \cup {h}

\* Mutant: the program returns without ignoring the hit.
ReturnBelowHurdle(h) ==
  /\ Visit(h)
  /\ key[h].t <= closest.t /\ ~ Greater(key[h], hurdle)
  /\ rayTMax' = key[h].t
  /\ UNCHANGED <<key, resultVars, tracing, rayVars, closest>>

Ignore(h) ==
  /\ Visit(h)
  /\ key[h].t <= closest.t /\ ~ Greater(key[h], hurdle)
  /\ UNCHANGED <<key, resultVars, tracing, rayVars, closest, rayTMax>>

\* Mutant: the hurdle is not looked at.
TakeBelowHurdle(h) ==
  /\ Visit(h)
  /\ Less(key[h], closest)
  /\ closest' = key[h]
  /\ UNCHANGED <<key, resultVars, tracing, rayVars, rayTMax>>

Take(h) ==
  /\ Visit(h)
  /\ key[h].t <= closest.t /\ Greater(key[h], hurdle)
  /\ Less(key[h], closest)
  /\ closest' = key[h]
  /\ UNCHANGED <<key, resultVars, tracing, rayVars, rayTMax>>

\* A hit farther than the best so far, and one at the distance of the best that
\* does not come before it: the program ends without ignoring it.
Accept(h) ==
  /\ Visit(h)
  /\ \/ key[h].t > closest.t
     \/ Greater(key[h], hurdle) /\ ~ Less(key[h], closest)
  /\ rayTMax' = key[h].t
  /\ UNCHANGED <<key, resultVars, tracing, rayVars, closest>>

\* Every hit inside what is left of the ray's interval was met; the ray
\* generation program writes the result.
End ==
  /\ tracing
  /\ \A h \in Hits : rayTMin < key[h].t /\ key[h].t < rayTMax => h \in visited
  /\ tracing' = FALSE
  /\ hit' = closest
  /\ reported' = reported \cup {h \in Hits : key[h] = closest}
  /\ UNCHANGED <<key, rayVars, closest, rayTMax, visited>>

Next ==
  \/ TraceFirst
  \/ TraceNext
  \/ \E h \in Hits : Ignore(h) \/ Take(h) \/ Accept(h)
  \/ End

Spec == Init /\ [][Next]_vars
---------------------------------------------------------------------------
(* Properties.                                                             *)

\* In particular no ray starts before its origin, although NEXT_HIT steps back.
TypeOK ==
  /\ key \in Models
  /\ tracing \in BOOLEAN
  /\ {hit, hurdle} \subseteq {Nothing, Miss} \cup {key[h] : h \in Hits}
  /\ closest \in {Miss} \cup {key[h] : h \in Hits}
  /\ rayTMin \in TMin .. TMax /\ rayTMax \in TMin .. TMax
  /\ visited \subseteq Hits /\ reported \subseteq Hits

\* The hits of the ray up to k in the order of hits.
UpTo(k) == {h \in Hits : Less(Nothing, key[h]) /\ key[h].t < TMax /\ ~ Less(k, key[h])}

DistancesDiffer == \A h, g \in Hits : key[h].t = key[g].t => h = g

\* When no two hits of the ray have the same distance, what the calls have
\* reported is, after each, exactly the hits up to the last one: none is
\* skipped whichever way the GPU took and whatever it accepted meanwhile.
DistinctHitsAllReported == DistancesDiffer /\ ~ tracing => reported = UpTo(hit)

\* With or without hits at one distance, each call reports a hit that is
\* nearest among those after the previous one, or none when there is none: the
\* PrimeHit records go through the sequence the device code means to write.
Sequence == INSTANCE HitSequence
SequenceSpec == Sequence!Spec

\* deviceCode.slang:84 "we _did_ accept, but still have to reject at that
\* distance, so the pipeline will still call us with other hits at same
\* distance": hits at one distance are all reported, too.
HitsAllReported == ~ tracing => reported = UpTo(hit)
=============================================================================
