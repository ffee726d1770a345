--------------------------- MODULE PrimeTraceProofs ---------------------------
(***************************************************************************)
(* Proofs about a ray of prime, for any model, any number of hits and any  *)
(* way the GPU takes: every call reports a nearest hit behind the previous *)
(* one, and all of them when their distances differ.                       *)
(***************************************************************************)
EXTENDS PrimeTrace, TLAPS

---------------------------------------------------------------------------
(* The order of hits.                                                      *)

\* A HitRef, that of a hit or one that stands for none.
Keys == [t : Nat, primID : Nat, geomID : Nat, instID : Nat]

LEMMA LessIsTransitive ==
  ASSUME NEW a \in Keys, NEW b \in Keys, NEW c \in Keys, Less(a, b), Less(b, c)
  PROVE  Less(a, c)
  BY DEF Keys, Less

LEMMA LessIsTotal ==
  ASSUME NEW a \in Keys, NEW b \in Keys, ~ Less(a, b)
  PROVE  a = b \/ Less(b, a)
  BY DEF Keys, Less

LEMMA LessDistance ==
  ASSUME NEW a \in Keys, NEW b \in Keys
  PROVE  /\ Less(a, b) => a.t <= b.t
         /\ a.t < b.t => Less(a, b)
         /\ ~ Less(a, a)
  BY DEF Keys, Less

LEMMA HitsAreKeys ==
  ASSUME key \in Models, NEW h \in Hits
  PROVE  key[h] \in HitRef /\ key[h] \in Keys /\ key[h].t # TMax /\ key[h].t \in Nat
<1>1. key[h] \in HitRef /\ key[h].t # TMax BY ModelsAssumption
<1>2. \A k \in HitRef : k \in Keys /\ k.t \in Nat BY IntMaxAssumption DEF HitRef, Keys
<1> QED BY <1>1, <1>2

LEMMA EndsAreKeys == Nothing \in Keys /\ Miss \in Keys /\ Nothing.t = TMin /\ Miss.t = TMax
  BY IntMaxAssumption, IntervalAssumption DEF Nothing, Miss, After, Keys

\* No hit comes after what stands for none at its distance.
LEMMA NothingIsLast ==
  ASSUME key \in Models, NEW h \in Hits, NEW t \in Nat
  PROVE  /\ Less(After(t), key[h]) => t < key[h].t
         /\ key[h] # After(t)
<1>1. key[h] \in HitRef BY HitsAreKeys
<1>2. \A k \in HitRef : (Less(After(t), k) => t < k.t) /\ k # After(t)
  BY IntMaxAssumption DEF HitRef, After, Less
<1> QED BY <1>1, <1>2

---------------------------------------------------------------------------
(* The inductive invariant.                                                *)

Types ==
  /\ key \in Models
  /\ tracing \in BOOLEAN
  /\ hit \in {Nothing, Miss} \cup {key[h] : h \in Hits}
  /\ hurdle \in {Nothing, Miss} \cup {key[h] : h \in Hits}
  /\ closest \in {Miss} \cup {key[h] : h \in Hits}
  /\ rayTMin \in TMin .. TMax /\ rayTMax \in TMin .. TMax
  /\ visited \subseteq Hits /\ reported \subseteq Hits

\* The hits a trace is to find the nearest of.
Ahead(h) == Less(hurdle, key[h]) /\ key[h].t < TMax

\* The ray starts in front of all of them; the best so far is one of them, is
\* as near as any that was met, and the ray still reaches it.
Closing ==
  /\ \A h \in Hits : Ahead(h) => rayTMin < key[h].t
  /\ closest = Miss \/ \E h \in Hits : closest = key[h] /\ Ahead(h)
  /\ \A h \in visited : Ahead(h) => closest.t <= key[h].t
  /\ closest.t <= rayTMax

\* The hurdle is the last result or before all hits; what was reported leads up
\* to it.
Going ==
  /\ hurdle = Nothing \/ hurdle = hit
  /\ DistancesDiffer => reported = UpTo(hurdle)

Inv ==
  /\ Types
  /\ hit = Nothing \/ (TMin < hit.t /\ hit.t <= TMax)
  /\ tracing => Closing /\ Going
  /\ ~ tracing => DistinctHitsAllReported

LEMMA KeysOfTypes ==
  ASSUME Types
  PROVE  /\ hit \in Keys /\ hurdle \in Keys /\ closest \in Keys
         /\ hit.t \in Nat /\ hurdle.t \in Nat /\ closest.t \in Nat
<1>1. {Nothing, Miss} \cup {key[h] : h \in Hits} \subseteq Keys
  BY EndsAreKeys, HitsAreKeys DEF Types
<1>2. \A k \in Keys : k.t \in Nat BY DEF Keys
<1>3. hit \in Keys /\ hurdle \in Keys /\ closest \in Keys BY <1>1 DEF Types
<1> QED BY <1>2, <1>3

LEMMA UpToNothing == ASSUME key \in Models PROVE UpTo(Nothing) = {} BY DEF UpTo

LEMMA InitInv == Init => Inv
<1> SUFFICES ASSUME Init PROVE Inv OBVIOUS
<1>1. Types
  <2>1. TMin \in TMin .. TMax /\ TMax \in TMin .. TMax BY IntervalAssumption
  <2> QED BY <2>1 DEF Init, Types
<1>2. DistinctHitsAllReported BY UpToNothing DEF Init, DistinctHitsAllReported
<1> QED BY <1>1, <1>2 DEF Init, Inv

---------------------------------------------------------------------------
(* The steps.                                                              *)

LEMMA TraceFirstKeepsInv ==
  ASSUME Inv, TraceFirst
  PROVE  Inv'
<1>1. /\ tracing' = TRUE /\ closest' = Miss /\ rayTMax' = TMax /\ visited' = {}
      /\ key' = key /\ hit' = hit
      /\ hurdle' = Nothing /\ rayTMin' = TMin /\ reported' = {}
  BY DEF TraceFirst, Start
<1>2. Types' BY <1>1, IntervalAssumption DEF Inv, Types
<1>3. Closing'
  <2>1. \A h \in Hits : Less(Nothing, key[h]) => TMin < key[h].t
    BY NothingIsLast, IntervalAssumption DEF Inv, Types, Nothing
  <2>2. Miss.t <= TMax BY EndsAreKeys, IntervalAssumption
  <2> QED BY <1>1, <2>1, <2>2 DEF Closing, Ahead
<1>4. Going'
  BY <1>1, UpToNothing DEF Inv, Types, Going, UpTo, DistancesDiffer
<1>5. (hit = Nothing \/ (TMin < hit.t /\ hit.t <= TMax))' BY <1>1 DEF Inv, Nothing
<1> QED BY <1>1, <1>2, <1>3, <1>4, <1>5 DEF Inv

LEMMA TraceNextKeepsInv ==
  ASSUME Inv, TraceNext
  PROVE  Inv'
<1>1. /\ ~ tracing /\ hit # Nothing
      /\ tracing' = TRUE /\ closest' = Miss /\ rayTMax' = TMax /\ visited' = {}
      /\ key' = key /\ hit' = hit
      /\ hurdle' = hit /\ rayTMin' = hit.t - 1 /\ reported' = reported
  BY DEF TraceNext, Start, NextLowerThan
<1>2. hit \in Keys /\ hit.t \in Nat /\ TMin < hit.t /\ hit.t <= TMax
  BY <1>1, KeysOfTypes DEF Inv
<1>3. Types'
  <2>1. hit.t - 1 \in TMin .. TMax BY <1>2, IntervalAssumption
  <2> QED BY <1>1, <2>1, IntervalAssumption DEF Inv, Types
<1>4. Closing'
  <2>1. ASSUME NEW h \in Hits, Less(hit, key[h]) PROVE hit.t - 1 < key[h].t
    <3>1. key[h] \in Keys /\ key[h].t \in Nat BY HitsAreKeys DEF Inv, Types
    <3>2. hit.t <= key[h].t BY <1>2, <2>1, <3>1, LessDistance
    <3> QED BY <1>2, <3>1, <3>2
  <2>2. Miss.t <= TMax BY EndsAreKeys, IntervalAssumption
  <2> QED BY <1>1, <2>1, <2>2 DEF Closing, Ahead
<1>5. Going'
  <2>1. DistancesDiffer => reported = UpTo(hit)
    BY <1>1 DEF Inv, DistinctHitsAllReported
  <2> QED BY <1>1, <2>1 DEF Going, UpTo, DistancesDiffer, Nothing
<1>6. (hit = Nothing \/ (TMin < hit.t /\ hit.t <= TMax))' BY <1>1 DEF Inv, Nothing
<1> QED BY <1>1, <1>3, <1>4, <1>5, <1>6 DEF Inv

\* What the three ends of the any-hit program have in common.
LEMMA AnyHitKeepsInv ==
  ASSUME Inv, NEW h \in Hits, Visit(h),
         key' = key, hit' = hit, reported' = reported, tracing' = tracing,
         hurdle' = hurdle, rayTMin' = rayTMin,
         closest' = closest \/ (closest' = key[h] /\ Ahead(h) /\ key[h].t <= closest.t),
         rayTMax' = rayTMax \/ (rayTMax' = key[h].t /\ closest' = closest),
         Ahead(h) => closest'.t <= key[h].t,
         closest'.t <= rayTMax'
  PROVE  Inv'
<1>1. /\ tracing /\ visited' = visited \cup {h}
      /\ rayTMin <= key[h].t /\ key[h].t <= rayTMax
  BY DEF Visit, Met
<1>2. Types /\ Closing /\ Going BY <1>1 DEF Inv
<1>3. rayTMin \in Nat /\ rayTMin >= TMin /\ rayTMax \in Nat /\ rayTMax <= TMax
  BY <1>2, IntervalAssumption DEF Types
<1>4. key[h].t \in TMin .. TMax
  <2>1. key[h].t \in Nat BY <1>2, HitsAreKeys DEF Types
  <2> QED BY <1>1, <1>3, <2>1, IntervalAssumption
<1>5. Types' BY <1>1, <1>2, <1>4 DEF Types, Nothing, Miss
<1>6. \A g \in Hits : Ahead(g)' <=> Ahead(g) BY DEF Ahead
<1>7. Closing'
  <2>1. \A g \in Hits : Ahead(g) => rayTMin' < key'[g].t BY <1>2 DEF Closing
  <2>2. closest' = Miss \/ \E g \in Hits : closest' = key[g] /\ Ahead(g)
    BY <1>2 DEF Closing
  <2>3. ASSUME NEW g \in visited, Ahead(g) PROVE closest'.t <= key[g].t
    <3>1. closest.t <= key[g].t BY <1>2, <2>3 DEF Closing
    <3>2. key[g].t \in Nat /\ key[h].t \in Nat /\ closest.t \in Nat
      BY <1>2, KeysOfTypes, HitsAreKeys DEF Types
    <3> QED BY <3>1, <3>2
  <2>4. \A g \in visited' : Ahead(g) => closest'.t <= key[g].t BY <1>1, <2>3
  <2>5. closest' = Miss' \/ \E g \in Hits : closest' = key'[g] /\ Ahead(g)'
    BY <1>6, <2>2 DEF Miss
  <2>6. \A g \in visited' : Ahead(g)' => closest'.t <= key'[g].t
    <3> SUFFICES ASSUME NEW g \in visited', Ahead(g)' PROVE closest'.t <= key'[g].t OBVIOUS
    <3>1. g \in Hits BY <1>1, <1>2 DEF Types
    <3> QED BY <1>6, <2>4, <3>1
  <2>7. \A g \in Hits : Ahead(g)' => rayTMin' < key'[g].t BY <1>6, <2>1
  <2> QED BY <2>5, <2>6, <2>7 DEF Closing
<1>8. Going' BY <1>2 DEF Going, UpTo, DistancesDiffer, Nothing
<1>9. (hit = Nothing \/ (TMin < hit.t /\ hit.t <= TMax))' BY DEF Inv, Nothing
<1> QED BY <1>1, <1>5, <1>7, <1>8, <1>9 DEF Inv

LEMMA IgnoreKeepsInv ==
  ASSUME Inv, NEW h \in Hits, Ignore(h)
  PROVE  Inv'
<1>1. /\ Visit(h) /\ ~ Greater(key[h], hurdle)
      /\ key' = key /\ hit' = hit /\ reported' = reported /\ tracing' = tracing
      /\ hurdle' = hurdle /\ rayTMin' = rayTMin
      /\ closest' = closest /\ rayTMax' = rayTMax
  BY DEF Ignore, resultVars, rayVars
<1>2. ~ Ahead(h) BY <1>1 DEF Greater, Ahead
<1>3. closest'.t <= rayTMax' BY <1>1 DEF Inv, Closing, Visit, Met
<1> QED BY <1>1, <1>2, <1>3, AnyHitKeepsInv

LEMMA TakeKeepsInv ==
  ASSUME Inv, NEW h \in Hits, Take(h)
  PROVE  Inv'
<1>1. /\ Visit(h) /\ Less(hurdle, key[h]) /\ Less(key[h], closest)
      /\ key' = key /\ hit' = hit /\ reported' = reported /\ tracing' = tracing
      /\ hurdle' = hurdle /\ rayTMin' = rayTMin
      /\ closest' = key[h] /\ rayTMax' = rayTMax
  BY DEF Take, resultVars, rayVars, Greater
<1>2. /\ tracing /\ key[h].t <= rayTMax BY <1>1 DEF Visit, Met
<1>3. Types /\ Closing BY <1>2 DEF Inv
<1>4. /\ key[h] \in Keys /\ closest \in Keys /\ key[h].t \in Nat /\ key[h].t # TMax
      /\ rayTMax \in TMin .. TMax
  BY <1>3, KeysOfTypes, HitsAreKeys DEF Types
<1>5. Ahead(h) BY <1>1, <1>2, <1>4, IntervalAssumption DEF Ahead
<1>6. key[h].t <= closest.t BY <1>1, <1>4, LessDistance
<1>7. closest'.t <= key[h].t BY <1>1, <1>4
<1>8. closest'.t <= rayTMax' BY <1>1, <1>2
<1> QED BY <1>1, <1>5, <1>6, <1>7, <1>8, AnyHitKeepsInv

LEMMA AcceptKeepsInv ==
  ASSUME Inv, NEW h \in Hits, Accept(h)
  PROVE  Inv'
<1>1. /\ Visit(h)
      /\ key[h].t > closest.t \/ ~ Less(key[h], closest)
      /\ key' = key /\ hit' = hit /\ reported' = reported /\ tracing' = tracing
      /\ hurdle' = hurdle /\ rayTMin' = rayTMin
      /\ closest' = closest /\ rayTMax' = key[h].t
  BY DEF Accept, resultVars, rayVars
<1>2. Types BY DEF Inv
<1>3. /\ key[h] \in Keys /\ closest \in Keys /\ key[h].t \in Nat /\ closest.t \in Nat
  BY <1>2, KeysOfTypes, HitsAreKeys DEF Types
<1>4. closest.t <= key[h].t BY <1>1, <1>3, LessDistance
<1> QED BY <1>1, <1>4, AnyHitKeepsInv

\* At the end of a trace the best hit so far is a nearest one behind the hurdle.
LEMMA NearestAtEnd ==
  ASSUME Inv, End
  PROVE  /\ \A h \in Hits : Ahead(h) => closest.t <= key[h].t
         /\ closest = Miss => \A h \in Hits : ~ Ahead(h)
         /\ closest = Miss \/ \E h \in Hits : closest = key[h] /\ Ahead(h)
<1>1. tracing /\ \A h \in Hits : rayTMin < key[h].t /\ key[h].t < rayTMax => h \in visited
  BY DEF End
<1>2. Types /\ Closing BY <1>1 DEF Inv
<1>3. ASSUME NEW h \in Hits, Ahead(h) PROVE closest.t <= key[h].t
  <2>1. key[h].t \in Nat /\ closest.t \in Nat /\ rayTMax \in TMin .. TMax
    BY <1>2, KeysOfTypes, HitsAreKeys DEF Types
  <2>2. rayTMin < key[h].t /\ closest.t <= rayTMax BY <1>2, <1>3 DEF Closing
  <2>3. CASE h \in visited BY <1>2, <1>3, <2>3 DEF Closing
  <2>4. CASE h \notin visited
    <3>1. ~ (key[h].t < rayTMax) BY <1>1, <2>2, <2>4
    <3> QED BY <2>1, <2>2, <3>1, IntervalAssumption
  <2> QED BY <2>3, <2>4
<1>4. ASSUME closest = Miss, NEW h \in Hits, Ahead(h) PROVE FALSE
  <2>1. TMax <= key[h].t BY <1>3, <1>4, EndsAreKeys
  <2>2. key[h].t < TMax BY <1>4 DEF Ahead
  <2>3. key[h].t \in Nat BY <1>2, HitsAreKeys DEF Types
  <2> QED BY <2>1, <2>2, <2>3, IntervalAssumption
<1> QED BY <1>2, <1>3, <1>4 DEF Closing

LEMMA EndKeepsInv ==
  ASSUME Inv, End
  PROVE  Inv'
<1>1. /\ tracing /\ tracing' = FALSE /\ hit' = closest
      /\ reported' = reported \cup {h \in Hits : key[h] = closest}
      /\ UNCHANGED <<key, hurdle, rayTMin, closest, rayTMax, visited>>
  BY DEF End, rayVars
<1>2. Types /\ Closing /\ Going BY <1>1 DEF Inv
<1>3. Types' BY <1>1, <1>2 DEF Types, Nothing, Miss
<1>4. TMin < closest.t /\ closest.t <= TMax
  <2>1. CASE closest = Miss BY <2>1, EndsAreKeys, IntervalAssumption
  <2>2. ASSUME NEW h \in Hits, closest = key[h], Ahead(h)
        PROVE  TMin < closest.t /\ closest.t <= TMax
    <3>1. rayTMin < key[h].t /\ key[h].t < TMax BY <1>2, <2>2 DEF Closing, Ahead
    <3>2. rayTMin \in TMin .. TMax /\ key[h].t \in Nat BY <1>2, HitsAreKeys DEF Types
    <3> QED BY <2>2, <3>1, <3>2, IntervalAssumption
  <2> QED BY <2>1, <2>2, NearestAtEnd
<1>5. ASSUME DistancesDiffer
      PROVE  reported \cup {h \in Hits : key[h] = closest} = UpTo(closest)
  <2>1. reported = UpTo(hurdle) BY <1>2, <1>5 DEF Going
  <2> DEFINE Here(h) == Less(Nothing, key[h]) /\ key[h].t < TMax
  <2>2. ASSUME NEW h \in Hits
        PROVE  (Here(h) /\ ~ Less(hurdle, key[h])) \/ key[h] = closest
                 <=> Here(h) /\ ~ Less(closest, key[h])
    <3>1. /\ key[h] \in Keys /\ hurdle \in Keys /\ closest \in Keys
          /\ Nothing \in Keys /\ key[h] # Miss
      BY <1>2, KeysOfTypes, HitsAreKeys, EndsAreKeys, NothingIsLast, IntervalAssumption
         DEF Types, Miss
    <3>2. CASE closest = Miss
      <4>1. ~ Ahead(h) BY <3>2, NearestAtEnd
      <4>2. Here(h) => ~ Less(hurdle, key[h]) BY <4>1 DEF Ahead
      <4>3. ~ Less(Miss, key[h]) \/ ~ (key[h].t < TMax)
        <5>1. Less(Miss, key[h]) => TMax <= key[h].t
          BY <3>1, LessDistance, EndsAreKeys
        <5>2. key[h].t \in Nat BY <1>2, HitsAreKeys DEF Types
        <5> QED BY <5>1, <5>2, IntervalAssumption
      <4> QED BY <3>1, <3>2, <4>2, <4>3
    <3>3. ASSUME NEW g \in Hits, closest = key[g], Ahead(g)
          PROVE  (Here(h) /\ ~ Less(hurdle, key[h])) \/ key[h] = closest
                   <=> Here(h) /\ ~ Less(closest, key[h])
      <4>1. Less(hurdle, closest) /\ closest.t < TMax BY <3>3 DEF Ahead
      <4>2. Less(Nothing, closest)
        BY <1>4, <3>1, EndsAreKeys, LessDistance
      <4>3. ~ Less(hurdle, key[h]) => ~ Less(closest, key[h])
        BY <3>1, <4>1, LessIsTransitive
      <4>4. key[h] = closest => Here(h) /\ ~ Less(closest, key[h])
        BY <3>1, <4>1, <4>2, LessDistance
      <4>5. ASSUME Here(h), Less(hurdle, key[h]), ~ Less(closest, key[h])
            PROVE  key[h] = closest
        <5>1. closest.t <= key[h].t BY <4>5, NearestAtEnd DEF Ahead
        <5>2. closest.t \in Nat /\ key[h].t \in Nat
          BY <1>2, KeysOfTypes, HitsAreKeys DEF Types
        <5>3. ~ (closest.t < key[h].t) BY <3>1, <4>5, LessDistance
        <5>4. key[g].t = key[h].t BY <3>3, <5>1, <5>2, <5>3
        <5> QED BY <1>5, <3>3, <5>4 DEF DistancesDiffer
      <4> QED BY <4>3, <4>4, <4>5
    <3> QED BY <3>2, <3>3, NearestAtEnd
  <2> QED BY <2>1, <2>2 DEF UpTo
<1>6. DistinctHitsAllReported'
  BY <1>1, <1>5 DEF DistinctHitsAllReported, UpTo, DistancesDiffer, Nothing
<1>7. (hit = Nothing \/ (TMin < hit.t /\ hit.t <= TMax))' BY <1>1, <1>4
<1> QED BY <1>1, <1>3, <1>6, <1>7 DEF Inv

LEMMA NextKeepsInv == Inv /\ [Next]_vars => Inv'
<1> SUFFICES ASSUME Inv, [Next]_vars PROVE Inv' OBVIOUS
<1>1. CASE TraceFirst BY <1>1, TraceFirstKeepsInv
<1>2. CASE TraceNext BY <1>2, TraceNextKeepsInv
<1>3. CASE \E h \in Hits : Ignore(h) \/ Take(h) \/ Accept(h)
  BY <1>3, IgnoreKeepsInv, TakeKeepsInv, AcceptKeepsInv
<1>4. CASE End BY <1>4, EndKeepsInv
<1>5. CASE UNCHANGED vars
  <2>1. UNCHANGED <<key, hit, reported, tracing, hurdle, rayTMin, closest, rayTMax, visited>>
    BY <1>5 DEF vars, resultVars, rayVars
  <2>2. Types' BY <2>1 DEF Inv, Types, Nothing, Miss
  <2>3. (tracing => Closing /\ Going)'
    BY <2>1 DEF Inv, Closing, Going, Ahead, UpTo, DistancesDiffer, Nothing, Miss
  <2>4. (~ tracing => DistinctHitsAllReported)'
    BY <2>1 DEF Inv, DistinctHitsAllReported, UpTo, DistancesDiffer, Nothing
  <2> QED BY <2>1, <2>2, <2>3, <2>4 DEF Inv, Nothing
<1> QED BY <1>1, <1>2, <1>3, <1>4, <1>5 DEF Next

LEMMA InvAlways == Spec => []Inv
  BY InitInv, NextKeepsInv, PTL DEF Spec

---------------------------------------------------------------------------
(* The theorems.                                                           *)

\* Every variable keeps its type for any model; in particular the ray of
\* VP_TRACE_MODE_NEXT_HIT, which steps back before the previous hit, never
\* starts before the ray of the application does.
THEOREM TypesAlwaysOK == Spec => []TypeOK
<1>1. Inv => TypeOK BY DEF Inv, Types, TypeOK
<1> QED BY <1>1, InvAlways, PTL

\* VP_TRACE_MODE_NEXT_HIT skips no hit when all distances differ.
THEOREM DistinctHitsAlwaysAllReported == Spec => []DistinctHitsAllReported
<1>1. Inv => DistinctHitsAllReported
  <2>1. DistinctHitsAllReported <=> (~ tracing => DistinctHitsAllReported)
    BY DEF DistinctHitsAllReported
  <2> QED BY <2>1 DEF Inv
<1> QED BY <1>1, InvAlways, PTL

\* The device code's own records do what HitSequence says: however the GPU walks the
\* model, a trace ends with a nearest hit behind the previous one.
THEOREM ImplementsHitSequence == Spec => SequenceSpec
<1>1. Init => Sequence!Init
  <2>1. ASSUME Init PROVE key \in [Hits -> HitRef]
    BY <2>1, ModelsAssumption DEF Init
  <2> QED BY <2>1 DEF Init, Sequence!Init, Nothing, Sequence!Nothing, After, Sequence!After,
        HitRef, Sequence!HitRef
<1>2. Inv /\ [Next]_vars => [Sequence!Next]_<<key, hit>>
  <2> SUFFICES ASSUME Inv, [Next]_vars PROVE [Sequence!Next]_<<key, hit>> OBVIOUS
  <2>1. CASE End
    <3>1. /\ hit' = closest /\ key' = key /\ tracing BY <2>1 DEF End
    <3>2. Going BY <3>1 DEF Inv
    <3>3. Sequence!Remaining(hurdle) = {h \in Hits : Ahead(h)}
      BY DEF Sequence!Remaining, Ahead, Less, Sequence!Less
    <3>4. Sequence!Report(hurdle)
      <4>1. CASE closest = Miss
        <5>1. Sequence!Remaining(hurdle) = {} BY <2>1, <3>3, <4>1, NearestAtEnd
        <5> QED BY <3>1, <4>1, <5>1
              DEF Sequence!Report, Miss, Sequence!Miss, After, Sequence!After
      <4>2. ASSUME NEW h \in Hits, closest = key[h], Ahead(h) PROVE Sequence!Report(hurdle)
        <5>1. \A g \in Sequence!Remaining(hurdle) : key[h].t <= key[g].t
          BY <2>1, <3>3, <4>2, NearestAtEnd
        <5>2. h \in Sequence!Nearest(hurdle) BY <3>3, <4>2, <5>1 DEF Sequence!Nearest
        <5> QED BY <3>1, <3>3, <4>2, <5>2 DEF Sequence!Report
      <4> QED BY <2>1, <4>1, <4>2, NearestAtEnd
    <3> QED BY <3>2, <3>4 DEF Going, Sequence!Next, Sequence!FirstHit, Sequence!NextHit,
          Nothing, Sequence!Nothing, After, Sequence!After
  <2>2. CASE TraceFirst BY <2>2 DEF TraceFirst, Start
  <2>3. CASE TraceNext BY <2>3 DEF TraceNext, Start
  <2>4. CASE \E h \in Hits : Ignore(h) \/ Take(h) \/ Accept(h)
    BY <2>4 DEF Ignore, Take, Accept, resultVars
  <2>5. CASE UNCHANGED vars BY <2>5 DEF vars, resultVars
  <2> QED BY <2>1, <2>2, <2>3, <2>4, <2>5 DEF Next
<1> QED BY <1>1, <1>2, InvAlways, PTL DEF Spec, SequenceSpec, Sequence!Spec
=============================================================================
