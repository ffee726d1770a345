-------------------------- MODULE ShaderTablesProofs --------------------------
(***************************************************************************)
(* Proofs about the pipeline and the shader binding table, for any types   *)
(* at any addresses, any geometries and accels and any number of builds:   *)
(* what buildPipeline() and buildSBT() leave leads every hit and every     *)
(* call to the programs and the data of its own object.                    *)
(***************************************************************************)
EXTENDS ShaderTables, SequenceTheorems, FiniteSetTheorems, TLAPS

Allocator == INSTANCE RangeAllocatorProofs WITH MaxEntries <- MaxGeoms

---------------------------------------------------------------------------
(* The order of a std::set and the numbers of gatherPrograms().            *)

\* A type's place in its set is the number of types below it, and no other
\* type has that place.
LEMMA PlaceInSet ==
  ASSUME NEW S \in SUBSET Nat, IsFiniteSet(S), NEW t \in S
  PROVE  /\ Below(S, t) \in Nat /\ Below(S, t) < Cardinality(S)
         /\ \A u \in S : Below(S, u) = Below(S, t) => u = t
<1> DEFINE under(u) == {v \in S : v < u}
<1>1. ASSUME NEW u \in S
      PROVE  /\ IsFiniteSet(under(u)) /\ Below(S, u) = Cardinality(under(u))
             /\ Cardinality(under(u)) \in Nat /\ u \notin under(u)
  <2>1. under(u) \in SUBSET S OBVIOUS
  <2>2. IsFiniteSet(under(u)) BY <2>1, FS_Subset
  <2> QED BY <2>2, FS_CardinalityType DEF Below
<1>2. ASSUME NEW u \in S, NEW w \in S, u < w
      PROVE  Below(S, u) # Below(S, w)
  <2>1. under(u) \in SUBSET under(w) /\ u \in under(w)
    <3>1. ASSUME NEW v \in S, v < u PROVE v < w BY <1>2, <3>1
    <3> QED BY <1>2, <3>1
  <2>2. IsFiniteSet(under(w)) /\ u \notin under(u) BY <1>1
  <2>3. under(u) # under(w) BY <2>1, <2>2
  <2> HIDE DEF under
  <2>4. Cardinality(under(w)) # Cardinality(under(u)) BY <2>1, <2>2, <2>3, FS_Subset
  <2> QED BY <1>1, <2>4
<1>3. \A u \in S : Below(S, u) = Below(S, t) => u = t
  <2> SUFFICES ASSUME NEW u \in S, u # t PROVE Below(S, u) # Below(S, t) OBVIOUS
  <2>1. u < t \/ t < u OBVIOUS
  <2> QED BY <1>2, <2>1
<1>4. Below(S, t) < Cardinality(S)
  <2>1. under(t) \in SUBSET S /\ under(t) # S BY <1>1
  <2>2. Cardinality(S) \in Nat BY FS_CardinalityType
  <2> HIDE DEF under
  <2>3. Cardinality(under(t)) <= Cardinality(S) /\ Cardinality(S) # Cardinality(under(t))
    BY <2>1, FS_Subset
  <2> QED BY <1>1, <2>2, <2>3
<1> QED BY <1>1, <1>3, <1>4

LEMMA InOrderProperties ==
  ASSUME NEW S \in SUBSET Nat, IsFiniteSet(S)
  PROVE  /\ Cardinality(S) \in Nat
         /\ InOrder(S) \in [1 .. Cardinality(S) -> S]
         /\ \A t \in S : InOrder(S)[Below(S, t) + 1] = t
<1> DEFINE n == Cardinality(S)
<1>1. n \in Nat BY FS_CardinalityType
<1>2. ASSUME NEW t \in S PROVE InOrder(S)[Below(S, t) + 1] = t
  <2> DEFINE i == Below(S, t) + 1
  <2>1. Below(S, t) \in Nat /\ i \in 1 .. n BY <1>1, PlaceInSet
  <2>2. InOrder(S)[i] = CHOOSE u \in S : Below(S, u) = i - 1 BY <2>1 DEF InOrder
  <2>3. i - 1 = Below(S, t) BY <2>1
  <2>4. \A u \in S : Below(S, u) = i - 1 <=> u = t BY <2>3, PlaceInSet
  <2> HIDE DEF i
  <2>5. (CHOOSE u \in S : Below(S, u) = i - 1) = t BY <2>4
  <2> QED BY <2>2, <2>5 DEF i
\* Every place is somebody's, since there are as many places as types.
<1>3. ASSUME NEW i \in 1 .. n PROVE InOrder(S)[i] \in S
  <2> DEFINE place == [t \in S |-> Below(S, t) + 1]
  <2>1. \A t \in S : Below(S, t) \in Nat /\ Below(S, t) + 1 \in 1 .. n BY <1>1, PlaceInSet
  <2>2. place \in [S -> 1 .. n] BY <2>1
  <2>3. \A t, u \in S : place[t] = place[u] => t = u BY <2>1, PlaceInSet
  <2>4. IsFiniteSet(1 .. n) /\ Cardinality(1 .. n) = n BY <1>1, FS_Interval
  <2> HIDE DEF place, n
  <2>5. place \in Injection(S, 1 .. n) BY <2>2, <2>3 DEF Injection, IsInjective
  <2>6. Cardinality(S) = Cardinality(1 .. n) BY <2>4 DEF n
  <2>7. place \in Surjection(S, 1 .. n) BY <2>4, <2>5, <2>6, FS_Injection
  <2>8. PICK t \in S : place[t] = i BY <2>7 DEF Surjection
  <2>9. Below(S, t) + 1 = i BY <2>8 DEF place
  <2> QED BY <1>2, <2>9
<1>4. DOMAIN InOrder(S) = 1 .. n /\ InOrder(S) = [i \in 1 .. n |-> InOrder(S)[i]]
  BY DEF InOrder
<1>5. InOrder(S) \in [1 .. n -> S] BY <1>3, <1>4
<1> QED BY <1>1, <1>2, <1>5

\* A function over 1 .. n is a sequence of that length.
LEMMA FunctionIsSeq ==
  ASSUME NEW V, NEW n \in Nat, NEW f \in [1 .. n -> V]
  PROVE  f \in Seq(V) /\ Len(f) = n
<1>1. f \in Seq(V) BY SeqDef
<1>2. DOMAIN f = 1 .. n /\ DOMAIN f = 1 .. Len(f) /\ Len(f) \in Nat BY <1>1, LenProperties
<1> QED BY <1>1, <1>2

\* Two sequences one behind the other.
LEMMA Concatenated ==
  ASSUME NEW V, NEW f \in Seq(V), NEW g \in Seq(V), NEW t, t = f \o g,
         NEW k \in Nat, Len(f) = k, NEW m \in Nat, Len(g) = m, NEW n, n = k + m
  PROVE  /\ t \in Seq(V) /\ Len(t) = n /\ n \in Nat /\ DOMAIN t = 1 .. n
         /\ \A i \in 1 .. k : t[i] = f[i]
         /\ \A i \in 1 .. m : t[k + i] = g[i]
<1>1. /\ t \in Seq(V) /\ Len(t) = n /\ n \in Nat
      /\ \A i \in 1 .. n : t[i] = IF i <= k THEN f[i] ELSE g[i - k]
  <2>1. /\ t \in Seq(V) /\ Len(t) = Len(f) + Len(g)
        /\ \A i \in 1 .. Len(f) + Len(g) :
             t[i] = IF i <= Len(f) THEN f[i] ELSE g[i - Len(f)]
    BY ConcatProperties
  <2> QED BY <2>1
<1>2. DOMAIN t = 1 .. n BY <1>1, LenProperties
<1>3. ASSUME NEW i \in 1 .. k PROVE t[i] = f[i]
  <2>1. i \in 1 .. n /\ i <= k OBVIOUS
  <2> QED BY <1>1, <2>1
<1>4. ASSUME NEW i \in 1 .. m PROVE t[k + i] = g[i]
  <2>1. k + i \in 1 .. n /\ ~ (k + i <= k) /\ (k + i) - k = i OBVIOUS
  <2> QED BY <1>1, <2>1
<1> QED BY <1>1, <1>2, <1>3, <1>4

---------------------------------------------------------------------------
(* The inductive invariant.                                                *)

Tracked ==
  /\ rayGenTypes \subseteq RayGens /\ IsFiniteSet(rayGenTypes)
  /\ missProgTypes \subseteq MissProgs /\ IsFiniteSet(missProgTypes)
  /\ geomTypes \subseteq GeomTypes /\ IsFiniteSet(geomTypes)
  /\ rayGens \in Seq(rayGenTypes) /\ missProgs \in Seq(missProgTypes)
  /\ geomType \in [Geoms -> geomTypes \cup {0}]
  /\ geoms \in [GeomAccels -> Seq(Geoms)]
  /\ builds \in Nat

\* An accel has an entry for each of its geometries, and these exist.
Placed ==
  \A a \in live \cap GeomAccels :
    /\ sbtEntries[a].size = Len(geoms[a])
    /\ \A j \in DOMAIN geoms[a] : geomType[geoms[a][j]] \in geomTypes

\* The handles are those of the pipeline.
HandlesCurrent ==
  phase # Changing =>
    handles = [i \in DOMAIN shaderGroups |-> HandleOf(pipeline, shaderGroups[i])]

Inv ==
  /\ Tracked /\ Placed /\ Allocator!Partition
  /\ GroupIndicesCurrent /\ HandlesCurrent
  /\ HitsReachTheirGeometry /\ CallsReachTheirProgram

LEMMA AddressesAreNatural ==
  ASSUME Tracked
  PROVE  /\ rayGenTypes \in SUBSET Nat /\ missProgTypes \in SUBSET Nat
         /\ geomTypes \in SUBSET Nat /\ 0 \notin geomTypes
         /\ TrackedTypes \subseteq Types
  BY AddressesDiffer DEF Tracked, TrackedTypes, Types

\* What gatherPrograms() makes of its three sets.
LEMMA GatheredParts ==
  ASSUME Tracked,
         NEW k, k = Cardinality(missProgTypes), NEW m, m = Cardinality(rayGenTypes),
         NEW n, n = Cardinality(geomTypes)
  PROVE  /\ k \in Nat /\ m \in Nat /\ n \in Nat
         /\ Gathered \in [1 .. k + m + n -> TrackedTypes]
         /\ \A i \in 1 .. k : Gathered[i] = InOrder(missProgTypes)[i]
         /\ \A i \in 1 .. m : Gathered[k + i] = InOrder(rayGenTypes)[i]
         /\ \A i \in 1 .. n : Gathered[k + m + i] = InOrder(geomTypes)[i]
<1> DEFINE f == InOrder(missProgTypes)
           g == InOrder(rayGenTypes)
           h == InOrder(geomTypes)
           V == TrackedTypes
<1>1. k \in Nat /\ f \in [1 .. k -> V]
  BY InOrderProperties, AddressesAreNatural DEF Tracked, TrackedTypes
<1>2. m \in Nat /\ g \in [1 .. m -> V]
  BY InOrderProperties, AddressesAreNatural DEF Tracked, TrackedTypes
<1>3. n \in Nat /\ h \in [1 .. n -> V]
  BY InOrderProperties, AddressesAreNatural DEF Tracked, TrackedTypes
<1>4. Gathered = f \o g \o h BY DEF Gathered
<1> HIDE DEF f, g, h, V
<1>5. f \in Seq(V) /\ Len(f) = k BY <1>1, FunctionIsSeq
<1>6. g \in Seq(V) /\ Len(g) = m BY <1>2, FunctionIsSeq
<1>7. h \in Seq(V) /\ Len(h) = n BY <1>3, FunctionIsSeq
<1> DEFINE p == k + m
           s == f \o g
<1>8. /\ s \in Seq(V) /\ Len(s) = p /\ p \in Nat
      /\ \A i \in 1 .. k : s[i] = f[i]
      /\ \A i \in 1 .. m : s[k + i] = g[i]
  <2>1. s = f \o g /\ p = k + m /\ k \in Nat /\ m \in Nat BY <1>1, <1>2
  <2>2. p \in Nat BY <1>1, <1>2
  <2> HIDE DEF s, p
  <2>3. f \in Seq(V) /\ Len(f) = k /\ g \in Seq(V) /\ Len(g) = m BY <1>5, <1>6
  <2>4. s \in Seq(V) BY <2>1, <2>3, Concatenated
  <2>5. Len(s) = p BY <2>1, <2>3, ConcatProperties
  <2>6. \A i \in 1 .. k : s[i] = f[i] BY <2>1, <2>3, Concatenated
  <2>7. \A i \in 1 .. m : s[k + i] = g[i] BY <2>1, <2>3, Concatenated
  <2> QED BY <2>2, <2>4, <2>5, <2>6, <2>7
<1> DEFINE q == p + n
           t == Gathered
<1>9. q = p + n /\ t = s \o h BY <1>4
<1> HIDE DEF s, q, t
<1>10. /\ t \in Seq(V) /\ DOMAIN t = 1 .. q
       /\ \A i \in 1 .. p : t[i] = s[i]
       /\ \A i \in 1 .. n : t[p + i] = h[i]
  <2>1. s \in Seq(V) /\ Len(s) = p /\ p \in Nat BY <1>8
  <2>2. q = p + n /\ t = s \o h /\ h \in Seq(V) /\ Len(h) = n /\ n \in Nat
    BY <1>3, <1>7, <1>9
  <2> HIDE DEF p
  <2>3. t \in Seq(V) /\ DOMAIN t = 1 .. q BY <2>1, <2>2, Concatenated
  <2>4. \A i \in 1 .. p : t[i] = s[i] BY <2>1, <2>2, Concatenated
  <2>5. \A i \in 1 .. n : t[p + i] = h[i] BY <2>1, <2>2, Concatenated
  <2> QED BY <2>3, <2>4, <2>5
<1>11. ASSUME NEW i \in 1 .. k PROVE t[i] = f[i]
  <2>1. i \in 1 .. p BY <1>1, <1>2
  <2> QED BY <1>8, <1>10, <2>1
<1>12. ASSUME NEW i \in 1 .. m PROVE t[k + i] = g[i]
  <2>1. k + i \in 1 .. p BY <1>1, <1>2
  <2> QED BY <1>8, <1>10, <2>1
<1>13. t \in [1 .. q -> V]
  <2>1. t \in [1 .. Len(t) -> V] /\ DOMAIN t = 1 .. Len(t) BY <1>10, LenProperties
  <2> QED BY <1>10, <2>1
<1> QED BY <1>1, <1>2, <1>3, <1>10, <1>11, <1>12, <1>13 DEF f, g, h, q, t, V

\* gatherPrograms() pushes the group of a type at its number.
LEMMA GatheredAtItsNumber ==
  ASSUME Tracked, NEW t \in TrackedTypes
  PROVE  GroupNumber(t) + 1 \in DOMAIN Gathered /\ Gathered[GroupNumber(t) + 1] = t
<1> DEFINE k == Cardinality(missProgTypes)
           m == Cardinality(rayGenTypes)
           n == Cardinality(geomTypes)
<1>1. /\ k \in Nat
      /\ \A u \in missProgTypes : InOrder(missProgTypes)[Below(missProgTypes, u) + 1] = u
  BY InOrderProperties, AddressesAreNatural DEF Tracked
<1>2. /\ m \in Nat
      /\ \A u \in rayGenTypes : InOrder(rayGenTypes)[Below(rayGenTypes, u) + 1] = u
  BY InOrderProperties, AddressesAreNatural DEF Tracked
<1>3. /\ n \in Nat
      /\ \A u \in geomTypes : InOrder(geomTypes)[Below(geomTypes, u) + 1] = u
  BY InOrderProperties, AddressesAreNatural DEF Tracked
<1>4. k = Cardinality(missProgTypes) /\ m = Cardinality(rayGenTypes)
      /\ n = Cardinality(geomTypes)
  OBVIOUS
<1> HIDE DEF k, m, n
<1>5. /\ DOMAIN Gathered = 1 .. k + m + n
      /\ \A i \in 1 .. k : Gathered[i] = InOrder(missProgTypes)[i]
      /\ \A i \in 1 .. m : Gathered[k + i] = InOrder(rayGenTypes)[i]
      /\ \A i \in 1 .. n : Gathered[k + m + i] = InOrder(geomTypes)[i]
  <2>1. Gathered \in [1 .. k + m + n -> TrackedTypes] BY <1>4, GatheredParts
  <2>2. \A i \in 1 .. k : Gathered[i] = InOrder(missProgTypes)[i] BY <1>4, GatheredParts
  <2>3. \A i \in 1 .. m : Gathered[k + i] = InOrder(rayGenTypes)[i] BY <1>4, GatheredParts
  <2>4. \A i \in 1 .. n : Gathered[k + m + i] = InOrder(geomTypes)[i]
    BY <1>4, GatheredParts
  <2> QED BY <2>1, <2>2, <2>3, <2>4
<1>6. CASE t \in missProgTypes
  <2> DEFINE b == Below(missProgTypes, t)
  <2>1. b \in Nat /\ b < k BY <1>6, PlaceInSet, AddressesAreNatural DEF Tracked, k
  <2>2. GroupNumber(t) = b BY <1>6, AddressesDiffer DEF GroupNumber, Tracked
  <2>3. InOrder(missProgTypes)[b + 1] = t BY <1>1, <1>6
  <2> HIDE DEF b
  <2>4. b + 1 \in 1 .. k /\ b + 1 \in 1 .. k + m + n BY <1>1, <1>2, <1>3, <2>1
  <2> QED BY <1>5, <2>2, <2>3, <2>4
<1>7. CASE t \in rayGenTypes
  <2> DEFINE b == Below(rayGenTypes, t)
  <2>1. b \in Nat /\ b < m BY <1>7, PlaceInSet, AddressesAreNatural DEF Tracked, m
  <2>2. GroupNumber(t) = k + b BY <1>7, AddressesDiffer DEF GroupNumber, Tracked, k
  <2>3. InOrder(rayGenTypes)[b + 1] = t BY <1>2, <1>7
  <2> HIDE DEF b
  <2>4. /\ b + 1 \in 1 .. m /\ k + (b + 1) \in 1 .. k + m + n
        /\ GroupNumber(t) + 1 = k + (b + 1)
    BY <1>1, <1>2, <1>3, <2>1, <2>2
  <2> QED BY <1>5, <2>3, <2>4
<1>8. CASE t \in geomTypes
  <2> DEFINE b == Below(geomTypes, t)
  <2>1. b \in Nat /\ b < n BY <1>8, PlaceInSet, AddressesAreNatural DEF Tracked, n
  <2>2. t \notin missProgTypes /\ t \notin rayGenTypes
    BY <1>8, AddressesDiffer DEF Tracked
  <2>3. GroupNumber(t) = k + m + b BY <2>2 DEF GroupNumber, k, m
  <2>4. InOrder(geomTypes)[b + 1] = t BY <1>3, <1>8
  <2> HIDE DEF b
  <2>5. /\ b + 1 \in 1 .. n /\ k + m + (b + 1) \in 1 .. k + m + n
        /\ GroupNumber(t) + 1 = k + m + (b + 1)
    BY <1>1, <1>2, <1>3, <2>1, <2>3
  <2> QED BY <1>5, <2>4, <2>5
<1> QED BY <1>6, <1>7, <1>8 DEF TrackedTypes

LEMMA InitInv == Init => Inv
<1> SUFFICES ASSUME Init PROVE Inv OBVIOUS
<1>1. Allocator!Init
  BY DEF Init, Ranges!Init, Allocator!Init, Ranges!NoEntries, Allocator!NoEntries,
    Ranges!Span, Allocator!Span
<1>2. Allocator!Partition BY <1>1, MaxGeomsAssumption, Allocator!InitPartition
<1>3. Tracked BY EmptySeq, FS_EmptySet DEF Init, Tracked
<1>4. Placed BY DEF Init, Ranges!Init, Placed
<1>5. phase = Changing BY DEF Init
<1> QED
  BY <1>2, <1>3, <1>4, <1>5 DEF Inv, GroupIndicesCurrent, HandlesCurrent,
    HitsReachTheirGeometry, CallsReachTheirProgram, Changing, Ready

---------------------------------------------------------------------------
(* Accels and their ranges.                                                *)

LEMMA RangesUntouched ==
  ASSUME Allocator!Partition, UNCHANGED rangeVars
  PROVE  Allocator!Partition'
  BY DEF rangeVars, Allocator!Partition, Allocator!TypeOK, Allocator!LiveRangesDisjoint,
    Allocator!FreedRangesAreUnused, Allocator!FreedRangesMaximal, Allocator!NoEntryLost,
    Allocator!RangesInTable

\* Accel's constructor: alloc() keeps the partition, and only the new accel's
\* range changes.
LEMMA Reserved ==
  ASSUME Allocator!Partition, NEW a \in Accels, NEW n \in Nat, n > 0, Reserve(a, n)
  PROVE  /\ Allocator!Partition'
         /\ a \notin live /\ live' = live \cup {a}
         /\ sbtEntries'[a].size = n
         /\ \A b \in Accels : b # a => sbtEntries'[b] = sbtEntries[b]
<1> USE DEF Ranges!Span, Allocator!Span
<1>1. \A f : Ranges!Fitting(f, n) = Allocator!Fitting(f, n)
  BY DEF Ranges!Fitting, Allocator!Fitting
<1>2. ASSUME NEW f PROVE Ranges!FirstFit(f, n) = Allocator!FirstFit(f, n)
  <2> DEFINE S == {i \in DOMAIN f : f[i].size >= n}
  <2>1. Ranges!Fitting(f, n) = S /\ Allocator!Fitting(f, n) = S
    BY DEF Ranges!Fitting, Allocator!Fitting
  <2> HIDE DEF S
  <2>2. Ranges!FirstFit(f, n) = CHOOSE i \in S : \A j \in S : i <= j
    BY <2>1, Zenon DEF Ranges!FirstFit
  <2>3. Allocator!FirstFit(f, n) = CHOOSE i \in S : \A j \in S : i <= j
    BY <2>1, Zenon DEF Allocator!FirstFit
  <2> QED BY <2>2, <2>3
<1>3. \A f, k : Ranges!TakeFrom(f, k, n) = Allocator!TakeFrom(f, k, n)
  BY DEF Ranges!TakeFrom, Allocator!TakeFrom, Ranges!RemoveAt,
    Allocator!RemoveAt
<1>4. sbtEntries \in [Accels -> Allocator!FreedRange]
  BY DEF Allocator!Partition, Allocator!TypeOK
<1>5. CASE Ranges!ConstructReusing(a, n)
  <2>1. Allocator!ConstructReusing(a, n)
    BY <1>1, <1>2, <1>3, <1>5 DEF Ranges!ConstructReusing, Allocator!ConstructReusing,
      Ranges!Hold, Allocator!Hold
  <2>2. Allocator!Partition'
    BY <2>1, MaxGeomsAssumption, Allocator!ConstructReusingPartition
  <2> QED BY <1>4, <1>5, <2>2 DEF Ranges!ConstructReusing, Ranges!Hold
<1>6. CASE Ranges!ConstructAtTop(a, n)
  <2>1. Allocator!ConstructAtTop(a, n)
    BY <1>1, <1>6 DEF Ranges!ConstructAtTop, Allocator!ConstructAtTop,
      Ranges!Hold, Allocator!Hold
  <2>2. Allocator!Partition'
    BY <2>1, MaxGeomsAssumption, Allocator!ConstructAtTopPartition
  <2> QED BY <1>4, <1>6, <2>2 DEF Ranges!ConstructAtTop, Ranges!Hold
<1> QED BY <1>5, <1>6 DEF Reserve

LEMMA CreateGeomAccelKeepsInv ==
  ASSUME Inv, NEW a \in GeomAccels, NEW n \in Nat, n > 0, NEW gs \in [1 .. n -> Geoms],
         CreateGeomAccel(a, gs)
  PROVE  Inv'
<1>1. gs \in Seq(Geoms) /\ Len(gs) = n BY FunctionIsSeq
<1>2. a \in Accels /\ Reserve(a, n) /\ Allocator!Partition
  BY <1>1 DEF CreateGeomAccel, Accels, Inv
<1>3. /\ Allocator!Partition'
      /\ live' = live \cup {a} /\ sbtEntries'[a].size = n
      /\ \A b \in Accels : b # a => sbtEntries'[b] = sbtEntries[b]
  BY <1>2, Reserved
<1>4. /\ geoms \in [GeomAccels -> Seq(Geoms)] /\ geoms' = [geoms EXCEPT ![a] = gs]
      /\ Groupable(gs) /\ Outdate
      /\ UNCHANGED <<typeVars, pipelineVars, sbtVars, rayGens, missProgs, geomType>>
  BY DEF Inv, Tracked, CreateGeomAccel
<1>5. Tracked'
  BY <1>1, <1>4 DEF Inv, Tracked, typeVars, pipelineVars
<1>6. Placed'
  <2> SUFFICES ASSUME NEW b \in live' \cap GeomAccels
               PROVE  /\ sbtEntries'[b].size = Len(geoms'[b])
                      /\ \A j \in DOMAIN geoms'[b] : geomType'[geoms'[b][j]] \in geomTypes'
    BY DEF Placed
  <2>1. CASE b = a
    <3>1. geoms'[b] = gs /\ sbtEntries'[b].size = n BY <1>3, <1>4, <2>1
    <3>2. geomType' = geomType /\ geomTypes' = geomTypes BY <1>4 DEF typeVars
    <3>3. ASSUME NEW j \in DOMAIN gs PROVE geomType[gs[j]] \in geomTypes
      <4>1. gs[j] \in Geoms /\ geomType[gs[j]] # 0 BY <1>4 DEF Groupable
      <4>2. geomType[gs[j]] \in geomTypes \cup {0} BY <4>1 DEF Inv, Tracked
      <4> QED BY <4>1, <4>2
    <3> QED BY <1>1, <3>1, <3>2, <3>3
  <2>2. CASE b # a
    <3>1. b \in live \cap GeomAccels /\ b \in Accels BY <1>3, <2>2 DEF Accels
    <3>2. geoms'[b] = geoms[b] /\ sbtEntries'[b] = sbtEntries[b] BY <1>3, <1>4, <2>2, <3>1
    <3> QED BY <1>4, <3>1, <3>2 DEF Inv, Placed, typeVars
  <2> QED BY <2>1, <2>2
<1>7. phase' # Ready /\ (phase' # Changing => phase # Changing)
  BY <1>4 DEF Outdate, Ready, Built, Changing
<1>8. GroupIndicesCurrent' /\ HandlesCurrent'
  BY <1>4, <1>7 DEF Inv, GroupIndicesCurrent, HandlesCurrent, typeVars, pipelineVars,
    TrackedTypes, Group
<1>9. HitsReachTheirGeometry' /\ CallsReachTheirProgram'
  BY <1>7 DEF HitsReachTheirGeometry, CallsReachTheirProgram
<1> QED BY <1>3, <1>5, <1>6, <1>8, <1>9 DEF Inv

\* The entries of an instance accel are its own: no geometry's record is there.
LEMMA CreateInstAccelKeepsInv ==
  ASSUME Inv, NEW a \in InstAccels, NEW n \in Nat, n > 0, CreateInstAccel(a, n)
  PROVE  Inv'
<1>1. a \in Accels /\ Reserve(a, n) /\ Allocator!Partition
  BY DEF CreateInstAccel, Accels, Inv
<1>2. /\ Allocator!Partition' /\ live' = live \cup {a}
      /\ \A b \in Accels : b # a => sbtEntries'[b] = sbtEntries[b]
  BY <1>1, Reserved
<1>3. UNCHANGED <<typeVars, pipelineVars, sbtVars, rayGens, missProgs, geomType, data,
                  geoms, launched, phase>>
  BY DEF CreateInstAccel
<1>4. /\ live' \cap GeomAccels = live \cap GeomAccels
      /\ \A b \in live \cap GeomAccels : sbtEntries'[b] = sbtEntries[b]
  BY <1>2, KindsDiffer DEF Accels
<1>5. Tracked' BY <1>3 DEF Inv, Tracked, typeVars, pipelineVars
<1>6. Placed' BY <1>3, <1>4 DEF Inv, Placed, typeVars
<1>7. GroupIndicesCurrent' /\ HandlesCurrent'
  BY <1>3 DEF Inv, GroupIndicesCurrent, HandlesCurrent, typeVars, pipelineVars,
    TrackedTypes, Group
<1>8. HitsReachTheirGeometry'
  BY <1>3, <1>4 DEF Inv, HitsReachTheirGeometry, Current, Group, typeVars, pipelineVars,
    sbtVars
<1>9. CallsReachTheirProgram'
  BY <1>3 DEF Inv, CallsReachTheirProgram, Current, Group, typeVars, pipelineVars, sbtVars
<1> QED BY <1>2, <1>5, <1>6, <1>7, <1>8, <1>9 DEF Inv

---------------------------------------------------------------------------
(* Creating types and objects.                                             *)

\* What the tables must hold is only said of a pipeline that is up to date.
LEMMA ChangingKeepsInv ==
  ASSUME phase' = Changing
  PROVE  /\ GroupIndicesCurrent' /\ HandlesCurrent'
         /\ HitsReachTheirGeometry' /\ CallsReachTheirProgram'
  BY DEF GroupIndicesCurrent, HandlesCurrent, HitsReachTheirGeometry,
    CallsReachTheirProgram, Changing, Ready

LEMMA CreateRayGenKeepsInv ==
  ASSUME Inv, NEW x \in RayGens, CreateRayGen(x)
  PROVE  Inv'
<1> USE DEF CreateRayGen
<1>1. rayGenTypes' = rayGenTypes \cup {x} /\ IsFiniteSet(rayGenTypes')
  BY FS_AddElement DEF Inv, Tracked
<1>2. rayGens' \in Seq(rayGenTypes')
  <2>1. rayGens \in Seq(rayGenTypes') BY <1>1, SeqMonotonic DEF Inv, Tracked
  <2> QED BY <1>1, <2>1, AppendProperties
<1>3. Tracked' BY <1>1, <1>2 DEF Inv, Tracked, pipelineVars
<1>4. Placed' BY DEF Inv, Placed, rangeVars
<1>5. Allocator!Partition' BY RangesUntouched DEF Inv
<1>6. phase' = Changing OBVIOUS
<1> QED BY <1>3, <1>4, <1>5, <1>6, ChangingKeepsInv DEF Inv

LEMMA CreateMissProgKeepsInv ==
  ASSUME Inv, NEW x \in MissProgs, CreateMissProg(x)
  PROVE  Inv'
<1> USE DEF CreateMissProg
<1>1. missProgTypes' = missProgTypes \cup {x} /\ IsFiniteSet(missProgTypes')
  BY FS_AddElement DEF Inv, Tracked
<1>2. missProgs' \in Seq(missProgTypes')
  <2>1. missProgs \in Seq(missProgTypes') BY <1>1, SeqMonotonic DEF Inv, Tracked
  <2> QED BY <1>1, <2>1, AppendProperties
<1>3. Tracked' BY <1>1, <1>2 DEF Inv, Tracked, pipelineVars
<1>4. Placed' BY DEF Inv, Placed, rangeVars
<1>5. Allocator!Partition' BY RangesUntouched DEF Inv
<1>6. phase' = Changing OBVIOUS
<1> QED BY <1>3, <1>4, <1>5, <1>6, ChangingKeepsInv DEF Inv

LEMMA CreateGeomTypeKeepsInv ==
  ASSUME Inv, NEW t \in GeomTypes, CreateGeomType(t)
  PROVE  Inv'
<1> USE DEF CreateGeomType
<1>1. geomTypes' = geomTypes \cup {t} /\ IsFiniteSet(geomTypes')
  BY FS_AddElement DEF Inv, Tracked
<1>2. Tracked' BY <1>1 DEF Inv, Tracked, pipelineVars, objectVars
<1>3. Placed' BY <1>1 DEF Inv, Placed, objectVars, rangeVars
<1>4. Allocator!Partition' BY RangesUntouched DEF Inv, objectVars
<1>5. phase' = Changing OBVIOUS
<1> QED BY <1>2, <1>3, <1>4, <1>5, ChangingKeepsInv DEF Inv

LEMMA SetProgramKeepsInv ==
  ASSUME Inv, NEW t \in GeomTypes, NEW p, SetProgram(t, p)
  PROVE  Inv'
<1> USE DEF SetProgram
<1>1. Tracked' BY DEF Inv, Tracked, pipelineVars, objectVars
<1>2. Placed' BY DEF Inv, Placed, objectVars, rangeVars
<1>3. Allocator!Partition' BY RangesUntouched DEF Inv, objectVars
<1>4. phase' = Changing OBVIOUS
<1> QED BY <1>1, <1>2, <1>3, <1>4, ChangingKeepsInv DEF Inv

\* No accel holds a geometry that is only now created.
LEMMA CreateGeomKeepsInv ==
  ASSUME Inv, NEW g \in Geoms, NEW t \in GeomTypes, CreateGeom(g, t)
  PROVE  Inv'
<1> USE DEF CreateGeom
<1>1. Tracked' BY DEF Inv, Tracked, typeVars, pipelineVars
<1>2. ASSUME NEW a \in live \cap GeomAccels, NEW j \in DOMAIN geoms[a]
      PROVE  geomType'[geoms[a][j]] = geomType[geoms[a][j]]
  <2>1. 0 \notin geomTypes BY AddressesAreNatural DEF Inv
  <2>2. geomType[geoms[a][j]] # 0 BY <2>1 DEF Inv, Placed
  <2>3. geoms[a][j] # g BY <2>2
  <2>4. geoms[a][j] \in Geoms
    <3>1. geoms[a] \in Seq(Geoms) BY DEF Inv, Tracked
    <3> QED BY <3>1, LenProperties, ElementOfSeq
  <2> QED BY <2>3, <2>4 DEF Inv, Tracked
<1>3. Placed' BY <1>2 DEF Inv, Placed, typeVars, rangeVars
<1>4. Allocator!Partition' BY RangesUntouched DEF Inv
<1>5. GroupIndicesCurrent' /\ HandlesCurrent'
  BY DEF Inv, GroupIndicesCurrent, HandlesCurrent, typeVars, pipelineVars, TrackedTypes, Group
<1>6. HitsReachTheirGeometry'
  BY <1>2 DEF Inv, HitsReachTheirGeometry, Current, Group, typeVars, pipelineVars,
    sbtVars, rangeVars
<1>7. CallsReachTheirProgram'
  BY DEF Inv, CallsReachTheirProgram, Current, Group, typeVars, pipelineVars, sbtVars
<1> QED BY <1>1, <1>3, <1>4, <1>5, <1>6, <1>7 DEF Inv

LEMMA SetDataKeepsInv ==
  ASSUME Inv, NEW x, NEW d, SetData(x, d)
  PROVE  Inv'
<1> USE DEF SetData
<1>1. Tracked' BY DEF Inv, Tracked, typeVars, pipelineVars
<1>2. Placed' BY DEF Inv, Placed, typeVars, rangeVars
<1>3. Allocator!Partition' BY RangesUntouched DEF Inv
<1>4. phase' # Ready /\ (phase' # Changing => phase # Changing)
  BY DEF Outdate, Ready, Built, Changing
<1>5. GroupIndicesCurrent' /\ HandlesCurrent'
  BY <1>4 DEF Inv, GroupIndicesCurrent, HandlesCurrent, typeVars, pipelineVars,
    TrackedTypes, Group
<1>6. HitsReachTheirGeometry' /\ CallsReachTheirProgram'
  BY <1>4 DEF HitsReachTheirGeometry, CallsReachTheirProgram
<1> QED BY <1>1, <1>2, <1>3, <1>5, <1>6 DEF Inv

---------------------------------------------------------------------------
(* The builds.                                                             *)

LEMMA BuildPipelineKeepsInv ==
  ASSUME Inv, BuildPipeline
  PROVE  Inv'
<1> USE DEF BuildPipeline
<1>1. Tracked' BY DEF Inv, Tracked, typeVars, objectVars
<1>2. Placed' BY DEF Inv, Placed, typeVars, objectVars, rangeVars
<1>3. Allocator!Partition' BY RangesUntouched DEF Inv, objectVars
<1>4. phase' = Built /\ phase' # Ready BY DEF Ready, Built
<1>5. HandlesCurrent' BY DEF HandlesCurrent
<1>6. GroupIndicesCurrent'
  <2>1. TrackedTypes' = TrackedTypes /\ \A t : Group(t)' = Group(t)
    BY DEF TrackedTypes, Group, typeVars
  <2>2. ASSUME NEW t \in TrackedTypes
        PROVE  /\ pipeline' # 0
               /\ shaderGroupIndex'[t] + 1 \in DOMAIN shaderGroups'
               /\ shaderGroups'[shaderGroupIndex'[t] + 1] = Group(t)
    <3> DEFINE i == GroupNumber(t) + 1
    <3>1. i \in DOMAIN Gathered /\ Gathered[i] = t BY GatheredAtItsNumber DEF Inv
    <3>2. t \in Types BY AddressesAreNatural DEF Inv
    <3>3. shaderGroupIndex'[t] + 1 = i BY <3>2 DEF Renumber
    <3>4. pipeline' # 0 BY DEF Inv, Tracked
    <3> HIDE DEF i
    <3>5. shaderGroups' = [n \in DOMAIN Gathered |-> Group(Gathered[n])] OBVIOUS
    <3> QED BY <3>1, <3>3, <3>4, <3>5
  <2> QED BY <2>1, <2>2 DEF GroupIndicesCurrent
<1>7. HitsReachTheirGeometry' /\ CallsReachTheirProgram'
  BY <1>4 DEF HitsReachTheirGeometry, CallsReachTheirProgram
<1> QED BY <1>1, <1>2, <1>3, <1>5, <1>6, <1>7 DEF Inv

LEMMA BuildPipelineThrowsKeepsInv ==
  ASSUME Inv, BuildPipelineThrows
  PROVE  Inv'
<1> USE DEF BuildPipelineThrows
<1>1. Tracked' BY DEF Inv, Tracked, typeVars, objectVars
<1>2. Placed' BY DEF Inv, Placed, typeVars, objectVars, rangeVars
<1>3. Allocator!Partition' BY RangesUntouched DEF Inv, objectVars
<1>4. phase' = Changing OBVIOUS
<1> QED BY <1>1, <1>2, <1>3, <1>4, ChangingKeepsInv DEF Inv

\* writeHeader() copies the handle of the type's own group.
LEMMA HeaderIsCurrent ==
  ASSUME GroupIndicesCurrent, HandlesCurrent, phase # Changing, NEW t \in TrackedTypes, NEW x
  PROVE  Current(Record(t, x), t, x)
<1> DEFINE i == shaderGroupIndex[t] + 1
<1>1. i \in DOMAIN shaderGroups /\ shaderGroups[i] = Group(t) BY DEF GroupIndicesCurrent
<1> HIDE DEF i
<1>2. i \in DOMAIN handles /\ handles[i] = HandleOf(pipeline, Group(t))
  BY <1>1 DEF HandlesCurrent
<1>3. Header(t) = HandleOf(pipeline, Group(t)) BY <1>2 DEF Header, i
<1> QED BY <1>3 DEF Current, Record

LEMMA InsideRange ==
  ASSUME NEW b \in Nat, NEW n \in Nat, NEW top \in Nat, b + n <= top,
         NEW j \in 1 .. n, NEW x, x = b + j - 1
  PROVE  /\ x \in 0 .. top - 1 /\ top # 0
         /\ x \in b .. (b + n) - 1 /\ x - b + 1 = j
  OBVIOUS

LEMMA InBothRanges ==
  ASSUME NEW b \in Int, NEW n \in Int, NEW c \in Int, NEW m \in Int,
         NEW x \in b .. (b + n) - 1, x \in c .. (c + m) - 1
  PROVE  ~ (b + n <= c) /\ ~ (c + m <= b)
  OBVIOUS

\* The record a hit on the j-th geometry of an accel looks at is written by that
\* accel alone, because no entry belongs to two of them.
LEMMA HitRecord ==
  ASSUME Inv, NEW a \in live \cap GeomAccels, NEW j \in DOMAIN geoms[a],
         NEW x, x = sbtEntries[a].begin + j - 1
  PROVE  /\ x \in DOMAIN HitRecords
         /\ HitRecords[x] = Record(geomType[geoms[a][j]], geoms[a][j])
<1>1. /\ geoms[a] \in Seq(Geoms) /\ Len(geoms[a]) \in Nat /\ j \in 1 .. Len(geoms[a])
      /\ a \in Accels
  <2>1. geoms[a] \in Seq(Geoms) BY DEF Inv, Tracked
  <2> QED BY <2>1, LenProperties DEF Accels
<1>2. /\ maxAllocedID \in Nat
      /\ \A b \in Accels : sbtEntries[b] \in [begin : Int, size : Nat]
  BY DEF Inv, Allocator!Partition, Allocator!TypeOK, Allocator!FreedRange
<1>3. /\ sbtEntries[a].begin \in Nat /\ sbtEntries[a].size = Len(geoms[a])
      /\ sbtEntries[a].begin + sbtEntries[a].size <= maxAllocedID
  <2>1. sbtEntries[a].size = Len(geoms[a]) BY DEF Inv, Placed
  <2>2. Allocator!Proper(sbtEntries[a], maxAllocedID)
    BY <1>1 DEF Inv, Allocator!Partition, Allocator!RangesInTable
  <2> QED BY <1>1, <1>2, <2>1, <2>2 DEF Allocator!Proper, Allocator!NoEntries,
        Allocator!Span, Allocator!End
<1>4. /\ x \in 0 .. maxAllocedID - 1 /\ maxAllocedID # 0
      /\ x \in sbtEntries[a].begin .. (sbtEntries[a].begin + sbtEntries[a].size) - 1
      /\ x - sbtEntries[a].begin + 1 = j
  <2> DEFINE b == sbtEntries[a].begin
             n == sbtEntries[a].size
  <2>1. /\ b \in Nat /\ n \in Nat /\ maxAllocedID \in Nat /\ b + n <= maxAllocedID
        /\ j \in 1 .. n /\ x = b + j - 1
    BY <1>1, <1>2, <1>3
  <2> HIDE DEF b, n
  <2>2. x \in 0 .. maxAllocedID - 1 /\ maxAllocedID # 0 BY <2>1, InsideRange
  <2>3. x \in b .. (b + n) - 1 BY <2>1, InsideRange
  <2>4. x - b + 1 = j BY <2>1, InsideRange
  <2> QED BY <2>2, <2>3, <2>4 DEF b, n
<1> DEFINE writers == {b \in live \cap GeomAccels : x \in Ranges!SlotsOf(sbtEntries[b])}
<1>5. \A r : Ranges!SlotsOf(r) = r.begin .. (r.begin + r.size) - 1
  BY DEF Ranges!SlotsOf, Ranges!End
<1>6. a \in writers BY <1>4, <1>5
<1>7. ASSUME NEW b \in writers PROVE b = a
  <2> SUFFICES ASSUME b # a PROVE FALSE OBVIOUS
  <2>1. /\ b \in Accels
        /\ x \in sbtEntries[b].begin .. (sbtEntries[b].begin + sbtEntries[b].size) - 1
    BY <1>5, <1>7 DEF Accels
  <2>2. \/ sbtEntries[a].begin + sbtEntries[a].size <= sbtEntries[b].begin
        \/ sbtEntries[b].begin + sbtEntries[b].size <= sbtEntries[a].begin
    BY <1>1, <2>1 DEF Inv, Allocator!Partition, Allocator!LiveRangesDisjoint,
      Allocator!Apart, Allocator!End
  <2>3. /\ sbtEntries[a].begin \in Int /\ sbtEntries[a].size \in Int
        /\ sbtEntries[b].begin \in Int /\ sbtEntries[b].size \in Int
    BY <1>1, <1>2, <2>1
  <2> QED BY <1>4, <2>1, <2>2, <2>3, InBothRanges
<1>8. writers = {a} BY <1>6, <1>7
<1>9. x \in DOMAIN HitRecords BY <1>4 DEF HitRecords
<1>10. HitRecords[x] =
        IF writers = {} THEN Unwritten
        ELSE LET b == CHOOSE b \in writers : TRUE
                 g == geoms[b][x - sbtEntries[b].begin + 1]
             IN Record(geomType[g], g)
  BY <1>4 DEF HitRecords
<1> HIDE DEF writers
<1>11. (CHOOSE b \in writers : TRUE) = a BY <1>8
<1> QED BY <1>4, <1>8, <1>9, <1>10, <1>11

LEMMA BuildSBTKeepsInv ==
  ASSUME Inv, BuildSBT
  PROVE  Inv'
<1>1. UNCHANGED <<typeVars, pipelineVars, objectVars>>
      /\ phase' = IF phase = Changing THEN Changing ELSE Ready
  BY DEF BuildSBT
<1>2. Tracked' BY <1>1 DEF Inv, Tracked, typeVars, pipelineVars, objectVars
<1>3. Placed' BY <1>1 DEF Inv, Placed, typeVars, objectVars, rangeVars
<1>4. Allocator!Partition' BY <1>1, RangesUntouched DEF Inv, objectVars
<1>5. CASE phase = Changing
  BY <1>1, <1>2, <1>3, <1>4, <1>5, ChangingKeepsInv DEF Inv
<1>6. CASE phase # Changing
  <2>1. GroupIndicesCurrent' /\ HandlesCurrent'
    BY <1>1, <1>6 DEF Inv, GroupIndicesCurrent, HandlesCurrent, typeVars, pipelineVars,
      TrackedTypes, Group
  <2>2. ASSUME NEW t \in TrackedTypes, NEW x PROVE Current(Record(t, x), t, x)
    BY <1>6, HeaderIsCurrent DEF Inv
  <2>3. HitsReachTheirGeometry'
    <3>1. ASSUME NEW a \in live \cap GeomAccels, NEW j \in DOMAIN geoms[a]
          PROVE  LET x == sbtEntries[a].begin + j - 1
                     g == geoms[a][j]
                 IN x \in DOMAIN HitRecords /\ Current(HitRecords[x], geomType[g], g)
      <4> DEFINE x == sbtEntries[a].begin + j - 1
                 g == geoms[a][j]
      <4>1. x \in DOMAIN HitRecords /\ HitRecords[x] = Record(geomType[g], g) BY HitRecord
      <4>2. geomType[g] \in TrackedTypes BY DEF Inv, Placed, TrackedTypes
      <4> HIDE DEF x, g
      <4>3. Current(HitRecords[x], geomType[g], g) BY <2>2, <4>1, <4>2
      <4> QED BY <4>1, <4>3 DEF x, g
    <3>2. hitGroupRecords' = HitRecords BY DEF BuildSBT
    <3> QED BY <1>1, <3>1, <3>2 DEF HitsReachTheirGeometry, Current, Group, typeVars,
          pipelineVars, objectVars, rangeVars
  <2>4. CallsReachTheirProgram'
    <3>1. ASSUME NEW i \in DOMAIN rayGens
          PROVE  Current(CallRecords(rayGens)[i], rayGens[i], rayGens[i])
      <4>1. rayGens[i] \in rayGenTypes BY LenProperties, ElementOfSeq DEF Inv, Tracked
      <4> QED BY <2>2, <4>1 DEF CallRecords, TrackedTypes
    <3>2. ASSUME NEW i \in DOMAIN missProgs
          PROVE  Current(CallRecords(missProgs)[i], missProgs[i], missProgs[i])
      <4>1. missProgs[i] \in missProgTypes BY LenProperties, ElementOfSeq DEF Inv, Tracked
      <4> QED BY <2>2, <4>1 DEF CallRecords, TrackedTypes
    <3>3. rayGenRecords' = CallRecords(rayGens) /\ missProgRecords' = CallRecords(missProgs)
      BY DEF BuildSBT
    <3> QED BY <1>1, <3>1, <3>2, <3>3 DEF CallsReachTheirProgram, Current, Group, typeVars,
          pipelineVars, objectVars
  <2> QED BY <1>2, <1>3, <1>4, <2>1, <2>3, <2>4 DEF Inv
<1> QED BY <1>5, <1>6

LEMMA NothingReadChanges ==
  ASSUME Inv, UNCHANGED <<typeVars, pipelineVars, objectVars, sbtVars, phase>>
  PROVE  Inv'
<1> USE DEF typeVars, pipelineVars, objectVars, sbtVars, rangeVars
<1>1. Tracked' /\ Placed' BY DEF Inv, Tracked, Placed
<1>2. Allocator!Partition' BY RangesUntouched DEF Inv
<1>3. GroupIndicesCurrent' /\ HandlesCurrent'
  BY DEF Inv, GroupIndicesCurrent, HandlesCurrent, TrackedTypes, Group
<1>4. HitsReachTheirGeometry' BY DEF Inv, HitsReachTheirGeometry, Current, Group
<1>5. CallsReachTheirProgram' BY DEF Inv, CallsReachTheirProgram, Current, Group
<1> QED BY <1>1, <1>2, <1>3, <1>4, <1>5 DEF Inv

---------------------------------------------------------------------------
LEMMA NextKeepsInv == Inv /\ [Next]_vars => Inv'
<1> SUFFICES ASSUME Inv, Next \/ UNCHANGED vars PROVE Inv' OBVIOUS
<1>1. ASSUME NEW r \in RayGens, CreateRayGen(r) PROVE Inv'
  BY <1>1, CreateRayGenKeepsInv
<1>2. ASSUME NEW m \in MissProgs, CreateMissProg(m) PROVE Inv'
  BY <1>2, CreateMissProgKeepsInv
<1>3. ASSUME NEW t \in GeomTypes, CreateGeomType(t) PROVE Inv'
  BY <1>3, CreateGeomTypeKeepsInv
<1>4. ASSUME NEW t \in GeomTypes, NEW p \in 1 .. MaxPrograms, SetProgram(t, p) PROVE Inv'
  BY <1>4, SetProgramKeepsInv
<1>5. ASSUME NEW g \in Geoms, NEW t \in GeomTypes, CreateGeom(g, t) PROVE Inv'
  BY <1>5, CreateGeomKeepsInv
<1>6. ASSUME NEW x \in Tuned, NEW d \in 1 .. MaxData, SetData(x, d) PROVE Inv'
  BY <1>6, SetDataKeepsInv
<1>7. ASSUME NEW a \in GeomAccels, NEW n \in 1 .. MaxGeoms, NEW gs \in [1 .. n -> Geoms],
             CreateGeomAccel(a, gs)
      PROVE  Inv'
  <2>1. n \in Nat /\ n > 0 BY MaxGeomsAssumption
  <2> QED BY <1>7, <2>1, CreateGeomAccelKeepsInv
<1>8. ASSUME NEW a \in InstAccels, NEW n \in 1 .. MaxGeoms, CreateInstAccel(a, n) PROVE Inv'
  <2>1. n \in Nat /\ n > 0 BY MaxGeomsAssumption
  <2> QED BY <1>8, <2>1, CreateInstAccelKeepsInv
<1>9. CASE BuildPipeline BY <1>9, BuildPipelineKeepsInv
<1>10. CASE BuildPipelineThrows BY <1>10, BuildPipelineThrowsKeepsInv
<1>11. CASE BuildSBT BY <1>11, BuildSBTKeepsInv
<1>12. ASSUME NEW r \in rayGenTypes, Launch(r) PROVE Inv'
  BY <1>12, NothingReadChanges DEF Launch
<1>13. CASE UNCHANGED vars BY <1>13, NothingReadChanges DEF vars
<1> QED
  BY <1>1, <1>2, <1>3, <1>4, <1>5, <1>6, <1>7, <1>8, <1>9, <1>10, <1>11, <1>12, <1>13
  DEF Next

LEMMA InvAlways == Spec => []Inv
  BY InitInv, NextKeepsInv, PTL DEF Spec

\* RTPipeline::gatherPrograms(): after a build every type names its own group,
\* for any addresses, any number of types and any builds before.
THEOREM GroupIndicesStayCurrent == Spec => []GroupIndicesCurrent
  BY InvAlways, PTL DEF Inv

\* Context::buildSBT() with the ranges alloc() handed out: every hit on every
\* geometry finds that geometry's programs and data.
THEOREM HitsAlwaysReachTheirGeometry == Spec => []HitsReachTheirGeometry
  BY InvAlways, PTL DEF Inv

\* The same for the records of the ray generation and the miss programs.
THEOREM CallsAlwaysReachTheirProgram == Spec => []CallsReachTheirProgram
  BY InvAlways, PTL DEF Inv

---------------------------------------------------------------------------
(* Types.  What Inv does not say of them yet: the pipeline's, and those of *)
(* the records.                                                            *)

Numbered ==
  /\ program \in [GeomTypes -> 0 .. MaxPrograms]
  /\ shaderGroupIndex \in [Types -> -1 .. Cardinality(Types) - 1]
  /\ builds \in 0 .. MaxBuilds /\ pipeline \in {0, builds}
  /\ handles \in Seq(Handle)
  /\ shaderGroups \in Seq([type : Types, program : 0 .. MaxPrograms])

Recorded ==
  /\ data \in [RayGens \cup MissProgs \cup Geoms -> 0 .. MaxData]
  /\ rayGenRecords \in Seq(Records) /\ missProgRecords \in Seq(Records)
  /\ \A x \in DOMAIN hitGroupRecords : hitGroupRecords[x] \in Records
  /\ phase \in Phases

LEMMA InitTypes ==
  ASSUME IsFiniteSet(Types), Init
  PROVE  Numbered /\ Recorded
<1>1. Cardinality(Types) \in Nat BY FS_CardinalityType
<1>2. -1 \in -1 .. Cardinality(Types) - 1 BY <1>1
<1>3. Numbered BY <1>2, BoundsAssumption, EmptySeq DEF Init, Numbered
<1>4. Recorded BY BoundsAssumption, EmptySeq DEF Init, Recorded, Phases, Changing
<1> QED BY <1>3, <1>4

\* No more groups are pushed than there are types.
LEMMA GroupNumbersFit ==
  ASSUME IsFiniteSet(Types), Tracked, NEW t \in TrackedTypes
  PROVE  GroupNumber(t) \in -1 .. Cardinality(Types) - 1
<1> DEFINE k == Cardinality(missProgTypes)
           m == Cardinality(rayGenTypes)
           n == Cardinality(geomTypes)
           all == Cardinality(Types)
<1>1. k \in Nat /\ m \in Nat /\ n \in Nat /\ all \in Nat BY FS_CardinalityType DEF Tracked
<1>2. k + m + n <= all
  <2>1. missProgTypes \cap rayGenTypes = {}
        /\ (missProgTypes \cup rayGenTypes) \cap geomTypes = {}
    BY AddressesDiffer DEF Tracked
  <2>2. IsFiniteSet(missProgTypes \cup rayGenTypes)
        /\ Cardinality(missProgTypes \cup rayGenTypes) = k + m - Cardinality({})
    BY <2>1, FS_Union DEF Tracked
  <2>3. Cardinality(missProgTypes \cup rayGenTypes \cup geomTypes)
          = Cardinality(missProgTypes \cup rayGenTypes) + n - Cardinality({})
    <3> DEFINE others == missProgTypes \cup rayGenTypes
    <3>1. IsFiniteSet(others) /\ IsFiniteSet(geomTypes) /\ others \cap geomTypes = {}
      BY <2>1, <2>2 DEF Tracked
    <3> HIDE DEF others
    <3>2. Cardinality(others \cup geomTypes) =
            Cardinality(others) + Cardinality(geomTypes) - Cardinality(others \cap geomTypes)
      BY <3>1, FS_Union
    <3>3. Cardinality(others \cup geomTypes) = Cardinality(others) + n - Cardinality({})
      BY <3>1, <3>2
    <3> QED BY <3>3 DEF others
  <2>4. missProgTypes \cup rayGenTypes \cup geomTypes \in SUBSET Types
    BY AddressesAreNatural DEF TrackedTypes
  <2>5. Cardinality(missProgTypes \cup rayGenTypes \cup geomTypes) <= all
    BY <2>4, FS_Subset
  <2> HIDE DEF k, m, n, all
  <2> QED BY <1>1, <2>2, <2>3, <2>5, FS_EmptySet
<1>3. GroupNumber(t) \in Nat
  <2>1. \A S \in SUBSET Nat : IsFiniteSet(S) => \A u \in S : Below(S, u) \in Nat
    BY PlaceInSet
  <2>2. CASE t \in missProgTypes
    <3>1. Below(missProgTypes, t) \in Nat BY <2>1, <2>2, AddressesAreNatural DEF Tracked
    <3>2. GroupNumber(t) = Below(missProgTypes, t)
      BY <2>2, AddressesDiffer DEF GroupNumber, Tracked
    <3> QED BY <3>1, <3>2
  <2>3. CASE t \notin missProgTypes /\ t \in rayGenTypes
    <3>1. Below(rayGenTypes, t) \in Nat BY <2>1, <2>3, AddressesAreNatural DEF Tracked
    <3>2. GroupNumber(t) = k + Below(rayGenTypes, t) BY <2>3 DEF GroupNumber
    <3> QED BY <1>1, <3>1, <3>2
  <2>4. CASE t \notin missProgTypes /\ t \notin rayGenTypes
    <3>1. Below(geomTypes, t) \in Nat
      BY <2>1, <2>4, AddressesAreNatural DEF Tracked, TrackedTypes
    <3>2. GroupNumber(t) = k + m + Below(geomTypes, t) BY <2>4 DEF GroupNumber
    <3> QED BY <1>1, <3>1, <3>2
  <2> QED BY <2>2, <2>3, <2>4
<1>4. GroupNumber(t) + 1 \in 1 .. k + m + n
  <2>1. k = Cardinality(missProgTypes) /\ m = Cardinality(rayGenTypes)
        /\ n = Cardinality(geomTypes)
    OBVIOUS
  <2> HIDE DEF k, m, n
  <2>2. Gathered \in [1 .. k + m + n -> TrackedTypes] BY <2>1, GatheredParts
  <2> QED BY <2>2, GatheredAtItsNumber
<1> HIDE DEF k, m, n, all
<1>5. GroupNumber(t) \in -1 .. all - 1 BY <1>1, <1>2, <1>3, <1>4
<1> QED BY <1>5 DEF all

LEMMA RenumberFits ==
  ASSUME IsFiniteSet(Types), Tracked, Numbered,
         NEW numbered \in SUBSET TrackedTypes, Renumber(numbered)
  PROVE  shaderGroupIndex' \in [Types -> -1 .. Cardinality(Types) - 1]
  BY GroupNumbersFit DEF Numbered, Renumber

LEMMA BuildPipelineKeepsTypes ==
  ASSUME IsFiniteSet(Types), Inv, Numbered, Recorded, BuildPipeline
  PROVE  Numbered' /\ Recorded'
<1> USE DEF BuildPipeline
<1> DEFINE Groups == [type : Types, program : 0 .. MaxPrograms]
<1>1. shaderGroupIndex' \in [Types -> -1 .. Cardinality(Types) - 1]
  BY RenumberFits DEF Inv
<1>2. builds' \in 1 .. MaxBuilds /\ pipeline' = builds' BY BoundsAssumption DEF Numbered
<1>3. PICK n \in Nat : Gathered \in [1 .. n -> TrackedTypes]
  <2> DEFINE k == Cardinality(missProgTypes)
             m == Cardinality(rayGenTypes)
             l == Cardinality(geomTypes)
  <2>1. k = Cardinality(missProgTypes) /\ m = Cardinality(rayGenTypes)
        /\ l = Cardinality(geomTypes)
    OBVIOUS
  <2> HIDE DEF k, m, l
  <2>2. /\ k \in Nat /\ m \in Nat /\ l \in Nat
        /\ Gathered \in [1 .. k + m + l -> TrackedTypes]
    BY <2>1, GatheredParts DEF Inv
  <2>3. k + m + l \in Nat BY <2>2
  <2> QED BY <2>2, <2>3
<1>4. \A t \in TrackedTypes : Group(t) \in Groups
  BY AddressesAreNatural, BoundsAssumption DEF Inv, Group, Numbered
<1>5. shaderGroups' \in [1 .. n -> Groups] BY <1>3, <1>4
<1>6. \A g \in Groups : HandleOf(builds', g) \in Handle BY <1>2 DEF HandleOf, Handle
<1>7. handles' \in [1 .. n -> Handle] BY <1>5, <1>6
<1> HIDE DEF Groups
<1>8. shaderGroups' \in Seq(Groups) /\ handles' \in Seq(Handle)
  BY <1>3, <1>5, <1>7, FunctionIsSeq
<1>9. builds' \in 0 .. MaxBuilds BY <1>2
<1>10. Numbered'
  BY <1>1, <1>2, <1>8, <1>9 DEF Numbered, Groups, typeVars
<1>11. Recorded'
  BY DEF Recorded, objectVars, sbtVars, Phases
<1> QED BY <1>10, <1>11

LEMMA BuildPipelineThrowsKeepsTypes ==
  ASSUME IsFiniteSet(Types), Inv, Numbered, Recorded, BuildPipelineThrows
  PROVE  Numbered' /\ Recorded'
<1> USE DEF BuildPipelineThrows
<1>1. missProgTypes \cup rayGenTypes \cup {t \in geomTypes : t < Min(Unusable)}
        \in SUBSET TrackedTypes
  BY DEF TrackedTypes
<1>2. shaderGroupIndex' \in [Types -> -1 .. Cardinality(Types) - 1]
  BY <1>1, RenumberFits DEF Inv
<1>3. Numbered' BY <1>2, EmptySeq DEF Numbered, typeVars
<1>4. Recorded' BY DEF Recorded, objectVars, sbtVars, Phases
<1> QED BY <1>3, <1>4

LEMMA RecordFits ==
  ASSUME Numbered, Recorded, NEW t, NEW x \in RayGens \cup MissProgs \cup Geoms
  PROVE  Record(t, x) \in Records
<1>1. Header(t) \in Handle \cup {NoHandle}
  <2> DEFINE i == shaderGroupIndex[t] + 1
  <2>1. handles \in Seq(Handle) BY DEF Numbered
  <2> HIDE DEF i
  <2>2. i \in DOMAIN handles => handles[i] \in Handle BY <2>1, LenProperties, ElementOfSeq
  <2> QED BY <2>2 DEF Header, i
<1>2. data[x] \in -1 .. MaxData BY BoundsAssumption DEF Recorded
<1> QED BY <1>1, <1>2 DEF Record, Records

LEMMA BuildSBTKeepsTypes ==
  ASSUME Inv, Numbered, Recorded, BuildSBT
  PROVE  Numbered' /\ Recorded'
<1>1. rayGens \in Seq(RayGens \cup MissProgs \cup Geoms)
      /\ missProgs \in Seq(RayGens \cup MissProgs \cup Geoms)
  <2>1. rayGens \in Seq(rayGenTypes) /\ rayGenTypes \subseteq RayGens \cup MissProgs \cup Geoms
    BY DEF Inv, Tracked
  <2>2. missProgs \in Seq(missProgTypes) /\ missProgTypes \subseteq RayGens \cup MissProgs \cup Geoms
    BY DEF Inv, Tracked
  <2> QED BY <2>1, <2>2, SeqMonotonic
<1>2. ASSUME NEW objects \in Seq(RayGens \cup MissProgs \cup Geoms)
      PROVE  CallRecords(objects) \in Seq(Records)
  <2>1. /\ Len(objects) \in Nat /\ DOMAIN objects = 1 .. Len(objects)
        /\ \A i \in DOMAIN objects : objects[i] \in RayGens \cup MissProgs \cup Geoms
    BY LenProperties, ElementOfSeq
  <2>2. CallRecords(objects) \in [1 .. Len(objects) -> Records]
    BY <2>1, RecordFits DEF CallRecords
  <2> QED BY <2>1, <2>2, FunctionIsSeq
<1>3. ASSUME NEW x \in DOMAIN HitRecords PROVE HitRecords[x] \in Records
  <2> DEFINE writers == {b \in live \cap GeomAccels : x \in Ranges!SlotsOf(sbtEntries[b])}
  <2>1. HitRecords[x] =
          IF writers = {} THEN Unwritten
          ELSE LET b == CHOOSE b \in writers : TRUE
                   g == geoms[b][x - sbtEntries[b].begin + 1]
               IN Record(geomType[g], g)
    BY DEF HitRecords
  <2>2. CASE writers = {}
    BY <2>1, <2>2, BoundsAssumption DEF Unwritten, Records
  <2>3. CASE writers # {}
    <3>1. PICK b \in writers : b = CHOOSE c \in writers : TRUE BY <2>3
    <3> DEFINE begin == sbtEntries[b].begin
               size == sbtEntries[b].size
    <3>2. b \in Accels /\ begin \in Int /\ size \in Nat /\ size = Len(geoms[b])
      <4>1. b \in live \cap GeomAccels /\ b \in Accels BY DEF Accels
      <4>2. sbtEntries[b] \in [begin : Int, size : Nat]
        BY <4>1 DEF Inv, Allocator!Partition, Allocator!TypeOK, Allocator!FreedRange
      <4> QED BY <4>1, <4>2 DEF Inv, Placed
    <3>3. x \in begin .. (begin + size) - 1 BY DEF Ranges!SlotsOf, Ranges!End
    <3> HIDE DEF begin, size
    <3>4. x - begin + 1 \in 1 .. size BY <3>2, <3>3
    <3>5. geoms[b] \in Seq(Geoms) BY DEF Inv, Tracked
    <3> DEFINE g == geoms[b][x - begin + 1]
    <3>6. g \in Geoms BY <3>2, <3>4, <3>5, ElementOfSeq
    <3>7. HitRecords[x] = Record(geomType[g], g)
      <4> HIDE DEF writers
      <4> QED BY <2>1, <2>3, <3>1 DEF begin
    <3> HIDE DEF g
    <3> QED BY <3>6, <3>7, RecordFits
  <2> QED BY <2>2, <2>3
<1>4. rayGenRecords' \in Seq(Records) /\ missProgRecords' \in Seq(Records)
  BY <1>1, <1>2 DEF BuildSBT
<1>5. \A x \in DOMAIN hitGroupRecords' : hitGroupRecords'[x] \in Records
  BY <1>3 DEF BuildSBT
<1>6. Recorded'
  BY <1>4, <1>5 DEF BuildSBT, Recorded, objectVars, Phases
<1>7. Numbered' BY DEF BuildSBT, Numbered, typeVars, pipelineVars
<1> QED BY <1>6, <1>7

LEMMA NextKeepsTypes ==
  ASSUME IsFiniteSet(Types), Inv, Numbered, Recorded, [Next]_vars
  PROVE  Numbered' /\ Recorded'
<1> USE DEF Numbered, Recorded, typeVars, pipelineVars, objectVars, sbtVars, Phases
<1>1. ASSUME NEW r \in RayGens, CreateRayGen(r) PROVE Numbered' /\ Recorded'
  BY <1>1 DEF CreateRayGen
<1>2. ASSUME NEW m \in MissProgs, CreateMissProg(m) PROVE Numbered' /\ Recorded'
  BY <1>2 DEF CreateMissProg
<1>3. ASSUME NEW t \in GeomTypes, CreateGeomType(t) PROVE Numbered' /\ Recorded'
  BY <1>3 DEF CreateGeomType
<1>4. ASSUME NEW t \in GeomTypes, NEW p \in 1 .. MaxPrograms, SetProgram(t, p)
      PROVE  Numbered' /\ Recorded'
  <2>1. program' \in [GeomTypes -> 0 .. MaxPrograms] BY <1>4 DEF SetProgram
  <2> QED BY <1>4, <2>1 DEF SetProgram
<1>5. ASSUME NEW g \in Geoms, NEW t \in GeomTypes, CreateGeom(g, t)
      PROVE  Numbered' /\ Recorded'
  BY <1>5 DEF CreateGeom
<1>6. ASSUME NEW x \in Tuned, NEW d \in 1 .. MaxData, SetData(x, d)
      PROVE  Numbered' /\ Recorded'
  <2>1. data' \in [RayGens \cup MissProgs \cup Geoms -> 0 .. MaxData]
    <3>1. data' = [data EXCEPT ![x] = d] /\ d \in 0 .. MaxData
      BY <1>6, BoundsAssumption DEF SetData
    <3> QED BY <3>1
  <2>2. phase' \in Phases BY <1>6 DEF SetData, Outdate
  <2> QED BY <1>6, <2>1, <2>2 DEF SetData
<1>7. ASSUME NEW a \in GeomAccels, NEW n \in 1 .. MaxGeoms, NEW gs \in [1 .. n -> Geoms],
             CreateGeomAccel(a, gs)
      PROVE  Numbered' /\ Recorded'
  <2>1. phase' \in Phases BY <1>7 DEF CreateGeomAccel, Outdate
  <2> QED BY <1>7, <2>1 DEF CreateGeomAccel
<1>8. ASSUME NEW a \in InstAccels, NEW n \in 1 .. MaxGeoms, CreateInstAccel(a, n)
      PROVE  Numbered' /\ Recorded'
  BY <1>8 DEF CreateInstAccel
<1>9. CASE BuildPipeline BY <1>9, BuildPipelineKeepsTypes
<1>10. CASE BuildPipelineThrows BY <1>10, BuildPipelineThrowsKeepsTypes
<1>11. CASE BuildSBT BY <1>11, BuildSBTKeepsTypes
<1>12. ASSUME NEW r \in rayGenTypes, Launch(r) PROVE Numbered' /\ Recorded'
  BY <1>12 DEF Launch
<1>13. CASE UNCHANGED vars BY <1>13 DEF vars
<1> QED
  BY <1>1, <1>2, <1>3, <1>4, <1>5, <1>6, <1>7, <1>8, <1>9, <1>10, <1>11, <1>12, <1>13
  DEF Next

\* Type correctness; in particular an index never passes the number of types,
\* and no record holds anything but a handle of a pipeline that was built.
THEOREM TypesAlwaysOK ==
  ASSUME IsFiniteSet(Types)
  PROVE  Spec => []TypeOK
<1>1. Init => Numbered /\ Recorded BY InitTypes
<1>2. Inv /\ Numbered /\ Recorded /\ [Next]_vars => Numbered' /\ Recorded'
  BY NextKeepsTypes
<1>3. Inv /\ Numbered /\ Recorded => TypeOK
  <2> SUFFICES ASSUME Inv, Numbered, Recorded PROVE TypeOK OBVIOUS
  <2>1. rayGens \in Seq(RayGens) /\ missProgs \in Seq(MissProgs)
    BY SeqMonotonic DEF Inv, Tracked
  <2>2. geomType \in [Geoms -> GeomTypes \cup {0}] BY DEF Inv, Tracked
  <2> QED BY <2>1, <2>2 DEF Inv, Tracked, Numbered, Recorded, TypeOK
<1> QED BY <1>1, <1>2, <1>3, InvAlways, PTL DEF Spec
=============================================================================
