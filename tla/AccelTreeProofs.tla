--------------------------- MODULE AccelTreeProofs ---------------------------
(***************************************************************************)
(* Proofs about the acceleration structures of a context, for any accels   *)
(* that share one another in any way: what an instance accel refers to is  *)
(* alive, the offsets and addresses it copied stay valid for as long as    *)
(* the comment of each property says, and ranges are used as specified.    *)
(***************************************************************************)
EXTENDS AccelTree, SequenceTheorems, TLAPS

---------------------------------------------------------------------------
(* Sequences.                                                              *)

\* vector::erase() leaves elements that were there.
LEMMA RemoveAtRange ==
  ASSUME NEW S, NEW s \in Seq(S), NEW k \in 1 .. Len(s)
  PROVE  RemoveAt(s, k) \in Seq(S) /\ Range(RemoveAt(s, k)) \subseteq Range(s)
<1> DEFINE front == SubSeq(s, 1, k - 1)
           back  == SubSeq(s, k + 1, Len(s))
<1>1. /\ front \in Seq(S) /\ Len(front) = k - 1
      /\ \A i \in 1 .. k - 1 : front[i] = s[i]
  BY SubSeqProperties
<1>2. /\ back \in Seq(S) /\ Len(back) = Len(s) - k
      /\ \A i \in 1 .. Len(s) - k : back[i] = s[i + k]
  BY SubSeqProperties
<1>3. RemoveAt(s, k) = front \o back BY DEF RemoveAt
<1> HIDE DEF front, back
<1>4. front \o back \in Seq(S) /\ Range(front \o back) = Range(front) \cup Range(back)
  BY <1>1, <1>2, ConcatProperties, RangeConcatenation
<1>5. Range(s) = {s[i] : i \in 1 .. Len(s)} BY RangeEquality
<1>6. Range(front) \subseteq Range(s)
  <2>1. Range(front) = {front[i] : i \in 1 .. Len(front)} BY <1>1, RangeEquality
  <2> QED BY <1>1, <1>5, <2>1
<1>7. Range(back) \subseteq Range(s)
  <2>1. Range(back) = {back[i] : i \in 1 .. Len(back)} BY <1>2, RangeEquality
  <2> QED BY <1>2, <1>5, <2>1
<1> QED BY <1>3, <1>4, <1>6, <1>7

\* A destructor begins: it is on top of those that had begun.
LEMMA PushProperties ==
  ASSUME NEW S, NEW s \in Seq(S), IsInjective(s), NEW e \in S, e \notin Range(s)
  PROVE  /\ Append(s, e) \in Seq(S) /\ IsInjective(Append(s, e))
         /\ Range(Append(s, e)) = Range(s) \cup {e}
<1> DEFINE t == Append(s, e)
<1>1. /\ t \in Seq(S) /\ Len(t) = Len(s) + 1
      /\ \A i \in 1 .. Len(s) : t[i] = s[i]
      /\ t[Len(s) + 1] = e
  BY AppendProperties
<1> HIDE DEF t
<1>2. Len(s) \in Nat /\ DOMAIN s = 1 .. Len(s) /\ DOMAIN t = 1 .. Len(s) + 1
  BY <1>1, LenProperties
<1>3. \A i \in 1 .. Len(s) : s[i] # e BY <1>2 DEF Range
<1>4. IsInjective(t) BY <1>1, <1>2, <1>3 DEF IsInjective
<1>5. Range(t) = Range(s) \cup {e} BY <1>1, <1>2 DEF Range
<1> QED BY <1>1, <1>4, <1>5 DEF t

\* A destructor ends: it is the one on top, and was there once.
LEMMA PopProperties ==
  ASSUME NEW S, NEW s \in Seq(S), IsInjective(s), s # <<>>
  PROVE  /\ Last(s) \in Range(s) /\ Front(s) \in Seq(S) /\ IsInjective(Front(s))
         /\ Range(Front(s)) = Range(s) \ {Last(s)}
<1> DEFINE t == Front(s)
           n == Len(s)
<1>1. n \in Nat /\ n > 0 /\ DOMAIN s = 1 .. n BY LenProperties, EmptySeq
<1>2. t \in Seq(S) /\ Len(t) = n - 1 /\ \A i \in 1 .. n - 1 : t[i] = s[i]
  BY <1>1, SubSeqProperties DEF Front
<1> HIDE DEF t
<1>3. DOMAIN t = 1 .. n - 1 BY <1>2, LenProperties
<1>4. Last(s) = s[n] /\ Last(s) \in Range(s) BY <1>1 DEF Last, Range
<1>5. IsInjective(t) BY <1>1, <1>2, <1>3 DEF IsInjective
<1>6. Range(t) = Range(s) \ {Last(s)}
  BY <1>1, <1>2, <1>3, <1>4 DEF IsInjective, Range
<1> QED BY <1>2, <1>4, <1>5, <1>6 DEF t

---------------------------------------------------------------------------
(* The inductive invariant.                                                *)

Types ==
  /\ live \subseteq Accels /\ appUseCount \subseteq live
  /\ accels \in [InstAccels -> Seq(GeomAccels)]
  /\ builds \in Nat /\ handle \in [Accels -> 0 .. builds]
  /\ DOMAIN instances = InstAccels /\ DOMAIN sbtEntries = Accels

\* What an accel that is not there leaves behind.
DeadAreBlank ==
  /\ \A a \in Accels \ live : handle[a] = 0
  /\ \A i \in InstAccels \ live : accels[i] = <<>>

ReferencesLive == \A i \in InstAccels : Range(accels[i]) \subseteq live

\* A destructor that has begun belongs to an accel nobody holds any more, and
\* none has begun twice.
Unwinding ==
  /\ unwinding \in Seq(Accels) /\ IsInjective(unwinding)
  /\ \A a \in Range(unwinding) : a \in live /\ ~ Held(a, appUseCount, accels)
  /\ ~ terminating => unwinding = <<>>

Inv ==
  /\ Types /\ DeadAreBlank /\ ReferencesLive /\ Unwinding
  /\ OffsetsCurrent /\ AddressesCurrent

LEMMA NoneUnwinding == Range(<<>>) = {} BY DEF Range

LEMMA AccelsIndexed ==
  ASSUME Inv, NEW i \in InstAccels
  PROVE  /\ i \in Accels /\ accels[i] \in Seq(GeomAccels)
         /\ \A j \in DOMAIN accels[i] :
              accels[i][j] \in GeomAccels /\ accels[i][j] \in Range(accels[i])
                /\ accels[i][j] \in live /\ accels[i][j] \in Accels
                /\ accels[i][j] # i
<1>1. accels[i] \in Seq(GeomAccels) /\ i \in Accels BY DEF Inv, Types, Accels
<1>2. DOMAIN accels[i] = 1 .. Len(accels[i]) BY <1>1, LenProperties
<1>3. ASSUME NEW j \in DOMAIN accels[i]
      PROVE  accels[i][j] \in GeomAccels /\ accels[i][j] \in Range(accels[i])
  BY <1>1, <1>2, <1>3, ElementOfSeq DEF Range
<1> QED BY <1>1, <1>3, KindsDiffer DEF Inv, ReferencesLive, Accels

LEMMA InitInv == Init => Inv
<1> SUFFICES ASSUME Init PROVE Inv OBVIOUS
<1>1. live = {} /\ DOMAIN sbtEntries = Accels BY DEF Init, Ranges!Init
<1>2. Types BY <1>1, EmptySeq DEF Init, Types
<1>3. DeadAreBlank BY <1>1, <1>2 DEF Init, DeadAreBlank, Accels
<1>4. ReferencesLive BY NoneUnwinding DEF Init, ReferencesLive
<1>5. Unwinding BY NoneUnwinding, EmptySeq DEF Init, Unwinding, IsInjective
<1>6. \A i \in InstAccels : DOMAIN accels[i] = {} BY DEF Init
<1>7. OffsetsCurrent /\ AddressesCurrent BY <1>6 DEF OffsetsCurrent, AddressesCurrent
<1> QED BY <1>2, <1>3, <1>4, <1>5, <1>7 DEF Inv

---------------------------------------------------------------------------
(* Construction and builds.                                                *)

\* Whichever way Accel's constructor takes, only the new accel's range changes.
LEMMA ReserveProperties ==
  ASSUME NEW a \in Accels, NEW n, Reserve(a, n)
  PROVE  /\ a \notin live /\ live' = live \cup {a}
         /\ \E r : sbtEntries' = [sbtEntries EXCEPT ![a] = r]
  BY DEF Reserve, Ranges!ConstructEmpty, Ranges!ConstructReusing, Ranges!ConstructAtTop,
    Ranges!Hold

LEMMA CreateGeomAccelKeepsInv ==
  ASSUME Inv, NEW a \in GeomAccels, NEW n, CreateGeomAccel(a, n)
  PROVE  Inv'
<1>1. /\ ~ terminating /\ appUseCount' = appUseCount \cup {a}
      /\ UNCHANGED <<accels, handle, builds, instances, terminating, unwinding>>
  BY DEF CreateGeomAccel, buildVars
<1>2. a \in Accels BY DEF Accels
<1>3. /\ a \notin live /\ live' = live \cup {a}
      /\ \E r : sbtEntries' = [sbtEntries EXCEPT ![a] = r]
  BY <1>2, ReserveProperties DEF CreateGeomAccel
<1>4. \A b \in Accels \ {a} : sbtEntries'[b] = sbtEntries[b] BY <1>3 DEF Inv, Types
<1>5. DOMAIN sbtEntries' = Accels BY <1>3 DEF Inv, Types
<1>6. Types' BY <1>1, <1>2, <1>3, <1>5 DEF Inv, Types
<1>7. DeadAreBlank' BY <1>1, <1>3 DEF Inv, DeadAreBlank
<1>8. ReferencesLive' BY <1>1, <1>3 DEF Inv, ReferencesLive
<1>9. Unwinding' BY <1>1, NoneUnwinding DEF Inv, Unwinding
<1>10. ASSUME NEW i \in InstAccels, Intact(i)' PROVE Intact(i)
  <2>1. i # a BY KindsDiffer
  <2> QED BY <1>1, <1>3, <1>10, <2>1 DEF Intact
<1>11. OffsetsCurrent'
  <2> SUFFICES ASSUME NEW i \in InstAccels, Intact(i)', handle'[i] # 0,
                      NEW j \in DOMAIN accels'[i]
               PROVE  instances'[i][j].sbtOffset = sbtEntries'[accels'[i][j]].begin
    BY DEF OffsetsCurrent
  <2>1. accels[i][j] \in live /\ accels[i][j] \in Accels BY <1>1, AccelsIndexed
  <2>2. sbtEntries'[accels[i][j]] = sbtEntries[accels[i][j]] BY <1>3, <1>4, <2>1
  <2>3. instances[i][j].sbtOffset = sbtEntries[accels[i][j]].begin
    BY <1>1, <1>10 DEF Inv, OffsetsCurrent
  <2> QED BY <1>1, <2>2, <2>3
<1>12. AddressesCurrent' BY <1>1, <1>10 DEF Inv, AddressesCurrent
<1> QED BY <1>6, <1>7, <1>8, <1>9, <1>11, <1>12 DEF Inv

LEMMA NeverBelowZero == ASSUME NEW n \in Nat, NEW h \in 0 .. n PROVE ~ (0 > h)
  OBVIOUS

\* A new instance accel has not been built, so that it promises nothing yet.
LEMMA CreateInstanceAccelKeepsInv ==
  ASSUME Inv, NEW i \in InstAccels, NEW n \in Nat, NEW as \in [1 .. n -> GeomAccels],
         CreateInstanceAccel(i, as)
  PROVE  Inv'
<1>1. /\ ~ terminating /\ appUseCount' = appUseCount \cup {i}
      /\ \A j \in DOMAIN as : as[j] \in live
      /\ accels' = [accels EXCEPT ![i] = as]
      /\ UNCHANGED <<handle, builds, instances, terminating, unwinding>>
  BY DEF CreateInstanceAccel, buildVars
<1>2. i \in Accels BY DEF Accels
<1>3. /\ i \notin live /\ live' = live \cup {i}
      /\ \E r : sbtEntries' = [sbtEntries EXCEPT ![i] = r]
  BY <1>2, ReserveProperties DEF CreateInstanceAccel
<1>4. \A b \in Accels \ {i} : sbtEntries'[b] = sbtEntries[b] BY <1>3 DEF Inv, Types
<1>5. DOMAIN sbtEntries' = Accels BY <1>3 DEF Inv, Types
<1>6. as \in Seq(GeomAccels) BY SeqDef
<1>7. Types' BY <1>1, <1>2, <1>3, <1>5, <1>6 DEF Inv, Types
<1>8. DeadAreBlank' BY <1>1, <1>3 DEF Inv, Types, DeadAreBlank
<1>9. ReferencesLive'
  <2>1. Range(as) \subseteq live BY <1>1 DEF Range
  <2> QED BY <1>1, <1>3, <2>1 DEF Inv, Types, ReferencesLive
<1>10. Unwinding' BY <1>1, NoneUnwinding DEF Inv, Unwinding
<1>11. handle'[i] = 0 BY <1>1, <1>2, <1>3 DEF Inv, DeadAreBlank
<1>12. \A k \in InstAccels \ {i} : accels'[k] = accels[k] /\ (Intact(k)' => Intact(k))
  BY <1>1, <1>3 DEF Inv, Types, Intact
<1>13. OffsetsCurrent'
  <2> SUFFICES ASSUME NEW k \in InstAccels, Intact(k)', handle'[k] # 0,
                      NEW j \in DOMAIN accels'[k]
               PROVE  instances'[k][j].sbtOffset = sbtEntries'[accels'[k][j]].begin
    BY DEF OffsetsCurrent
  <2>1. k # i BY <1>11
  <2>2. accels'[k] = accels[k] BY <1>12, <2>1
  <2>3. accels[k][j] \in live /\ accels[k][j] \in Accels BY <2>2, AccelsIndexed
  <2>4. sbtEntries'[accels[k][j]] = sbtEntries[accels[k][j]] BY <1>3, <1>4, <2>3
  <2>5. instances[k][j].sbtOffset = sbtEntries[accels[k][j]].begin
    BY <1>1, <1>12, <2>1, <2>2 DEF Inv, OffsetsCurrent
  <2> QED BY <1>1, <2>2, <2>4, <2>5
<1>14. AddressesCurrent'
  <2> SUFFICES ASSUME NEW k \in InstAccels, Intact(k)', NEW j \in DOMAIN accels'[k],
                      handle'[k] > handle'[accels'[k][j]]
               PROVE  instances'[k][j].address = handle'[accels'[k][j]]
    BY DEF AddressesCurrent
  <2>1. k # i
    <3>1. SUFFICES ASSUME k = i PROVE FALSE OBVIOUS
    <3>2. accels'[k] = as /\ as[j] \in Accels /\ j \in DOMAIN as
      BY <1>1, <3>1 DEF Inv, Types, Accels
    <3>3. handle[as[j]] \in 0 .. builds BY <3>2 DEF Inv, Types
    <3>4. handle'[as[j]] \in 0 .. builds BY <1>1, <3>3
    <3>5. handle'[i] > handle'[as[j]] BY <3>1, <3>2
    <3>6. 0 > handle'[as[j]] BY <1>11, <3>5
    <3>7. builds \in Nat BY DEF Inv, Types
    <3> QED BY <3>4, <3>6, <3>7, NeverBelowZero
  <2> QED BY <1>1, <1>12, <2>1 DEF Inv, AddressesCurrent
<1> QED BY <1>7, <1>8, <1>9, <1>10, <1>13, <1>14 DEF Inv

\* A rebuilt geometry accel is newer than every instance accel above it.
LEMMA BuildGeomAccelKeepsInv ==
  ASSUME Inv, NEW a \in GeomAccels, BuildGeomAccel(a)
  PROVE  Inv'
<1>1. /\ ~ terminating /\ a \in live
      /\ builds' = builds + 1 /\ handle' = [handle EXCEPT ![a] = builds + 1]
      /\ UNCHANGED <<appUseCount, accels, instances, terminating, unwinding, live, sbtEntries>>
  BY DEF BuildGeomAccel, Usable, rangeVars
<1>2. a \in Accels BY DEF Accels
<1>3. builds \in Nat /\ \A b \in Accels : handle[b] \in Nat /\ handle[b] <= builds
  BY DEF Inv, Types
<1>4. handle'[a] = builds + 1 /\ \A b \in Accels \ {a} : handle'[b] = handle[b]
  BY <1>1, <1>2 DEF Inv, Types
<1>5. Types'
  <2>1. handle' \in [Accels -> 0 .. builds'] BY <1>1, <1>2, <1>3 DEF Inv, Types
  <2> QED BY <1>1, <1>3, <2>1 DEF Inv, Types
<1>6. DeadAreBlank' BY <1>1, <1>4 DEF Inv, DeadAreBlank
<1>7. ReferencesLive' BY <1>1 DEF Inv, ReferencesLive
<1>8. Unwinding' BY <1>1, NoneUnwinding DEF Inv, Unwinding
<1>9. \A i \in InstAccels : i # a /\ i \in Accels BY KindsDiffer DEF Accels
<1>10. \A i \in InstAccels : Intact(i)' => Intact(i) BY <1>1 DEF Intact
<1>11. OffsetsCurrent' BY <1>1, <1>4, <1>9, <1>10 DEF Inv, OffsetsCurrent
<1>12. AddressesCurrent'
  <2> SUFFICES ASSUME NEW i \in InstAccels, Intact(i)', NEW j \in DOMAIN accels'[i],
                      handle'[i] > handle'[accels'[i][j]]
               PROVE  instances'[i][j].address = handle'[accels'[i][j]]
    BY DEF AddressesCurrent
  <2>1. accels[i][j] \in Accels BY <1>1, AccelsIndexed
  <2>2. handle'[i] = handle[i] BY <1>4, <1>9
  <2>3. accels[i][j] # a BY <1>1, <1>3, <1>4, <1>9, <2>2
  <2>4. handle'[accels[i][j]] = handle[accels[i][j]] BY <1>4, <2>1, <2>3
  <2> QED BY <1>1, <1>10, <2>2, <2>4 DEF Inv, AddressesCurrent
<1> QED BY <1>5, <1>6, <1>7, <1>8, <1>11, <1>12 DEF Inv

\* An instance accel that is built again copies what is there now.
LEMMA BuildInstanceAccelKeepsInv ==
  ASSUME Inv, NEW i \in InstAccels, BuildInstanceAccel(i)
  PROVE  Inv'
<1>1. /\ ~ terminating /\ i \in live
      /\ builds' = builds + 1 /\ handle' = [handle EXCEPT ![i] = builds + 1]
      /\ instances' =
           [instances EXCEPT ![i] = [j \in DOMAIN accels[i] |-> Instance(i, accels[i][j])]]
      /\ UNCHANGED <<appUseCount, accels, terminating, unwinding, live, sbtEntries>>
  BY DEF BuildInstanceAccel, Usable, rangeVars
<1>2. i \in Accels BY DEF Accels
<1>3. builds \in Nat /\ \A b \in Accels : handle[b] \in Nat /\ handle[b] <= builds
  BY DEF Inv, Types
<1>4. handle'[i] = builds + 1 /\ \A b \in Accels \ {i} : handle'[b] = handle[b]
  BY <1>1, <1>2 DEF Inv, Types
<1>5. Types'
  <2>1. handle' \in [Accels -> 0 .. builds'] BY <1>1, <1>2, <1>3 DEF Inv, Types
  <2> QED BY <1>1, <1>3, <2>1 DEF Inv, Types
<1>6. DeadAreBlank' BY <1>1, <1>4 DEF Inv, DeadAreBlank
<1>7. ReferencesLive' BY <1>1 DEF Inv, ReferencesLive
<1>8. Unwinding' BY <1>1, NoneUnwinding DEF Inv, Unwinding
<1>9. \A k \in InstAccels : k \in Accels /\ (Intact(k)' => Intact(k))
  BY <1>1 DEF Intact, Accels
<1>10. \A k \in InstAccels : \A j \in DOMAIN accels[k] :
         handle'[accels[k][j]] = handle[accels[k][j]]
  <2> SUFFICES ASSUME NEW k \in InstAccels, NEW j \in DOMAIN accels[k]
               PROVE  handle'[accels[k][j]] = handle[accels[k][j]]
    OBVIOUS
  <2>1. accels[k][j] \in GeomAccels /\ accels[k][j] \in Accels BY AccelsIndexed
  <2>2. accels[k][j] # i BY <2>1, KindsDiffer
  <2> QED BY <1>4, <2>1, <2>2
<1>11. \A j \in DOMAIN accels[i] : instances'[i][j] = Instance(i, accels[i][j])
  BY <1>1 DEF Inv, Types
<1>12. \A k \in InstAccels \ {i} : instances'[k] = instances[k] /\ handle'[k] = handle[k]
  BY <1>1, <1>4, <1>9 DEF Inv, Types
<1>13. OffsetsCurrent'
  <2> SUFFICES ASSUME NEW k \in InstAccels, Intact(k)', handle'[k] # 0,
                      NEW j \in DOMAIN accels'[k]
               PROVE  instances'[k][j].sbtOffset = sbtEntries'[accels'[k][j]].begin
    BY DEF OffsetsCurrent
  <2>1. CASE k = i
    <3>1. j \in DOMAIN accels[i] BY <1>1, <2>1
    <3>2. instances'[i][j] = Instance(i, accels[i][j]) BY <1>11, <3>1
    <3>3. instances'[i][j].sbtOffset = sbtEntries[accels[i][j]].begin BY <3>2 DEF Instance
    <3> QED BY <1>1, <2>1, <3>3
  <2>2. CASE k # i BY <1>1, <1>9, <1>12, <2>2 DEF Inv, OffsetsCurrent
  <2> QED BY <2>1, <2>2
<1>14. AddressesCurrent'
  <2> SUFFICES ASSUME NEW k \in InstAccels, Intact(k)', NEW j \in DOMAIN accels'[k],
                      handle'[k] > handle'[accels'[k][j]]
               PROVE  instances'[k][j].address = handle'[accels'[k][j]]
    BY DEF AddressesCurrent
  <2>1. CASE k = i
    <3>1. j \in DOMAIN accels[i] BY <1>1, <2>1
    <3>2. instances'[i][j] = Instance(i, accels[i][j]) BY <1>11, <3>1
    <3>3. instances'[i][j].address = handle[accels[i][j]] BY <3>2 DEF Instance
    <3> QED BY <1>1, <1>10, <2>1, <3>1, <3>3
  <2>2. CASE k # i BY <1>1, <1>9, <1>10, <1>12, <2>2 DEF Inv, AddressesCurrent
  <2> QED BY <2>1, <2>2
<1> QED BY <1>5, <1>6, <1>7, <1>8, <1>13, <1>14 DEF Inv
---------------------------------------------------------------------------
(* The end of the context.                                                 *)

LEMMA TerminateKeepsInv ==
  ASSUME Inv, Terminate
  PROVE  Inv'
<1>1. /\ terminating' = TRUE
      /\ UNCHANGED <<appUseCount, accels, handle, builds, instances, unwinding, live,
                     sbtEntries>>
  BY DEF Terminate, buildVars, rangeVars
<1>2. Unwinding' BY <1>1 DEF Inv, Unwinding, Held
<1> QED
  BY <1>1, <1>2 DEF Inv, Types, DeadAreBlank, ReferencesLive, OffsetsCurrent,
    AddressesCurrent, Intact

\* What one destructor more, or one reference less, does not touch.  An accel
\* whose destructor begins is one that just lost its last holder.
LEMMA UnwindKeepsInv ==
  ASSUME Inv, terminating, NEW a \in Accels, a \in live, a \notin Range(unwinding),
         NEW app, app \subseteq appUseCount, NEW refs \in [InstAccels -> Seq(GeomAccels)],
         \A i \in InstAccels : Range(refs[i]) \subseteq Range(accels[i]),
         \A i \in InstAccels : Intact(i) => refs[i] = accels[i],
         \A i \in InstAccels \ live : refs[i] = <<>>,
         Unwind(a, app, refs, unwinding), appUseCount' = app, accels' = refs,
         UNCHANGED <<handle, builds, instances, terminating, live, sbtEntries>>
  PROVE  Inv'
<1>1. Types' BY DEF Inv, Types
<1>2. DeadAreBlank' BY DEF Inv, DeadAreBlank
<1>3. ReferencesLive' BY DEF Inv, ReferencesLive
<1>4. \A b : Held(b, app, refs) => Held(b, appUseCount, accels) BY DEF Held
<1>5. Range(unwinding) \subseteq Range(unwinding)' /\ Unwinding'
  <2>1. /\ unwinding \in Seq(Accels) /\ IsInjective(unwinding)
        /\ \A b \in Range(unwinding) : b \in live /\ ~ Held(b, app, refs)
    BY <1>4 DEF Inv, Unwinding
  <2>2. CASE Held(a, app, refs)
    <3>1. unwinding' = unwinding BY <2>2 DEF Unwind
    <3> QED BY <2>1, <3>1 DEF Unwinding, Held
  <2>3. CASE ~ Held(a, app, refs)
    <3>1. unwinding' = Append(unwinding, a) BY <2>3 DEF Unwind
    <3>2. /\ unwinding' \in Seq(Accels) /\ IsInjective(unwinding')
          /\ Range(unwinding') = Range(unwinding) \cup {a}
      BY <2>1, <3>1, PushProperties
    <3>3. \A b \in Range(unwinding') : b \in live /\ ~ Held(b, app, refs)
      BY <2>1, <2>3, <3>2
    <3> QED BY <3>2, <3>3 DEF Unwinding, Held
  <2> QED BY <2>2, <2>3
<1>6. \A i \in InstAccels : Intact(i)' => Intact(i) /\ accels'[i] = accels[i]
  BY <1>5 DEF Intact
<1>7. OffsetsCurrent' BY <1>6 DEF Inv, OffsetsCurrent
<1>8. AddressesCurrent' BY <1>6 DEF Inv, AddressesCurrent
<1> QED BY <1>1, <1>2, <1>3, <1>5, <1>7, <1>8 DEF Inv

LEMMA DropAppRefKeepsInv ==
  ASSUME Inv, NEW a \in Accels, DropAppRef(a)
  PROVE  Inv'
<1>1. /\ terminating /\ unwinding = <<>> /\ a \in appUseCount
      /\ appUseCount' = appUseCount \ {a}
      /\ Unwind(a, appUseCount', accels, <<>>)
      /\ UNCHANGED <<accels, handle, builds, instances, terminating, live, sbtEntries>>
  BY DEF DropAppRef, buildVars, rangeVars
<1>2. a \in live /\ a \notin Range(unwinding)
  BY <1>1, NoneUnwinding DEF Inv, Types
<1>3. Unwind(a, appUseCount \ {a}, accels, unwinding) BY <1>1
<1>4. accels \in [InstAccels -> Seq(GeomAccels)] BY DEF Inv, Types
<1>5. \A i \in InstAccels \ live : accels[i] = <<>> BY DEF Inv, DeadAreBlank
<1>6. appUseCount \ {a} \subseteq appUseCount OBVIOUS
<1>7. UNCHANGED <<handle, builds, instances, terminating, live, sbtEntries>> BY <1>1
<1> QED BY <1>1, <1>2, <1>3, <1>4, <1>5, <1>6, <1>7, UnwindKeepsInv

\* ~InstanceAccel: what it refers to was held by it until now.
LEMMA DropInstanceKeepsInv ==
  ASSUME Inv, NEW i \in InstAccels, NEW j \in DOMAIN accels[i], DropInstance(i, j)
  PROVE  Inv'
<1> DEFINE a == accels[i][j]
           refs == [accels EXCEPT ![i] = RemoveAt(accels[i], j)]
<1>1. /\ unwinding # <<>> /\ i = Last(unwinding) /\ accels' = refs
      /\ Unwind(a, appUseCount, refs, unwinding)
      /\ UNCHANGED <<appUseCount, handle, builds, instances, terminating, live, sbtEntries>>
  BY DEF DropInstance, buildVars, rangeVars
<1>2. /\ accels[i] \in Seq(GeomAccels) /\ a \in Accels /\ a \in live
      /\ a \in Range(accels[i])
  BY AccelsIndexed
<1>3. i \in Range(unwinding) /\ terminating
  <2>1. unwinding \in Seq(Accels) /\ IsInjective(unwinding) BY DEF Inv, Unwinding
  <2>2. Last(unwinding) \in Range(unwinding) BY <1>1, <2>1, PopProperties
  <2> QED BY <1>1, <2>2 DEF Inv, Unwinding
<1>4. i \in live BY <1>3 DEF Inv, Unwinding
<1>5. a \notin Range(unwinding)
  <2>1. Held(a, appUseCount, accels) BY <1>2, <1>4 DEF Held
  <2> QED BY <2>1 DEF Inv, Unwinding
<1>6. /\ RemoveAt(accels[i], j) \in Seq(GeomAccels)
      /\ Range(RemoveAt(accels[i], j)) \subseteq Range(accels[i])
  <2>1. j \in 1 .. Len(accels[i]) BY <1>2, LenProperties
  <2> QED BY <1>2, <2>1, RemoveAtRange
<1>7. accels \in [InstAccels -> Seq(GeomAccels)] BY DEF Inv, Types
<1>8. refs \in [InstAccels -> Seq(GeomAccels)] BY <1>6, <1>7
<1>9. \A k \in InstAccels : Range(refs[k]) \subseteq Range(accels[k]) BY <1>6, <1>7
<1>10. \A k \in InstAccels : Intact(k) => refs[k] = accels[k] BY <1>3, <1>7 DEF Intact
<1>11. \A k \in InstAccels \ live : refs[k] = <<>>
  BY <1>4, <1>7 DEF Inv, DeadAreBlank
<1> HIDE DEF a, refs
<1>12. appUseCount \subseteq appUseCount /\ appUseCount' = appUseCount BY <1>1
<1>13. UNCHANGED <<handle, builds, instances, terminating, live, sbtEntries>> BY <1>1
<1> QED
  BY <1>1, <1>2, <1>3, <1>5, <1>8, <1>9, <1>10, <1>11, <1>12, <1>13, UnwindKeepsInv

\* ~Accel: nobody refers to an accel whose destructor ends.
LEMMA ReleaseKeepsInv ==
  ASSUME Inv, NEW a \in Accels, Release(a)
  PROVE  Inv'
<1>1. /\ unwinding # <<>> /\ a = Last(unwinding)
      /\ a \in InstAccels => accels[a] = <<>>
      /\ live' = live \ {a}
      /\ sbtEntries' = [sbtEntries EXCEPT ![a] = Ranges!NoEntries]
      /\ handle' = [handle EXCEPT ![a] = 0] /\ unwinding' = Front(unwinding)
      /\ UNCHANGED <<appUseCount, accels, builds, instances, terminating>>
  BY DEF Release, Ranges!GiveBack
<1>2. /\ a \in Range(unwinding) /\ unwinding' \in Seq(Accels) /\ IsInjective(unwinding')
      /\ Range(unwinding') = Range(unwinding) \ {a}
  BY <1>1, PopProperties DEF Inv, Unwinding
<1>3. a \notin appUseCount /\ \A i \in InstAccels : a \notin Range(accels[i])
  <2>1. ~ Held(a, appUseCount, accels) BY <1>2 DEF Inv, Unwinding
  <2>2. \A i \in InstAccels \ live : a \notin Range(accels[i])
    BY NoneUnwinding DEF Inv, DeadAreBlank
  <2> QED BY <2>1, <2>2 DEF Held
<1>4. Types' BY <1>1, <1>3 DEF Inv, Types
<1>5. DeadAreBlank' BY <1>1 DEF Inv, Types, DeadAreBlank
<1>6. ReferencesLive' BY <1>1, <1>3 DEF Inv, ReferencesLive
<1>7. Unwinding'
  <2>1. \A b \in Range(unwinding') : b \in live' /\ ~ Held(b, appUseCount, accels)'
    BY <1>1, <1>2 DEF Inv, Unwinding, Held
  <2>2. terminating' BY <1>1 DEF Inv, Unwinding
  <2> QED BY <1>2, <2>1, <2>2 DEF Unwinding
<1>8. \A i \in InstAccels : Intact(i)' => Intact(i) /\ i # a
  BY <1>1, <1>2 DEF Intact
<1>9. \A b \in Accels \ {a} : handle'[b] = handle[b] /\ sbtEntries'[b] = sbtEntries[b]
  BY <1>1 DEF Inv, Types
<1>10. ASSUME NEW i \in InstAccels, NEW j \in DOMAIN accels[i]
       PROVE  handle'[accels[i][j]] = handle[accels[i][j]]
              /\ sbtEntries'[accels[i][j]] = sbtEntries[accels[i][j]]
  <2>1. accels[i][j] \in Accels /\ accels[i][j] \in Range(accels[i]) BY AccelsIndexed
  <2> QED BY <1>3, <1>9, <2>1
<1>11. \A i \in InstAccels : i \in Accels BY DEF Accels
<1>12. OffsetsCurrent'
  BY <1>1, <1>8, <1>9, <1>10, <1>11 DEF Inv, OffsetsCurrent
<1>13. AddressesCurrent'
  BY <1>1, <1>8, <1>9, <1>10, <1>11 DEF Inv, AddressesCurrent
<1> QED BY <1>4, <1>5, <1>6, <1>7, <1>12, <1>13 DEF Inv

---------------------------------------------------------------------------
LEMMA NextKeepsInv == Inv /\ [Next]_vars => Inv'
<1> SUFFICES ASSUME Inv, [Next]_vars PROVE Inv' OBVIOUS
<1>1. CASE \E a \in GeomAccels : \E n \in 0 .. MaxGeoms : CreateGeomAccel(a, n)
  BY <1>1, CreateGeomAccelKeepsInv
<1>2. CASE \E i \in InstAccels : \E n \in 0 .. MaxInstances[i] :
             \E as \in [1 .. n -> GeomAccels] : CreateInstanceAccel(i, as)
  <2>1. ASSUME NEW i \in InstAccels, NEW n \in 0 .. MaxInstances[i],
               NEW as \in [1 .. n -> GeomAccels], CreateInstanceAccel(i, as)
        PROVE  Inv'
    <3>1. MaxInstances[i] \in 0 .. MaxEntries /\ MaxEntries \in Nat BY SizesAssumption
    <3>2. n \in Nat BY <3>1
    <3> QED BY <2>1, <3>2, CreateInstanceAccelKeepsInv
  <2> QED BY <1>2, <2>1
<1>3. CASE \E a \in GeomAccels : BuildGeomAccel(a) BY <1>3, BuildGeomAccelKeepsInv
<1>4. CASE \E i \in InstAccels : BuildInstanceAccel(i)
  BY <1>4, BuildInstanceAccelKeepsInv
<1>5. CASE Terminate BY <1>5, TerminateKeepsInv
<1>6. CASE Teardown
  BY <1>6, DropAppRefKeepsInv, ReleaseKeepsInv, DropInstanceKeepsInv DEF Teardown
<1>7. CASE UNCHANGED vars
  BY <1>7 DEF vars, buildVars, rangeVars, Inv, Types, DeadAreBlank, ReferencesLive,
    Unwinding, Held, OffsetsCurrent, AddressesCurrent, Intact
<1> QED BY <1>1, <1>2, <1>3, <1>4, <1>5, <1>6, <1>7 DEF Next

LEMMA InvAlways == Spec => []Inv
  BY InitInv, NextKeepsInv, PTL DEF Spec

\* InstanceAccel::accels and the order ~InstanceAccel and Context::terminate()
\* let go of accels in: nothing instanced is destroyed, or being destroyed,
\* below an instance accel that lives.
THEOREM InstancedAccelsAlwaysLive == Spec => []InstancedAccelsLive
<1>1. Inv => InstancedAccelsLive
  BY DEF Inv, InstancedAccelsLive, ReferencesLive, Unwinding, Held, Intact
<1> QED BY <1>1, InvAlways, PTL

\* InstanceAccel::build() copies sbtEntryBegin: the copy is right for as long as
\* the instance accel lives, however ranges are released and reused.
THEOREM OffsetsStayCurrent == Spec => []OffsetsCurrent
  BY InvAlways, PTL DEF Inv

\* InstanceAccel::build() copies device addresses: they are those of the current
\* structures unless something below was built later.
THEOREM AddressesStayCurrent == Spec => []AddressesCurrent
  BY InvAlways, PTL DEF Inv

\* ~Accel releases its range unasked; still every accel's range goes back once,
\* while the accel lives, because a destructor that has begun is that of a living
\* accel nobody holds, and none begins twice.
THEOREM AccelsUseTheAllocator == Spec => RangesSpec
<1>1. Init => Ranges!Init BY DEF Init
<1>2. ASSUME NEW a \in Accels, NEW n \in 0 .. MaxEntries, Reserve(a, n) PROVE Ranges!Next
  <2>1. CASE n = 0 BY <1>2, <2>1 DEF Reserve, Ranges!Next
  <2>2. CASE n # 0
    <3>1. n \in 1 .. MaxEntries BY <2>2, SizesAssumption
    <3>2. Ranges!ConstructReusing(a, n) \/ Ranges!ConstructAtTop(a, n)
      BY <1>2, <2>2 DEF Reserve
    <3> QED BY <3>1, <3>2 DEF Ranges!Next
  <2> QED BY <2>1, <2>2
<1>3. Inv /\ [Next]_vars => [Ranges!Next]_rangeVars
  <2> SUFFICES ASSUME Inv, Next \/ UNCHANGED vars PROVE Ranges!Next \/ UNCHANGED rangeVars
    OBVIOUS
  <2>1. ASSUME NEW a \in GeomAccels, NEW n \in 0 .. MaxGeoms, CreateGeomAccel(a, n)
        PROVE  Ranges!Next
    BY <1>2, <2>1, SizesAssumption DEF CreateGeomAccel, Accels
  <2>2. ASSUME NEW i \in InstAccels, NEW n \in 0 .. MaxInstances[i],
               NEW as \in [1 .. n -> GeomAccels], CreateInstanceAccel(i, as)
        PROVE  Ranges!Next
    <3>1. MaxInstances[i] \in 0 .. MaxEntries /\ MaxEntries \in Nat BY SizesAssumption
    <3>2. n \in 0 .. MaxEntries /\ n \in Nat BY <3>1
    <3>3. Len(as) = n
      <4>1. as \in Seq(GeomAccels) BY <3>2, SeqDef
      <4>2. DOMAIN as = 1 .. Len(as) /\ Len(as) \in Nat BY <4>1, LenProperties
      <4> QED BY <3>2, <4>2
    <3> QED BY <1>2, <2>2, <3>2, <3>3 DEF CreateInstanceAccel, Accels
  <2>3. ASSUME NEW a \in Accels, Release(a) PROVE Ranges!Next
    <3>1. unwinding # <<>> /\ a = Last(unwinding) /\ Ranges!GiveBack(a)
      BY <2>3 DEF Release
    <3>2. unwinding \in Seq(Accels) /\ IsInjective(unwinding) BY DEF Inv, Unwinding
    <3>3. a \in Range(unwinding) BY <3>1, <3>2, PopProperties
    <3>4. a \in live BY <3>3 DEF Inv, Unwinding
    <3> QED BY <3>1, <3>4 DEF Ranges!Destroy, Ranges!Next
  <2>4. CASE \/ \E a \in GeomAccels : BuildGeomAccel(a)
             \/ \E i \in InstAccels : BuildInstanceAccel(i)
             \/ Terminate
             \/ \E a \in Accels : DropAppRef(a)
             \/ \E i \in InstAccels : \E j \in DOMAIN accels[i] : DropInstance(i, j)
    BY <2>4 DEF BuildGeomAccel, BuildInstanceAccel, Terminate, DropAppRef, DropInstance
  <2>5. CASE UNCHANGED vars BY <2>5 DEF vars
  <2> QED BY <2>1, <2>2, <2>3, <2>4, <2>5 DEF Next, Teardown
<1> QED
  BY <1>1, <1>3, InvAlways, PTL DEF Spec, RangesSpec, Ranges!Spec, Ranges!vars, rangeVars
=============================================================================
