----------------------- MODULE RangeAllocatorProofs -----------------------
(***************************************************************************)
(* Proofs about the SBT range allocator, for every set of accels and every *)
(* bound on their sizes: the ranges that accels hold and the freed ranges  *)
(* partition the table, release() coalesces completely, and the allocator  *)
(* implements the exclusive contiguous slots of SbtSlots.                  *)
(***************************************************************************)
EXTENDS RangeAllocator, WellFoundedInduction, SequenceTheorems, TLAPS

---------------------------------------------------------------------------
(* Sequences.                                                              *)

\* A nonempty set of indices has a least element, so that the first range a
\* search over the vector finds exists.
LEMMA SmallestIndex ==
  ASSUME NEW T \in SUBSET Nat, T # {}
  PROVE  \E x \in T : \A y \in T : x <= y
<1>1. \E x \in T : \A y \in T : ~(<<y, x>> \in OpToRel(<, Nat))
  BY NatLessThanWellFounded, WFMin
<1>2. ASSUME NEW x \in T, NEW y \in T, ~(<<y, x>> \in OpToRel(<, Nat))
      PROVE  x <= y
  BY <1>2 DEF OpToRel
<1> QED BY <1>1, <1>2

\* vector::erase(): what RemoveAt returns, position by position.
LEMMA RemoveAtProperties ==
  ASSUME NEW S, NEW s \in Seq(S), NEW k \in 1 .. Len(s)
  PROVE  /\ RemoveAt(s, k) \in Seq(S)
         /\ Len(RemoveAt(s, k)) = Len(s) - 1
         /\ \A j \in 1 .. Len(s) - 1 :
              RemoveAt(s, k)[j] = IF j < k THEN s[j] ELSE s[j + 1]
<1> DEFINE front == SubSeq(s, 1, k - 1)
           back  == SubSeq(s, k + 1, Len(s))
           all   == front \o back
<1>1. /\ front \in Seq(S)
      /\ Len(front) = k - 1
      /\ \A i \in 1 .. k - 1 : front[i] = s[i]
  BY SubSeqProperties
<1>2. /\ back \in Seq(S)
      /\ Len(back) = Len(s) - k
      /\ \A i \in 1 .. Len(s) - k : back[i] = s[i + k]
  BY SubSeqProperties
<1>3. RemoveAt(s, k) = all
  BY DEF RemoveAt
<1> HIDE DEF front, back
<1>4. /\ all \in Seq(S)
      /\ Len(all) = Len(front) + Len(back)
      /\ \A i \in 1 .. Len(front) + Len(back) :
           all[i] = IF i <= Len(front) THEN front[i] ELSE back[i - Len(front)]
  BY <1>1, <1>2, ConcatProperties
<1> HIDE DEF all
<1>5. Len(all) = Len(s) - 1
  BY <1>1, <1>2, <1>4
<1>6. ASSUME NEW j \in 1 .. Len(s) - 1
      PROVE  all[j] = IF j < k THEN s[j] ELSE s[j + 1]
  <2>1. CASE j < k
    BY <2>1, <1>1, <1>2, <1>4
  <2>2. CASE j >= k
    <3>1. all[j] = back[j - (k - 1)]
      BY <2>2, <1>1, <1>2, <1>4
    <3>2. j - (k - 1) \in 1 .. Len(s) - k
      BY <2>2
    <3>3. back[j - (k - 1)] = s[(j - (k - 1)) + k]
      BY <3>2, <1>2
    <3>4. (j - (k - 1)) + k = j + 1
      OBVIOUS
    <3>5. all[j] = s[j + 1]
      BY <3>1, <3>3, <3>4
    <3> QED BY <2>2, <3>5
  <2>3. j < k \/ j >= k
    OBVIOUS
  <2> QED BY <2>1, <2>2, <2>3
<1> QED BY <1>3, <1>4, <1>5, <1>6

\* Erasing position k leaves the elements at the other positions, and nothing
\* else.
LEMMA RemoveAtElements ==
  ASSUME NEW S, NEW s \in Seq(S), NEW k \in 1 .. Len(s)
  PROVE  /\ \A j \in DOMAIN RemoveAt(s, k) :
              \E i \in DOMAIN s : i # k /\ RemoveAt(s, k)[j] = s[i]
         /\ \A i \in DOMAIN s : i # k =>
              \E j \in DOMAIN RemoveAt(s, k) : RemoveAt(s, k)[j] = s[i]
<1> DEFINE g == RemoveAt(s, k)
<1>1. /\ g \in Seq(S)
      /\ Len(g) = Len(s) - 1
      /\ \A j \in 1 .. Len(s) - 1 : g[j] = IF j < k THEN s[j] ELSE s[j + 1]
  BY RemoveAtProperties
<1> HIDE DEF g
<1>2. DOMAIN g = 1 .. Len(s) - 1 /\ DOMAIN s = 1 .. Len(s)
  BY <1>1
<1>3. ASSUME NEW j \in 1 .. Len(s) - 1
      PROVE  \E i \in 1 .. Len(s) : i # k /\ g[j] = s[i]
  <2>1. CASE j < k
    BY <2>1, <1>1
  <2>2. CASE j >= k
    <3>1. j + 1 \in 1 .. Len(s) /\ j + 1 # k /\ g[j] = s[j + 1]
      BY <2>2, <1>1
    <3> QED BY <3>1
  <2>3. j < k \/ j >= k
    OBVIOUS
  <2> QED BY <2>1, <2>2, <2>3
<1>4. ASSUME NEW i \in 1 .. Len(s), i # k
      PROVE  \E j \in 1 .. Len(s) - 1 : g[j] = s[i]
  <2>1. CASE i < k
    BY <2>1, <1>1
  <2>2. CASE i > k
    <3>1. i - 1 \in 1 .. Len(s) - 1 /\ g[i - 1] = s[(i - 1) + 1] /\ (i - 1) + 1 = i
      BY <2>2, <1>1
    <3> QED BY <3>1
  <2>3. i < k \/ i > k
    BY <1>4
  <2> QED BY <2>1, <2>2, <2>3
<1> QED BY <1>2, <1>3, <1>4 DEF g

---------------------------------------------------------------------------
(* Lists of freed ranges.                                                  *)

Separate(f) ==
  \A i, j \in DOMAIN f : i # j => End(f[i]) < f[j].begin \/ End(f[j]) < f[i].begin

\* What the ranges of the list and the range r that is being released have
\* in common at every level of release().
Releasing(f, r, top) ==
  /\ f \in Seq(FreedRange)
  /\ r \in FreedRange
  /\ Proper(r, top)
  /\ Separate(f)
  /\ \A i \in DOMAIN f : Proper(f[i], top) /\ End(f[i]) < top /\ Apart(f[i], r)

\* The table entries the list and r hold together.
Entry(f, r, x) == x \in SlotsOf(r) \/ \E i \in DOMAIN f : x \in SlotsOf(f[i])

\* A range t that shares no entry with the list nor with r.
Clear(f, r, t) == Apart(t, r) /\ \A i \in DOMAIN f : Apart(t, f[i])

NoneOnTheLeft(f, r)  == \A i \in DOMAIN f : End(f[i]) # r.begin
NoneOnTheRight(f, r) == \A i \in DOMAIN f : End(r) # f[i].begin

LEMMA SeparateAfterRemove ==
  ASSUME NEW f \in Seq(FreedRange), NEW k \in 1 .. Len(f), Separate(f)
  PROVE  Separate(RemoveAt(f, k))
<1> DEFINE g == RemoveAt(f, k)
           at(n) == IF n < k THEN n ELSE n + 1
<1>1. /\ g \in Seq(FreedRange)
      /\ Len(g) = Len(f) - 1
      /\ \A j \in 1 .. Len(f) - 1 : g[j] = f[at(j)]
  BY RemoveAtProperties
<1> HIDE DEF g
<1>2. ASSUME NEW i \in 1 .. Len(f) - 1, NEW j \in 1 .. Len(f) - 1, i # j
      PROVE  End(g[i]) < g[j].begin \/ End(g[j]) < g[i].begin
  <2>1. at(i) \in 1 .. Len(f) /\ at(j) \in 1 .. Len(f) /\ at(i) # at(j)
    BY <1>2
  <2>2. g[i] = f[at(i)] /\ g[j] = f[at(j)]
    BY <1>1
  <2> HIDE DEF at
  <2> QED BY <2>1, <2>2 DEF Separate
<1>3. DOMAIN g = 1 .. Len(f) - 1
  BY <1>1
<1>4. Separate(g)
  BY <1>2, <1>3 DEF Separate
<1> QED BY <1>4 DEF g

\* The loop of release() stops at a range that touches, if there is one.
LEMMA FirstTouchingTouches ==
  ASSUME NEW f \in Seq(FreedRange), NEW r, Touching(f, r) # {}
  PROVE  FirstTouching(f, r) \in DOMAIN f /\ Touches(f[FirstTouching(f, r)], r)
<1>1. Touching(f, r) \in SUBSET Nat
  BY LenProperties DEF Touching
<1>2. \E i \in Touching(f, r) : \A j \in Touching(f, r) : i <= j
  BY <1>1, SmallestIndex
<1>3. FirstTouching(f, r) \in Touching(f, r)
  BY <1>2 DEF FirstTouching
<1> QED BY <1>3 DEF Touching

\* The loop of alloc() stops at a range that is large enough, if there is one.
LEMMA FirstFitFits ==
  ASSUME NEW f \in Seq(FreedRange), NEW n \in Nat, Fitting(f, n) # {}
  PROVE  FirstFit(f, n) \in DOMAIN f /\ f[FirstFit(f, n)].size >= n
<1>1. Fitting(f, n) \in SUBSET Nat
  BY LenProperties DEF Fitting
<1>2. \E i \in Fitting(f, n) : \A j \in Fitting(f, n) : i <= j
  BY <1>1, SmallestIndex
<1>3. FirstFit(f, n) \in Fitting(f, n)
  BY <1>2 DEF FirstFit
<1> QED BY <1>3 DEF Fitting
---------------------------------------------------------------------------
(* release().                                                              *)

\* The union of two ranges that touch and do not overlap.
LEMMA JoinProperties ==
  ASSUME NEW top \in Nat, NEW u \in FreedRange, NEW r \in FreedRange,
         Proper(u, top), Proper(r, top), Apart(u, r), Touches(u, r),
         NEW q, q = Join(u, r)
  PROVE  /\ q \in FreedRange
         /\ Proper(q, top)
         /\ \A x \in Int : x \in SlotsOf(q) <=> x \in SlotsOf(u) \/ x \in SlotsOf(r)
         /\ \A t \in FreedRange :
              Proper(t, top) /\ Apart(t, u) /\ Apart(t, r) => Apart(t, q)
         /\ \/ End(u) = r.begin /\ q.begin = u.begin /\ End(q) = End(r)
            \/ End(r) = u.begin /\ q.begin = r.begin /\ End(q) = End(u)
<1> USE DEF FreedRange, End, Span, NoEntries, SlotsOf, Proper, Apart
<1>1. /\ q \in FreedRange
      /\ \/ End(u) = r.begin /\ q.begin = u.begin /\ End(q) = End(r)
         \/ End(r) = u.begin /\ q.begin = r.begin /\ End(q) = End(u)
      /\ q.size = u.size + r.size
  BY DEF Join, Touches
<1>2. Proper(q, top)
  <2>1. CASE u.size = 0 /\ r.size = 0
    BY <2>1 DEF Join, Touches
  <2>2. CASE u.size > 0 \/ r.size > 0
    BY <2>2, <1>1 DEF Touches
  <2> QED BY <2>1, <2>2
<1>3. ASSUME NEW x \in Int
      PROVE  x \in SlotsOf(q) <=> x \in SlotsOf(u) \/ x \in SlotsOf(r)
  BY <1>1
<1>4. ASSUME NEW t \in FreedRange, Proper(t, top), Apart(t, u), Apart(t, r)
      PROVE  Apart(t, q)
  BY <1>1, <1>2, <1>4
<1> QED BY <1>1, <1>2, <1>3, <1>4

\* One level of release(): what it keeps, and on which side it is finished.
LEMMA CoalesceLevel ==
  ASSUME NEW top \in Nat, NEW f, NEW r, Releasing(f, r, top),
         NEW s, s = Coalesce([freed |-> f, range |-> r])
  PROVE  /\ s = [freed |-> s.freed, range |-> s.range]
         /\ Releasing(s.freed, s.range, top)
         /\ \A x \in Int : Entry(s.freed, s.range, x) <=> Entry(f, r, x)
         /\ \A t \in FreedRange :
              Proper(t, top) /\ Clear(f, r, t) => Clear(s.freed, s.range, t)
         /\ NoneOnTheLeft(f, r) => NoneOnTheLeft(s.freed, s.range)
         /\ NoneOnTheRight(f, r) => NoneOnTheRight(s.freed, s.range)
         /\ \/ NoneOnTheLeft(f, r) /\ NoneOnTheRight(f, r)
            \/ ~NoneOnTheLeft(f, r) /\ NoneOnTheLeft(s.freed, s.range)
            \/ ~NoneOnTheRight(f, r) /\ NoneOnTheRight(s.freed, s.range)
<1>1. CASE Touching(f, r) = {}
  <2>1. s = [freed |-> f, range |-> r]
    BY <1>1 DEF Coalesce
  <2>2. NoneOnTheLeft(f, r) /\ NoneOnTheRight(f, r)
    BY <1>1 DEF Touching, Touches, NoneOnTheLeft, NoneOnTheRight
  <2> QED BY <2>1, <2>2
<1>2. CASE Touching(f, r) # {}
  <2> DEFINE k == FirstTouching(f, r)
             u == f[k]
             g == RemoveAt(f, k)
             q == Join(u, r)
  <2>1. s = [freed |-> g, range |-> q]
    BY <1>2 DEF Coalesce
  <2>2. f \in Seq(FreedRange) /\ r \in FreedRange /\ Proper(r, top) /\ Separate(f)
    BY DEF Releasing
  <2>3. k \in 1 .. Len(f) /\ k \in DOMAIN f /\ Touches(u, r)
    BY <1>2, <2>2, FirstTouchingTouches
  <2> HIDE DEF k
  <2>4. u \in FreedRange /\ Proper(u, top) /\ End(u) < top /\ Apart(u, r)
    BY <2>2, <2>3 DEF Releasing
  <2>5. g \in Seq(FreedRange) /\ Separate(g)
    BY <2>2, <2>3, RemoveAtProperties, SeparateAfterRemove
  <2>6. /\ \A j \in DOMAIN g : \E i \in DOMAIN f : i # k /\ g[j] = f[i]
        /\ \A i \in DOMAIN f : i # k => \E j \in DOMAIN g : g[j] = f[i]
    BY <2>2, <2>3, RemoveAtElements
  <2> HIDE DEF g
  <2>7. /\ q \in FreedRange
        /\ Proper(q, top)
        /\ \A x \in Int : x \in SlotsOf(q) <=> x \in SlotsOf(u) \/ x \in SlotsOf(r)
        /\ \A t \in FreedRange :
             Proper(t, top) /\ Apart(t, u) /\ Apart(t, r) => Apart(t, q)
        /\ \/ End(u) = r.begin /\ q.begin = u.begin /\ End(q) = End(r)
           \/ End(r) = u.begin /\ q.begin = r.begin /\ End(q) = End(u)
    BY <2>2, <2>3, <2>4, JoinProperties
  <2> HIDE DEF q
  <2>8. ASSUME NEW i \in DOMAIN f
        PROVE  /\ f[i] \in FreedRange /\ Proper(f[i], top) /\ End(f[i]) < top
               /\ Apart(f[i], r)
               /\ i # k => Apart(f[i], u) /\ End(f[i]) # u.begin /\ End(u) # f[i].begin
    <3>1. f[i] \in FreedRange /\ Proper(f[i], top) /\ End(f[i]) < top /\ Apart(f[i], r)
      BY <2>2 DEF Releasing
    <3>2. i # k => End(f[i]) < u.begin \/ End(u) < f[i].begin
      BY <2>2, <2>3 DEF Separate
    <3> QED BY <3>1, <3>2, <2>4 DEF FreedRange, End, Apart
  <2>9. Releasing(g, q, top)
    <3>1. ASSUME NEW j \in DOMAIN g
          PROVE  Proper(g[j], top) /\ End(g[j]) < top /\ Apart(g[j], q)
      <4>1. PICK i \in DOMAIN f : i # k /\ g[j] = f[i]
        BY <2>6
      <4> QED BY <4>1, <2>7, <2>8
    <3> QED BY <2>5, <2>7, <3>1 DEF Releasing
  <2>10. ASSUME NEW x \in Int
         PROVE  Entry(g, q, x) <=> Entry(f, r, x)
    BY <2>3, <2>6, <2>7 DEF Entry
  <2>11. ASSUME NEW t \in FreedRange, Proper(t, top), Clear(f, r, t)
         PROVE  Clear(g, q, t)
    BY <2>3, <2>6, <2>7, <2>11 DEF Clear
  <2>12. CASE End(u) = r.begin /\ q.begin = u.begin /\ End(q) = End(r)
    <3>1. ~NoneOnTheLeft(f, r)
      BY <2>3, <2>12 DEF NoneOnTheLeft
    <3>2. NoneOnTheLeft(g, q)
      <4> SUFFICES ASSUME NEW j \in DOMAIN g PROVE End(g[j]) # q.begin
        BY DEF NoneOnTheLeft
      <4>1. PICK i \in DOMAIN f : i # k /\ g[j] = f[i]
        BY <2>6
      <4> QED BY <4>1, <2>8, <2>12
    <3>3. NoneOnTheRight(f, r) => NoneOnTheRight(g, q)
      BY <2>6, <2>12 DEF NoneOnTheRight
    <3> QED BY <2>1, <2>9, <2>10, <2>11, <3>1, <3>2, <3>3
  <2>13. CASE End(r) = u.begin /\ q.begin = r.begin /\ End(q) = End(u)
    <3>1. ~NoneOnTheRight(f, r)
      BY <2>3, <2>13 DEF NoneOnTheRight
    <3>2. NoneOnTheRight(g, q)
      <4> SUFFICES ASSUME NEW j \in DOMAIN g PROVE End(q) # g[j].begin
        BY DEF NoneOnTheRight
      <4>1. PICK i \in DOMAIN f : i # k /\ g[j] = f[i]
        BY <2>6
      <4> QED BY <4>1, <2>8, <2>13
    <3>3. NoneOnTheLeft(f, r) => NoneOnTheLeft(g, q)
      BY <2>6, <2>13 DEF NoneOnTheLeft
    <3> QED BY <2>1, <2>9, <2>10, <2>11, <3>1, <3>2, <3>3
  <2> QED BY <2>7, <2>12, <2>13
<1> QED BY <1>1, <1>2
\* All of release() but its last lines: two levels leave nothing that touches.
LEMMA CoalescedProperties ==
  ASSUME NEW top \in Nat, NEW f, NEW r, Releasing(f, r, top),
         NEW s, s = Coalesced(f, r)
  PROVE  /\ Releasing(s.freed, s.range, top)
         /\ \A x \in Int : Entry(s.freed, s.range, x) <=> Entry(f, r, x)
         /\ \A t \in FreedRange :
              Proper(t, top) /\ Clear(f, r, t) => Clear(s.freed, s.range, t)
         /\ NoneOnTheLeft(s.freed, s.range)
         /\ NoneOnTheRight(s.freed, s.range)
         /\ Touching(s.freed, s.range) = {}
<1> DEFINE m == Coalesce([freed |-> f, range |-> r])
<1>1. /\ m = [freed |-> m.freed, range |-> m.range]
      /\ Releasing(m.freed, m.range, top)
      /\ \A x \in Int : Entry(m.freed, m.range, x) <=> Entry(f, r, x)
      /\ \A t \in FreedRange :
           Proper(t, top) /\ Clear(f, r, t) => Clear(m.freed, m.range, t)
      /\ NoneOnTheLeft(f, r) => NoneOnTheLeft(m.freed, m.range)
      /\ NoneOnTheRight(f, r) => NoneOnTheRight(m.freed, m.range)
      /\ \/ NoneOnTheLeft(f, r) /\ NoneOnTheRight(f, r)
         \/ ~NoneOnTheLeft(f, r) /\ NoneOnTheLeft(m.freed, m.range)
         \/ ~NoneOnTheRight(f, r) /\ NoneOnTheRight(m.freed, m.range)
  BY CoalesceLevel
<1>2. s = Coalesce(m)
  BY DEF Coalesced
<1> HIDE DEF m
<1>3. s = Coalesce([freed |-> m.freed, range |-> m.range])
  BY <1>1, <1>2
<1>4. /\ Releasing(s.freed, s.range, top)
      /\ \A x \in Int : Entry(s.freed, s.range, x) <=> Entry(m.freed, m.range, x)
      /\ \A t \in FreedRange :
           Proper(t, top) /\ Clear(m.freed, m.range, t) => Clear(s.freed, s.range, t)
      /\ NoneOnTheLeft(m.freed, m.range) => NoneOnTheLeft(s.freed, s.range)
      /\ NoneOnTheRight(m.freed, m.range) => NoneOnTheRight(s.freed, s.range)
      /\ \/ NoneOnTheLeft(m.freed, m.range) /\ NoneOnTheRight(m.freed, m.range)
         \/ ~NoneOnTheLeft(m.freed, m.range) /\ NoneOnTheLeft(s.freed, s.range)
         \/ ~NoneOnTheRight(m.freed, m.range) /\ NoneOnTheRight(s.freed, s.range)
  BY <1>1, <1>3, CoalesceLevel
<1>5. NoneOnTheLeft(s.freed, s.range) /\ NoneOnTheRight(s.freed, s.range)
  BY <1>1, <1>4
<1>6. Touching(s.freed, s.range) = {}
  BY <1>5 DEF Touching, Touches, NoneOnTheLeft, NoneOnTheRight
<1> QED BY <1>1, <1>4, <1>5, <1>6

\* The last lines of release(), when the range ends where the table does: the
\* table shrinks and everything else still fits.
LEMMA ShrinkProperties ==
  ASSUME NEW top \in Nat, NEW f, NEW r, Releasing(f, r, top),
         NoneOnTheLeft(f, r), End(r) = top
  PROVE  /\ top - r.size \in Nat
         /\ \A i \in DOMAIN f : Proper(f[i], top - r.size) /\ End(f[i]) < top - r.size
         /\ \A t \in FreedRange :
              Proper(t, top) /\ Clear(f, r, t) => Proper(t, top - r.size)
         /\ \A x \in 0 .. top - r.size - 1 : Entry(f, r, x) =>
              \E i \in DOMAIN f : x \in SlotsOf(f[i])
<1>0. ASSUME NEW i \in DOMAIN f
      PROVE  /\ f[i] \in FreedRange /\ Proper(f[i], top) /\ End(f[i]) < top
             /\ Apart(f[i], r) /\ End(f[i]) # r.begin
  BY DEF Releasing, NoneOnTheLeft
<1> USE DEF FreedRange, End, Span, NoEntries, SlotsOf, Proper, Apart
<1>1. r \in FreedRange /\ r.size > 0 /\ top - r.size = r.begin /\ r.begin \in Nat
  BY DEF Releasing
<1>2. ASSUME NEW i \in DOMAIN f
      PROVE  Proper(f[i], r.begin) /\ End(f[i]) < r.begin
  BY <1>0, <1>1
<1>3. ASSUME NEW t \in FreedRange, Proper(t, top), Clear(f, r, t)
      PROVE  Proper(t, r.begin)
  BY <1>1, <1>3 DEF Clear
<1>4. ASSUME NEW x \in 0 .. r.begin - 1, Entry(f, r, x)
      PROVE  \E i \in DOMAIN f : x \in SlotsOf(f[i])
  <2>1. x \notin SlotsOf(r)
    BY <1>1
  <2> QED BY <2>1, <1>4 DEF Entry
<1> QED BY <1>1, <1>2, <1>3, <1>4

\* The last line of release(): the range joins the freed ones.
LEMMA AppendRangeProperties ==
  ASSUME NEW top \in Nat, NEW f, NEW r, Releasing(f, r, top),
         NoneOnTheLeft(f, r), NoneOnTheRight(f, r), End(r) # top
  PROVE  /\ Append(f, r) \in Seq(FreedRange)
         /\ Separate(Append(f, r))
         /\ \A i \in DOMAIN Append(f, r) :
              Proper(Append(f, r)[i], top) /\ End(Append(f, r)[i]) < top
         /\ \A t : Clear(f, r, t) => \A i \in DOMAIN Append(f, r) : Apart(t, Append(f, r)[i])
         /\ \A x : Entry(f, r, x) => \E i \in DOMAIN Append(f, r) : x \in SlotsOf(Append(f, r)[i])
<1> DEFINE h == Append(f, r)
<1>1. f \in Seq(FreedRange) /\ r \in FreedRange /\ Proper(r, top) /\ Separate(f)
  BY DEF Releasing
<1>2. /\ h \in Seq(FreedRange)
      /\ DOMAIN h = 1 .. Len(f) + 1 /\ DOMAIN f = 1 .. Len(f)
      /\ \A i \in DOMAIN f : h[i] = f[i]
      /\ h[Len(f) + 1] = r
  BY <1>1, AppendProperties
<1> HIDE DEF h
<1>3. \A i \in DOMAIN h : i \in DOMAIN f \/ i = Len(f) + 1
  BY <1>2
<1>4. Len(f) + 1 \in DOMAIN h /\ \A i \in DOMAIN f : i \in DOMAIN h
  BY <1>1, <1>2
<1>5. End(r) < top
  BY <1>1 DEF Proper, End, NoEntries, Span, FreedRange
<1>6. ASSUME NEW i \in DOMAIN f
      PROVE  /\ Proper(f[i], top) /\ End(f[i]) < top
             /\ End(f[i]) < r.begin \/ End(r) < f[i].begin
  <2>1. /\ f[i] \in FreedRange /\ Proper(f[i], top) /\ End(f[i]) < top
        /\ Apart(f[i], r) /\ End(f[i]) # r.begin /\ End(r) # f[i].begin
    BY <1>1 DEF Releasing, NoneOnTheLeft, NoneOnTheRight
  <2>2. r \in FreedRange
    BY <1>1
  <2>3. End(f[i]) < r.begin \/ End(r) < f[i].begin
    BY <2>1, <2>2 DEF Apart, End, FreedRange
  <2> QED BY <2>1, <2>3
<1>7. Separate(h)
  BY <1>1, <1>2, <1>3, <1>6 DEF Separate
<1>8. ASSUME NEW i \in DOMAIN h
      PROVE  Proper(h[i], top) /\ End(h[i]) < top
  BY <1>1, <1>2, <1>3, <1>5, <1>6
<1>9. ASSUME NEW t, Clear(f, r, t), NEW i \in DOMAIN h
      PROVE  Apart(t, h[i])
  BY <1>2, <1>3, <1>9 DEF Clear
<1>10. ASSUME NEW x, Entry(f, r, x)
       PROVE  \E i \in DOMAIN h : x \in SlotsOf(h[i])
  BY <1>2, <1>4, <1>10 DEF Entry
<1> QED BY <1>2, <1>7, <1>8, <1>9, <1>10 DEF h

---------------------------------------------------------------------------
(* alloc().                                                                *)

\* What is left when n entries are taken from the front of freed range k.
LEMMA TakeFromProperties ==
  ASSUME NEW top \in Nat, NEW f \in Seq(FreedRange), Separate(f),
         \A i \in DOMAIN f : Proper(f[i], top) /\ End(f[i]) < top,
         NEW n \in Nat, n > 0, NEW k \in DOMAIN f, f[k].size >= n,
         NEW r, r = Span(f[k].begin, n)
  PROVE  /\ r \in FreedRange /\ Proper(r, top) /\ r.size > 0
         /\ TakeFrom(f, k, n) \in Seq(FreedRange)
         /\ Separate(TakeFrom(f, k, n))
         /\ \A i \in DOMAIN TakeFrom(f, k, n) :
              /\ Proper(TakeFrom(f, k, n)[i], top)
              /\ End(TakeFrom(f, k, n)[i]) < top
              /\ Apart(r, TakeFrom(f, k, n)[i])
         /\ \A t \in FreedRange : (\A i \in DOMAIN f : Apart(t, f[i])) =>
              /\ Apart(t, r)
              /\ \A i \in DOMAIN TakeFrom(f, k, n) : Apart(t, TakeFrom(f, k, n)[i])
         /\ \A i \in DOMAIN f : \A x \in SlotsOf(f[i]) :
              \/ x \in SlotsOf(r)
              \/ \E j \in DOMAIN TakeFrom(f, k, n) : x \in SlotsOf(TakeFrom(f, k, n)[j])
<1> DEFINE h == TakeFrom(f, k, n)
<1>0. f[k] \in FreedRange /\ k \in 1 .. Len(f) /\ DOMAIN f = 1 .. Len(f)
  OBVIOUS
<1>1. /\ f[k] \in FreedRange /\ Proper(f[k], top) /\ f[k].size > 0
      /\ k \in 1 .. Len(f) /\ DOMAIN f = 1 .. Len(f)
  BY <1>0 DEF FreedRange
<1>2. /\ r \in FreedRange /\ Proper(r, top) /\ r.size > 0
      /\ End(r) <= End(f[k]) /\ r.begin = f[k].begin /\ r.size = n
  BY <1>1 DEF FreedRange, Span, End, Proper, NoEntries
<1>3. ASSUME NEW i \in DOMAIN f, i # k
      PROVE  /\ f[i] \in FreedRange
             /\ End(f[i]) < f[k].begin \/ End(f[k]) < f[i].begin
             /\ Apart(r, f[i])
  <2>1. f[i] \in FreedRange /\ (End(f[i]) < f[k].begin \/ End(f[k]) < f[i].begin)
    BY <1>3 DEF Separate
  <2> QED BY <1>1, <1>2, <2>1 DEF FreedRange, End, Apart
<1>4. ASSUME NEW t \in FreedRange, \A i \in DOMAIN f : Apart(t, f[i])
      PROVE  Apart(t, r)
  BY <1>1, <1>2, <1>4 DEF FreedRange, End, Apart
<1>5. CASE f[k].size = n
  <2>1. h = RemoveAt(f, k)
    BY <1>5 DEF TakeFrom
  <2> HIDE DEF h
  <2>2. h \in Seq(FreedRange) /\ Separate(h)
    BY <1>1, <2>1, RemoveAtProperties, SeparateAfterRemove
  <2>3. /\ \A j \in DOMAIN h : \E i \in DOMAIN f : i # k /\ h[j] = f[i]
        /\ \A i \in DOMAIN f : i # k => \E j \in DOMAIN h : h[j] = f[i]
    BY <1>1, <2>1, RemoveAtElements
  <2>4. SlotsOf(f[k]) = SlotsOf(r)
    BY <1>1, <1>2, <1>5 DEF SlotsOf, End
  <2>5. ASSUME NEW j \in DOMAIN h
        PROVE  Proper(h[j], top) /\ End(h[j]) < top /\ Apart(r, h[j])
    BY <1>3, <2>3
  <2>6. ASSUME NEW t \in FreedRange, \A i \in DOMAIN f : Apart(t, f[i]), NEW j \in DOMAIN h
        PROVE  Apart(t, h[j])
    BY <2>3, <2>6
  <2>7. ASSUME NEW i \in DOMAIN f, NEW x \in SlotsOf(f[i])
        PROVE  x \in SlotsOf(r) \/ \E j \in DOMAIN h : x \in SlotsOf(h[j])
    BY <2>3, <2>4
  <2> QED BY <1>2, <1>4, <2>2, <2>5, <2>6, <2>7 DEF h
<1>6. CASE f[k].size # n
  <2> DEFINE left == Span(f[k].begin + n, f[k].size - n)
  <2>1. h = [f EXCEPT ![k] = left]
    BY <1>6 DEF TakeFrom
  <2>2. /\ left \in FreedRange /\ Proper(left, top) /\ End(left) = End(f[k])
        /\ left.begin = f[k].begin + n /\ left.size > 0
    BY <1>1, <1>6 DEF FreedRange, Span, End, Proper, NoEntries
  <2>3. /\ Apart(r, left)
        /\ \A x \in SlotsOf(f[k]) : x \in SlotsOf(r) \/ x \in SlotsOf(left)
    BY <1>1, <1>2, <2>2 DEF FreedRange, Span, End, Apart, SlotsOf
  <2> HIDE DEF h, left
  <2>4. /\ h \in Seq(FreedRange) /\ DOMAIN h = DOMAIN f
        /\ h[k] = left /\ \A i \in DOMAIN f : i # k => h[i] = f[i]
    BY <1>1, <2>1, <2>2, ExceptSeq
  <2>5. ASSUME NEW i \in DOMAIN f, i # k
        PROVE  End(f[i]) < left.begin \/ End(left) < f[i].begin
    BY <1>1, <1>3, <2>2, <2>5 DEF FreedRange, End
  <2>6. Separate(h)
    BY <2>4, <2>5 DEF Separate
  <2>7. ASSUME NEW j \in DOMAIN h
        PROVE  Proper(h[j], top) /\ End(h[j]) < top /\ Apart(r, h[j])
    BY <1>3, <2>2, <2>3, <2>4
  <2>8. ASSUME NEW t \in FreedRange, \A i \in DOMAIN f : Apart(t, f[i]), NEW j \in DOMAIN h
        PROVE  Apart(t, h[j])
    <3>1. Apart(t, left)
      BY <1>1, <2>2, <2>8 DEF FreedRange, End, Apart
    <3> QED BY <2>4, <2>8, <3>1
  <2>9. ASSUME NEW i \in DOMAIN f, NEW x \in SlotsOf(f[i])
        PROVE  x \in SlotsOf(r) \/ \E j \in DOMAIN h : x \in SlotsOf(h[j])
    BY <2>3, <2>4
  <2> QED BY <1>2, <1>4, <2>4, <2>6, <2>7, <2>8, <2>9 DEF h
<1> QED BY <1>5, <1>6
---------------------------------------------------------------------------
(* The invariant.                                                          *)

LEMMA InitPartition == Init => Partition
<1> SUFFICES ASSUME Init PROVE Partition
  OBVIOUS
<1>1. freedRanges \in Seq(FreedRange) /\ DOMAIN freedRanges = {}
  BY EmptySeq DEF Init
<1>2. NoEntries \in FreedRange
  BY DEF NoEntries, Span, FreedRange
<1>3. \A a \in Accels : sbtEntries[a] = NoEntries
  BY DEF Init
<1>4. TypeOK
  BY <1>1, <1>2 DEF Init, TypeOK
<1>5. LiveRangesDisjoint
  BY <1>3 DEF LiveRangesDisjoint, Apart, End, NoEntries, Span
<1>6. NoEntryLost
  BY DEF Init, NoEntryLost
<1>7. FreedRangesAreUnused /\ FreedRangesMaximal /\ RangesInTable
  BY <1>1, <1>3 DEF FreedRangesAreUnused, FreedRangesMaximal, RangesInTable, Proper
<1> QED BY <1>4, <1>5, <1>6, <1>7 DEF Partition

\* The separation part of FreedRangesMaximal, as the lemmas above use it.
LEMMA PartitionSeparates ==
  ASSUME Partition
  PROVE  /\ freedRanges \in Seq(FreedRange)
         /\ Separate(freedRanges)
         /\ \A i \in DOMAIN freedRanges :
              Proper(freedRanges[i], maxAllocedID) /\ End(freedRanges[i]) < maxAllocedID
BY DEF Partition, TypeOK, FreedRangesMaximal, RangesInTable, Separate

LEMMA ConstructEmptyPartition ==
  ASSUME Partition, NEW a \in Accels, ConstructEmpty(a)
  PROVE  Partition'
<1>1. sbtEntries[a] = NoEntries
  BY DEF Partition, RangesInTable, ConstructEmpty
<1>2. /\ sbtEntries' = sbtEntries /\ live' = live \cup {a}
      /\ freedRanges' = freedRanges /\ maxAllocedID' = maxAllocedID
  BY <1>1 DEF ConstructEmpty, Hold, Partition, TypeOK
<1>3. TypeOK' /\ RangesInTable'
  BY <1>2 DEF Partition, TypeOK, RangesInTable
<1>4. LiveRangesDisjoint' /\ FreedRangesAreUnused' /\ FreedRangesMaximal'
  BY <1>2 DEF Partition, LiveRangesDisjoint, FreedRangesAreUnused, FreedRangesMaximal
<1>5. NoEntryLost'
  BY <1>2 DEF Partition, NoEntryLost
<1> QED BY <1>3, <1>4, <1>5 DEF Partition

LEMMA ConstructReusingPartition ==
  ASSUME Partition, NEW a \in Accels, NEW n \in Nat, n > 0, ConstructReusing(a, n)
  PROVE  Partition'
<1> DEFINE k == FirstFit(freedRanges, n)
           r == Span(freedRanges[k].begin, n)
           h == TakeFrom(freedRanges, k, n)
<1>1. /\ a \notin live /\ Fitting(freedRanges, n) # {}
      /\ freedRanges' = h /\ maxAllocedID' = maxAllocedID
      /\ live' = live \cup {a} /\ sbtEntries' = [sbtEntries EXCEPT ![a] = r]
  BY DEF ConstructReusing, Hold
<1>2. n \in Nat /\ n > 0
  OBVIOUS
<1>3. TypeOK /\ maxAllocedID \in Nat
  BY DEF Partition, TypeOK
<1>4. k \in DOMAIN freedRanges /\ freedRanges[k].size >= n
  BY <1>1, <1>2, PartitionSeparates, FirstFitFits
<1> HIDE DEF k
<1>5. /\ r \in FreedRange /\ Proper(r, maxAllocedID) /\ r.size > 0
      /\ h \in Seq(FreedRange)
      /\ Separate(h)
      /\ \A i \in DOMAIN h :
           Proper(h[i], maxAllocedID) /\ End(h[i]) < maxAllocedID /\ Apart(r, h[i])
      /\ \A t \in FreedRange : (\A i \in DOMAIN freedRanges : Apart(t, freedRanges[i])) =>
           Apart(t, r) /\ \A i \in DOMAIN h : Apart(t, h[i])
      /\ \A i \in DOMAIN freedRanges : \A x \in SlotsOf(freedRanges[i]) :
           x \in SlotsOf(r) \/ \E j \in DOMAIN h : x \in SlotsOf(h[j])
  BY <1>2, <1>3, <1>4, PartitionSeparates, TakeFromProperties
<1> HIDE DEF r, h
<1>6. /\ sbtEntries'[a] = r
      /\ \A b \in Accels : b # a => sbtEntries'[b] = sbtEntries[b]
      /\ \A b \in Accels : sbtEntries[b] \in FreedRange
  BY <1>1, <1>3 DEF TypeOK
<1>7. ASSUME NEW b \in Accels, b # a
      PROVE  Apart(sbtEntries[b], r) /\ \A i \in DOMAIN h : Apart(sbtEntries[b], h[i])
  BY <1>5, <1>6 DEF Partition, FreedRangesAreUnused
<1>8. TypeOK'
  BY <1>1, <1>3, <1>5 DEF TypeOK
<1>9. LiveRangesDisjoint'
  BY <1>6, <1>7 DEF Partition, LiveRangesDisjoint, Apart
<1>10. FreedRangesAreUnused'
  BY <1>1, <1>5, <1>6, <1>7 DEF FreedRangesAreUnused
<1>11. FreedRangesMaximal'
  BY <1>1, <1>5 DEF FreedRangesMaximal, Separate
<1>12. NoEntryLost'
  <2> SUFFICES ASSUME NEW x \in 0 .. maxAllocedID - 1
               PROVE  \/ \E b \in live' : x \in SlotsOf(sbtEntries'[b])
                      \/ \E i \in DOMAIN h : x \in SlotsOf(h[i])
    BY <1>1 DEF NoEntryLost
  <2>1. CASE \E b \in live : x \in SlotsOf(sbtEntries[b])
    BY <2>1, <1>1, <1>3, <1>6 DEF TypeOK
  <2>2. CASE \E i \in DOMAIN freedRanges : x \in SlotsOf(freedRanges[i])
    BY <2>2, <1>1, <1>5, <1>6
  <2> QED BY <2>1, <2>2 DEF Partition, NoEntryLost
<1>13. RangesInTable'
  BY <1>1, <1>5, <1>6 DEF Partition, RangesInTable
<1> QED BY <1>8, <1>9, <1>10, <1>11, <1>12, <1>13 DEF Partition

LEMMA ConstructAtTopPartition ==
  ASSUME Partition, NEW a \in Accels, NEW n \in Nat, n > 0, ConstructAtTop(a, n)
  PROVE  Partition'
<1> DEFINE r == Span(maxAllocedID, n)
           top == maxAllocedID + n
<1>1. /\ a \notin live
      /\ freedRanges' = freedRanges /\ maxAllocedID' = top
      /\ live' = live \cup {a} /\ sbtEntries' = [sbtEntries EXCEPT ![a] = r]
  BY DEF ConstructAtTop, Hold
<1>2. n \in Nat /\ n > 0 /\ maxAllocedID \in Nat /\ TypeOK
  BY DEF Partition, TypeOK
<1>3. /\ r \in FreedRange /\ r.begin = maxAllocedID /\ r.size = n /\ End(r) = top
      /\ SlotsOf(r) = maxAllocedID .. top - 1
      /\ Proper(r, top)
  BY <1>2 DEF FreedRange, Span, End, SlotsOf, Proper
<1>4. /\ sbtEntries'[a] = r
      /\ \A b \in Accels : b # a => sbtEntries'[b] = sbtEntries[b]
      /\ \A b \in Accels : sbtEntries[b] \in FreedRange
  BY <1>1, <1>2 DEF TypeOK
<1>5. ASSUME NEW t \in FreedRange, Proper(t, maxAllocedID)
      PROVE  Proper(t, top) /\ Apart(t, r)
  BY <1>2, <1>3, <1>5 DEF FreedRange, Proper, Apart, End, NoEntries, Span
<1>6. ASSUME NEW i \in DOMAIN freedRanges
      PROVE  /\ freedRanges[i] \in FreedRange
             /\ Proper(freedRanges[i], maxAllocedID)
             /\ End(freedRanges[i]) < maxAllocedID
  BY PartitionSeparates
<1>7. ASSUME NEW i \in DOMAIN freedRanges
      PROVE  /\ Proper(freedRanges[i], top) /\ Apart(r, freedRanges[i])
             /\ End(freedRanges[i]) < top
  <2>1. Proper(freedRanges[i], top) /\ Apart(freedRanges[i], r)
    BY <1>5, <1>6
  <2>2. End(freedRanges[i]) < top
    BY <1>2, <1>6 DEF FreedRange, End
  <2> QED BY <2>1, <2>2 DEF Apart
<1>8. TypeOK'
  BY <1>1, <1>2, <1>3 DEF TypeOK
<1>9. ASSUME NEW b \in Accels, b # a
      PROVE  Apart(sbtEntries[b], r) /\ Proper(sbtEntries[b], top)
  BY <1>4, <1>5 DEF Partition, RangesInTable
<1> HIDE DEF r
<1>10. LiveRangesDisjoint'
  BY <1>4, <1>9 DEF Partition, LiveRangesDisjoint, Apart
<1>11. FreedRangesAreUnused'
  BY <1>1, <1>4, <1>7 DEF Partition, FreedRangesAreUnused
<1>12. FreedRangesMaximal'
  BY <1>1, <1>7 DEF Partition, FreedRangesMaximal
<1>13. NoEntryLost'
  <2> SUFFICES ASSUME NEW x \in 0 .. top - 1
               PROVE  \/ \E b \in live' : x \in SlotsOf(sbtEntries'[b])
                      \/ \E i \in DOMAIN freedRanges : x \in SlotsOf(freedRanges[i])
    BY <1>1 DEF NoEntryLost
  <2>1. CASE x \in 0 .. maxAllocedID - 1
    <3>1. CASE \E b \in live : x \in SlotsOf(sbtEntries[b])
      BY <3>1, <1>1, <1>2, <1>4 DEF TypeOK
    <3> QED BY <2>1, <3>1 DEF Partition, NoEntryLost
  <2>2. CASE x \in SlotsOf(r)
    BY <2>2, <1>1, <1>4
  <2>3. x \in 0 .. maxAllocedID - 1 \/ x \in SlotsOf(r)
    BY <1>2, <1>3
  <2> QED BY <2>1, <2>2, <2>3
<1>14. RangesInTable'
  BY <1>1, <1>3, <1>4, <1>7, <1>9 DEF Partition, RangesInTable
<1> QED BY <1>8, <1>10, <1>11, <1>12, <1>13, <1>14 DEF Partition

LEMMA DestroyPartition ==
  ASSUME Partition, NEW a \in Accels, Destroy(a)
  PROVE  Partition'
<1> DEFINE r == sbtEntries[a]
           top == maxAllocedID
           s == Coalesced(freedRanges, r)
           f == s.freed
           q == s.range
<1>1. /\ Deposit(s) /\ live' = live \ {a}
      /\ sbtEntries' = [sbtEntries EXCEPT ![a] = NoEntries]
  BY DEF Destroy, GiveBack
<1>2. TypeOK /\ top \in Nat
  BY DEF Partition, TypeOK
<1>3. /\ sbtEntries'[a] = NoEntries
      /\ \A b \in Accels : b # a => sbtEntries'[b] = sbtEntries[b]
      /\ \A b \in Accels : sbtEntries[b] \in FreedRange /\ Proper(sbtEntries[b], top)
      /\ \A b \in Accels \ live : sbtEntries[b] = NoEntries
  BY <1>1, <1>2 DEF TypeOK, Partition, RangesInTable
<1>4. Releasing(freedRanges, r, top)
  BY <1>3, PartitionSeparates DEF Releasing, Partition, FreedRangesAreUnused, Apart
<1>5. ASSUME NEW b \in Accels, b # a
      PROVE  Clear(freedRanges, r, sbtEntries[b])
  BY <1>5 DEF Partition, FreedRangesAreUnused, LiveRangesDisjoint, Clear
<1>6. \A x \in 0 .. top - 1 :
        Entry(freedRanges, r, x) \/ \E b \in live' : x \in SlotsOf(sbtEntries'[b])
  <2> SUFFICES ASSUME NEW x \in 0 .. top - 1, ~Entry(freedRanges, r, x)
               PROVE  \E b \in live' : x \in SlotsOf(sbtEntries'[b])
    OBVIOUS
  <2>1. PICK b \in live : x \in SlotsOf(sbtEntries[b])
    BY DEF Partition, NoEntryLost, Entry
  <2>2. b # a
    BY <2>1 DEF Entry
  <2> QED BY <2>1, <2>2, <1>1, <1>2, <1>3 DEF TypeOK
<1>7. /\ Releasing(f, q, top)
      /\ \A x \in Int : Entry(f, q, x) <=> Entry(freedRanges, r, x)
      /\ \A t \in FreedRange : Proper(t, top) /\ Clear(freedRanges, r, t) => Clear(f, q, t)
      /\ NoneOnTheLeft(f, q)
      /\ NoneOnTheRight(f, q)
  BY <1>2, <1>4, CoalescedProperties
<1> HIDE DEF s
<1>8. \A b \in Accels : b # a => Clear(f, q, sbtEntries[b])
  BY <1>3, <1>5, <1>7
<1>9. /\ freedRanges' \in Seq(FreedRange)
      /\ maxAllocedID' \in Nat
      /\ Separate(freedRanges')
      /\ \A i \in DOMAIN freedRanges' :
           Proper(freedRanges'[i], maxAllocedID') /\ End(freedRanges'[i]) < maxAllocedID'
      /\ \A b \in Accels : b # a =>
           /\ Proper(sbtEntries[b], maxAllocedID')
           /\ \A i \in DOMAIN freedRanges' : Apart(sbtEntries[b], freedRanges'[i])
      /\ \A x \in 0 .. maxAllocedID' - 1 : Entry(f, q, x) =>
           \E i \in DOMAIN freedRanges' : x \in SlotsOf(freedRanges'[i])
      /\ maxAllocedID' <= top
  <2>1. CASE End(q) = top
    <3>1. freedRanges' = f /\ maxAllocedID' = top - q.size
      BY <2>1, <1>1 DEF Deposit
    <3>2. /\ top - q.size \in Nat
          /\ \A i \in DOMAIN f : Proper(f[i], top - q.size) /\ End(f[i]) < top - q.size
          /\ \A t \in FreedRange : Proper(t, top) /\ Clear(f, q, t) => Proper(t, top - q.size)
          /\ \A x \in 0 .. top - q.size - 1 : Entry(f, q, x) =>
               \E i \in DOMAIN f : x \in SlotsOf(f[i])
      BY <2>1, <1>2, <1>7, ShrinkProperties
    <3>3. f \in Seq(FreedRange) /\ Separate(f) /\ q.size \in Nat
      BY <1>7 DEF Releasing, FreedRange
    <3>4. top - q.size <= top
      BY <1>2, <3>3
    <3>5. \A b \in Accels : b # a =>
            /\ Proper(sbtEntries[b], top - q.size)
            /\ \A i \in DOMAIN f : Apart(sbtEntries[b], f[i])
      BY <1>3, <1>8, <3>2 DEF Clear
    <3> QED BY <3>1, <3>2, <3>3, <3>4, <3>5
  <2>2. CASE End(q) # top
    <3>1. freedRanges' = Append(f, q) /\ maxAllocedID' = top
      BY <2>2, <1>1 DEF Deposit
    <3>2. /\ Append(f, q) \in Seq(FreedRange)
          /\ Separate(Append(f, q))
          /\ \A i \in DOMAIN Append(f, q) :
               Proper(Append(f, q)[i], top) /\ End(Append(f, q)[i]) < top
          /\ \A t : Clear(f, q, t) => \A i \in DOMAIN Append(f, q) : Apart(t, Append(f, q)[i])
          /\ \A x : Entry(f, q, x) =>
               \E i \in DOMAIN Append(f, q) : x \in SlotsOf(Append(f, q)[i])
      BY <2>2, <1>2, <1>7, AppendRangeProperties
    <3> QED BY <3>1, <3>2, <1>2, <1>3, <1>8
  <2> QED BY <2>1, <2>2
<1> HIDE DEF r, f, q
<1>10. TypeOK'
  <2>1. NoEntries \in FreedRange
    BY DEF NoEntries, Span, FreedRange
  <2> QED BY <2>1, <1>1, <1>2, <1>9 DEF TypeOK
<1>11. LiveRangesDisjoint'
  <2>1. ASSUME NEW b \in Accels
        PROVE  Apart(NoEntries, sbtEntries[b]) /\ Apart(sbtEntries[b], NoEntries)
    BY <1>2, <1>3 DEF Apart, Proper, NoEntries, Span, End, FreedRange
  <2> QED BY <2>1, <1>3 DEF Partition, LiveRangesDisjoint
<1>12. FreedRangesAreUnused'
  <2>1. ASSUME NEW i \in DOMAIN freedRanges'
        PROVE  Apart(NoEntries, freedRanges'[i])
    <3>1. freedRanges'[i] \in FreedRange /\ Proper(freedRanges'[i], maxAllocedID')
      BY <1>9
    <3> QED BY <3>1, <1>9 DEF Apart, Proper, NoEntries, Span, End, FreedRange
  <2> QED BY <2>1, <1>3, <1>9 DEF FreedRangesAreUnused
<1>13. FreedRangesMaximal'
  BY <1>9 DEF FreedRangesMaximal, Separate
<1>14. NoEntryLost'
  <2> SUFFICES ASSUME NEW x \in 0 .. maxAllocedID' - 1
               PROVE  \/ \E b \in live' : x \in SlotsOf(sbtEntries'[b])
                      \/ \E i \in DOMAIN freedRanges' : x \in SlotsOf(freedRanges'[i])
    BY DEF NoEntryLost
  <2>1. x \in 0 .. top - 1 /\ x \in Int
    <3>1. maxAllocedID' \in Nat /\ maxAllocedID' <= top /\ top \in Nat
      BY <1>2, <1>9
    <3>2. \A m, n \in Nat : m <= n => \A y \in 0 .. m - 1 : y \in 0 .. n - 1 /\ y \in Int
      OBVIOUS
    <3> QED BY <3>1, <3>2
  <2>2. CASE Entry(freedRanges, r, x)
    BY <2>1, <2>2, <1>7, <1>9
  <2> QED BY <2>1, <2>2, <1>6
<1>15. RangesInTable'
  BY <1>1, <1>3, <1>9 DEF RangesInTable, Proper
<1> QED BY <1>10, <1>11, <1>12, <1>13, <1>14, <1>15 DEF Partition

\* The held ranges and the freed ranges partition the SBT in every reachable
\* state: no entry has two owners, none is lost, freed ranges are coalesced.
THEOREM PartitionInvariant == Spec => []Partition
<1>1. Init => Partition
  BY InitPartition
<1>2. Partition /\ [Next]_vars => Partition'
  <2> SUFFICES ASSUME Partition, [Next]_vars PROVE Partition'
    OBVIOUS
  <2>1. ASSUME NEW a \in Accels, ConstructEmpty(a) PROVE Partition'
    BY <2>1, ConstructEmptyPartition
  <2>2. ASSUME NEW a \in Accels, NEW n \in 1 .. MaxEntries, ConstructReusing(a, n)
        PROVE  Partition'
    <3>1. n \in Nat /\ n > 0 BY MaxEntriesAssumption
    <3> QED BY <2>2, <3>1, ConstructReusingPartition
  <2>3. ASSUME NEW a \in Accels, NEW n \in 1 .. MaxEntries, ConstructAtTop(a, n)
        PROVE  Partition'
    <3>1. n \in Nat /\ n > 0 BY MaxEntriesAssumption
    <3> QED BY <2>3, <3>1, ConstructAtTopPartition
  <2>4. ASSUME NEW a \in Accels, Destroy(a) PROVE Partition'
    BY <2>4, DestroyPartition
  <2>5. CASE UNCHANGED vars
    BY <2>5 DEF vars, Partition, TypeOK, LiveRangesDisjoint, FreedRangesAreUnused,
                FreedRangesMaximal, NoEntryLost, RangesInTable
  <2> QED BY <2>1, <2>2, <2>3, <2>4, <2>5 DEF Next
<1> QED BY <1>1, <1>2, PTL DEF Spec
\* No two accels ever own a common SBT entry.
THEOREM LiveRangesNeverOverlap == Spec => []LiveRangesDisjoint
BY PartitionInvariant, PTL DEF Partition

\* When the last accel with entries has died, in whatever order they died,
\* the table has shrunk back to nothing.
THEOREM TableShrinks == Spec => []TableShrinksToNothing
<1>1. Partition => TableShrinksToNothing
  <2> SUFFICES ASSUME Partition, \A a \in live : sbtEntries[a].size = 0, maxAllocedID # 0
               PROVE  FALSE
    BY DEF TableShrinksToNothing
  <2>1. maxAllocedID \in Nat /\ live \subseteq Accels
    BY DEF Partition, TypeOK
  <2>2. maxAllocedID - 1 \in 0 .. maxAllocedID - 1
    BY <2>1
  <2>3. ASSUME NEW a \in live PROVE maxAllocedID - 1 \notin SlotsOf(sbtEntries[a])
    <3>1. sbtEntries[a] \in FreedRange /\ sbtEntries[a].size = 0
      BY <2>1 DEF Partition, TypeOK
    <3> QED BY <3>1, <2>1 DEF SlotsOf, End, FreedRange
  <2>4. PICK i \in DOMAIN freedRanges : maxAllocedID - 1 \in SlotsOf(freedRanges[i])
    BY <2>2, <2>3 DEF Partition, NoEntryLost
  <2>5. freedRanges[i] \in FreedRange /\ End(freedRanges[i]) < maxAllocedID
    BY PartitionSeparates
  <2> QED BY <2>1, <2>4, <2>5 DEF SlotsOf, End, FreedRange
<1> QED BY <1>1, PartitionInvariant, PTL

\* Two levels of recursion are all release() ever does.
THEOREM ReleaseIsShallow == Spec => []CoalesceIsDone
<1>1. Partition => CoalesceIsDone
  <2> SUFFICES ASSUME Partition, NEW a \in live
               PROVE  LET s == Coalesced(freedRanges, sbtEntries[a])
                      IN Touching(s.freed, s.range) = {}
    BY DEF CoalesceIsDone
  <2>1. maxAllocedID \in Nat /\ a \in Accels
    BY DEF Partition, TypeOK
  <2>2. Releasing(freedRanges, sbtEntries[a], maxAllocedID)
    BY <2>1, PartitionSeparates
    DEF Releasing, Partition, FreedRangesAreUnused, Apart, TypeOK, RangesInTable
  <2> QED BY <2>1, <2>2, CoalescedProperties
<1> QED BY <1>1, PartitionInvariant, PTL

---------------------------------------------------------------------------
(* Refinement.                                                             *)

\* The slots of a proper range form a contiguous set of naturals.
LEMMA ProperSlots ==
  ASSUME NEW top \in Nat, NEW r \in FreedRange, Proper(r, top)
  PROVE  SlotsOf(r) \subseteq Nat /\ Slots!Contiguous(SlotsOf(r))
BY DEF SlotsOf, End, Proper, NoEntries, Span, FreedRange, Slots!Contiguous

\* The allocator hands out exclusive, contiguous slots that stay where they
\* are until their accel dies.
THEOREM AllocatorImplementsSlots == Spec => SlotsSpec
<1> DEFINE slots == [a \in Accels |-> SlotsOf(sbtEntries[a])]
<1>1. Init => Slots!Init
  <2> SUFFICES ASSUME Init PROVE Slots!Init
    OBVIOUS
  <2>1. \A a \in Accels : sbtEntries[a] = NoEntries
    BY DEF Init
  <2>2. SlotsOf(NoEntries) = {}
    BY DEF SlotsOf, NoEntries, Span, End
  <2> QED BY <2>1, <2>2 DEF Slots!Init
<1>2. Partition /\ Partition' /\ [Next]_vars => [Slots!Next]_slots
  <2> SUFFICES ASSUME Partition, Partition', [Next]_vars
               PROVE  Slots!Next \/ slots' = slots
    OBVIOUS
  <2>0. SlotsOf(NoEntries) = {}
    BY DEF SlotsOf, NoEntries, Span, End
  <2>1. TypeOK /\ TypeOK' /\ RangesInTable /\ RangesInTable'
    BY DEF Partition
  <2>2. ASSUME NEW a \in Accels, NEW r \in FreedRange, a \notin live, Hold(a, r)
        PROVE  Slots!Next
    <3>1. sbtEntries[a] = NoEntries
      BY <2>1, <2>2 DEF RangesInTable
    <3>2. /\ sbtEntries'[a] = r
          /\ \A b \in Accels : b # a => sbtEntries'[b] = sbtEntries[b]
      BY <2>1, <2>2 DEF Hold, TypeOK
    <3>3. slots[a] = {}
      BY <3>1, <2>0
    <3>4. slots' = [slots EXCEPT ![a] = SlotsOf(r)] /\ slots'[a] = SlotsOf(r)
      BY <3>2
    <3>5. SlotsOf(r) \subseteq Nat /\ Slots!Contiguous(SlotsOf(r))
      BY <2>1, <3>2, ProperSlots DEF TypeOK, RangesInTable
    <3>6. ASSUME NEW b \in Accels \ {a} PROVE slots[b] \cap SlotsOf(r) = {}
      <4>1. Apart(sbtEntries[b], r) /\ sbtEntries[b] \in FreedRange
        BY <2>1, <3>2 DEF Partition, LiveRangesDisjoint, TypeOK
      <4> QED BY <4>1 DEF Apart, SlotsOf, End, FreedRange
    <3>7. Slots!Acquire(a)
      BY <3>3, <3>4, <3>5, <3>6 DEF Slots!Acquire
    <3> QED BY <3>7 DEF Slots!Next
  <2>3. ASSUME NEW a \in Accels, ConstructEmpty(a) PROVE Slots!Next
    <3>1. NoEntries \in FreedRange
      BY DEF NoEntries, Span, FreedRange
    <3> QED BY <2>2, <2>3, <3>1 DEF ConstructEmpty
  <2>4. ASSUME NEW a \in Accels, NEW n \in 1 .. MaxEntries, ConstructReusing(a, n)
        PROVE  Slots!Next
    <3> DEFINE r == Span(freedRanges[FirstFit(freedRanges, n)].begin, n)
    <3>1. Hold(a, r) /\ a \notin live
      BY <2>4 DEF ConstructReusing
    <3>2. r \in FreedRange
      BY <2>1, <3>1 DEF TypeOK, Hold
    <3> QED BY <2>2, <3>1, <3>2
  <2>5. ASSUME NEW a \in Accels, NEW n \in 1 .. MaxEntries, ConstructAtTop(a, n)
        PROVE  Slots!Next
    <3> DEFINE r == Span(maxAllocedID, n)
    <3>1. Hold(a, r) /\ a \notin live
      BY <2>5 DEF ConstructAtTop
    <3>2. r \in FreedRange
      BY <2>1, <3>1 DEF TypeOK, Hold
    <3> QED BY <2>2, <3>1, <3>2
  <2>6. ASSUME NEW a \in Accels, Destroy(a) PROVE Slots!Next
    <3>1. /\ sbtEntries'[a] = NoEntries
          /\ \A b \in Accels : b # a => sbtEntries'[b] = sbtEntries[b]
      BY <2>1, <2>6 DEF Destroy, GiveBack, TypeOK
    <3>2. slots' = [slots EXCEPT ![a] = {}]
      BY <3>1, <2>0
    <3> QED BY <3>2 DEF Slots!Next, Slots!GiveUp
  <2>7. CASE UNCHANGED vars
    BY <2>7 DEF vars
  <2> QED BY <2>3, <2>4, <2>5, <2>6, <2>7 DEF Next
<1> QED BY <1>1, <1>2, PartitionInvariant, PTL DEF Spec, SlotsSpec, Slots!Spec
===========================================================================
